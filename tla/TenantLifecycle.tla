---------------------------- MODULE TenantLifecycle ----------------------------
(***************************************************************************)
(* The life of a TenantCluster of one name                                 *)
(* (internal/syncer/tenantcluster_controller.go): finalizer, guest client, *)
(* passes, teardown, and the replacement that may be created under the     *)
(* same name.  Ownership labels carry that name and no UID, so which       *)
(* TenantCluster a host object belongs to is decided by order alone.       *)
(*                                                                         *)
(* Procs are controller processes.  Each works on one request at a time;   *)
(* there is no leader election, so a rolling update runs two for a while.  *)
(* What a pass does to the objects of a kind is EndpointSync's and         *)
(* StorageSync's subject: here the guest wants one of each kind, always,   *)
(* and kinds differ in one thing, whether the host may not have their API. *)
(***************************************************************************)
EXTENDS Naturals, FiniteSets

CONSTANTS
    Procs,          \* controller processes
    Namespaces,     \* values of spec.hostNamespace
    Keys,           \* values of spec.kubeconfigSecretRef.key
    MaxUID,         \* bound on TenantClusters created under the name
    MaxEdits,       \* bound on edits of the spec and of the Secret
    MaxFaults       \* bound on failed calls, waits for an unplug, and crashes

ASSUME LifecycleAssumption ==
    /\ Namespaces # {} /\ Keys # {}
    /\ {MaxUID, MaxEdits, MaxFaults} \subseteq Nat

(* Services, Ingresses and PVCs; Gateways and HTTPRoutes. *)
Kinds   == {"core", "gateway"}
Objects == Namespaces \X Kinds

VARIABLES
    tc,         \* the TenantCluster; life "absent" before, between and after
    secret,     \* the resourceVersion of the kubeconfig Secret
    host,       \* the UID each labelled host object was created for, 0 for none
    pc,         \* what each process does next
    mine,       \* the copy of the TenantCluster its pass has read
    fresh,      \* processes whose copy has the current resourceVersion
    held,       \* failed or ~storageDone, in a teardown
    skipped,    \* hostHasGatewayAPI answered no, in a teardown
    guests,     \* the client cache of each process, by UID: none or one
    using,      \* the client of its pass: none or one
    excused,    \* host objects no teardown answers for
    rekeyed,    \* UIDs whose kubeconfigSecretRef.key was edited
    overlap,    \* two processes had a TenantCluster under deletion in hand at once
    edits, faults

world == <<tc, secret, host, excused, rekeyed, overlap, edits>>
proc  == <<pc, mine, held, skipped, guests, using>>
vars  == <<world, proc, fresh, faults>>

UIDs    == 1..MaxUID
Clients == [rv : 0..MaxEdits, key : Keys]     \* the kubeconfig it was built from

NoneOrOne == {{}} \cup {{c} : c \in Clients}

Copies == [life : {"absent", "live", "deleting"}, uid : 0..MaxUID, fin : BOOLEAN,
           ns : Namespaces, key : Keys]
NoCopy == [life |-> "absent", uid |-> 0, fin |-> FALSE,
           ns |-> CHOOSE n \in Namespaces : TRUE, key |-> CHOOSE k \in Keys : TRUE]

PCs == {"idle", "finalize", "client",
        "syncCore", "syncGateways", "status", "tearCore", "tearGateways", "strip", "drop"}

TypeOK ==
    /\ tc \in Copies /\ mine \in [Procs -> Copies]
    /\ secret \in 0..MaxEdits /\ overlap \in BOOLEAN
    /\ host \in [Objects -> 0..MaxUID] /\ excused \subseteq Objects /\ rekeyed \subseteq UIDs
    /\ pc \in [Procs -> PCs]
    /\ fresh \subseteq Procs /\ held \subseteq Procs /\ skipped \subseteq Procs
    /\ guests \in [Procs -> [UIDs -> NoneOrOne]]
    /\ using \in [Procs -> NoneOrOne]
    /\ edits \in 0..MaxEdits /\ faults \in 0..MaxFaults

Init ==
    /\ tc = NoCopy
    /\ secret = 0
    /\ host = [o \in Objects |-> 0] /\ excused = {} /\ rekeyed = {} /\ overlap = FALSE
    /\ pc = [p \in Procs |-> "idle"] /\ mine = [p \in Procs |-> NoCopy]
    /\ fresh = {} /\ held = {} /\ skipped = {}
    /\ guests = [p \in Procs |-> [u \in UIDs |-> {}]]
    /\ using = [p \in Procs |-> {}]
    /\ edits = 0 /\ faults = 0

--------------------------------------------------------------------------------
Fault(failed) ==
    /\ failed => faults < MaxFaults
    /\ faults' = IF failed THEN faults + 1 ELSE faults

Goto(p, step) == pc' = [pc EXCEPT ![p] = step]

(* The end of a Reconcile: its copy and its client are garbage. *)
Return(p) ==
    /\ Goto(p, "idle")
    /\ mine' = [mine EXCEPT ![p] = NoCopy]
    /\ using' = [using EXCEPT ![p] = {}]
    /\ held' = held \ {p} /\ skipped' = skipped \ {p}

(* An Update of p's copy is refused unless it has the current resourceVersion; *)
(* one that is accepted makes every other copy stale.                          *)
Accepted(p) == p \in fresh /\ tc.life # "absent"

Others(p) == {q \in Procs \ {p} : pc[q] # "idle"}

(* Reconcile reads the TenantCluster uncached; a cache might still hold the    *)
(* one that this one replaced.                                                 *)
ReadCached(p) == {tc} \cup {t \in Copies : t = [tc EXCEPT !.life = "deleting", !.fin = TRUE,
                                                         !.uid = @ - 1]}
Read(p)       == {tc}

Begin(p) ==
    /\ pc[p] = "idle" /\ tc.life # "absent"
    /\ tc.life = "deleting" => tc.fin
    /\ \E t \in Read(p) :
          /\ mine' = [mine EXCEPT ![p] = t]
          /\ fresh' = IF t = tc THEN fresh \cup {p} ELSE fresh \ {p}
          /\ Goto(p, IF t.life = "deleting" THEN "tearCore"
                     ELSE IF t.fin THEN "client" ELSE "finalize")
    /\ overlap' = (overlap \/ (tc.life = "deleting" /\ Others(p) # {}))
    /\ UNCHANGED <<tc, secret, host, excused, rekeyed, edits, held, skipped, guests, using,
                   faults>>

(* The finalizer goes on before any host object exists. *)
AddFinalizer(p) ==
    /\ pc[p] = "finalize" /\ Accepted(p)
    /\ tc' = [tc EXCEPT !.fin = TRUE]
    /\ mine' = [mine EXCEPT ![p].fin = TRUE]
    /\ fresh' = {p}
    /\ Goto(p, "client")
    /\ UNCHANGED <<secret, host, excused, rekeyed, overlap, edits, held, skipped,
                   guests, using, faults>>

FinalizerRefused(p) ==
    /\ pc[p] = "finalize" /\ ~Accepted(p)
    /\ Return(p)
    /\ UNCHANGED <<world, guests, fresh, faults>>

(* guestClientFor: the Secret is read uncached; a client built from the same   *)
(* resourceVersion for the same UID is used again.                             *)
BuiltFor(p) == [rv |-> secret, key |-> mine[p].key]
Cached(p)   == guests[p][mine[p].uid]

HitByUID(p) == Cached(p) # {}
Hit(p)      == \E c \in Cached(p) : c.rv = secret

KeepBoth(p)  == Cached(p) \cup {BuiltFor(p)}
ClientFor(p) == IF Hit(p) THEN Cached(p) ELSE {BuiltFor(p)}

Connect(p) ==
    /\ pc[p] = "client"
    /\ using' = [using EXCEPT ![p] = ClientFor(p)]
    /\ guests' = [guests EXCEPT ![p][mine[p].uid] = ClientFor(p)]
    /\ Goto(p, "syncCore")
    /\ UNCHANGED <<world, mine, held, skipped, fresh, faults>>

(* disconnected, for want of a Secret or of an answer: nothing but the status. *)
Disconnected(p) ==
    /\ pc[p] \in {"client", "syncCore"}
    /\ Goto(p, "status")
    /\ UNCHANGED <<world, mine, held, skipped, guests, using, fresh, faults>>

(* The pass, as far as it concerns a kind: the host object of the namespace    *)
(* the copy names is there afterwards, unless a call failed or, for Gateways,  *)
(* the host's API was not discovered.  Whoever's labels it has, they match.    *)
Sync(p, k, next) ==
    /\ LET o == <<mine[p].ns, k>> IN
       \E failed \in BOOLEAN :
          /\ Fault(failed)
          /\ host' = IF failed \/ host[o] # 0 THEN host ELSE [host EXCEPT ![o] = mine[p].uid]
          /\ excused' = IF host'[o] # host[o] /\ o[1] # tc.ns
                        THEN excused \cup {o} ELSE excused
    /\ Goto(p, next)
    /\ UNCHANGED <<tc, secret, rekeyed, overlap, edits, mine, held, skipped, guests, using, fresh>>

SyncCore(p)     == pc[p] = "syncCore" /\ Sync(p, "core", "syncGateways")
SyncGateways(p) == pc[p] = "syncGateways" /\ Sync(p, "gateway", "status")

UpdateStatus(p) ==
    /\ pc[p] = "status"
    /\ fresh' = IF Accepted(p) THEN {p} ELSE fresh
    /\ Return(p)
    /\ UNCHANGED <<world, guests, faults>>

--------------------------------------------------------------------------------
(* reconcileDelete.  A list that fails ends it; a delete that fails, or a      *)
(* volume that is still plugged in, holds the finalizer; both cost a fault.    *)

DeleteKind(p, k) ==
    LET o == <<mine[p].ns, k>> IN
    /\ host' = [host EXCEPT ![o] = 0]
    /\ excused' = excused \ {o}

(* One kind: everything labelled in the namespace the copy names is deleted,   *)
(* or the finalizer is held.                                                   *)
TearDown(p, k) ==
    /\ \/ DeleteKind(p, k) /\ Fault(FALSE) /\ UNCHANGED held
       \/ held' = held \cup {p} /\ Fault(TRUE) /\ UNCHANGED <<host, excused>>
    /\ UNCHANGED <<tc, secret, rekeyed, overlap, edits, mine, guests, using, fresh>>

TearCore(p) ==
    /\ pc[p] = "tearCore"
    /\ TearDown(p, "core")
    /\ Goto(p, "tearGateways")
    /\ UNCHANGED skipped

(* hostHasGatewayAPI: an error of discovery reads as "not there".              *)
SkipGateways(p) ==
    /\ Fault(TRUE)
    /\ skipped' = skipped \cup {p}
    /\ UNCHANGED <<world, mine, held, guests, using, fresh>>

TearGateways(p) ==
    /\ pc[p] = "tearGateways"
    /\ SkipGateways(p) \/ (TearDown(p, "gateway") /\ UNCHANGED skipped)
    /\ Goto(p, "strip")

(* A teardown's list fails.  A process dies: its cache goes with it.           *)
ListFails(p) ==
    /\ pc[p] \in {"tearCore", "tearGateways"}
    /\ Fault(TRUE)
    /\ Return(p)
    /\ UNCHANGED <<world, guests, fresh>>

Crash(p) ==
    /\ pc[p] # "idle"
    /\ Fault(TRUE)
    /\ Return(p)
    /\ guests' = [guests EXCEPT ![p] = [u \in UIDs |-> {}]]
    /\ UNCHANGED <<world, fresh>>

ReleasedAnyway(p) == FALSE
Held(p)           == p \in held

Requeue(p) ==
    /\ pc[p] = "strip" /\ Held(p)
    /\ Return(p)
    /\ UNCHANGED <<world, guests, fresh, faults>>

(* The guest's finalizers and mirrors are released if the guest answers, and   *)
(* the teardown goes on if it does not.  The cached client goes either way.    *)
Strip(p) ==
    /\ pc[p] = "strip" /\ ~Held(p)
    /\ Goto(p, "drop")
    /\ guests' = [guests EXCEPT ![p][mine[p].uid] = {}]
    /\ UNCHANGED <<world, mine, held, skipped, using, fresh, faults>>

DropFinalizer(p) ==
    /\ pc[p] = "drop" /\ Accepted(p)
    /\ tc' = [tc EXCEPT !.life = "absent", !.fin = FALSE]
    /\ excused' = IF p \in skipped THEN excused \cup {<<mine[p].ns, "gateway">>} ELSE excused
    /\ fresh' = {}
    /\ Return(p)
    /\ UNCHANGED <<secret, host, rekeyed, overlap, edits, guests, faults>>

DropRefused(p) ==
    /\ pc[p] = "drop" /\ ~Accepted(p)
    /\ Return(p)
    /\ UNCHANGED <<world, guests, fresh, faults>>

--------------------------------------------------------------------------------
(* Platform operators and the guest. *)
Create ==
    /\ tc.life = "absent" /\ tc.uid < MaxUID
    /\ \E ns \in Namespaces :
          tc' = [NoCopy EXCEPT !.life = "live", !.uid = tc.uid + 1, !.ns = ns]
    /\ fresh' = {}
    /\ UNCHANGED <<secret, host, excused, rekeyed, overlap, edits, proc, faults>>

Delete ==
    /\ tc.life = "live"
    /\ tc' = [tc EXCEPT !.life = IF tc.fin THEN "deleting" ELSE "absent"]
    /\ fresh' = {}
    /\ UNCHANGED <<secret, host, excused, rekeyed, overlap, edits, proc, faults>>

Edit == edits < MaxEdits /\ edits' = edits + 1

Labelled == {o \in Objects : host[o] # 0}

(* Nothing makes hostNamespace immutable: what was published stays behind.     *)
Move ==
    /\ tc.life # "absent" /\ Edit
    /\ \E ns \in Namespaces \ {tc.ns} : tc' = [tc EXCEPT !.ns = ns]
    /\ excused' = {o \in excused \cup Labelled : o[1] # tc'.ns \/ ~tc.fin}
    /\ fresh' = {}
    /\ UNCHANGED <<secret, host, rekeyed, overlap, proc, faults>>

Rekey ==
    /\ tc.life # "absent" /\ Edit
    /\ \E key \in Keys \ {tc.key} : tc' = [tc EXCEPT !.key = key]
    /\ rekeyed' = rekeyed \cup {tc.uid}
    /\ fresh' = {}
    /\ UNCHANGED <<secret, host, excused, overlap, proc, faults>>

Rotate ==
    /\ Edit
    /\ secret' = secret + 1
    /\ UNCHANGED <<tc, host, excused, rekeyed, overlap, proc, fresh, faults>>

--------------------------------------------------------------------------------
Reconcile(p) ==
    \/ Begin(p) \/ AddFinalizer(p) \/ FinalizerRefused(p)
    \/ Connect(p) \/ Disconnected(p)
    \/ SyncCore(p) \/ SyncGateways(p) \/ UpdateStatus(p)

ReconcileDelete(p) ==
    \/ TearCore(p) \/ TearGateways(p) \/ Requeue(p) \/ Strip(p)
    \/ DropFinalizer(p) \/ DropRefused(p)

Next ==
    \/ \E p \in Procs : Reconcile(p) \/ ReconcileDelete(p) \/ ListFails(p) \/ Crash(p)
    \/ Create \/ Delete \/ Move \/ Rekey \/ Rotate

Spec == Init /\ [][Next]_vars

--------------------------------------------------------------------------------
(* A host object is there only under a TenantCluster whose finalizer will see  *)
(* to it, unless two processes had one under deletion in hand at once.         *)
(* Excused are what a changed hostNamespace left behind, and a Gateway that    *)
(* failed discovery hid from the last teardown.                                *)
Covered == ~overlap => \A o \in Labelled \ excused : tc.life # "absent" /\ tc.fin

(* The teardown of a TenantCluster deletes nothing of the one that replaced    *)
(* it, with the same exception.                                                *)
ReplacementKept ==
    [][\A o \in Objects : tc.life = "live" /\ host[o] = tc.uid /\ ~overlap
                            => host'[o] = host[o]]_vars

(* A pass reaches the guest by the Secret as it reads it, however often it was *)
(* rotated and the TenantCluster replaced, and under the key that the          *)
(* TenantCluster names, unless that was edited: a changed key alone does not   *)
(* rebuild a cached client.                                                    *)
GuestAsNamed ==
    [][\A p \in Procs : \A c \in using'[p] \ using[p] :
          c.rv = secret /\ (c.key = mine[p].key \/ mine[p].uid \in rekeyed)]_vars
================================================================================
