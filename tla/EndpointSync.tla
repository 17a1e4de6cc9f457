------------------------------ MODULE EndpointSync ------------------------------
(***************************************************************************)
(* Tenant endpoints: one syncer pass after another over the guest's        *)
(* Services, Ingresses, HTTPRoutes and Gateways (internal/syncer/pass.go   *)
(* and writeback.go, with what service.go, ingress.go and gateway.go make  *)
(* of an object), while the tenant edits them, the operator changes the    *)
(* address limit and the host hands out addresses.                         *)
(*                                                                         *)
(* HostObjectName depends on nothing but the guest object's namespace and  *)
(* name, so one element of Objects stands for a guest object and for the   *)
(* host object made of it; a guest object recreated under its name is the  *)
(* same element again.  Every call that writes is a step of its own.       *)
(***************************************************************************)
EXTENDS Naturals, FiniteSets

CONSTANTS
    Services,       \* guest Services
    Routers,        \* guest Ingresses and HTTPRoutes
    Routes,         \* the HTTPRoutes among them
    Gateways,       \* guest Gateways
    Backends,       \* the guest Services each router's paths name
    Shapes,         \* what the tenant may make of an object
    Limits,         \* the values spec.limits.loadBalancers takes
    Switches,       \* the sets of objects that spec.sync may leave out
    Squatted,       \* objects on whose host name another's object may sit
    MaxEdits,       \* bound on what the tenant and the operator do
    MaxFaults,      \* bound on failed calls and crashes, together
    MaxMisreads     \* bound on failed reads of whether a host object exists

Objects   == Services \cup Routers \cup Gateways
Endpoints == Services \cup Gateways
Kinds     == {Services, Routers, Gateways}

ASSUME EndpointAssumption ==
    /\ IsFiniteSet(Objects)
    /\ Services \cap Routers = {} /\ Services \cap Gateways = {}
    /\ Routers \cap Gateways = {} /\ Routes \subseteq Routers
    /\ Backends \in [Routers -> SUBSET Services]
    /\ Squatted \subseteq Objects
    /\ Shapes \subseteq {"good", "family", "NodePort", "refused"}
    /\ Limits \subseteq Nat /\ Limits # {}
    /\ Switches \subseteq SUBSET Objects /\ Switches # {}
    /\ MaxEdits \in Nat /\ MaxFaults \in Nat /\ MaxMisreads \in Nat

(* What mapService, mapIngress, mapHTTPRoute and mapGateway make of an object. *)
(*   good      it can be published; for a Service, type LoadBalancer           *)
(*   family    a LoadBalancer Service of an address family the host lacks: it  *)
(*             is refused, but its NodePorts can still back a router           *)
(*   NodePort  a Service that wants no address and can back a router           *)
(*   refused   nothing of it can be carried to the host                        *)
ShapesOf(o) == IF o \in Services THEN Shapes ELSE Shapes \ {"family", "NodePort"}

VARIABLES
    obj,        \* guest object: "absent", "live", "deleting"
    shape,      \* its shape
    born,       \* its creation timestamp
    pinned,     \* guest objects that carry our finalizer
    shown,      \* guest objects whose status carries an address
    told,       \* guest objects whose condition or annotation says refused
    clock,      \* what tenant and operator have done so far, their time
    limit,      \* spec.limits.loadBalancers
    off,        \* what spec.sync leaves out: the Services, the Ingresses, or the
                \* Gateways and HTTPRoutes
    host,       \* host object: "none", "published", "backend" or "foreign",
                \* a ClusterIP Service being a backend
    addr,       \* published host objects that hold an address
    pc,         \* what the syncer does next
    snap,       \* the TenantCluster as this pass read it, and what it has listed
    stale,      \* guest objects written by the tenant since they were listed
    left,       \* what is left of the current loop
    existing,   \* claims whose host object this pass found
    publish,    \* lbPairs, ingressPairs, gatewayPairs and the routes
    desired,    \* keys of services, ingresses, gateways and routes
    want,       \* wantFinalizer
    read,       \* desired objects known with the address their host object holds
    refused,    \* keys of refusals
    blocked,    \* pruneFailed
    faults,     \* failures and crashes so far
    misreads    \* failed reads of existence so far

guest  == <<obj, shape, born, pinned, shown, told>>
world  == <<clock, limit, off, host, addr>>
plan   == <<existing, publish, desired, want, read, refused>>
pass   == <<pc, snap, stale, left, plan, blocked>>
counts == <<faults, misreads>>
vars   == <<guest, world, pass, counts>>

PCs == {"idle", "listServices", "listRouters", "listGateways", "exists", "pin", "apply",
        "prune", "release", "status", "refusals"}

EmptySnap == [obj |-> [o \in Objects |-> "absent"], shape |-> [o \in Objects |-> "good"],
              born |-> [o \in Objects |-> 0], pin |-> {}, limit |-> 0,
              off |-> {}, hidden |-> {}]

TypeOK ==
    /\ obj \in [Objects -> {"absent", "live", "deleting"}]
    /\ shape \in [Objects -> Shapes \cup {"good"}]
    /\ born \in [Objects -> 0..MaxEdits]
    /\ pinned \subseteq Objects /\ shown \subseteq Objects /\ told \subseteq Objects
    /\ clock \in 0..MaxEdits
    /\ limit \in Limits /\ off \in Switches
    /\ host \in [Objects -> {"none", "published", "backend", "foreign"}]
    /\ addr \subseteq Objects
    /\ pc \in PCs
    /\ snap \in [obj : [Objects -> {"absent", "live", "deleting"}],
                 shape : [Objects -> Shapes \cup {"good"}],
                 born : [Objects -> 0..MaxEdits], pin : SUBSET Objects,
                 limit : Limits \cup {0}, off : SUBSET Objects, hidden : SUBSET Objects]
    /\ stale \subseteq Objects /\ left \subseteq Objects
    /\ pc = "exists" => left \subseteq Endpoints
    /\ existing \subseteq Endpoints /\ publish \subseteq Objects
    /\ desired \subseteq Objects /\ want \subseteq Objects /\ read \subseteq Objects
    /\ refused \subseteq Objects
    /\ blocked \in BOOLEAN
    /\ faults \in 0..MaxFaults /\ misreads \in 0..MaxMisreads

Init ==
    /\ obj = [o \in Objects |-> "absent"]
    /\ shape = [o \in Objects |-> "good"]
    /\ born = [o \in Objects |-> 0]
    /\ pinned = {} /\ shown = {} /\ told = {}
    /\ clock = 0
    /\ limit \in Limits /\ off \in Switches
    /\ host \in [Objects -> {"none", "foreign"}]
    /\ \A o \in Objects \ Squatted : host[o] = "none"
    /\ addr = {}
    /\ pc = "idle" /\ snap = EmptySnap
    /\ stale = {} /\ left = {}
    /\ existing = {} /\ publish = {} /\ desired = {} /\ want = {} /\ read = {}
    /\ refused = {}
    /\ blocked = FALSE
    /\ faults = 0 /\ misreads = 0

(* A call that fails costs one fault; one that succeeds costs none. *)
Fault(failed) ==
    /\ failed => faults < MaxFaults
    /\ faults' = IF failed THEN faults + 1 ELSE faults
    /\ UNCHANGED misreads

Owned == {o \in Objects : host[o] \in {"published", "backend"}}

--------------------------------------------------------------------------------
(* Reconcile reads the TenantCluster and asks the host whether it has the      *)
(* Gateway API: hostHasGatewayAPI takes a discovery that failed, as it may in  *)
(* a process that has just started, for a no.  That hides the Gateways and     *)
(* HTTPRoutes from this pass.                                                  *)
Begin ==
    /\ pc = "idle"
    /\ \E failed \in BOOLEAN :
          /\ Fault(failed)
          /\ snap' = [snap EXCEPT !.limit = limit, !.off = off,
                                  !.hidden = IF failed THEN Gateways \cup Routes ELSE {}]
    /\ pc' = "listServices"
    /\ UNCHANGED <<guest, world, stale, left, plan, blocked>>

(* Gather.  A list forgets what the tenant wrote before it.  Services are      *)
(* always listed, as backends; what else is left out or hidden is not.         *)
Skipped == snap.off \cup snap.hidden

List(kind, from, to) ==
    /\ pc = from
    /\ snap' = [snap EXCEPT !.obj   = [o \in Objects |-> IF o \in kind THEN obj[o] ELSE @[o]],
                            !.shape = [o \in Objects |-> IF o \in kind THEN shape[o] ELSE @[o]],
                            !.born  = [o \in Objects |-> IF o \in kind THEN born[o] ELSE @[o]],
                            !.pin   = @ \cup (pinned \cap kind)]
    /\ stale' = stale \ kind
    /\ pc' = to
    /\ UNCHANGED <<guest, world, plan, blocked, counts>>

ListServices == List(Services, "listServices", "listRouters") /\ UNCHANGED left
ListRouters  == List(Routers \ Skipped, "listRouters", "listGateways") /\ UNCHANGED left

Listed(o) == snap.obj[o] = "live"

(* wantsLoadBalancer, and only while Services are synced. *)
InScope(o) == o \in Services => snap.shape[o] # "NodePort" /\ o \notin snap.off

(* lbPairs and gatewayPairs before the limit: the claims on addresses. *)
AllClaim == {o \in Objects : Listed(o) /\ InScope(o) /\ snap.shape[o] = "good"}
Claims   == {o \in Endpoints : Listed(o) /\ InScope(o) /\ snap.shape[o] = "good"}

ListGateways ==
    /\ List(Gateways \ Skipped, "listGateways", "exists")
    /\ left' = Claims'

(* backendResolver, and the backends mapIngress and mapHTTPRoute accept.       *)
Usable(s)   == Listed(s) /\ snap.shape[s] # "refused"
Accepted(r) == {s \in Backends[r] : Usable(s)}
Routed      == {r \in Routers : Listed(r) /\ snap.shape[r] = "good" /\ Accepted(r) # {}}
Needed      == UNION {Accepted(r) : r \in Routed}

(* A List that fails ends the pass before it changed anything; a crash ends it *)
(* anywhere.  Both lose all the pass knew.                                     *)
EndOfPass ==
    /\ pc' = "idle" /\ snap' = EmptySnap
    /\ stale' = {} /\ left' = {} /\ blocked' = FALSE
    /\ existing' = {} /\ publish' = {} /\ desired' = {} /\ want' = {} /\ read' = {}
    /\ refused' = {}

Abort == pc # "idle" /\ EndOfPass /\ Fault(TRUE) /\ UNCHANGED <<guest, world>>

--------------------------------------------------------------------------------
(* applyAddressLimit.                                                          *)

(* hostObjectExists, once per claim, uncached.  A read that fails answers no.  *)
ReadClaim(o) ==
    /\ pc = "exists" /\ o \in left
    /\ \E failed \in BOOLEAN :
          /\ failed => misreads < MaxMisreads
          /\ misreads' = IF failed THEN misreads + 1 ELSE misreads
          /\ existing' = IF ~failed /\ host[o] = "published" THEN existing \cup {o} ELSE existing
    /\ left' = left \ {o}
    /\ UNCHANGED <<guest, world, pc, snap, stale, publish, desired, want, read, refused,
                   blocked, faults>>

Older(o) == {c \in Claims : snap.born[c] < snap.born[o]}

(* The loop, oldest claim first: admittedBefore[n] counts what it admitted of  *)
(* the n oldest.  An existing claim is admitted whatever the limit says.       *)
ByAge(n) == CHOOSE c \in Claims : Cardinality(Older(c)) = n

OneTooMany(admitted) == admitted <= snap.limit
Room(admitted)       == admitted < snap.limit

admittedBefore[n \in 0..Cardinality(Claims)] ==
    IF n = 0 THEN 0
    ELSE LET before == admittedBefore[n - 1]
         IN  IF ByAge(n - 1) \in existing \/ Room(before) THEN before + 1 ELSE before

OverCount == {o \in Claims : ~Room(admittedBefore[Cardinality(Older(o))])}
OverLimit == {o \in Claims \ existing : ~Room(admittedBefore[Cardinality(Older(o))])}

(* withdrawClaim: a withdrawn Service that a router needs stays, as a backend. *)
NoBackends   == {}
BackendsLeft == Needed \ (Claims \ OverLimit)

(* What each gather or the limit refused: the object as such, a path of a      *)
(* router, or an address.                                                      *)
Unfit ==
    {o \in Objects : Listed(o) /\ InScope(o) /\ snap.shape[o] # "good"}
    \cup {r \in Routers : Listed(r) /\ Accepted(r) # Backends[r]}
Refused == Unfit \cup OverLimit

Admit ==
    /\ pc = "exists" /\ left = {}
    /\ publish' = (Claims \ OverLimit) \cup Routed
    /\ want' = publish' \cup BackendsLeft
    /\ desired' = want'
    /\ refused' = Refused
    /\ left' = want' \ snap.pin
    /\ pc' = "pin"
    /\ UNCHANGED <<guest, world, snap, stale, existing, read, blocked, counts>>

--------------------------------------------------------------------------------
(* ensureGuestFinalizers: the Update is refused when the object is not the one *)
(* this pass listed.  Either way the pass goes on.                             *)
PinObject(o) ==
    /\ pc = "pin" /\ o \in left
    /\ \E failed \in BOOLEAN :
          /\ Fault(failed)
          /\ pinned' = IF ~failed /\ o \notin stale THEN pinned \cup {o} ELSE pinned
    /\ left' = left \ {o}
    /\ UNCHANGED <<obj, shape, born, shown, told, world, pc, snap, stale, plan, blocked>>

Stage(from, to, objects) ==
    /\ pc = from /\ left = {}
    /\ pc' = to
    /\ left' = objects
    /\ UNCHANGED <<guest, world, snap, stale, plan>>

Apply == Stage("pin", "apply", desired) /\ UNCHANGED <<blocked, counts>>

(* pruneAll deletes the owned host objects that are not desired, of the kinds  *)
(* it believes the host to have.                                               *)
NoRouters == Owned \ (desired \cup snap.hidden \cup Routers)
Surplus   == Owned \ (desired \cup snap.hidden)

(* ensureHostNamespace failed: apply is skipped, prune is not. *)
SkipApply == Stage("pin", "prune", Surplus) /\ Fault(TRUE) /\ UNCHANGED blocked

(* applyAll: Services go first. *)
MayApply(o) == pc = "apply" /\ o \in left /\ (o \in Services \/ left \cap Services = {})

(* The host object's type: published, or a ClusterIP backend. *)
Wanted(o) == IF o \in publish THEN "published" ELSE "backend"

(* applyProblem: refused in the guest too where hostOwner knows the object. *)
RefusedByHost(o, failed) ==
    refused' = IF failed /\ o \in publish \cap Endpoints THEN refused \cup {o} ELSE refused

(* mayTouch: a host object without our labels is left alone, and forgotten.    *)
NeverForeign(o) == FALSE
Foreign(o)      == host[o] = "foreign"

(* Create; an answer may be lost after it took effect. *)
ApplyCreate(o) ==
    /\ MayApply(o) /\ host[o] = "none"
    /\ \E failed, applied \in BOOLEAN :
          /\ ~failed => applied
          /\ Fault(failed)
          /\ host' = IF applied THEN [host EXCEPT ![o] = Wanted(o)] ELSE host
          /\ RefusedByHost(o, failed)
    /\ left' = left \ {o}
    /\ UNCHANGED <<guest, clock, limit, off, addr, pc, snap, stale, existing, publish, desired,
                   want, read, blocked>>

(* Get and Update: the allocated fields survive.  What the pass knows from     *)
(* then on is the object that the host answered with; a failed call leaves it  *)
(* with the one it wanted, which holds no address.                             *)
AsWanted(o)   == FALSE
AsAnswered(o) == o \in addr

ApplyUpdate(o) ==
    /\ MayApply(o) /\ host[o] # "none" /\ ~Foreign(o)
    /\ \E failed, applied \in BOOLEAN :
          /\ ~failed => applied
          /\ Fault(failed)
          /\ host' = IF applied THEN [host EXCEPT ![o] = Wanted(o)] ELSE host
          /\ addr' = IF applied /\ o \notin publish THEN addr \ {o} ELSE addr
          /\ read' = IF ~failed /\ AsAnswered(o) THEN read \cup {o} ELSE read
          /\ RefusedByHost(o, failed)
    /\ left' = left \ {o}
    /\ UNCHANGED <<guest, clock, limit, off, pc, snap, stale, existing, publish, desired, want,
                   blocked>>

ApplyCollision(o) ==
    /\ MayApply(o) /\ Foreign(o)
    /\ desired' = desired \ {o}
    /\ left' = left \ {o}
    /\ UNCHANGED <<guest, world, pc, snap, stale, existing, publish, want, read, refused,
                   blocked, counts>>

--------------------------------------------------------------------------------
(* pruneAll.  A kind whose list fails is left out, and holds up the release.   *)
Prune == Stage("apply", "prune", Surplus) /\ UNCHANGED <<blocked, counts>>

PruneListFails(kind) ==
    /\ Stage("apply", "prune", Surplus \ kind)
    /\ blocked' = TRUE
    /\ Fault(TRUE)

PruneObject(o) ==
    /\ pc = "prune" /\ o \in left
    /\ \E failed \in BOOLEAN :
          /\ Fault(failed)
          /\ host' = IF failed THEN host ELSE [host EXCEPT ![o] = "none"]
          /\ addr' = IF failed THEN addr ELSE addr \ {o}
          /\ blocked' = (blocked \/ failed)
    /\ left' = left \ {o}
    /\ UNCHANGED <<guest, clock, limit, off, pc, snap, stale, plan>>

(* releaseGuestFinalizers: what noteFinalizerHolder saw pinned, a Service only *)
(* while it wants an address, and nothing wants pinned any more.               *)
SeenLive == {o \in snap.pin : InScope(o) /\ Listed(o)}
Seen     == {o \in snap.pin : InScope(o)}

ReleasedAnyway == Seen \ want
Releasable     == IF blocked THEN {} ELSE Seen \ want

Release == Stage("prune", "release", Releasable) /\ UNCHANGED <<blocked, counts>>

(* A deleting object goes with its last finalizer. *)
Unpin(o) ==
    /\ pinned' = pinned \ {o}
    /\ obj' = IF obj[o] = "deleting" THEN [obj EXCEPT ![o] = "absent"] ELSE obj
    /\ shown' = IF obj[o] = "deleting" THEN shown \ {o} ELSE shown
    /\ told' = IF obj[o] = "deleting" THEN told \ {o} ELSE told
    /\ UNCHANGED <<shape, born>>

ReleaseObject(o) ==
    /\ pc = "release" /\ o \in left
    /\ \E failed \in BOOLEAN :
          /\ Fault(failed)
          /\ IF ~failed /\ o \notin stale THEN Unpin(o) ELSE UNCHANGED guest
    /\ left' = left \ {o}
    /\ UNCHANGED <<world, pc, snap, stale, plan, blocked>>

--------------------------------------------------------------------------------
(* writeBack: guest status writes, refused when the object is not the listed   *)
(* one.  First the addresses of what is published and was not forgotten; a     *)
(* Service's condition follows them.                                           *)
WriteBack ==
    /\ Stage("release", "status", publish \cap desired)
    /\ UNCHANGED <<blocked, counts>>

WriteAddress(o) ==
    /\ pc = "status" /\ o \in left
    /\ \E failed \in BOOLEAN :
          /\ Fault(failed)
          /\ IF failed \/ o \in stale
             THEN UNCHANGED <<shown, told>>
             ELSE /\ shown' = IF o \in read THEN shown \cup {o} ELSE shown \ {o}
                  /\ told' = told \ (Services \cap {o})
    /\ left' = left \ {o}
    /\ UNCHANGED <<obj, shape, born, pinned, world, pc, snap, stale, plan, blocked>>

(* Then writeRefusals: a Service's condition, in scope and refused; a router's *)
(* or Gateway's annotation, refused or no longer so.                           *)
Refusals ==
    /\ Stage("status", "refusals",
             refused \cup {o \in Objects \ Services : Listed(o)})
    /\ UNCHANGED <<blocked, counts>>

WriteRefusal(o) ==
    /\ pc = "refusals" /\ o \in left
    /\ \E failed \in BOOLEAN :
          /\ Fault(failed)
          /\ told' = IF failed \/ o \in stale THEN told
                     ELSE IF o \in refused THEN told \cup {o} ELSE told \ {o}
    /\ left' = left \ {o}
    /\ UNCHANGED <<obj, shape, born, pinned, shown, world, pc, snap, stale, plan, blocked>>

EndPass ==
    /\ pc = "refusals" /\ left = {}
    /\ EndOfPass
    /\ UNCHANGED <<guest, world, counts>>

--------------------------------------------------------------------------------
(* The tenant, external.  Creation timestamps grow.  A finalizer keeps an      *)
(* object, deleting; a tenant may strip it.                                    *)
Tick == clock < MaxEdits /\ clock' = clock + 1

Edit(o) ==
    /\ Tick
    /\ stale' = IF pc = "idle" THEN {} ELSE stale \cup {o}
    /\ UNCHANGED <<limit, off, host, addr, pc, snap, left, plan, blocked, counts>>

Create(o) ==
    /\ obj[o] = "absent"
    /\ \E s \in ShapesOf(o) : shape' = [shape EXCEPT ![o] = s]
    /\ obj' = [obj EXCEPT ![o] = "live"]
    /\ born' = [born EXCEPT ![o] = clock]
    /\ Edit(o)
    /\ UNCHANGED <<pinned, shown, told>>

Reshape(o) ==
    /\ obj[o] = "live"
    /\ \E s \in ShapesOf(o) \ {shape[o]} : shape' = [shape EXCEPT ![o] = s]
    /\ Edit(o)
    /\ UNCHANGED <<obj, born, pinned, shown, told>>

Gone(o) ==
    /\ obj' = [obj EXCEPT ![o] = "absent"]
    /\ pinned' = pinned \ {o} /\ shown' = shown \ {o} /\ told' = told \ {o}
    /\ UNCHANGED <<shape, born>>

Delete(o) ==
    /\ obj[o] = "live"
    /\ IF o \in pinned
       THEN obj' = [obj EXCEPT ![o] = "deleting"]
            /\ UNCHANGED <<shape, born, pinned, shown, told>>
       ELSE Gone(o)
    /\ Edit(o)

ForceDelete(o) == obj[o] = "deleting" /\ Gone(o) /\ Edit(o)

(* The operator's limit and switches, and the host's load balancer, external. *)
SetLimit ==
    /\ Tick
    /\ limit' \in Limits \ {limit}
    /\ UNCHANGED <<guest, off, host, addr, pass, counts>>

SetSync ==
    /\ Tick
    /\ off' \in Switches \ {off}
    /\ UNCHANGED <<guest, limit, host, addr, pass, counts>>

Allocate(o) ==
    /\ host[o] = "published" /\ o \notin addr
    /\ addr' = addr \cup {o}
    /\ UNCHANGED <<guest, clock, limit, off, host, pass, counts>>

--------------------------------------------------------------------------------
ObjectStep(o) ==
    \/ ReadClaim(o) \/ PinObject(o)
    \/ ApplyCreate(o) \/ ApplyUpdate(o) \/ ApplyCollision(o)
    \/ PruneObject(o) \/ ReleaseObject(o) \/ WriteAddress(o) \/ WriteRefusal(o)

Syncer ==
    \/ Begin \/ ListServices \/ ListRouters \/ ListGateways
    \/ Admit \/ Apply \/ SkipApply \/ Prune \/ Release \/ WriteBack \/ Refusals \/ EndPass
    \/ \E kind \in Kinds : PruneListFails(kind)
    \/ \E o \in Objects : ObjectStep(o)

Tenant == \E o \in Objects : Create(o) \/ Reshape(o) \/ Delete(o) \/ ForceDelete(o)
Host   == SetLimit \/ SetSync \/ \E o \in Objects : Allocate(o)

Next == Syncer \/ Abort \/ Tenant \/ Host

Spec == Init /\ [][Next]_vars

(* The controller requeues for ever, so the syncer's next step is taken.       *)
FairSpec == Spec /\ WF_vars(Syncer)

--------------------------------------------------------------------------------
(* Whatever the limit is set to and whatever else claims an address, a pass    *)
(* that listed a claim never takes down the endpoint published for it          *)
(* (applyAddressLimit grandfathers, withdrawClaim, pruneAll).                  *)
LimitNeverTearsDown ==
    [][\A o \in Endpoints : host[o] = "published" /\ host'[o] # "published"
                                => o \notin Claims]_vars

(* Which claims are refused depends on nothing but age and existence: those    *)
(* with as many older claims as the limit has room for.                        *)
RefusalByAge ==
    pc = "exists" /\ left = {} =>
        OverLimit = {o \in Claims \ existing : Cardinality(Older(o)) >= snap.limit}

(* A pass that prunes everything leaves no host object it does not want, for   *)
(* whatever reason the object is there; what a failed discovery hid stays.     *)
PassClean ==
    pc \in {"release", "status", "refusals"} /\ ~blocked
        => Owned \subseteq desired \cup snap.hidden

(* A finalizer is released only when no host object of its object is left.     *)
ReleaseAfterPrune ==
    [][\A o \in Objects : o \in pinned \ pinned' /\ clock' = clock => o \notin Owned]_vars

(* A Service that a published router needs survives the pruning of what the    *)
(* limit withdrew.                                                             *)
BackendsKept ==
    [][\A s \in Needed : pc = "prune" /\ s \in Owned => host'[s] # "none"]_vars

(* A host object without our labels stays, and no guest is shown its address.  *)
ForeignUntouched ==
    [][\A o \in Objects : host[o] = "foreign"
                            => host'[o] = "foreign" /\ o \notin shown' \ shown]_vars

(* An endpoint the tenant asks for and keeps, and the operator lets be synced, *)
(* is published or told why not.                                               *)
Claimed(o) == obj[o] = "live" /\ shape[o] = "good" /\ o \notin off

EndpointAnswered ==
    \A o \in Endpoints : Claimed(o) ~> \/ ~Claimed(o) \/ o \in told
                                       \/ host[o] \in {"published", "foreign"}

(* An address that the host holds for a claim is shown to the tenant, though   *)
(* applies fail, which blanks it, and status writes are refused.               *)
AddressShown ==
    \A o \in Endpoints : Claimed(o) /\ o \in addr
                            ~> ~Claimed(o) \/ o \notin addr \/ o \in shown

(* A deleting object that is synced, and not as a mere backend, is let go.     *)
DeletedReleased ==
    \A o \in Objects :
        obj[o] = "deleting" /\ shape[o] # "NodePort" /\ o \notin off
            ~> obj[o] # "deleting" \/ o \in off

(* What is left on the host of an object that vanished is deleted.             *)
NothingLeaks ==
    \A o \in Objects : obj[o] = "absent" /\ o \in Owned
                           ~> obj[o] # "absent" \/ o \notin Owned
================================================================================
