----------------------------- MODULE NameAuthority -----------------------------
(***************************************************************************)
(* Which hostnames a tenant may publish, and what it is told of them:      *)
(* internal/hostname decides, mapIngress, mapGateway and mapHTTPRoute      *)
(* apply the decision to one guest object of each kind, a pass carries     *)
(* the result to the host, and reconcileGuestGatewayClass advertises the   *)
(* class and the domains in the guest.  The operator edits the             *)
(* registration and the tenant its objects, and the class, meanwhile.      *)
(*                                                                         *)
(* A hostname is what splitting its text at the dots gives: "a.b" is       *)
(* <<"a", "b">>, "a.b." is <<"a", "b", "">> and "" is <<"">>.  Backends,   *)
(* address limits, finalizers and collisions are EndpointSync's.           *)
(***************************************************************************)
EXTENDS Naturals, Sequences, FiniteSets

CONSTANTS
    Labels,         \* pieces of hostnames
    Starred,        \* the labels that contain "*"
    Fold,           \* strings.ToLower, label by label
    Names,          \* the hostnames and patterns there are
    Classes,        \* GatewayClass names
    Configs,        \* the registrations the operator chooses from
    Texts,          \* what the tenant may write into an object of each kind
    MaxEdits,       \* bound on what the tenant and the operator do
    MaxFaults       \* bound on failed calls and crashes, together

Kinds == {"ingress", "gateway", "route"}

(* The fields of each kind that hold hostnames. *)
Fields == [ingress |-> {"rules", "tls"}, gateway |-> {"listeners"}, route |-> {"hostnames"}]

NoClassName == "unset"

ASSUME NameAssumption ==
    /\ {"", "*"} \subseteq Labels /\ "*" \in Starred /\ "" \notin Starred
    /\ Starred \subseteq Labels
    /\ Fold \in [Labels -> Labels]
    /\ \A l \in Labels : Fold[Fold[l]] = Fold[l] /\ (Fold[l] \in Starred <=> l \in Starred)
    /\ Fold[""] = "" /\ Fold["*"] = "*"
    /\ Names \subseteq Seq(Labels) \ {<<>>}
    /\ NoClassName \notin Classes
    /\ Configs \subseteq [domains : SUBSET Names, class : Classes \cup {NoClassName},
                          sync : SUBSET {"ingresses", "gateways"}]
    /\ \A k \in Kinds : Texts[k] \subseteq [Fields[k] -> SUBSET Names] /\ Texts[k] # {}
    /\ MaxEdits \in Nat /\ MaxFaults \in Nat

--------------------------------------------------------------------------------
(* The authority.  TrimSuffix takes one root dot, so "." is "" and "a.." "a.". *)

Front(s) == SubSeq(s, 1, Len(s) - 1)
canonical(s) ==
    LET t == IF Len(s) > 1 /\ s[Len(s)] = "" THEN Front(s) ELSE s
    IN [i \in 1..Len(t) |-> Fold[t[i]]]

Blank(s)    == s = <<"">>
Wild(h)     == \E i \in 1..Len(h) : h[i] \in Starred
IsPrefix(p) == Len(p) > 1 /\ p[1] = "*"

(* h has a label to spare in front of what the pattern's "*." leaves. *)
OneLabel(h, p) == IsPrefix(p) /\ Len(h) > 1 /\ h[1] # "" /\ Tail(h) = Tail(p)

(* A wildcard host matched as if its "*" were a label like any other. *)
StarAsLabel(hostname, patterns) ==
    LET h == canonical(hostname)
    IN ~Blank(h) /\ \E pat \in patterns :
           LET p == canonical(pat) IN ~Blank(p) /\ (h = p \/ OneLabel(h, p))

Allowed(hostname, patterns) ==
    LET h == canonical(hostname)
    IN /\ ~Blank(h)
       /\ \E pat \in patterns :
             LET p == canonical(pat)
             IN ~Blank(p) /\ (h = p \/ (~Wild(h) /\ OneLabel(h, p)))

--------------------------------------------------------------------------------
VARIABLES
    tc,         \* the TenantCluster's allowedDomains, gatewayClassName and sync
    wrote,      \* the hostnames in the tenant's objects
    told,       \* the hostnames each object's refusal annotation names
    gclass,     \* the guest's GatewayClasses
    pub,        \* the hostnames in the host's objects, Absent where there is none
    pc, snap,   \* the pass, and what it has read
    left,       \* what is left of its current loop
    stale,      \* objects and classes the tenant wrote since the pass read them
    edits, faults

run  == <<pc, snap, left, stale>>
vars == <<tc, wrote, told, gclass, pub, run, edits, faults>>

Absent  == <<>>
NoClass == [label |-> FALSE, ctrl |-> "none", ann |-> {}, accepted |-> FALSE]

(* mirrorGatewayClass *)
Mirror(domains) == [label |-> TRUE, ctrl |-> "us", ann |-> domains, accepted |-> FALSE]

EmptySnap == [tc |-> [domains |-> {}, class |-> NoClassName, sync |-> {}],
              wrote |-> [k \in Kinds |-> Absent], found |-> NoClass]

PCs == {"idle", "ingresses", "gateways", "routes", "classes", "classDelete", "classWrite",
        "classRecreate", "classAccept", "apply", "prune", "refusals"}

TypeOK ==
    /\ tc \in Configs
    /\ \A k \in Kinds :
          /\ wrote[k] \in Texts[k]
          /\ told[k] \subseteq Names
          /\ pub[k] # Absent => pub[k] \in [Fields[k] -> SUBSET Names]
          /\ snap.wrote[k] \in Texts[k] \cup {Absent}
    /\ pub["ingress"] # Absent => pub["ingress"].rules # {}
    /\ pub["gateway"] # Absent => pub["gateway"].listeners # {}
    /\ \A c \in Classes :
          gclass[c] \in [label : BOOLEAN, ctrl : {"us", "other"}, ann : SUBSET Names,
                         accepted : BOOLEAN] \cup {NoClass}
    /\ pc \in PCs
    /\ left \subseteq Kinds \cup Classes /\ stale \subseteq Kinds \cup Classes
    /\ edits \in 0..MaxEdits /\ faults \in 0..MaxFaults

Init ==
    /\ tc \in Configs
    /\ wrote \in [Kinds -> UNION {Texts[k] : k \in Kinds}]
    /\ \A k \in Kinds : wrote[k] \in Texts[k]
    /\ told = [k \in Kinds |-> {}]
    /\ gclass = [c \in Classes |-> NoClass]
    /\ pub = [k \in Kinds |-> Absent]
    /\ pc = "idle" /\ snap = EmptySnap /\ left = {} /\ stale = {}
    /\ edits = 0 /\ faults = 0

(* A call that fails costs one fault; one that succeeds costs none. *)
Fault(failed) ==
    /\ failed => faults < MaxFaults
    /\ faults' = IF failed THEN faults + 1 ELSE faults

--------------------------------------------------------------------------------
(* Gather.  The registration is read once, at the start of the pass.           *)

BeginPass ==
    /\ pc = "idle" /\ pc' = "ingresses"
    /\ snap' = [EmptySnap EXCEPT !.tc = tc]
    /\ stale' = {}
    /\ UNCHANGED <<tc, wrote, told, gclass, pub, left, edits, faults>>

Gather(k, sync, from, to) ==
    /\ pc = from /\ pc' = to
    /\ snap' = IF sync \in snap.tc.sync THEN [snap EXCEPT !.wrote[k] = wrote[k]] ELSE snap
    /\ stale' = stale \ {k}
    /\ UNCHANGED <<tc, wrote, told, gclass, pub, left, edits, faults>>

gatherIngresses == Gather("ingress", "ingresses", "ingresses", "gateways")
gatherGateways  == Gather("gateway", "gateways", "gateways", "routes")
gatherRoutes    == Gather("route", "gateways", "routes", "classes")

Listed(k)  == snap.wrote[k] # Absent
Kept(k, f) == {n \in snap.wrote[k][f] : Allowed(n, snap.tc.domains)}
Dropped(k, f) == snap.wrote[k][f] \ Kept(k, f)
Mapped(k)  == [f \in Fields[k] |-> Kept(k, f)]

(* What of a listed object the mapping carries to the host, Absent if nothing. *)
(* Every rule kept is taken to have a path whose backend resolves.             *)
TLSAlone == IF Kept("ingress", "tls") = {} THEN Absent ELSE Mapped("ingress")
mapIngress ==
    IF Kept("ingress", "rules") = {} THEN Absent ELSE Mapped("ingress")
mapGateway ==
    IF snap.tc.class = NoClassName \/ Kept("gateway", "listeners") = {}
    THEN Absent ELSE Mapped("gateway")

(* A route all of whose hostnames are refused, attached to its parents anyway. *)
RouteAnyway == Mapped("route")
mapHTTPRoute ==
    IF snap.wrote["route"].hostnames # {} /\ Kept("route", "hostnames") = {}
    THEN Absent ELSE Mapped("route")

Want(k) ==
    IF ~Listed(k) THEN Absent
    ELSE CASE k = "ingress" -> mapIngress
           [] k = "gateway" -> mapGateway
           [] k = "route"   -> mapHTTPRoute

(* The TLS hosts forgotten. *)
RulesAlone(k) == UNION {Dropped(k, f) : f \in Fields[k] \ {"tls"}}

(* The refusals of a listed object.  TLS hosts are looked at only for an Ingress *)
(* that is published; a Gateway without a class is told that and no name.        *)
Refusals(k) ==
    CASE k = "ingress" -> Dropped(k, "rules")
                             \cup IF mapIngress = Absent THEN {} ELSE Dropped(k, "tls")
      [] k = "gateway" -> IF snap.tc.class = NoClassName THEN {} ELSE Dropped(k, "listeners")
      [] k = "route"   -> Dropped(k, "hostnames")

--------------------------------------------------------------------------------
(* The guest GatewayClass.  No failure here ends the pass.                     *)

Wanted(reg) == IF "gateways" \in reg.sync THEN reg.class ELSE NoClassName

(* A class of ours kept although the registration names another, or none. *)
KeepOld(labelled) == {}
Withdrawn(labelled) == labelled \ {Wanted(snap.tc)}

Done(to) == pc' = to /\ left' = IF to = "apply" THEN {k \in Kinds : Want(k) # Absent} ELSE {}

ListClasses ==
    /\ pc = "classes"
    /\ \E failed \in BOOLEAN :
          /\ Fault(failed)
          /\ IF failed THEN Done("apply")
             ELSE pc' = "classDelete" /\ left' = Withdrawn({c \in Classes : gclass[c].label})
    /\ UNCHANGED <<tc, wrote, told, gclass, pub, snap, stale, edits>>

(* By name: whatever bears it now, listed or not. *)
DeleteClass(c) ==
    /\ pc = "classDelete" /\ c \in left
    /\ left' = left \ {c}
    /\ \E failed \in BOOLEAN :
          Fault(failed) /\ gclass' = IF failed THEN gclass ELSE [gclass EXCEPT ![c] = NoClass]
    /\ UNCHANGED <<tc, wrote, told, pub, pc, snap, stale, edits>>

GetClass ==
    /\ pc = "classDelete" /\ left = {}
    /\ LET w == Wanted(snap.tc)
       IN IF w = NoClassName
          THEN Done("apply") /\ UNCHANGED <<snap, stale, faults>>
          ELSE \E failed \in BOOLEAN :
                  /\ Fault(failed)
                  /\ IF failed THEN Done("apply") /\ UNCHANGED <<snap, stale>>
                     ELSE /\ Done("classWrite")
                          /\ snap' = [snap EXCEPT !.found = gclass[w]]
                          /\ stale' = stale \ {w}
    /\ UNCHANGED <<tc, wrote, told, gclass, pub, edits>>

(* The pass has w as c in its hands, and c on the server. *)
Hold(w, c) ==
    /\ gclass' = [gclass EXCEPT ![w] = c]
    /\ snap' = [snap EXCEPT !.found = c]
    /\ stale' = stale \ {w}

(* AlreadyExists is no error, and leaves an object that no update can name. *)
CreateClass ==
    /\ pc = "classWrite" /\ snap.found = NoClass
    /\ LET w == Wanted(snap.tc)
           m == Mirror(snap.tc.domains)
       IN \E failed \in BOOLEAN :
             /\ Fault(failed)
             /\ IF failed THEN Done("apply") /\ UNCHANGED <<gclass, snap, stale>>
                ELSE /\ Done("classAccept")
                     /\ IF gclass[w] = NoClass THEN Hold(w, m)
                        ELSE /\ snap' = [snap EXCEPT !.found = m]
                             /\ stale' = stale \cup {w} /\ UNCHANGED gclass
    /\ UNCHANGED <<tc, wrote, told, pub, edits>>

(* controllerName is immutable: a class of another controller is replaced. *)
ReplaceClass ==
    /\ pc = "classWrite" /\ snap.found.ctrl = "other"
    /\ \E failed \in BOOLEAN :
          /\ Fault(failed)
          /\ IF failed THEN Done("apply") /\ UNCHANGED gclass
             ELSE Done("classRecreate") /\ gclass' = [gclass EXCEPT ![Wanted(snap.tc)] = NoClass]
    /\ UNCHANGED <<tc, wrote, told, pub, snap, stale, edits>>

RecreateClass ==
    /\ pc = "classRecreate"
    /\ LET w == Wanted(snap.tc)
       IN \E failed \in BOOLEAN :
             /\ Fault(failed)
             /\ IF failed \/ gclass[w] # NoClass
                THEN Done("apply") /\ UNCHANGED <<gclass, snap, stale>>
                ELSE Done("classAccept") /\ Hold(w, Mirror(snap.tc.domains))
    /\ UNCHANGED <<tc, wrote, told, pub, edits>>

Drifted(c) == ~c.label \/ c.ann # snap.tc.domains

UpdateClass ==
    /\ pc = "classWrite" /\ snap.found.ctrl = "us"
    /\ LET w == Wanted(snap.tc)
       IN IF ~Drifted(snap.found)
          THEN Done("classAccept") /\ UNCHANGED <<gclass, snap, stale, faults>>
          ELSE \E failed \in BOOLEAN :
                  /\ Fault(failed)
                  /\ IF failed \/ w \in stale
                     THEN Done("apply") /\ UNCHANGED <<gclass, snap, stale>>
                     ELSE /\ Done("classAccept")
                          /\ Hold(w, [snap.found EXCEPT !.label = TRUE, !.ann = snap.tc.domains])
    /\ UNCHANGED <<tc, wrote, told, pub, edits>>

AcceptClass ==
    /\ pc = "classAccept" /\ Done("apply")
    /\ LET w == Wanted(snap.tc)
       IN IF snap.found.accepted
          THEN UNCHANGED <<gclass, faults>>
          ELSE \E failed \in BOOLEAN :
                  /\ Fault(failed)
                  /\ gclass' = IF failed \/ w \in stale THEN gclass
                               ELSE [gclass EXCEPT ![w].accepted = TRUE]
    /\ UNCHANGED <<tc, wrote, told, pub, snap, stale, edits>>

--------------------------------------------------------------------------------
(* Apply, prune, write back.                                                   *)

(* The host namespace could not be ensured. *)
SkipApply ==
    /\ pc = "apply" /\ left = {k \in Kinds : Want(k) # Absent}
    /\ left' = {} /\ Fault(TRUE)
    /\ UNCHANGED <<tc, wrote, told, gclass, pub, pc, snap, stale, edits>>

Before == [ingress |-> {}, gateway |-> {"ingress"}, route |-> {"ingress", "gateway"}]

(* An update that adds to the names the host object has, and takes none away. *)
Merged(k) ==
    IF pub[k] = Absent THEN Want(k) ELSE [f \in Fields[k] |-> pub[k][f] \cup Want(k)[f]]
Applied(k) == Want(k)

ApplyObject(k) ==
    /\ pc = "apply" /\ k \in left /\ left \cap Before[k] = {}
    /\ left' = left \ {k}
    /\ \E failed \in BOOLEAN :
          Fault(failed) /\ pub' = IF failed THEN pub ELSE [pub EXCEPT ![k] = Applied(k)]
    /\ UNCHANGED <<tc, wrote, told, gclass, pc, snap, stale, edits>>

Prune ==
    /\ pc = "apply" /\ left = {} /\ pc' = "prune"
    /\ left' = {k \in Kinds : pub[k] # Absent /\ Want(k) = Absent}
    /\ UNCHANGED <<tc, wrote, told, gclass, pub, snap, stale, edits, faults>>

PruneObject(k) ==
    /\ pc = "prune" /\ k \in left
    /\ left' = left \ {k}
    /\ \E failed \in BOOLEAN :
          Fault(failed) /\ pub' = IF failed THEN pub ELSE [pub EXCEPT ![k] = Absent]
    /\ UNCHANGED <<tc, wrote, told, gclass, pc, snap, stale, edits>>

WriteRefusals ==
    /\ pc = "prune" /\ left = {} /\ pc' = "refusals"
    /\ left' = {k \in Kinds : Listed(k)}
    /\ UNCHANGED <<tc, wrote, told, gclass, pub, snap, stale, edits, faults>>

(* The update carries the listed resourceVersion: a tenant's edit refuses it. *)
WriteRefusal(k) ==
    /\ pc = "refusals" /\ k \in left
    /\ left' = left \ {k}
    /\ \E failed \in BOOLEAN :
          /\ Fault(failed)
          /\ told' = IF failed \/ k \in stale THEN told ELSE [told EXCEPT ![k] = Refusals(k)]
    /\ UNCHANGED <<tc, wrote, gclass, pub, pc, snap, stale, edits>>

EndOfPass == pc' = "idle" /\ snap' = EmptySnap /\ left' = {} /\ stale' = {}

EndPass ==
    /\ pc = "refusals" /\ left = {} /\ EndOfPass
    /\ UNCHANGED <<tc, wrote, told, gclass, pub, edits, faults>>

(* A guest list that fails ends the pass; a crash ends it anywhere. *)
Abort ==
    /\ pc # "idle" /\ EndOfPass /\ Fault(TRUE)
    /\ UNCHANGED <<tc, wrote, told, gclass, pub, edits>>

--------------------------------------------------------------------------------
(* The operator and the tenant.                                                *)

Edit == edits < MaxEdits /\ edits' = edits + 1

Reconfigure ==
    /\ Edit /\ tc' \in Configs \ {tc}
    /\ UNCHANGED <<wrote, told, gclass, pub, run, faults>>

Rewrite(k) ==
    /\ Edit /\ \E t \in Texts[k] \ {wrote[k]} : wrote' = [wrote EXCEPT ![k] = t]
    /\ stale' = stale \cup {k}
    /\ UNCHANGED <<tc, told, gclass, pub, pc, snap, left, faults>>

(* Delete it, put one of another controller there, drop our label, or write the *)
(* annotation over.                                                             *)
Tampered(c) ==
    {NoClass, [NoClass EXCEPT !.ctrl = "other"]} \cup
    IF c = NoClass THEN {} ELSE {[c EXCEPT !.label = FALSE], [c EXCEPT !.ann = {}]}

Tamper(c) ==
    /\ Edit /\ \E d \in Tampered(gclass[c]) \ {gclass[c]} : gclass' = [gclass EXCEPT ![c] = d]
    /\ stale' = stale \cup {c}
    /\ UNCHANGED <<tc, wrote, told, pub, pc, snap, left, faults>>

Pass ==
    \/ BeginPass \/ gatherIngresses \/ gatherGateways \/ gatherRoutes
    \/ ListClasses \/ (\E c \in Classes : DeleteClass(c)) \/ GetClass
    \/ CreateClass \/ ReplaceClass \/ RecreateClass \/ UpdateClass \/ AcceptClass
    \/ SkipApply \/ Prune \/ WriteRefusals \/ EndPass
    \/ \E k \in Kinds : ApplyObject(k) \/ PruneObject(k) \/ WriteRefusal(k)

Tenant == (\E k \in Kinds : Rewrite(k)) \/ (\E c \in Classes : Tamper(c))

Next == Pass \/ Abort \/ Reconfigure \/ Tenant

Spec == Init /\ [][Next]_vars

(* A pass follows the last one after the sync interval, and each of its calls *)
(* returns: controller-runtime requeues, and every client call has a deadline. *)
FairSpec == Spec /\ WF_vars(Pass)

--------------------------------------------------------------------------------
(* What a pattern grants, as a set: itself, and every plain label put before    *)
(* what follows its wildcard.  hostname.go:17-34 says it in words.              *)
Grant(p) ==
    {p} \cup IF IsPrefix(p) THEN {<<l>> \o Tail(p) : l \in Labels \ (Starred \cup {""})} ELSE {}

Granted(h, patterns) ==
    /\ canonical(h) \in (UNION {Grant(canonical(p)) : p \in patterns}) \ {<<"">>}
    /\ Wild(canonical(h)) => \E p \in patterns : canonical(p) = canonical(h)

(* Of every name there is, a pass allows exactly those that the registration it *)
(* reads grants: one label under a wildcard and no deeper, a wildcard only by   *)
(* itself, case and root dot aside, and never the empty name                    *)
(* (hostname.go:35-63).                                                         *)
AuthorityExact ==
    [][pc = "idle" /\ pc' # "idle" =>
          \A h \in Names : Allowed(h, snap'.tc.domains) <=> Granted(h, snap'.tc.domains)]_vars

(* A host object is written with names the tenant wrote and the registration   *)
(* grants, and a route is left to inherit its listeners' names only if that is  *)
(* what the tenant wrote (ingress.go:51, gateway.go:180).                       *)
PublishedAsWritten ==
    [][\A k \in Kinds : pub'[k] # pub[k] /\ pub'[k] # Absent =>
          \A f \in Fields[k] :
             /\ pub'[k][f] \subseteq {n \in snap.wrote[k][f] : Granted(n, snap.tc.domains)}
             /\ k = "route" /\ pub'[k][f] = {} => snap.wrote[k][f] = {}]_vars

Serves(k) == IF pub[k] = Absent THEN {} ELSE UNION {pub[k][f] : f \in Fields[k]}

(* Once the edits and the failures end, the host serves for good no name that   *)
(* the registration does not grant, whichever object carried it and whether     *)
(* others of its names stay (pass.go:751, 776, 801 replace the spec; pruneAll    *)
(* takes the rest).                                                              *)
WithdrawnStops ==
    <>[](\A k \in Kinds : \A n \in Serves(k) : Granted(n, tc.domains))

Syncs(k) == (IF k = "ingress" THEN "ingresses" ELSE "gateways") \in tc.sync
Ungranted(k, f) == {n \in wrote[k][f] : ~Granted(n, tc.domains)}

(* What the tenant is owed on its object: every name it wrote and may not have, *)
(* the TLS names once a rule of the Ingress is published, and of a Gateway none *)
(* while there is no class to publish it with.                                  *)
Owed(k) ==
    CASE k = "ingress" -> Ungranted(k, "rules") \cup
                             IF Ungranted(k, "rules") = wrote[k].rules THEN {}
                             ELSE Ungranted(k, "tls")
      [] k = "gateway" -> IF tc.class = NoClassName THEN {} ELSE Ungranted(k, "listeners")
      [] k = "route"   -> Ungranted(k, "hostnames")

(* The refusal annotation of every object in scope settles on exactly what the   *)
(* tenant is owed, a refusal that no longer applies being taken back             *)
(* (writeback.go:216-277: "never a silent drop").                                *)
TellsTruth == <>[](\A k \in Kinds : Syncs(k) => told[k] = Owed(k))

(* The class the registration names settles in the guest with the domains it     *)
(* has now, whatever the tenant did to it, and no other class keeps our label    *)
(* (pass.go:489-575).                                                            *)
ClassFollows ==
    <>[](\A c \in Classes :
            IF c = Wanted(tc) THEN gclass[c] = [Mirror(tc.domains) EXCEPT !.accepted = TRUE]
            ELSE ~gclass[c].label)
================================================================================
