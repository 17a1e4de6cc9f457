------------------------------- MODULE NodePlugin -------------------------------
(***************************************************************************)
(* One volume at the guest's end (internal/csinode/node.go): the CSI node  *)
(* plugin of every node, the kubelet that calls it, and the disk that the  *)
(* host, as VolumeCustody promises, plugs into one VM or another.          *)
(*                                                                         *)
(* The plugin keeps no state and takes no lock: what it knows is what is   *)
(* mounted.  gRPC serves every call in a goroutine of its own, and after   *)
(* waitForDevice nothing looks at the call's context, so a handler may     *)
(* outlive its call and run beside the next one.  Each node has therefore  *)
(* two: "call", whose answer the kubelet awaits, and "late".               *)
(***************************************************************************)
EXTENDS Naturals

CONSTANTS
    Nodes,      \* guest nodes
    MaxFaults   \* bound on crashes, reboots, failed, lost and forced calls, together

ASSUME PluginAssumption == MaxFaults \in Nat

VARIABLES
    disk, ready, lease,     \* the host's side: VolumeCustody
    fs,         \* what blkid finds on the volume: "blank" or "ext4"
    written,    \* a pod has written to the filesystem on it
    linked,     \* nodes whose /dev/disk/by-id names the disk
    staged,     \* what is mounted at a node's staging path
    bound,      \* what is mounted at the pod's target path
    pc,         \* the step of each handler of each node
    seen,       \* what the kubelet takes the volume for: "unsure" and "halfbound"
                \* are its uncertain states
    want,       \* nodes on which a pod wants the volume
    stray,      \* nodes on which a handler outlived its call, since their boot
    torn,       \* nodes that lost their VolumeAttachment while they used the volume
    faults

custody == <<disk, ready, lease>>
volume  == <<fs, written>>
mounts  == <<linked, staged, bound>>
kubelet == <<pc, seen>>
ghosts  == <<stray, torn>>
vars    == <<custody, volume, mounts, kubelet, want, ghosts, faults>>

(* The VMs stay, and so does the claim: what goes with them is StorageSync's   *)
(* subject.                                                                    *)
Custody == INSTANCE VolumeCustody WITH Mortal <- {}, contract <- "live"

StageSteps == {"find", "check", "probe", "format", "mount"}
Steps      == StageSteps \cup {"publish", "unpublish", "unstage"}
Handlers   == {"call", "late"}

TypeOK ==
    /\ Custody!CustodyTypeOK
    /\ fs \in {"blank", "ext4"} /\ written \in BOOLEAN
    /\ linked \subseteq ready
    /\ staged \in [Nodes -> {"none", "live", "dead"}]
    /\ bound \in [Nodes -> {"none", "live", "dead", "dir"}]
    /\ pc \in [Nodes -> [Handlers -> Steps \cup {"idle"}]]
    /\ seen \in [Nodes -> {"none", "unsure", "staged", "halfbound", "bound"}]
    /\ want \subseteq Nodes /\ stray \subseteq Nodes /\ torn \subseteq Nodes
    /\ faults \in 0..MaxFaults

Init ==
    /\ Custody!Init
    /\ fs = "blank" /\ written = FALSE
    /\ linked = {} /\ want = {} /\ stray = {} /\ torn = {}
    /\ staged = [n \in Nodes |-> "none"]
    /\ bound = [n \in Nodes |-> "none"]
    /\ pc = [n \in Nodes |-> [h \in Handlers |-> "idle"]]
    /\ seen = [n \in Nodes |-> "none"]
    /\ faults = 0

--------------------------------------------------------------------------------
(* How a handler goes on, and how it ends: the kubelet learns of the end only  *)
(* when it still waits for it.                                                 *)
At(n, h, step) == pc[n][h] = step
Go(n, h, step) == pc' = [pc EXCEPT ![n][h] = step] /\ UNCHANGED seen

Answer(n, h, verdict) ==
    /\ pc' = [pc EXCEPT ![n][h] = "idle"]
    /\ seen' = IF h = "call" THEN [seen EXCEPT ![n] = verdict] ELSE seen

(* The kubelet's verdict on a call that failed for good, and on one whose      *)
(* answer is missing.                                                          *)
Failed(step)  == CASE step \in StageSteps -> "none"      [] step = "publish" -> "staged"
                   [] step = "unpublish"  -> "halfbound" [] step = "unstage" -> "unsure"
Missing(step) == IF step \in {"publish", "unpublish"} THEN "halfbound" ELSE "unsure"

Plugin(unchanged) == UNCHANGED <<custody, want, ghosts, unchanged>>
--------------------------------------------------------------------------------
(* NodeStageVolume.  waitForDevice polls first and looks at the clock after,   *)
(* so the deadline ends only a wait whose last poll found nothing.             *)
SerialMismatch(n) == FALSE
InByID(n)         == n \in linked

FindDevice(n, h) ==
    /\ At(n, h, "find") /\ InByID(n)
    /\ Go(n, h, "check")
    /\ Plugin(<<volume, mounts, faults>>)

DeviceTimeout(n, h) ==
    /\ At(n, h, "find") /\ ~InByID(n)
    /\ Answer(n, h, Failed("find"))
    /\ Plugin(<<volume, mounts, faults>>)

(* Whatever is mounted at the staging path passes for the volume.  The check   *)
(* returns no error of its own: one counts as "not mounted", which it is when  *)
(* the path is not there, the one error modelled.                              *)
InvertedCheck(n) == staged[n] = "none"
AlreadyStaged(n) == staged[n] # "none"

CheckStaged(n, h) ==
    /\ At(n, h, "check")
    /\ IF AlreadyStaged(n) THEN Answer(n, h, "staged") ELSE Go(n, h, "probe")
    /\ Plugin(<<volume, mounts, faults>>)

(* FormatAndMount: blkid, mkfs when it found nothing, mount.  mkfs refuses a   *)
(* mounted device, mount one that is mounted there already.                    *)
Mounted(n) == "live" \in {staged[n], bound[n]}

FormatAlways(n) == "format"
AwaitFsck(n)    == IF fs = "blank" THEN "format" ELSE "fsck"
AfterProbe(n)   == IF fs = "blank" THEN "format" ELSE "mount"

Probe(n, h) ==
    /\ At(n, h, "probe") /\ n \in ready
    /\ Go(n, h, AfterProbe(n))
    /\ Plugin(<<volume, mounts, faults>>)

Format(n, h) ==
    /\ At(n, h, "format") /\ n \in ready /\ ~Mounted(n)
    /\ fs' = "ext4" /\ written' = FALSE
    /\ Go(n, h, "mount")
    /\ Plugin(<<mounts, faults>>)

Mount(n, h) ==
    /\ At(n, h, "mount") /\ n \in ready /\ staged[n] # "live"
    /\ staged' = [staged EXCEPT ![n] = "live"]
    /\ Answer(n, h, "staged")
    /\ Plugin(<<volume, linked, bound, faults>>)

MountFails(n, h) ==
    /\ \/ At(n, h, "probe") /\ n \notin ready
       \/ At(n, h, "format") /\ (n \notin ready \/ Mounted(n))
       \/ At(n, h, "mount") /\ (n \notin ready \/ staged[n] = "live")
    /\ Answer(n, h, Failed("mount"))
    /\ Plugin(<<volume, mounts, faults>>)

(* NodeUnstageVolume. *)
UnmountForgotten(n) == staged[n]
Unmounted(n)        == "none"

NodeUnstage(n, h) ==
    /\ At(n, h, "unstage")
    /\ staged' = [staged EXCEPT ![n] = Unmounted(n)]
    /\ Answer(n, h, "none")
    /\ Plugin(<<volume, linked, bound, faults>>)

(* NodePublishVolume: what is at the target already passes; else the staging   *)
(* path is bound there, a mount or a mere directory.                           *)
NodePublish(n, h) ==
    /\ At(n, h, "publish")
    /\ bound' = [bound EXCEPT ![n] = IF bound[n] # "none" THEN bound[n]
                                     ELSE IF staged[n] = "none" THEN "dir" ELSE staged[n]]
    /\ Answer(n, h, "bound")
    /\ Plugin(<<volume, linked, staged, faults>>)

(* NodeUnpublishVolume. *)
NodeUnpublish(n, h) ==
    /\ At(n, h, "unpublish")
    /\ bound' = [bound EXCEPT ![n] = "none"]
    /\ Answer(n, h, "staged")
    /\ Plugin(<<volume, linked, staged, faults>>)

Fault == faults < MaxFaults /\ faults' = faults + 1

(* Any other error a handler returns: a directory not made, a command failed.  *)
(* What is mounted already is found first, and is no error.                    *)
HandlerFails(n, h) ==
    /\ pc[n][h] \notin {"idle", "find", "check"}
    /\ At(n, h, "publish") => bound[n] = "none"
    /\ Fault
    /\ Answer(n, h, Failed(pc[n][h]))
    /\ Plugin(<<volume, mounts>>)

--------------------------------------------------------------------------------
(* The kubelet, external: one call per volume at a time, repeated until it     *)
(* succeeds; it stages once the VolumeAttachment says attached.                *)
Call(n, step) ==
    /\ At(n, "call", "idle")
    /\ Go(n, "call", step)
    /\ Plugin(<<volume, mounts, faults>>)

CallStage(n) ==
    /\ n \in want /\ lease[n] = "attached" /\ seen[n] \in {"none", "unsure"}
    /\ Call(n, "find")
CallPublish(n)   == n \in want /\ seen[n] \in {"staged", "halfbound"} /\ Call(n, "publish")
CallUnpublish(n) == n \notin want /\ seen[n] \in {"halfbound", "bound"} /\ Call(n, "unpublish")
CallUnstage(n)   == n \notin want /\ seen[n] \in {"unsure", "staged"} /\ Call(n, "unstage")

(* The call times out.  A handler still polling for the device sees its context *)
(* end; any other runs on.                                                      *)
CallTimesOut(n) ==
    LET step == pc[n]["call"] IN
    /\ step # "idle" /\ At(n, "late", "idle")
    /\ Fault
    /\ seen' = [seen EXCEPT ![n] = Missing(step)]
    /\ pc' = [pc EXCEPT ![n] = [h \in Handlers |->
                                   IF h = "late" /\ step # "find" THEN step ELSE "idle"]]
    /\ stray' = IF step = "find" THEN stray ELSE stray \cup {n}
    /\ UNCHANGED <<custody, volume, mounts, want, torn>>

(* The plugin's container dies with its handlers; mounts outlive it.           *)
PluginCrash(n) ==
    LET step == pc[n]["call"] IN
    /\ \E h \in Handlers : ~At(n, h, "idle")
    /\ Fault
    /\ pc' = [pc EXCEPT ![n] = [h \in Handlers |-> "idle"]]
    /\ seen' = IF step = "idle" THEN seen ELSE [seen EXCEPT ![n] = Missing(step)]
    /\ Plugin(<<volume, mounts>>)

(* A reboot leaves no mount, no handler and no memory.                         *)
Reboot(n) ==
    /\ Fault
    /\ pc' = [pc EXCEPT ![n] = [h \in Handlers |-> "idle"]]
    /\ seen' = [seen EXCEPT ![n] = "none"]
    /\ staged' = [staged EXCEPT ![n] = "none"]
    /\ bound' = [bound EXCEPT ![n] = "none"]
    /\ linked' = linked \ {n}
    /\ stray' = stray \ {n} /\ torn' = torn \ {n}
    /\ UNCHANGED <<custody, volume, want>>

Settle(n) ==
    /\ n \in ready \ linked
    /\ linked' = linked \cup {n}
    /\ UNCHANGED <<custody, volume, staged, bound, kubelet, want, ghosts, faults>>

(* The pod, one at a time; it moves when it is evicted here and scheduled there. *)
SchedulePod(n) ==
    /\ want = {} /\ want' = {n}
    /\ UNCHANGED <<custody, volume, mounts, kubelet, ghosts, faults>>

EvictPod(n) ==
    /\ n \in want /\ want' = want \ {n}
    /\ UNCHANGED <<custody, volume, mounts, kubelet, ghosts, faults>>

Write(n) ==
    /\ n \in want /\ seen[n] = "bound" /\ bound[n] = "live"
    /\ written' = TRUE
    /\ UNCHANGED <<custody, fs, mounts, kubelet, want, ghosts, faults>>

--------------------------------------------------------------------------------
(* The VolumeAttachment, on the guest's side: asked for with the pod, given    *)
(* back when the node no longer uses the volume, or by force.                  *)
Rest == <<volume, mounts, kubelet, want, stray>>

InUse(n) == seen[n] # "none" \/ ~At(n, "call", "idle")

Attach(n)   == n \in want /\ Custody!Ask(n) /\ UNCHANGED <<Rest, torn, faults>>
Withdraw(n) == n \notin want /\ Custody!Withdraw(n) /\ UNCHANGED <<Rest, torn, faults>>

Detach(n) ==
    /\ n \notin want /\ ~InUse(n)
    /\ Custody!End(n)
    /\ UNCHANGED <<Rest, torn, faults>>

ForceDetach(n) ==
    /\ InUse(n) /\ Fault
    /\ Custody!End(n)
    /\ torn' = torn \cup {n}
    /\ UNCHANGED Rest

(* On the host's: StorageSync, in the words of VolumeCustody.  A mount of a    *)
(* disk that is unplugged stays, dead.                                         *)
Serve(n) ==
    /\ Custody!Hold(n) \/ Custody!Plug(n) \/ Custody!Appear(n) \/ Custody!Tell(n)
       \/ Custody!Return(n)
    /\ UNCHANGED <<Rest, torn, faults>>

Dies(m) == [n \in Nodes |-> IF m[n] = "live" THEN "dead" ELSE m[n]]

Unplug(n) ==
    /\ Custody!Unplug(n)
    /\ linked' = {} /\ staged' = Dies(staged) /\ bound' = Dies(bound)
    /\ UNCHANGED <<volume, kubelet, want, ghosts, faults>>

--------------------------------------------------------------------------------
Handler(n, h) ==
    \/ FindDevice(n, h) \/ DeviceTimeout(n, h) \/ CheckStaged(n, h)
    \/ Probe(n, h) \/ Format(n, h) \/ Mount(n, h) \/ MountFails(n, h)
    \/ NodeUnstage(n, h) \/ NodePublish(n, h) \/ NodeUnpublish(n, h)

Kubelet(n) == CallStage(n) \/ CallPublish(n) \/ CallUnpublish(n) \/ CallUnstage(n)

Next ==
    \E n \in Nodes :
        \/ \E h \in Handlers : Handler(n, h) \/ HandlerFails(n, h)
        \/ Kubelet(n) \/ CallTimesOut(n) \/ PluginCrash(n) \/ Reboot(n) \/ Settle(n)
        \/ SchedulePod(n) \/ EvictPod(n) \/ Write(n)
        \/ Attach(n) \/ Withdraw(n) \/ Detach(n) \/ ForceDetach(n)
        \/ Serve(n) \/ Unplug(n)

Spec == Init /\ [][Next]_vars

(* Handlers run, the kubelet retries, udev settles.  Pods, the attach/detach   *)
(* controller, the host and faults owe nothing.                                *)
Fairness ==
    \A n \in Nodes :
        WF_vars(Handler(n, "call")) /\ WF_vars(Kubelet(n)) /\ WF_vars(Settle(n))

FairSpec == Spec /\ Fairness

--------------------------------------------------------------------------------
(* Node n's kubelet had its calls one at a time, and its VolumeAttachment for  *)
(* as long as it used the volume.                                              *)
InOrder(n) == n \notin stray \cup torn

(* FormatAndMount "formats ONLY when the device carries no filesystem": what a *)
(* pod wrote is there for every later attach, on any node, after any crash,    *)
(* reboot or retry.  Between its blkid and its mkfs only the kubelet's         *)
(* one-call-at-a-time and the VolumeAttachment keep another mkfs out.          *)
DataKept == [][written /\ (\A n \in Nodes : InOrder(n)) => written']_vars

(* A pod that the kubelet started sees the volume: neither the node's own      *)
(* directory under it, nor what is left of an earlier attachment.              *)
PodSeesVolume == \A n \in Nodes : seen[n] = "bound" /\ InOrder(n) => bound[n] = "live"

(* The disk is never unplugged under a mount: the kubelet's unstage, its       *)
(* VolumeAttachment and the host's release of it come in this order.           *)
UnmountedBeforeUnplug ==
    [][\A n \in Nodes : n \in disk \ disk' /\ InOrder(n)
                            => staged[n] = "none" /\ bound[n] = "none"]_vars

(* A disk that shows up late costs a timeout and a retry, never the pod.       *)
PodStarts ==
    \A n \in Nodes : n \in want /\ lease[n] = "attached"
        ~> seen[n] = "bound" \/ n \notin want \/ lease[n] # "attached"
================================================================================
