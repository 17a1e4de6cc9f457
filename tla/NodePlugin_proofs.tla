--------------------------- MODULE NodePlugin_proofs ---------------------------
(***************************************************************************)
(* Theorems about NodePlugin, for any nodes and any number of faults.      *)
(***************************************************************************)
EXTENDS NodePlugin, TLAPS

(* What the host promises (VolumeCustody, where CustodyPromise proves it): the *)
(* disk is in one VM, and a node that was told "attached" has it.              *)
Promised == Custody!CustodyTypeOK /\ Custody!InOneVM /\ Custody!DiskThere

(* What is written is on a filesystem, and so is what is or will be mounted.   *)
Formatted ==
    /\ written => fs = "ext4"
    /\ \A n \in Nodes :
          "live" \in {staged[n], bound[n]} \/ (\E h \in Handlers : At(n, h, "mount"))
             => fs = "ext4"

(* While node n's calls come one at a time and its VolumeAttachment lasts:     *)
(* what the kubelet takes the volume for is what is mounted; whatever is in    *)
(* use is attached; what is mounted, or was found, is under by-id; and a       *)
(* handler about to format has the only disk, still blank.                     *)
InStep(n) ==
    LET c == pc[n]["call"] IN
    /\ At(n, "late", "idle")
    /\ InUse(n) => lease[n] = "attached"
    /\ staged[n] \in {"none", "live"} /\ bound[n] \in {"none", "live"}
    /\ staged[n] = "live" => seen[n] # "none"
    /\ bound[n] = "live" => seen[n] \in {"halfbound", "bound"}
    /\ seen[n] \in {"staged", "halfbound", "bound"} => staged[n] = "live"
    /\ seen[n] = "bound" => bound[n] = "live"
    /\ c \in StageSteps => seen[n] \in {"none", "unsure"}
    /\ c \in {"probe", "format", "mount"} => staged[n] = "none"
    /\ c \in {"check", "probe", "format", "mount"} \/ staged[n] = "live" => n \in linked
    /\ c = "publish" => seen[n] \in {"staged", "halfbound"}
    /\ c = "unpublish" => seen[n] \in {"halfbound", "bound"}
    /\ c = "unstage" => seen[n] \in {"unsure", "staged"}
    /\ c = "format" => fs = "blank"

PluginInv == Promised /\ Formatted /\ \A n \in Nodes : InOrder(n) => InStep(n)

USE DEF Steps, StageSteps, Handlers

--------------------------------------------------------------------------------
(* The host's side, as in VolumeCustody_proofs. *)

LeaseChange(n) ==
    \/ Custody!Ask(n) \/ Custody!Withdraw(n) \/ Custody!Hold(n) \/ Custody!End(n)
    \/ Custody!Tell(n) \/ Custody!Return(n)

(* A lease changes, of one node: what it is and what it becomes.               *)
LEMMA LeaseSteps ==
  ASSUME Promised, NEW n \in Nodes, LeaseChange(n)
  PROVE  /\ Promised'
         /\ disk' = disk /\ ready' = ready
         /\ \A m \in Nodes \ {n} : lease'[m] = lease[m]
         /\ lease[n] = "attached" => Custody!End(n)
<1> USE DEF Promised, Custody!CustodyTypeOK, Custody!InOneVM, Custody!DiskThere,
            Custody!Firm, Custody!Leases, Custody!Lease
<1>1. CASE Custody!Ask(n)
  BY <1>1 DEF Custody!Ask
<1>2. CASE Custody!Withdraw(n)
  BY <1>2 DEF Custody!Withdraw
<1>3. CASE Custody!Hold(n)
  BY <1>3 DEF Custody!Hold
<1>4. CASE Custody!End(n)
  BY <1>4 DEF Custody!End
<1>5. CASE Custody!Tell(n)
  BY <1>5 DEF Custody!Tell
<1>6. CASE Custody!Return(n)
  BY <1>6 DEF Custody!Return
<1> QED
  BY <1>1, <1>2, <1>3, <1>4, <1>5, <1>6 DEF LeaseChange

(* The disk comes.                                                             *)
LEMMA DiskComes ==
  ASSUME Promised, NEW n \in Nodes, Custody!Plug(n) \/ Custody!Appear(n)
  PROVE  Promised' /\ lease' = lease /\ ready \subseteq ready' /\ disk \subseteq disk'
<1> USE DEF Promised, Custody!CustodyTypeOK, Custody!InOneVM, Custody!DiskThere,
            Custody!Firm, Custody!Leases
<1>1. CASE Custody!Plug(n)
  BY <1>1 DEF Custody!Plug
<1>2. CASE Custody!Appear(n)
  BY <1>2 DEF Custody!Appear
<1> QED
  BY <1>1, <1>2

(* The disk goes, from a node that is not attached, and then from every node.  *)
LEMMA DiskGoes ==
  ASSUME Promised, NEW n \in Nodes, Custody!Unplug(n)
  PROVE  /\ Promised' /\ lease' = lease /\ disk' = {} /\ ready' = {}
         /\ disk = {n}
         /\ \A m \in Nodes : lease[m] # "attached"
<1> USE DEF Promised, Custody!CustodyTypeOK, Custody!InOneVM, Custody!DiskThere,
            Custody!Firm, Custody!Leases
<1> QED
  BY DEF Custody!Unplug

LEMMA PromiseStays ==
  ASSUME Promised, UNCHANGED custody
  PROVE  Promised'
BY DEF Promised, custody, Custody!CustodyTypeOK, Custody!InOneVM, Custody!DiskThere,
       Custody!Firm, Custody!Leases

--------------------------------------------------------------------------------
(* Types. *)

PluginTypeOK ==
    /\ fs \in {"blank", "ext4"} /\ written \in BOOLEAN
    /\ staged \in [Nodes -> {"none", "live", "dead"}]
    /\ bound \in [Nodes -> {"none", "live", "dead", "dir"}]
    /\ pc \in [Nodes -> [Handlers -> Steps \cup {"idle"}]]
    /\ seen \in [Nodes -> {"none", "unsure", "staged", "halfbound", "bound"}]
    /\ want \subseteq Nodes /\ stray \subseteq Nodes /\ torn \subseteq Nodes
    /\ faults \in 0..MaxFaults

(* How a handler moves its own step and its kubelet's view, and nothing else.   *)
LEMMA Goes ==
  ASSUME PluginTypeOK, NEW n \in Nodes, NEW h \in Handlers, NEW step \in Steps, Go(n, h, step)
  PROVE  /\ pc' \in [Nodes -> [Handlers -> Steps \cup {"idle"}]]
         /\ seen' = seen
         /\ pc'[n][h] = step
         /\ \A g \in Handlers \ {h} : pc'[n][g] = pc[n][g]
         /\ \A m \in Nodes \ {n} : pc'[m] = pc[m]
BY DEF PluginTypeOK, Go

LEMMA Answers ==
  ASSUME PluginTypeOK, NEW n \in Nodes, NEW h \in Handlers,
         NEW verdict \in {"none", "unsure", "staged", "halfbound", "bound"},
         Answer(n, h, verdict)
  PROVE  /\ pc' \in [Nodes -> [Handlers -> Steps \cup {"idle"}]]
         /\ seen' \in [Nodes -> {"none", "unsure", "staged", "halfbound", "bound"}]
         /\ pc'[n][h] = "idle"
         /\ \A g \in Handlers \ {h} : pc'[n][g] = pc[n][g]
         /\ h = "call" => seen'[n] = verdict
         /\ \A m \in Nodes \ {n} : pc'[m] = pc[m] /\ seen'[m] = seen[m]
<1>1. pc' = [pc EXCEPT ![n][h] = "idle"]
  BY DEF Answer
<1>2. seen' = IF h = "call" THEN [seen EXCEPT ![n] = verdict] ELSE seen
  BY DEF Answer
<1>3. seen' \in [Nodes -> {"none", "unsure", "staged", "halfbound", "bound"}]
  BY <1>2 DEF PluginTypeOK
<1> QED
  BY <1>1, <1>2, <1>3 DEF PluginTypeOK

LEMMA Verdicts ==
  ASSUME NEW step \in Steps
  PROVE  /\ Failed(step) \in {"none", "unsure", "staged", "halfbound", "bound"}
         /\ Missing(step) \in {"none", "unsure", "staged", "halfbound", "bound"}
<1>1. CASE step \in StageSteps
  BY <1>1 DEF Failed, Missing
<1>2. CASE step = "publish"
  BY <1>2 DEF Failed, Missing
<1>3. CASE step = "unpublish"
  BY <1>3 DEF Failed, Missing
<1>4. CASE step = "unstage"
  BY <1>4 DEF Failed, Missing
<1> QED
  BY <1>1, <1>2, <1>3, <1>4

(* A step that leaves the host alone and links no disk keeps the types, if it  *)
(* keeps the plugin's.                                                         *)
LEMMA TypeFrame ==
  ASSUME TypeOK, UNCHANGED custody, linked' \subseteq linked, PluginTypeOK'
  PROVE  TypeOK'
BY DEF TypeOK, PluginTypeOK, custody, Custody!CustodyTypeOK, Custody!Leases

LEMMA HandlerTypes ==
  ASSUME TypeOK, NEW n \in Nodes, NEW h \in Handlers, Handler(n, h) \/ HandlerFails(n, h)
  PROVE  TypeOK'
<1>0. PluginTypeOK /\ faults \in 0..MaxFaults
  BY DEF TypeOK, PluginTypeOK
<1> USE DEF Plugin, volume, mounts, ghosts, At
<1>1. CASE FindDevice(n, h)
  <2>1. PluginTypeOK'
    BY <1>0, <1>1, Goes DEF FindDevice, PluginTypeOK
  <2> QED
    BY <1>1, <2>1, TypeFrame DEF FindDevice
<1>2. CASE DeviceTimeout(n, h)
  <2>1. PluginTypeOK'
    BY <1>0, <1>2, Answers, Verdicts DEF DeviceTimeout, PluginTypeOK
  <2> QED
    BY <1>2, <2>1, TypeFrame DEF DeviceTimeout
<1>3. CASE CheckStaged(n, h)
  <2>1. PluginTypeOK'
    BY <1>0, <1>3, Answers, Goes DEF CheckStaged, PluginTypeOK
  <2> QED
    BY <1>3, <2>1, TypeFrame DEF CheckStaged
<1>4. CASE Probe(n, h)
  <2>1. AfterProbe(n) \in Steps
    BY DEF AfterProbe
  <2>2. PluginTypeOK'
    BY <1>0, <1>4, <2>1, Goes DEF Probe, PluginTypeOK
  <2> QED
    BY <1>4, <2>2, TypeFrame DEF Probe
<1>5. CASE Format(n, h)
  <2>1. PluginTypeOK'
    BY <1>0, <1>5, Goes DEF Format, PluginTypeOK
  <2> QED
    BY <1>5, <2>1, TypeFrame DEF Format
<1>6. CASE Mount(n, h)
  <2>1. PluginTypeOK'
    BY <1>0, <1>6, Answers DEF Mount, PluginTypeOK
  <2> QED
    BY <1>6, <2>1, TypeFrame DEF Mount
<1>7. CASE MountFails(n, h)
  <2>1. PluginTypeOK'
    BY <1>0, <1>7, Answers, Verdicts DEF MountFails, PluginTypeOK
  <2> QED
    BY <1>7, <2>1, TypeFrame DEF MountFails
<1>8. CASE NodeUnstage(n, h)
  <2>1. PluginTypeOK'
    BY <1>0, <1>8, Answers DEF NodeUnstage, Unmounted, PluginTypeOK
  <2> QED
    BY <1>8, <2>1, TypeFrame DEF NodeUnstage
<1>9. CASE NodePublish(n, h)
  <2>1. PluginTypeOK'
    BY <1>0, <1>9, Answers DEF NodePublish, PluginTypeOK
  <2> QED
    BY <1>9, <2>1, TypeFrame DEF NodePublish
<1>10. CASE NodeUnpublish(n, h)
  <2>1. PluginTypeOK'
    BY <1>0, <1>10, Answers DEF NodeUnpublish, PluginTypeOK
  <2> QED
    BY <1>10, <2>1, TypeFrame DEF NodeUnpublish
<1>11. CASE HandlerFails(n, h)
  <2>1. pc[n][h] \in Steps
    BY <1>0, <1>11 DEF HandlerFails, PluginTypeOK
  <2>2. faults' \in 0..MaxFaults
    BY <1>0, <1>11, PluginAssumption DEF HandlerFails, Fault
  <2>3. PluginTypeOK'
    BY <1>0, <1>11, <2>1, <2>2, Answers, Verdicts DEF HandlerFails, PluginTypeOK
  <2> QED
    BY <1>11, <2>3, TypeFrame DEF HandlerFails
<1> QED
  BY <1>1, <1>2, <1>3, <1>4, <1>5, <1>6, <1>7, <1>8, <1>9, <1>10, <1>11 DEF Handler

LEMMA KubeletTypes ==
  ASSUME TypeOK, NEW n \in Nodes,
         \/ Kubelet(n) \/ CallTimesOut(n) \/ PluginCrash(n) \/ Reboot(n) \/ Settle(n)
         \/ SchedulePod(n) \/ EvictPod(n) \/ Write(n)
  PROVE  TypeOK'
<1>0. PluginTypeOK /\ linked \subseteq ready /\ faults \in 0..MaxFaults
  BY DEF TypeOK, PluginTypeOK
<1> USE DEF Plugin, volume, mounts, kubelet, ghosts
<1>1. CASE Kubelet(n)
  <2>1. PICK step \in Steps : Call(n, step)
    BY <1>1 DEF Kubelet, CallStage, CallPublish, CallUnpublish, CallUnstage
  <2>2. PluginTypeOK'
    BY <1>0, <2>1, Goes DEF Call, PluginTypeOK
  <2> QED
    BY <2>1, <2>2, TypeFrame DEF Call
<1>2. ASSUME Fault PROVE faults' \in 0..MaxFaults
  BY <1>0, <1>2, PluginAssumption DEF Fault
<1>3. CASE CallTimesOut(n)
  <2>1. pc[n]["call"] \in Steps
    BY <1>0, <1>3 DEF CallTimesOut, PluginTypeOK
  <2>2. pc' \in [Nodes -> [Handlers -> Steps \cup {"idle"}]]
    BY <1>0, <1>3, <2>1 DEF CallTimesOut, PluginTypeOK
  <2>3. seen' \in [Nodes -> {"none", "unsure", "staged", "halfbound", "bound"}]
    BY <1>0, <1>3, <2>1, Verdicts DEF CallTimesOut, PluginTypeOK
  <2>4. PluginTypeOK'
    BY <1>0, <1>2, <1>3, <2>2, <2>3 DEF CallTimesOut, PluginTypeOK
  <2> QED
    BY <1>3, <2>4, TypeFrame DEF CallTimesOut
<1>4. CASE PluginCrash(n)
  <2>1. pc[n]["call"] \in Steps \cup {"idle"}
    BY <1>0 DEF PluginTypeOK
  <2>2. pc' \in [Nodes -> [Handlers -> Steps \cup {"idle"}]]
    BY <1>0, <1>4 DEF PluginCrash, PluginTypeOK
  <2>3. seen' \in [Nodes -> {"none", "unsure", "staged", "halfbound", "bound"}]
    BY <1>0, <1>4, <2>1, Verdicts DEF PluginCrash, PluginTypeOK
  <2>4. PluginTypeOK'
    BY <1>0, <1>2, <1>4, <2>2, <2>3 DEF PluginCrash, PluginTypeOK
  <2> QED
    BY <1>4, <2>4, TypeFrame DEF PluginCrash
<1>5. CASE Reboot(n)
  <2>1. PluginTypeOK'
    BY <1>0, <1>2, <1>5 DEF Reboot, PluginTypeOK
  <2> QED
    BY <1>5, <2>1, TypeFrame DEF Reboot
<1>6. CASE Settle(n)
  BY <1>0, <1>6 DEF Settle, TypeOK, custody, Custody!CustodyTypeOK, Custody!Leases
<1>7. CASE SchedulePod(n) \/ EvictPod(n) \/ Write(n)
  <2>1. PluginTypeOK'
    BY <1>0, <1>7 DEF SchedulePod, EvictPod, Write, PluginTypeOK
  <2> QED
    BY <1>7, <2>1, TypeFrame DEF SchedulePod, EvictPod, Write
<1> QED
  BY <1>1, <1>3, <1>4, <1>5, <1>6, <1>7

(* Leases and the disk: the plugin's own state stays typed, whoever moves.     *)
LEMMA AttachmentTypes ==
  ASSUME TypeOK, Promised, NEW n \in Nodes,
         \/ Attach(n) \/ Withdraw(n) \/ Detach(n) \/ ForceDetach(n) \/ Serve(n) \/ Unplug(n)
  PROVE  TypeOK' /\ Promised'
<1>0. PluginTypeOK /\ linked \subseteq ready /\ faults \in 0..MaxFaults
  BY DEF TypeOK, PluginTypeOK
<1> USE DEF Rest, volume, mounts, kubelet
<1>1. ASSUME Promised', PluginTypeOK', linked' \subseteq ready' PROVE TypeOK' /\ Promised'
  BY <1>1 DEF Promised, PluginTypeOK, TypeOK
<1>2. CASE Attach(n) \/ Withdraw(n) \/ Detach(n) \/ ForceDetach(n)
  <2>1. LeaseChange(n) /\ UNCHANGED Rest
    BY <1>2 DEF LeaseChange, Attach, Withdraw, Detach, ForceDetach
  <2>2. torn' \subseteq Nodes
    BY <1>0, <1>2 DEF Attach, Withdraw, Detach, ForceDetach, PluginTypeOK
  <2>3. faults' \in 0..MaxFaults
    BY <1>0, <1>2, PluginAssumption DEF Attach, Withdraw, Detach, ForceDetach, Fault
  <2>4. PluginTypeOK'
    BY <1>0, <2>1, <2>2, <2>3 DEF PluginTypeOK
  <2> QED
    BY <1>0, <1>1, <2>1, <2>4, LeaseSteps
<1>3. CASE Serve(n)
  <2>1. PluginTypeOK' /\ linked' = linked
    BY <1>0, <1>3 DEF Serve, PluginTypeOK
  <2>2. CASE LeaseChange(n)
    BY <1>0, <1>1, <2>1, <2>2, LeaseSteps
  <2>3. CASE Custody!Plug(n) \/ Custody!Appear(n)
    BY <1>0, <1>1, <2>1, <2>3, DiskComes
  <2> QED
    BY <1>3, <2>2, <2>3 DEF Serve, LeaseChange
<1>4. CASE Unplug(n)
  <2>1. PluginTypeOK'
    BY <1>0, <1>4 DEF Unplug, Dies, PluginTypeOK, ghosts
  <2> QED
    BY <1>1, <1>4, <2>1, DiskGoes DEF Unplug
<1> QED
  BY <1>2, <1>3, <1>4

--------------------------------------------------------------------------------
(* The invariant. *)

(* A node nothing happened to is as it was.                                    *)
LEMMA Elsewhere ==
  ASSUME NEW m \in Nodes, InOrder(m) => InStep(m),
         pc'[m] = pc[m], seen'[m] = seen[m], staged'[m] = staged[m], bound'[m] = bound[m],
         lease[m] = "attached" => lease'[m] = "attached",
         m \in linked => m \in linked',
         InOrder(m)' => InOrder(m),
         fs' = fs \/ pc[m]["call"] # "format"
  PROVE  (InOrder(m) => InStep(m))'
BY DEF InStep, InUse, At

(* Two nodes are not both about to use the disk.                               *)
LEMMA OneUser ==
  ASSUME Promised, NEW m \in Nodes, NEW n \in Nodes,
         InOrder(m) => InStep(m), InOrder(m), InUse(m), n \in ready
  PROVE  m = n
BY DEF Promised, Custody!CustodyTypeOK, Custody!InOneVM, Custody!DiskThere, Custody!Firm,
       InStep

(* A step of node n alone: what is left to show of it.                         *)
LEMMA OneNode ==
  ASSUME TypeOK, PluginInv, NEW n \in Nodes, UNCHANGED custody,
         \A m \in Nodes \ {n} : /\ pc'[m] = pc[m] /\ seen'[m] = seen[m]
                                /\ staged'[m] = staged[m] /\ bound'[m] = bound[m],
         linked \ {n} \subseteq linked', stray \ {n} \subseteq stray', torn \ {n} \subseteq torn',
         fs' = fs \/ n \in ready,
         Formatted', InOrder(n)' => InStep(n)'
  PROVE  PluginInv'
<1>1. Promised'
  BY PromiseStays DEF PluginInv
<1>2. ASSUME NEW m \in Nodes \ {n} PROVE (InOrder(m) => InStep(m))'
  <2>1. InOrder(m)' => InOrder(m)
    BY <1>2 DEF InOrder
  <2>2. CASE InOrder(m)
    <3>1. fs' = fs \/ pc[m]["call"] # "format"
      <4>1. pc[m]["call"] = "format" => InUse(m)
        BY DEF InUse, At
      <4> QED
        BY <1>2, <2>2, <4>1, OneUser DEF PluginInv
    <3> QED
      BY <1>2, <2>1, <3>1, Elsewhere DEF PluginInv, custody
  <2>3. CASE ~InOrder(m)
    BY <2>1, <2>3
  <2> QED
    BY <2>2, <2>3
<1> QED
  BY <1>1, <1>2 DEF PluginInv

(* What is on the volume, or is being put there.                               *)
Laid(n) == "live" \in {staged[n], bound[n]} \/ \E h \in Handlers : At(n, h, "mount")

LEMMA StaysFormatted ==
  ASSUME Formatted, NEW n \in Nodes, fs' = fs \/ fs' = "ext4", written' => written \/ Laid(n),
         Laid(n)' => Laid(n) \/ fs' = "ext4",
         \A m \in Nodes \ {n} : /\ pc'[m] = pc[m]
                                /\ staged'[m] = staged[m] /\ bound'[m] = bound[m]
  PROVE  Formatted'
BY DEF Formatted, Laid, At

(* NodeStageVolume.                                                            *)
LEMMA StageKeeps ==
  ASSUME TypeOK, PluginInv, NEW n \in Nodes, NEW h \in Handlers,
         \/ FindDevice(n, h) \/ DeviceTimeout(n, h) \/ CheckStaged(n, h)
         \/ Probe(n, h) \/ Format(n, h) \/ Mount(n, h) \/ MountFails(n, h)
  PROVE  PluginInv'
<1>0. PluginTypeOK /\ Formatted
  BY DEF TypeOK, PluginTypeOK, PluginInv
<1>1. UNCHANGED <<custody, ghosts, linked, bound>>
  BY DEF FindDevice, DeviceTimeout, CheckStaged, Probe, Format, Mount, MountFails, Plugin,
         mounts
<1>2. At(n, h, "find") \/ At(n, h, "check") \/ At(n, h, "probe") \/ At(n, h, "format")
         \/ At(n, h, "mount")
  BY DEF FindDevice, DeviceTimeout, CheckStaged, Probe, Format, Mount, MountFails
<1>3. InOrder(n)' => InOrder(n)
  BY <1>1 DEF InOrder, ghosts
<1>4. ASSUME InOrder(n) PROVE InStep(n) /\ h = "call" /\ pc[n]["late"] = "idle"
  BY <1>2, <1>4 DEF PluginInv, InStep, At
<1>5. ASSUME \A m \in Nodes \ {n} : /\ pc'[m] = pc[m] /\ seen'[m] = seen[m]
                                    /\ staged'[m] = staged[m],
             fs' = fs \/ n \in ready, Formatted', InOrder(n) => InStep(n)'
      PROVE  PluginInv'
  BY <1>1, <1>3, <1>5, OneNode DEF ghosts
<1> USE DEF Plugin, volume, mounts
<1> HIDE DEF Handlers
<1>6. "call" \in Handlers /\ "late" \in Handlers
  BY DEF Handlers
<1>7. CASE FindDevice(n, h)
  <2>1. /\ pc'[n][h] = "check" /\ seen' = seen /\ staged' = staged /\ UNCHANGED volume
        /\ \A g \in Handlers \ {h} : pc'[n][g] = pc[n][g]
        /\ \A m \in Nodes \ {n} : pc'[m] = pc[m]
    BY <1>0, <1>7, Goes DEF FindDevice
  <2>2. Formatted'
    BY <1>0, <1>1, <1>6, <2>1, StaysFormatted DEF Laid, At
  <2>3. ASSUME InOrder(n) PROVE InStep(n)'
    BY <1>1, <1>4, <1>6, <1>7, <2>1, <2>3 DEF InStep, InUse, At, FindDevice, InByID, custody
  <2> QED
    BY <1>5, <2>1, <2>2, <2>3
<1>8. CASE DeviceTimeout(n, h)
  <2>1. /\ pc'[n][h] = "idle" /\ staged' = staged /\ UNCHANGED volume
        /\ h = "call" => seen'[n] = "none"
        /\ \A g \in Handlers \ {h} : pc'[n][g] = pc[n][g]
        /\ \A m \in Nodes \ {n} : pc'[m] = pc[m] /\ seen'[m] = seen[m]
    BY <1>0, <1>8, Answers, Verdicts DEF DeviceTimeout, Failed
  <2>2. Formatted'
    BY <1>0, <1>1, <1>6, <2>1, StaysFormatted DEF Laid, At
  <2>3. ASSUME InOrder(n) PROVE InStep(n)'
    BY <1>1, <1>4, <1>6, <1>8, <2>1, <2>3
       DEF InStep, InUse, At, DeviceTimeout, InByID, custody
  <2> QED
    BY <1>5, <2>1, <2>2, <2>3
<1>9. CASE CheckStaged(n, h) /\ AlreadyStaged(n)
  <2>1. /\ pc'[n][h] = "idle" /\ staged' = staged /\ UNCHANGED volume
        /\ h = "call" => seen'[n] = "staged"
        /\ \A g \in Handlers \ {h} : pc'[n][g] = pc[n][g]
        /\ \A m \in Nodes \ {n} : pc'[m] = pc[m] /\ seen'[m] = seen[m]
    BY <1>0, <1>9, Answers DEF CheckStaged
  <2>2. Formatted'
    BY <1>0, <1>1, <1>6, <2>1, StaysFormatted DEF Laid, At
  <2>3. ASSUME InOrder(n) PROVE InStep(n)'
    BY <1>1, <1>4, <1>6, <1>9, <2>1, <2>3
       DEF InStep, InUse, At, CheckStaged, AlreadyStaged, custody
  <2> QED
    BY <1>5, <2>1, <2>2, <2>3
<1>10. CASE CheckStaged(n, h) /\ ~AlreadyStaged(n)
  <2>1. /\ pc'[n][h] = "probe" /\ seen' = seen /\ staged' = staged /\ UNCHANGED volume
        /\ \A g \in Handlers \ {h} : pc'[n][g] = pc[n][g]
        /\ \A m \in Nodes \ {n} : pc'[m] = pc[m]
    BY <1>0, <1>10, Goes DEF CheckStaged
  <2>2. Formatted'
    BY <1>0, <1>1, <1>6, <2>1, StaysFormatted DEF Laid, At
  <2>3. ASSUME InOrder(n) PROVE InStep(n)'
    BY <1>1, <1>4, <1>6, <1>10, <2>1, <2>3
       DEF InStep, InUse, At, CheckStaged, AlreadyStaged, custody
  <2> QED
    BY <1>5, <2>1, <2>2, <2>3
<1>11. CASE Probe(n, h)
  <2>0. AfterProbe(n) = IF fs = "blank" THEN "format" ELSE "mount"
    BY DEF AfterProbe
  <2>1. /\ pc'[n][h] = AfterProbe(n) /\ seen' = seen /\ staged' = staged /\ UNCHANGED volume
        /\ \A g \in Handlers \ {h} : pc'[n][g] = pc[n][g]
        /\ \A m \in Nodes \ {n} : pc'[m] = pc[m]
    BY <1>0, <1>11, <2>0, Goes DEF Probe
  <2>2. Formatted'
    <3>1. fs \in {"blank", "ext4"}
      BY <1>0 DEF PluginTypeOK
    <3>2. Laid(n)' => Laid(n) \/ fs' = "ext4"
      BY <1>1, <2>0, <2>1, <3>1 DEF Laid, At
    <3> QED
      BY <1>0, <1>1, <2>1, <3>2, StaysFormatted
  <2>3. ASSUME InOrder(n) PROVE InStep(n)'
    BY <1>1, <1>4, <1>6, <1>11, <2>0, <2>1, <2>3 DEF InStep, InUse, At, Probe, custody
  <2> QED
    BY <1>5, <2>1, <2>2, <2>3
<1>12. CASE Format(n, h)
  <2>1. /\ pc'[n][h] = "mount" /\ seen' = seen /\ staged' = staged
        /\ fs' = "ext4" /\ written' = FALSE /\ n \in ready
        /\ \A g \in Handlers \ {h} : pc'[n][g] = pc[n][g]
        /\ \A m \in Nodes \ {n} : pc'[m] = pc[m]
    BY <1>0, <1>12, Goes DEF Format
  <2>2. Formatted'
    BY <1>0, <1>1, <1>6, <2>1, StaysFormatted
  <2>3. ASSUME InOrder(n) PROVE InStep(n)'
    BY <1>1, <1>4, <1>6, <1>12, <2>1, <2>3 DEF InStep, InUse, At, Format, custody
  <2> QED
    BY <1>5, <2>1, <2>2, <2>3
<1>13. CASE Mount(n, h)
  <2>1. /\ pc'[n][h] = "idle" /\ UNCHANGED volume
        /\ h = "call" => seen'[n] = "staged"
        /\ \A g \in Handlers \ {h} : pc'[n][g] = pc[n][g]
        /\ \A m \in Nodes \ {n} : pc'[m] = pc[m] /\ seen'[m] = seen[m]
    BY <1>0, <1>13, Answers DEF Mount
  <2>2. staged'[n] = "live" /\ \A m \in Nodes \ {n} : staged'[m] = staged[m]
    BY <1>0, <1>13 DEF Mount, PluginTypeOK
  <2>3. Formatted'
    BY <1>0, <1>1, <1>6, <1>13, <2>1, <2>2, StaysFormatted DEF Laid, At, Mount
  <2>4. ASSUME InOrder(n) PROVE InStep(n)'
    BY <1>1, <1>4, <1>6, <1>13, <2>1, <2>2, <2>4 DEF InStep, InUse, At, Mount, custody
  <2> QED
    BY <1>5, <2>1, <2>2, <2>3, <2>4
<1>14. CASE MountFails(n, h)
  <2>1. /\ pc'[n][h] = "idle" /\ staged' = staged /\ UNCHANGED volume
        /\ h = "call" => seen'[n] = "none"
        /\ \A g \in Handlers \ {h} : pc'[n][g] = pc[n][g]
        /\ \A m \in Nodes \ {n} : pc'[m] = pc[m] /\ seen'[m] = seen[m]
    BY <1>0, <1>14, Answers, Verdicts DEF MountFails, Failed
  <2>2. Formatted'
    BY <1>0, <1>1, <1>6, <2>1, StaysFormatted DEF Laid, At
  <2>3. ASSUME InOrder(n) PROVE InStep(n)'
    BY <1>1, <1>4, <1>6, <1>14, <2>1, <2>3 DEF InStep, InUse, At, MountFails, custody
  <2> QED
    BY <1>5, <2>1, <2>2, <2>3
<1> QED
  BY <1>7, <1>8, <1>9, <1>10, <1>11, <1>12, <1>13, <1>14

(* The other three calls, and the errors of all.                               *)
LEMMA CallsKeep ==
  ASSUME TypeOK, PluginInv, NEW n \in Nodes, NEW h \in Handlers,
         \/ NodeUnstage(n, h) \/ NodePublish(n, h) \/ NodeUnpublish(n, h) \/ HandlerFails(n, h)
  PROVE  PluginInv'
<1>0. PluginTypeOK /\ Formatted
  BY DEF TypeOK, PluginTypeOK, PluginInv
<1>1. UNCHANGED <<custody, volume, ghosts, linked>> /\ pc[n][h] # "idle"
  BY DEF NodeUnstage, NodePublish, NodeUnpublish, HandlerFails, Plugin, mounts, At
<1>3. InOrder(n)' => InOrder(n)
  BY <1>1 DEF InOrder, ghosts
<1>4. ASSUME InOrder(n) PROVE InStep(n) /\ h = "call" /\ pc[n]["late"] = "idle"
  BY <1>1, <1>4 DEF PluginInv, InStep, At
<1>5. ASSUME \A m \in Nodes \ {n} : /\ pc'[m] = pc[m] /\ seen'[m] = seen[m]
                                    /\ staged'[m] = staged[m] /\ bound'[m] = bound[m],
             Formatted', InOrder(n) => InStep(n)'
      PROVE  PluginInv'
  BY <1>1, <1>3, <1>5, OneNode DEF ghosts, volume
<1> USE DEF Plugin, volume, mounts
<1> HIDE DEF Handlers
<1>6. "call" \in Handlers /\ "late" \in Handlers
  BY DEF Handlers
<1>7. CASE NodeUnstage(n, h)
  <2>1. /\ pc'[n][h] = "idle" /\ bound' = bound
        /\ h = "call" => seen'[n] = "none"
        /\ \A g \in Handlers \ {h} : pc'[n][g] = pc[n][g]
        /\ \A m \in Nodes \ {n} : pc'[m] = pc[m] /\ seen'[m] = seen[m]
    BY <1>0, <1>7, Answers DEF NodeUnstage
  <2>2. staged'[n] = "none" /\ \A m \in Nodes \ {n} : staged'[m] = staged[m]
    BY <1>0, <1>7 DEF NodeUnstage, Unmounted, PluginTypeOK
  <2>3. Formatted'
    BY <1>0, <1>1, <1>6, <2>1, <2>2, StaysFormatted DEF Laid, At
  <2>4. ASSUME InOrder(n) PROVE InStep(n)'
    BY <1>1, <1>4, <1>6, <1>7, <2>1, <2>2, <2>4 DEF InStep, InUse, At, NodeUnstage, custody
  <2> QED
    BY <1>5, <2>1, <2>2, <2>3, <2>4
<1>8. CASE NodePublish(n, h)
  <2>1. /\ pc'[n][h] = "idle" /\ staged' = staged
        /\ h = "call" => seen'[n] = "bound"
        /\ \A g \in Handlers \ {h} : pc'[n][g] = pc[n][g]
        /\ \A m \in Nodes \ {n} : pc'[m] = pc[m] /\ seen'[m] = seen[m]
    BY <1>0, <1>8, Answers DEF NodePublish
  <2>2. /\ bound'[n] = IF bound[n] # "none" THEN bound[n]
                       ELSE IF staged[n] = "none" THEN "dir" ELSE staged[n]
        /\ \A m \in Nodes \ {n} : bound'[m] = bound[m]
    BY <1>0, <1>8 DEF NodePublish, PluginTypeOK
  <2>3. Formatted'
    BY <1>0, <1>1, <1>6, <2>1, <2>2, StaysFormatted DEF Laid, At
  <2>4. ASSUME InOrder(n) PROVE InStep(n)'
    BY <1>1, <1>4, <1>6, <1>8, <2>1, <2>2, <2>4 DEF InStep, InUse, At, NodePublish, custody
  <2> QED
    BY <1>5, <2>1, <2>2, <2>3, <2>4
<1>9. CASE NodeUnpublish(n, h)
  <2>1. /\ pc'[n][h] = "idle" /\ staged' = staged
        /\ h = "call" => seen'[n] = "staged"
        /\ \A g \in Handlers \ {h} : pc'[n][g] = pc[n][g]
        /\ \A m \in Nodes \ {n} : pc'[m] = pc[m] /\ seen'[m] = seen[m]
    BY <1>0, <1>9, Answers DEF NodeUnpublish
  <2>2. bound'[n] = "none" /\ \A m \in Nodes \ {n} : bound'[m] = bound[m]
    BY <1>0, <1>9 DEF NodeUnpublish, PluginTypeOK
  <2>3. Formatted'
    BY <1>0, <1>1, <1>6, <2>1, <2>2, StaysFormatted DEF Laid, At
  <2>4. ASSUME InOrder(n) PROVE InStep(n)'
    BY <1>1, <1>4, <1>6, <1>9, <2>1, <2>2, <2>4 DEF InStep, InUse, At, NodeUnpublish, custody
  <2> QED
    BY <1>5, <2>1, <2>2, <2>3, <2>4
<1>10. CASE HandlerFails(n, h)
  <2>0. pc[n][h] \in Steps \ {"find", "check"} /\ staged' = staged /\ bound' = bound
    BY <1>0, <1>10 DEF HandlerFails, PluginTypeOK
  <2>1. /\ pc'[n][h] = "idle"
        /\ h = "call" => seen'[n] = Failed(pc[n][h])
        /\ \A g \in Handlers \ {h} : pc'[n][g] = pc[n][g]
        /\ \A m \in Nodes \ {n} : pc'[m] = pc[m] /\ seen'[m] = seen[m]
    BY <1>0, <1>10, <2>0, Answers, Verdicts DEF HandlerFails
  <2>2. Formatted'
    BY <1>0, <1>1, <1>6, <2>0, <2>1, StaysFormatted DEF Laid, At
  <2>3. ASSUME InOrder(n) PROVE InStep(n)'
    <3>1. CASE pc[n]["call"] \in {"probe", "format", "mount"}
      <4>1. seen'[n] = "none" /\ pc'[n]["call"] = "idle" /\ pc'[n]["late"] = "idle"
        BY <1>4, <1>6, <2>1, <2>3, <3>1 DEF Failed
      <4> QED
        BY <1>1, <1>4, <2>0, <2>3, <3>1, <4>1 DEF InStep, InUse, At, custody
    <3>2. CASE pc[n]["call"] = "publish"
      <4>1. seen'[n] = "staged" /\ pc'[n]["call"] = "idle" /\ pc'[n]["late"] = "idle"
        BY <1>4, <1>6, <2>1, <2>3, <3>2 DEF Failed
      <4>2. bound[n] = "none"
        BY <1>4, <1>10, <2>3, <3>2 DEF HandlerFails, At
      <4> QED
        BY <1>1, <1>4, <2>0, <2>3, <3>2, <4>1, <4>2 DEF InStep, InUse, At, custody
    <3>3. CASE pc[n]["call"] = "unpublish"
      <4>1. seen'[n] = "halfbound" /\ pc'[n]["call"] = "idle" /\ pc'[n]["late"] = "idle"
        BY <1>4, <1>6, <2>1, <2>3, <3>3 DEF Failed
      <4> QED
        BY <1>1, <1>4, <2>0, <2>3, <3>3, <4>1 DEF InStep, InUse, At, custody
    <3>4. CASE pc[n]["call"] = "unstage"
      <4>1. seen'[n] = "unsure" /\ pc'[n]["call"] = "idle" /\ pc'[n]["late"] = "idle"
        BY <1>4, <1>6, <2>1, <2>3, <3>4 DEF Failed
      <4> QED
        BY <1>1, <1>4, <2>0, <2>3, <3>4, <4>1 DEF InStep, InUse, At, custody
    <3> QED
      BY <1>4, <2>0, <2>3, <3>1, <3>2, <3>3, <3>4
  <2> QED
    BY <1>5, <2>0, <2>1, <2>2, <2>3
<1> QED
  BY <1>7, <1>8, <1>9, <1>10

(* The kubelet's calls, and the ways in which they end without an answer.      *)
LEMMA KubeletKeeps ==
  ASSUME TypeOK, PluginInv, NEW n \in Nodes,
         Kubelet(n) \/ CallTimesOut(n) \/ PluginCrash(n) \/ Reboot(n)
  PROVE  PluginInv'
<1>0. PluginTypeOK /\ Formatted
  BY DEF TypeOK, PluginTypeOK, PluginInv
<1>1. UNCHANGED <<custody, volume>> /\ linked \ {n} \subseteq linked'
      /\ stray \ {n} \subseteq stray' /\ torn \ {n} \subseteq torn'
  BY DEF Kubelet, CallStage, CallPublish, CallUnpublish, CallUnstage, Call, CallTimesOut,
         PluginCrash, Reboot, Plugin, mounts, ghosts
<1>5. ASSUME \A m \in Nodes \ {n} : /\ pc'[m] = pc[m] /\ seen'[m] = seen[m]
                                    /\ staged'[m] = staged[m] /\ bound'[m] = bound[m],
             Laid(n)' => Laid(n), InOrder(n)' => InStep(n)'
      PROVE  PluginInv'
  <2>1. Formatted'
    BY <1>0, <1>1, <1>5, StaysFormatted DEF volume
  <2> QED
    BY <1>1, <1>5, <2>1, OneNode DEF volume
<1> USE DEF Plugin, volume, mounts, ghosts
<1> HIDE DEF Handlers
<1>6. "call" \in Handlers /\ "late" \in Handlers /\ Handlers = {"call", "late"}
  BY DEF Handlers
<1>7. CASE Kubelet(n)
  <2>1. PICK step \in {"find", "publish", "unpublish", "unstage"} :
           /\ Call(n, step)
           /\ step = "find" => lease[n] = "attached" /\ seen[n] \in {"none", "unsure"}
           /\ step = "publish" => seen[n] \in {"staged", "halfbound"}
           /\ step = "unpublish" => seen[n] \in {"halfbound", "bound"}
           /\ step = "unstage" => seen[n] \in {"unsure", "staged"}
    BY <1>7 DEF Kubelet, CallStage, CallPublish, CallUnpublish, CallUnstage
  <2>2. /\ pc'[n]["call"] = step /\ pc'[n]["late"] = pc[n]["late"] /\ seen' = seen
        /\ \A m \in Nodes \ {n} : pc'[m] = pc[m]
    BY <1>0, <1>6, <2>1, Goes DEF Call
  <2>3. UNCHANGED <<staged, bound, linked, stray, torn>> /\ pc[n]["call"] = "idle"
    BY <2>1 DEF Call, At
  <2>4. Laid(n)' => Laid(n)
    BY <1>6, <2>1, <2>2, <2>3 DEF Laid, At
  <2>5. ASSUME InOrder(n)' PROVE InStep(n)'
    <3>1. InStep(n)
      BY <2>3, <2>5 DEF InOrder, PluginInv
    <3> QED
      BY <1>1, <2>1, <2>2, <2>3, <3>1 DEF InStep, InUse, At, custody
  <2> QED
    BY <1>5, <2>2, <2>3, <2>4, <2>5
<1>8. CASE CallTimesOut(n)
  <2>1. pc[n]["call"] \in Steps /\ pc[n]["late"] = "idle"
    BY <1>0, <1>8 DEF CallTimesOut, PluginTypeOK, At, Handlers
  <2>2. /\ pc'[n]["call"] = "idle"
        /\ pc'[n]["late"] = IF pc[n]["call"] # "find" THEN pc[n]["call"] ELSE "idle"
        /\ seen'[n] = Missing(pc[n]["call"])
        /\ \A m \in Nodes \ {n} : pc'[m] = pc[m] /\ seen'[m] = seen[m]
    BY <1>0, <1>6, <1>8 DEF CallTimesOut, PluginTypeOK
  <2>3. UNCHANGED <<staged, bound, linked, torn>>
    BY <1>8 DEF CallTimesOut
  <2>4. Laid(n)' => Laid(n)
    BY <1>6, <2>2, <2>3 DEF Laid, At
  <2>5. ASSUME InOrder(n)' PROVE InStep(n)'
    <3>1. pc[n]["call"] = "find" /\ stray' = stray
      BY <1>8, <2>5 DEF CallTimesOut, InOrder
    <3>2. InStep(n)
      BY <2>3, <2>5, <3>1 DEF InOrder, PluginInv
    <3>3. seen'[n] = "unsure"
      BY <2>2, <3>1 DEF Missing
    <3> QED
      BY <1>1, <2>2, <2>3, <3>1, <3>2, <3>3 DEF InStep, InUse, At, custody
  <2> QED
    BY <1>5, <2>2, <2>3, <2>4, <2>5
<1>9. CASE PluginCrash(n)
  <2>1. pc[n]["call"] \in Steps \cup {"idle"}
    BY <1>0 DEF PluginTypeOK, Handlers
  <2>2. /\ pc'[n]["call"] = "idle" /\ pc'[n]["late"] = "idle"
        /\ seen'[n] = IF pc[n]["call"] = "idle" THEN seen[n] ELSE Missing(pc[n]["call"])
        /\ \A m \in Nodes \ {n} : pc'[m] = pc[m] /\ seen'[m] = seen[m]
    BY <1>0, <1>6, <1>9 DEF PluginCrash, PluginTypeOK
  <2>3. UNCHANGED <<staged, bound, linked, stray, torn>>
    BY <1>9 DEF PluginCrash
  <2>4. Laid(n)' => Laid(n)
    BY <1>6, <2>2, <2>3 DEF Laid, At
  <2>5. ASSUME InOrder(n)' PROVE InStep(n)'
    <3>1. InStep(n)
      BY <2>3, <2>5 DEF InOrder, PluginInv
    <3>2. CASE pc[n]["call"] = "idle"
      BY <1>1, <2>2, <2>3, <3>1, <3>2 DEF InStep, InUse, At, custody
    <3>3. CASE pc[n]["call"] \in {"publish", "unpublish"}
      <4>1. seen'[n] = "halfbound"
        BY <2>2, <3>3 DEF Missing
      <4> QED
        BY <1>1, <2>2, <2>3, <3>1, <3>3, <4>1 DEF InStep, InUse, At, custody
    <3>4. CASE pc[n]["call"] \in StageSteps \cup {"unstage"}
      <4>1. seen'[n] = "unsure"
        BY <2>2, <3>4 DEF Missing
      <4> QED
        BY <1>1, <2>2, <2>3, <3>1, <3>4, <4>1 DEF InStep, InUse, At, custody
    <3> QED
      BY <2>1, <3>2, <3>3, <3>4
  <2> QED
    BY <1>5, <2>2, <2>3, <2>4, <2>5
<1>10. CASE Reboot(n)
  <2>1. /\ pc'[n]["call"] = "idle" /\ pc'[n]["late"] = "idle" /\ seen'[n] = "none"
        /\ \A m \in Nodes \ {n} : pc'[m] = pc[m] /\ seen'[m] = seen[m]
    BY <1>0, <1>6, <1>10 DEF Reboot, PluginTypeOK
  <2>2. /\ staged'[n] = "none" /\ bound'[n] = "none"
        /\ \A m \in Nodes \ {n} : staged'[m] = staged[m] /\ bound'[m] = bound[m]
    BY <1>0, <1>10 DEF Reboot, PluginTypeOK
  <2>3. Laid(n)' => Laid(n)
    BY <1>6, <2>1, <2>2 DEF Laid, At
  <2>4. InStep(n)'
    BY <2>1, <2>2 DEF InStep, InUse, At
  <2> QED
    BY <1>5, <2>1, <2>2, <2>3, <2>4
<1> QED
  BY <1>7, <1>8, <1>9, <1>10

(* udev and the pod.                                                           *)
LEMMA PodKeeps ==
  ASSUME TypeOK, PluginInv, NEW n \in Nodes,
         Settle(n) \/ SchedulePod(n) \/ EvictPod(n) \/ Write(n)
  PROVE  PluginInv'
<1>1. UNCHANGED <<custody, fs, staged, bound, kubelet, ghosts>> /\ linked \subseteq linked'
  BY DEF Settle, SchedulePod, EvictPod, Write, volume, mounts
<1>2. written' => written \/ Laid(n)
  BY DEF Settle, SchedulePod, EvictPod, Write, volume, Laid
<1>3. Formatted'
  BY <1>1, <1>2, StaysFormatted DEF PluginInv, kubelet, Laid, At
<1>4. (InOrder(n) => InStep(n))'
  BY <1>1, Elsewhere DEF PluginInv, kubelet, ghosts, custody, InOrder
<1> QED
  BY <1>1, <1>3, <1>4, OneNode DEF kubelet, ghosts

(* A node in order has nothing mounted, and no handler at work, while no node  *)
(* is attached.                                                                *)
LEMMA IdleUnattached ==
  ASSUME TypeOK, NEW m \in Nodes, InStep(m), lease[m] # "attached"
  PROVE  /\ staged[m] = "none" /\ bound[m] = "none" /\ seen[m] = "none"
         /\ pc[m]["call"] = "idle"
BY DEF InStep, InUse, At

(* The VolumeAttachment and the disk.                                          *)
LEMMA AttachmentKeeps ==
  ASSUME TypeOK, PluginInv, NEW n \in Nodes,
         \/ Attach(n) \/ Withdraw(n) \/ Detach(n) \/ ForceDetach(n) \/ Serve(n) \/ Unplug(n)
  PROVE  PluginInv'
<1>0. Promised /\ Promised' /\ Formatted
  BY AttachmentTypes DEF PluginInv
<1> USE DEF Rest, volume, mounts, kubelet, ghosts
<1>1. ASSUME UNCHANGED <<Rest>>, torn \subseteq torn',
             \A m \in Nodes : InOrder(m)' /\ lease[m] = "attached" /\ InUse(m)
                                => lease'[m] = "attached"
      PROVE  PluginInv'
  <2>1. Formatted'
    BY <1>0, <1>1 DEF Formatted, At
  <2>2. ASSUME NEW m \in Nodes, InOrder(m)' PROVE InStep(m)'
    BY <1>1, <2>2 DEF PluginInv, InOrder, InStep, InUse, At
  <2> QED
    BY <1>0, <2>1, <2>2 DEF PluginInv
<1>2. CASE Attach(n) \/ Withdraw(n)
  <2>1. LeaseChange(n) /\ ~Custody!End(n) /\ UNCHANGED <<Rest, torn>>
    BY <1>0, <1>2 DEF LeaseChange, Attach, Withdraw, Custody!Ask, Custody!Withdraw,
          Custody!End, Custody!Lease, Promised, Custody!CustodyTypeOK
  <2> QED
    BY <1>0, <1>1, <2>1, LeaseSteps
<1>3. CASE Detach(n)
  <2>1. LeaseChange(n) /\ ~InUse(n) /\ UNCHANGED <<Rest, torn>>
    BY <1>3 DEF LeaseChange, Detach
  <2> QED
    BY <1>0, <1>1, <2>1, LeaseSteps
<1>4. CASE ForceDetach(n)
  <2>1. LeaseChange(n) /\ torn' = torn \cup {n} /\ UNCHANGED Rest
    BY <1>4 DEF LeaseChange, ForceDetach
  <2> QED
    BY <1>0, <1>1, <2>1, LeaseSteps DEF InOrder
<1>5. CASE Serve(n)
  <2>1. UNCHANGED <<Rest, torn>>
    BY <1>5 DEF Serve
  <2>3. CASE Custody!Plug(n) \/ Custody!Appear(n)
    BY <1>0, <1>1, <2>1, <2>3, DiskComes
  <2>4. CASE Custody!Tell(n)
    BY <1>0, <1>1, <2>1, <2>4 DEF Custody!Tell, Custody!Lease, Promised, Custody!CustodyTypeOK
  <2>5. CASE Custody!Hold(n) \/ Custody!Return(n)
    BY <1>0, <1>1, <2>1, <2>5
       DEF Custody!Hold, Custody!Return, Custody!Lease, Promised, Custody!CustodyTypeOK
  <2> QED
    BY <1>5, <2>3, <2>4, <2>5 DEF Serve
<1>6. CASE Unplug(n)
  <2>1. \A m \in Nodes : lease[m] # "attached" /\ lease' = lease
    BY <1>0, <1>6, DiskGoes DEF Unplug
  <2>2. /\ \A m \in Nodes : /\ staged'[m] = IF staged[m] = "live" THEN "dead" ELSE staged[m]
                            /\ bound'[m] = IF bound[m] = "live" THEN "dead" ELSE bound[m]
        /\ pc' = pc /\ seen' = seen /\ fs' = fs /\ written' = written
        /\ stray' = stray /\ torn' = torn
    BY <1>6 DEF Unplug, Dies
  <2>3. Formatted'
    BY <1>0, <2>2 DEF Formatted, At
  <2>4. ASSUME NEW m \in Nodes, InOrder(m)' PROVE InStep(m)'
    <3>1. InStep(m)
      BY <2>2, <2>4 DEF InOrder, PluginInv
    <3>2. /\ staged[m] = "none" /\ bound[m] = "none" /\ seen[m] = "none"
          /\ pc[m]["call"] = "idle"
      BY <2>1, <3>1, IdleUnattached
    <3> QED
      BY <2>2, <3>1, <3>2 DEF InStep, InUse, At
  <2> QED
    BY <1>0, <2>3, <2>4 DEF PluginInv
<1> QED
  BY <1>2, <1>3, <1>4, <1>5, <1>6

--------------------------------------------------------------------------------
LEMMA Begins ==
  Init => TypeOK /\ PluginInv
<1> SUFFICES ASSUME Init PROVE TypeOK /\ PluginInv
  OBVIOUS
<1> USE DEF Init, Custody!Init
<1>1. TypeOK
  <2>1. Custody!CustodyTypeOK
    BY DEF Custody!CustodyTypeOK, Custody!Leases
  <2>2. pc \in [Nodes -> [Handlers -> Steps \cup {"idle"}]]
    OBVIOUS
  <2>3. /\ staged \in [Nodes -> {"none", "live", "dead"}]
        /\ bound \in [Nodes -> {"none", "live", "dead", "dir"}]
        /\ seen \in [Nodes -> {"none", "unsure", "staged", "halfbound", "bound"}]
    OBVIOUS
  <2>4. fs \in {"blank", "ext4"} /\ faults \in 0..MaxFaults
    BY PluginAssumption
  <2>5. written \in BOOLEAN
    BY Zenon
  <2> QED
    BY <2>1, <2>2, <2>3, <2>4, <2>5 DEF TypeOK
<1>2. Promised
  BY DEF Promised, Custody!CustodyTypeOK, Custody!Leases, Custody!InOneVM, Custody!DiskThere
<1>3. Formatted
  BY DEF Formatted, At
<1>4. \A n \in Nodes : InStep(n)
  BY DEF InStep, InUse, At
<1> QED
  BY <1>1, <1>2, <1>3, <1>4 DEF PluginInv

LEMMA GoesOn ==
  TypeOK /\ PluginInv /\ [Next]_vars => TypeOK' /\ PluginInv'
<1> SUFFICES ASSUME TypeOK, PluginInv, [Next]_vars PROVE TypeOK' /\ PluginInv'
  OBVIOUS
<1>1. CASE UNCHANGED vars
  <2>1. UNCHANGED <<custody, fs, written, linked, staged, bound, pc, seen, want, stray, torn,
                    faults>>
    BY <1>1 DEF vars, volume, mounts, kubelet, ghosts
  <2>2. TypeOK' /\ Promised'
    BY <2>1, PromiseStays
       DEF TypeOK, custody, Custody!CustodyTypeOK, Custody!Leases, PluginInv
  <2>3. Formatted'
    BY <2>1 DEF Formatted, At, PluginInv
  <2>4. \A n \in Nodes : (InOrder(n) => InStep(n))'
    BY <2>1 DEF InOrder, InStep, InUse, At, PluginInv, custody
  <2> QED
    BY <2>2, <2>3, <2>4 DEF PluginInv
<1>2. CASE Next
  <2>1. PICK n \in Nodes :
           \/ \E h \in Handlers : Handler(n, h) \/ HandlerFails(n, h)
           \/ Kubelet(n) \/ CallTimesOut(n) \/ PluginCrash(n) \/ Reboot(n) \/ Settle(n)
           \/ SchedulePod(n) \/ EvictPod(n) \/ Write(n)
           \/ Attach(n) \/ Withdraw(n) \/ Detach(n) \/ ForceDetach(n)
           \/ Serve(n) \/ Unplug(n)
    BY <1>2 DEF Next
  <2>2. CASE \E h \in Handlers : Handler(n, h) \/ HandlerFails(n, h)
    BY <2>2, HandlerTypes, StageKeeps, CallsKeep DEF Handler
  <2>3. CASE Kubelet(n) \/ CallTimesOut(n) \/ PluginCrash(n) \/ Reboot(n)
    BY <2>3, KubeletTypes, KubeletKeeps
  <2>4. CASE Settle(n) \/ SchedulePod(n) \/ EvictPod(n) \/ Write(n)
    BY <2>4, KubeletTypes, PodKeeps
  <2>5. CASE Attach(n) \/ Withdraw(n) \/ Detach(n) \/ ForceDetach(n) \/ Serve(n) \/ Unplug(n)
    BY <2>5, AttachmentTypes, AttachmentKeeps DEF PluginInv
  <2> QED
    BY <2>1, <2>2, <2>3, <2>4, <2>5
<1> QED
  BY <1>1, <1>2

(* Every state of every behaviour of plugin, kubelets and host is typed.       *)
THEOREM TypeCorrect == Spec => []TypeOK
BY Begins, GoesOn, PTL DEF Spec

(* The strengthening, which says how mounts, the kubelet's view, the           *)
(* VolumeAttachment and the disk move together on a node that is in order.     *)
THEOREM PluginInvariant == Spec => [](TypeOK /\ PluginInv)
BY Begins, GoesOn, PTL DEF Spec

(* A pod that NodePublishVolume was answered for has the volume mounted.       *)
THEOREM PodSeesVolumeHolds == Spec => []PodSeesVolume
<1>1. PluginInv => PodSeesVolume
  BY DEF PluginInv, InStep, PodSeesVolume
<1> QED
  BY <1>1, PluginInvariant, PTL

(* Only Format takes what was written, and a node that is in order and about   *)
(* to format saw a blank disk that nobody else has had since.                  *)
THEOREM DataKeptHolds == Spec => DataKept
<1>1. TypeOK /\ PluginInv /\ [Next]_vars
         => [written /\ (\A n \in Nodes : InOrder(n)) => written']_vars
  <2> SUFFICES ASSUME TypeOK, PluginInv, Next, written, \A n \in Nodes : InOrder(n)
               PROVE  written'
    OBVIOUS
  <2>1. ASSUME NEW n \in Nodes, NEW h \in Handlers, Format(n, h) PROVE FALSE
    <3>1. InStep(n) /\ fs = "ext4"
      BY DEF PluginInv, Formatted
    <3>2. h = "call" /\ pc[n]["call"] = "format"
      BY <2>1, <3>1 DEF Format, InStep, At
    <3> QED
      BY <3>1, <3>2 DEF InStep
  <2>2. ASSUME NEW n \in Nodes, NEW h \in Handlers,
               Handler(n, h) \/ HandlerFails(n, h)
        PROVE  written' = written
    BY <2>1, <2>2 DEF Handler, HandlerFails, FindDevice, DeviceTimeout, CheckStaged, Probe,
         Mount, MountFails, NodeUnstage, NodePublish, NodeUnpublish, Plugin, volume
  <2>3. ASSUME NEW n \in Nodes,
               \/ Kubelet(n) \/ CallTimesOut(n) \/ PluginCrash(n) \/ Reboot(n) \/ Settle(n)
               \/ SchedulePod(n) \/ EvictPod(n) \/ Write(n)
        PROVE  written'
    BY <2>3 DEF Kubelet, CallStage, CallPublish, CallUnpublish, CallUnstage, Call,
         CallTimesOut, PluginCrash, Reboot, Settle, SchedulePod, EvictPod, Write, Plugin,
         volume
  <2>4. ASSUME NEW n \in Nodes,
               \/ Attach(n) \/ Withdraw(n) \/ Detach(n) \/ ForceDetach(n) \/ Serve(n)
               \/ Unplug(n)
        PROVE  written' = written
    BY <2>4 DEF Attach, Withdraw, Detach, ForceDetach, Serve, Unplug, Rest, volume
  <2> QED
    BY <2>2, <2>3, <2>4 DEF Next
<1> QED
  BY <1>1, PluginInvariant, PTL DEF Spec, DataKept

(* The disk leaves a VM by Unplug alone, of a node that is not attached: one   *)
(* in order has unpublished and unstaged before.                               *)
THEOREM UnmountedBeforeUnplugHolds == Spec => UnmountedBeforeUnplug
<1>1. TypeOK /\ PluginInv /\ [Next]_vars
         => [\A n \in Nodes : n \in disk \ disk' /\ InOrder(n)
                                 => staged[n] = "none" /\ bound[n] = "none"]_vars
  <2> SUFFICES ASSUME TypeOK, PluginInv, Next, NEW m \in Nodes, m \in disk \ disk', InOrder(m)
               PROVE  staged[m] = "none" /\ bound[m] = "none"
    OBVIOUS
  <2>0. Promised /\ InStep(m)
    BY DEF PluginInv
  <2>1. ASSUME NEW n \in Nodes, Unplug(n) PROVE staged[m] = "none" /\ bound[m] = "none"
    <3>1. lease[m] # "attached"
      BY <2>0, <2>1, DiskGoes DEF Unplug
    <3> QED
      BY <2>0, <3>1, IdleUnattached
  <2>2. ASSUME NEW n \in Nodes, NEW h \in Handlers,
               Handler(n, h) \/ HandlerFails(n, h)
        PROVE  disk' = disk
    BY <2>2 DEF Handler, HandlerFails, FindDevice, DeviceTimeout, CheckStaged, Probe, Format,
         Mount, MountFails, NodeUnstage, NodePublish, NodeUnpublish, Plugin, custody
  <2>3. ASSUME NEW n \in Nodes,
               \/ Kubelet(n) \/ CallTimesOut(n) \/ PluginCrash(n) \/ Reboot(n) \/ Settle(n)
               \/ SchedulePod(n) \/ EvictPod(n) \/ Write(n)
        PROVE  disk' = disk
    BY <2>3 DEF Kubelet, CallStage, CallPublish, CallUnpublish, CallUnstage, Call,
         CallTimesOut, PluginCrash, Reboot, Settle, SchedulePod, EvictPod, Write, Plugin,
         custody
  <2>4. ASSUME NEW n \in Nodes,
               Attach(n) \/ Withdraw(n) \/ Detach(n) \/ ForceDetach(n) \/ Serve(n)
        PROVE  disk \subseteq disk'
    <3>1. LeaseChange(n) \/ Custody!Plug(n) \/ Custody!Appear(n)
      BY <2>4 DEF Attach, Withdraw, Detach, ForceDetach, Serve, LeaseChange
    <3> QED
      BY <2>0, <3>1, LeaseSteps, DiskComes
  <2> QED
    BY <2>1, <2>2, <2>3, <2>4 DEF Next
<1> QED
  BY <1>1, PluginInvariant, PTL DEF Spec, UnmountedBeforeUnplug
--------------------------------------------------------------------------------
(* Whatever handlers, kubelets, pods and force-deletes do, the host's side of  *)
(* NodePlugin only ever moves as VolumeCustody says, which is what StorageSync *)
(* is proved to implement: nothing here assumes more of the host than that.    *)
LEMMA HostIsCustody == Spec => Custody!Spec
<1>1. Init => Custody!Init
  BY DEF Init
<1>2. [Next]_vars => [Custody!Next]_(Custody!custody)
  <2> SUFFICES ASSUME Next, UNCHANGED custody => FALSE PROVE Custody!Next
    BY DEF vars, custody, Custody!custody
  <2>1. ASSUME NEW n \in Nodes, NEW h \in Handlers, Handler(n, h) \/ HandlerFails(n, h)
        PROVE  UNCHANGED custody
    BY <2>1 DEF Handler, HandlerFails, FindDevice, DeviceTimeout, CheckStaged, Probe, Format,
         Mount, MountFails, NodeUnstage, NodePublish, NodeUnpublish, Plugin
  <2>2. ASSUME NEW n \in Nodes,
               \/ Kubelet(n) \/ CallTimesOut(n) \/ PluginCrash(n) \/ Reboot(n) \/ Settle(n)
               \/ SchedulePod(n) \/ EvictPod(n) \/ Write(n)
        PROVE  UNCHANGED custody
    BY <2>2 DEF Kubelet, CallStage, CallPublish, CallUnpublish, CallUnstage, Call,
         CallTimesOut, PluginCrash, Reboot, Settle, SchedulePod, EvictPod, Write, Plugin
  <2>3. PICK n \in Nodes :
               \/ Attach(n) \/ Withdraw(n) \/ Detach(n) \/ ForceDetach(n)
               \/ Serve(n) \/ Unplug(n)
    BY <2>1, <2>2 DEF Next
  <2> QED
    BY <2>3 DEF Attach, Withdraw, Detach, ForceDetach, Serve, Unplug, Custody!Next
<1> QED
  BY <1>1, <1>2, PTL DEF Spec, Custody!Spec
================================================================================
