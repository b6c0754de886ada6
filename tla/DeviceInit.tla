----------------------------- MODULE DeviceInit -----------------------------
(***************************************************************************)
(* cros_gralloc_driver::init(): the render-node scan that binds the       *)
(* driver to one render node and tags it with a GPU topology.              *)
(*                                                                         *)
(* The machine is a sequence of render minors in scan order (128, 129,    *)
(* ...), each of a kind: absent (open fails), without a version           *)
(* (drmGetVersion fails), vgem (the undesired driver), or a usable GPU     *)
(* (virtio_gpu, i915, any other).  One loop iteration is one step, and     *)
(* the tail after the loop (drv_create, the topology switch, drv_init and  *)
(* the fail label) is one step per outcome: init runs on one thread and    *)
(* holds no lock, so nothing interleaves with it but the next init call.   *)
(*                                                                         *)
(* A file descriptor is the pair <<init call, minor>>: the same node       *)
(* opened by a later init call is a different descriptor.                  *)
(***************************************************************************)
EXTENDS Naturals, Sequences, SequencesExt, FiniteSets

CONSTANTS
    NodeConfigs,  \* the machines: sequences of node kinds in minor order
    RenderNum,    \* render_num, the length of node_fd[] and node_name[]
    MaxInits,     \* bound on the number of init() calls
    NoFd          \* drv_render_ == nullptr

VARIABLES
    nodes,    \* the machine's render nodes (fixed)
    pc,       \* "idle" (no init running), "scan" (inside init) or "gone"
    i,        \* the loop variable: the next node to open
    nodeFd,   \* node_fd[0 .. availabe_node - 1], in order
    openFds,  \* descriptors init has opened and not closed
    drv,      \* the descriptor drv_render_ was created on, or NoFd
    grp,      \* the gpu_grp_type drv_init was given
    ret,      \* what the last init() returned
    inits     \* init() calls so far

vars == <<nodes, pc, i, nodeFd, openFds, drv, grp, ret, inits>>

Kinds == {"none", "nover", "vgem", "virtio_gpu", "i915", "other"}
GrpTypes == {"NONE", "ONE_GPU_INTEL", "ONE_GPU_VIRTIO", "TWO_GPU_IGPU_VIRTIO",
             "TWO_GPU_IGPU_DGPU", "THREE_GPU_IGPU_VIRTIO_DGPU"}

Name(fd) == nodes[fd[2]]   \* node_name[], the version name of the node

(* Mutant: the undesired-driver filter lets vgem through.                 *)
AcceptedWithVgem(k) == k \in {"vgem", "virtio_gpu", "i915", "other"}

(* A node survives the loop body when open and drmGetVersion succeed and  *)
(* its name is not in undesired[]; the others are closed or never opened. *)
Accepted(k) == k \in {"virtio_gpu", "i915", "other"}

(* virtio_node_idx: set on every virtio_gpu node, so the last one; 0 is  *)
(* the code's -1.                                                         *)
VirtioIdx == SelectLastInSeq(nodeFd, LAMBDA fd : Name(fd) = "virtio_gpu")

(* The switch on availabe_node: the descriptors it closes.                *)
SwitchCloses ==
    CASE Len(nodeFd) = 2 -> {nodeFd[2]}
      [] Len(nodeFd) = 3 -> (IF Name(nodeFd[2]) = "i915" THEN {nodeFd[2]} ELSE {})
                            \cup (IF VirtioIdx # 0 THEN {nodeFd[VirtioIdx]} ELSE {})
      [] OTHER           -> {}

(* The switch on availabe_node: the topology tag; 4 or more nodes take no *)
(* case and leave gpu_grp_type 0.                                         *)
GpuGrpType ==
    CASE Len(nodeFd) = 1 -> IF VirtioIdx # 0 THEN "ONE_GPU_VIRTIO" ELSE "ONE_GPU_INTEL"
      [] Len(nodeFd) = 2 -> IF VirtioIdx # 0 THEN "TWO_GPU_IGPU_VIRTIO" ELSE "TWO_GPU_IGPU_DGPU"
      [] Len(nodeFd) = 3 -> "THREE_GPU_IGPU_VIRTIO_DGPU"
      [] OTHER           -> "NONE"

Init ==
    /\ nodes \in NodeConfigs
    /\ pc = "idle" /\ i = 1 /\ nodeFd = <<>>
    /\ openFds = {} /\ drv = NoFd /\ grp = "NONE"
    /\ ret = "NONE" /\ inits = 0

-----------------------------------------------------------------------------
(* Mutant: the loop counter starts one below the first minor.           *)
StartInitFromZero ==
    /\ pc = "idle" /\ inits < MaxInits
    /\ openFds' = openFds \ {drv}
    /\ drv' = NoFd /\ grp' = "NONE"
    /\ pc' = "scan" /\ i' = 0 /\ nodeFd' = <<>>
    /\ inits' = inits + 1
    /\ UNCHANGED <<nodes, ret>>

(* init() is called: an existing driver is destroyed and its descriptor   *)
(* closed before the scan starts.                                         *)
StartInit ==
    /\ pc = "idle" /\ inits < MaxInits
    /\ openFds' = openFds \ {drv}
    /\ drv' = NoFd /\ grp' = "NONE"
    /\ pc' = "scan" /\ i' = 1 /\ nodeFd' = <<>>
    /\ inits' = inits + 1
    /\ UNCHANGED <<nodes, ret>>

(* One iteration for a node that fails to open, has no version or is      *)
(* undesired: whatever was opened is closed again (continue).             *)
ScanReject ==
    /\ pc = "scan" /\ i <= Len(nodes)
    /\ ~Accepted(nodes[i])
    /\ i' = i + 1
    /\ UNCHANGED <<nodes, pc, nodeFd, openFds, drv, grp, ret, inits>>

(* One iteration for a usable node: node_fd[availabe_node++] = fd, a      *)
(* write past node_fd[render_num - 1] when availabe_node is already 10.   *)
ScanAccept ==
    /\ pc = "scan" /\ i <= Len(nodes)
    /\ Accepted(nodes[i])
    /\ openFds' = openFds \cup {<<inits, i>>}
    /\ nodeFd' = Append(nodeFd, <<inits, i>>)
    /\ i' = i + 1
    /\ UNCHANGED <<nodes, pc, drv, grp, ret, inits>>

(* The loop found no usable node: -ENODEV.                                *)
NoNode ==
    /\ pc = "scan" /\ i > Len(nodes) /\ nodeFd = <<>>
    /\ ret' = "ENODEV" /\ pc' = "idle"
    /\ UNCHANGED <<nodes, i, nodeFd, openFds, drv, grp, inits>>

(* drv_create(node_fd[0]) fails: node_fd[0] is closed, -ENODEV.           *)
CreateFails ==
    /\ pc = "scan" /\ i > Len(nodes) /\ nodeFd # <<>>
    /\ openFds' = openFds \ {nodeFd[1]}
    /\ ret' = "ENODEV" /\ pc' = "idle"
    /\ UNCHANGED <<nodes, i, nodeFd, drv, grp, inits>>

(* drv_create succeeds, the switch closes what it closes, drv_init        *)
(* succeeds: the driver stays bound to node_fd[0], 0 is returned.         *)
SetupOk ==
    /\ pc = "scan" /\ i > Len(nodes) /\ nodeFd # <<>>
    /\ drv' = nodeFd[1] /\ grp' = GpuGrpType
    /\ openFds' = openFds \ SwitchCloses
    /\ ret' = "OK" /\ pc' = "idle"
    /\ UNCHANGED <<nodes, i, nodeFd, inits>>

(* Mutant: the fail label closes the descriptor but keeps drv_render_.    *)
SetupInitFailsKeepsDriver ==
    /\ pc = "scan" /\ i > Len(nodes) /\ nodeFd # <<>>
    /\ drv' = nodeFd[1] /\ grp' = GpuGrpType
    /\ openFds' = openFds \ (SwitchCloses \cup {nodeFd[1]})
    /\ ret' = "ENODEV" /\ pc' = "idle"
    /\ UNCHANGED <<nodes, i, nodeFd, inits>>

(* drv_init fails after the switch: the fail label destroys the driver    *)
(* and closes its descriptor, -ENODEV.                                    *)
SetupInitFails ==
    /\ pc = "scan" /\ i > Len(nodes) /\ nodeFd # <<>>
    /\ drv' = NoFd /\ grp' = "NONE"
    /\ openFds' = openFds \ (SwitchCloses \cup {nodeFd[1]})
    /\ ret' = "ENODEV" /\ pc' = "idle"
    /\ UNCHANGED <<nodes, i, nodeFd, inits>>

(* The destructor: drv_render_, when there is one, is destroyed and its   *)
(* descriptor closed; the driver object is gone.                           *)
Destroy ==
    /\ pc = "idle"
    /\ openFds' = openFds \ {drv}
    /\ drv' = NoFd /\ pc' = "gone"
    /\ UNCHANGED <<nodes, i, nodeFd, grp, ret, inits>>

(* The steps of one running init() call.                                  *)
InitStep == ScanReject \/ ScanAccept \/ NoNode \/ CreateFails \/ SetupOk \/ SetupInitFails

Next == StartInit \/ InitStep \/ Destroy

(* Only safety is checked, so the specification carries no fairness.     *)
Spec == Init /\ [][Next]_vars

-----------------------------------------------------------------------------
TypeOK ==
    /\ nodes \in NodeConfigs /\ pc \in {"idle", "scan", "gone"}
    /\ i \in 1 .. Len(nodes) + 1
    /\ nodeFd \in Seq((1 .. inits) \X (1 .. Len(nodes)))
    /\ openFds \subseteq (1 .. inits) \X (1 .. Len(nodes))
    /\ drv \in ((1 .. inits) \X (1 .. Len(nodes))) \cup {NoFd}
    /\ grp \in GrpTypes /\ ret \in {"OK", "ENODEV", "NONE"}
    /\ inits \in 0 .. MaxInits

(* The first minor a driver may be bound to: open, versioned, not vgem.   *)
FirstUsable == SelectInSeq(nodes, LAMBDA k : k \in {"virtio_gpu", "i915", "other"})

(* init()'s result tells the truth about drv_render_ on every path, the    *)
(* fail label after a failed drv_init and a re-init included: 0 exactly    *)
(* when a driver is bound, and then it is bound to the first usable node   *)
(* of this scan, never to vgem or to a node of an earlier call.            *)
ResultMatchesDriver ==
    pc = "idle" /\ ret # "NONE" =>
        /\ ret = "OK" <=> drv # NoFd
        /\ drv # NoFd => drv = <<inits, FirstUsable>>

(* Spec 4.5 "a driver context bound to exactly one open render-node        *)
(* descriptor": the descriptor drv_render_ was created on is open while    *)
(* the driver exists.                                                      *)
DriverFdOpen == drv # NoFd => drv \in openFds

(* Spec 7, partial construction is never left behind: when init() returns *)
(* the only descriptor it keeps open is the driver's.                      *)
NoNodeFdLeak == pc = "idle" => openFds \subseteq {drv}

(* node_fd[] and node_name[] are written only inside their render_num      *)
(* entries.                                                                *)
NodeTableInBounds == Len(nodeFd) <= RenderNum

=============================================================================
