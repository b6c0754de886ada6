---------------------------- MODULE MC_DeviceInit ----------------------------
EXTENDS DeviceInit

(* Every machine of up to three render minors.                            *)
MCNodeConfigs == UNION {[1 .. n -> Kinds] : n \in 0 .. 3}

(* Three GPUs with virtio_gpu at the first minor: a SR-IOV guest with a    *)
(* dGPU, its virtual GPU enumerated first.                                 *)
MCVirtioFirst == {<<"virtio_gpu", "i915", "i915">>}

(* Eleven usable render nodes.                                            *)
MCElevenNodes == {[k \in 1 .. 11 |-> "i915"]}
=============================================================================
