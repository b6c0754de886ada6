-------------------------- MODULE I915Combinations --------------------------
(***************************************************************************)
(* The i915 combination registry and the format and use-flag handling of  *)
(* allocation: i915_add_combinations builds the list of (format, tiling   *)
(* metadata, use flags) the device supports, drv_get_combination picks    *)
(* from it, i915_resolve_format resolves the flexible formats, and        *)
(* cros_gralloc_driver's is_supported and allocate adjust the use flags   *)
(* before the lookup.  All of it is pure: operators of the device's GPU   *)
(* topology, whether it is an ADL-P under KVM, and the request.           *)
(*                                                                         *)
(* Use flags are sets of flag names; a registry is a sequence of           *)
(* combinations in the order they were added, since drv_get_combination    *)
(* keeps the first of equal priority.                                      *)
(***************************************************************************)
EXTENDS Naturals, Sequences, TLC

CONSTANT UseGralloc1   \* the USE_GRALLOC1 build

(* The BO_USE_* masks of drv.h.                                            *)
SwMask == {"SW_READ_OFTEN", "SW_WRITE_OFTEN", "SW_READ_RARELY", "SW_WRITE_RARELY"}
TextureMask == {"LINEAR", "PROTECTED", "RENDERSCRIPT", "TEXTURE"} \cup SwMask
RenderMask == TextureMask \cup {"RENDERING"}

(* The format tables at the top of i915.c, in their order.                *)
ScanoutRenderFormats == <<"ABGR2101010", "ABGR8888", "ARGB2101010", "ARGB8888", "RGB565",
                          "XBGR2101010", "XBGR8888", "XRGB2101010", "XRGB8888">>
RenderFormats == <<"ABGR16161616F">>
TextureOnlyFormats ==
    IF UseGralloc1 THEN <<"R8", "NV12", "P010", "YVU420", "YVU420_ANDROID", "YUYV">>
    ELSE <<"R8", "NV12", "P010", "YVU420", "YVU420_ANDROID">>

LinearMd == [tiling |-> "NONE", priority |-> 1, modifier |-> "LINEAR"]
XMd == [tiling |-> "X", priority |-> 2, modifier |-> "X_TILED"]
YMd == [tiling |-> "Y", priority |-> 3, modifier |-> "Y_TILED"]

NoCombo == [format |-> "NONE", flags |-> {}, tiling |-> "NONE", priority |-> 0,
            modifier |-> "LINEAR"]

(* drv_add_combinations / drv_add_combination: appended in array order.   *)
AddCombinations(reg, fmts, md, flags) ==
    reg \o [k \in 1 .. Len(fmts) |-> [format |-> fmts[k], flags |-> flags] @@ md]
AddCombination(reg, f, md, flags) == AddCombinations(reg, <<f>>, md, flags)

(* drv_modify_combination: OR the flags into every entry of that format   *)
(* with that tiling and modifier.                                          *)
ModifyCombination(reg, f, md, flags) ==
    [k \in DOMAIN reg |->
        IF reg[k].format = f /\ reg[k].tiling = md.tiling /\ reg[k].modifier = md.modifier
        THEN [reg[k] EXCEPT !.flags = @ \cup flags] ELSE reg[k]]

(* drv_modify_linear_combinations: linear XRGB8888 and ARGB8888 scan out  *)
(* and serve as cursors.                                                   *)
ModifyLinearCombinations(reg) ==
    ModifyCombination(ModifyCombination(reg, "XRGB8888", LinearMd, {"CURSOR", "SCANOUT"}),
                      "ARGB8888", LinearMd, {"CURSOR", "SCANOUT"})

(* unset_flags                                                             *)
UnsetFlags(current, mask) == current \ mask

(* The PCI device ids of i915_info_from_device_id, in the code's order.   *)
Gen9Ids ==
    << \h1902, \h1906, \h190A, \h190B, \h190E, \h1912, \h1913, \h1915, \h1916, \h1917,
       \h191A, \h191B, \h191D, \h191E, \h1921, \h1923, \h1926, \h1927, \h192A, \h192B,
       \h192D, \h1932, \h193A, \h193B, \h193D, \h0A84, \h1A84, \h1A85, \h5A84, \h5A85,
       \h3184, \h3185, \h5902, \h5906, \h590A, \h5908, \h590B, \h590E, \h5913, \h5915,
       \h5917, \h5912, \h5916, \h591A, \h591B, \h591D, \h591E, \h5921, \h5923, \h5926,
       \h5927, \h593B, \h591C, \h87C0, \h87CA, \h3E90, \h3E93, \h3E99, \h3E9C, \h3E91,
       \h3E92, \h3E96, \h3E98, \h3E9A, \h3E9B, \h3E94, \h3EA9, \h3EA5, \h3EA6, \h3EA7,
       \h3EA8, \h3EA1, \h3EA4, \h3EA0, \h3EA3, \h3EA2, \h9B21, \h9BA0, \h9BA2, \h9BA4,
       \h9BA5, \h9BA8, \h9BAA, \h9BAB, \h9BAC, \h9B41, \h9BC0, \h9BC2, \h9BC4, \h9BC5,
       \h9BC6, \h9BC8, \h9BCA, \h9BCB, \h9BCC, \h9BE6, \h9BF6 >>
Gen12Ids ==
    << \h4c8a, \h4c8b, \h4c8c, \h4c90, \h4c9a, \h4680, \h4681, \h4682, \h4683, \h4688,
       \h4689, \h4690, \h4691, \h4692, \h4693, \h4698, \h4699, \h4626, \h4628, \h462a,
       \h46a0, \h46a1, \h46a2, \h46a3, \h46a6, \h46a8, \h46aa, \h46b0, \h46b1, \h46b2,
       \h46b3, \h46c0, \h46c1, \h46c2, \h46c3, \h9A40, \h9A49, \h9A59, \h9A60, \h9A68,
       \h9A70, \h9A78, \h9AC0, \h9AC9, \h9AD9, \h9AF8, \h4905, \h4906, \h4907, \h4908 >>
AdlpIds ==
    << \h46A0, \h46A1, \h46A2, \h46A3, \h46A6, \h46A8, \h46AA, \h462A, \h4626, \h4628,
       \h46B0, \h46B1, \h46B2, \h46B3, \h46C0, \h46C1, \h46C2, \h46C3, \h46D0, \h46D1,
       \h46D2 >>

InTable(id, ids) == \E k \in DOMAIN ids : ids[k] = id

(* Mutant: the gen12 table is scanned before the ADL-P one.               *)
InfoFromDeviceIdGen12First(id) ==
    CASE InTable(id, Gen9Ids)  -> [gen |-> 9, isAdlp |-> FALSE]
      [] InTable(id, Gen12Ids) -> [gen |-> 12, isAdlp |-> FALSE]
      [] InTable(id, AdlpIds)  -> [gen |-> 12, isAdlp |-> TRUE]
      [] OTHER                 -> [gen |-> 12, isAdlp |-> FALSE]

(* i915_info_from_device_id: gen 12 and not ADL-P unless found; the three *)
(* tables are scanned in order and the first hit returns.  ADL-P ids also  *)
(* appear in the gen12 table, so the order decides is_adlp.                *)
InfoFromDeviceId(id) ==
    CASE InTable(id, Gen9Ids) -> [gen |-> 9, isAdlp |-> FALSE]
      [] InTable(id, AdlpIds) -> [gen |-> 12, isAdlp |-> TRUE]
      [] OTHER                -> [gen |-> 12, isAdlp |-> FALSE]

(* i915_add_combinations' condition is_kvm && i915->is_adlp, with vm_type's *)
(* KVM bit (from cpuid) as an input.                                        *)
KvmAdlp(isKvm, id) == isKvm /\ InfoFromDeviceId(id).isAdlp

(* The use flags the tiled tiers drop: linear_mask | camera_mask, the      *)
(* uses that need a linear buffer (CPU access, RenderScript, protected     *)
(* content) or come from the camera.                                       *)
(* Mutant: linear_mask forgets SW_WRITE_OFTEN.                            *)
TiledUnsetMaskNoSwWrite ==
    {"RENDERSCRIPT", "LINEAR", "PROTECTED", "SW_READ_OFTEN"} \cup {"CAMERA_READ", "CAMERA_WRITE"}

TiledUnsetMask ==
    {"RENDERSCRIPT", "LINEAR", "PROTECTED", "SW_READ_OFTEN", "SW_WRITE_OFTEN"}
    \cup {"CAMERA_READ", "CAMERA_WRITE"}

(* Mutant: the dGPU check knows only the iGPU + dGPU topology.             *)
DgpuNoYScanoutTwoOnly(grp) == grp = "TWO_GPU_IGPU_DGPU"

(* "dGPU do not support Tiling Y mode": Y-tiled entries lose SCANOUT.      *)
DgpuNoYScanout(grp) == grp \in {"TWO_GPU_IGPU_DGPU", "THREE_GPU_IGPU_VIRTIO_DGPU"}

(* i915_add_combinations: linear entries, then X-tiled, then Y-tiled,     *)
(* each tier dropping use flags from the masks it starts from.  The build  *)
(* without I915_SCANOUT_Y_TILED; i915_private_add_combinations of the      *)
(* USE_GRALLOC1 build is not part of this repository.                      *)
I915AddCombinations(grp, kvmAdlp) ==
    LET cameraMask == {"CAMERA_READ", "CAMERA_WRITE"}
        render0 == IF UseGralloc1 THEN RenderMask \ {"RENDERING", "TEXTURE"} ELSE RenderMask
        sr0 == RenderMask \cup {"SCANOUT"}
        l1 == AddCombinations(<<>>, ScanoutRenderFormats, LinearMd, sr0)
        l2 == AddCombinations(l1, RenderFormats, LinearMd, render0)
        l3 == ModifyLinearCombinations(AddCombinations(l2, TextureOnlyFormats, LinearMd, TextureMask))
        l4 == ModifyCombination(l3, "YVU420", LinearMd, {"HW_VIDEO_ENCODER"})
        l5 == ModifyCombination(l4, "NV12", LinearMd, {"HW_VIDEO_ENCODER", "HW_VIDEO_DECODER"}
                                                      \cup cameraMask \cup {"SCANOUT"})
        l6 == AddCombination(l5, "BGR888", LinearMd, SwMask)
        l7 == IF UseGralloc1
              THEN AddCombination(ModifyCombination(l6, "ABGR2101010", LinearMd, SwMask),
                                  "RGB888", LinearMd, SwMask)
              ELSE l6
        l8 == ModifyCombination(l7, "R8", LinearMd, cameraMask)
        render1 == UnsetFlags(render0, TiledUnsetMask)
        sr1 == UnsetFlags(sr0, TiledUnsetMask)
        srX == IF kvmAdlp THEN UnsetFlags(sr1, {"SCANOUT"}) ELSE sr1
        x == AddCombinations(AddCombinations(l8, RenderFormats, XMd, render1),
                             ScanoutRenderFormats, XMd, srX)
        sr2 == UnsetFlags(srX, {"SW_READ_RARELY", "SW_WRITE_RARELY"})
        srY == IF DgpuNoYScanout(grp) THEN UnsetFlags(sr2, {"SCANOUT"}) ELSE sr2
        y1 == AddCombination(x, "NV12", YMd, {"TEXTURE", "HW_VIDEO_DECODER"})
        y2 == AddCombination(y1, "P010", YMd, {"TEXTURE", "HW_VIDEO_DECODER"})
    IN AddCombinations(AddCombinations(y2, RenderFormats, YMd, render1),
                       ScanoutRenderFormats, YMd, srY)

(* drv_get_combination: among the entries of the format whose flags       *)
(* include all requested ones, the highest priority, the first of equals;  *)
(* none for DRM_FORMAT_NONE or BO_USE_NONE.                                *)
GetCombination(reg, f, flags) ==
    LET c == {k \in DOMAIN reg : reg[k].format = f /\ flags \subseteq reg[k].flags}
    IN IF f = "NONE" \/ flags = {} \/ c = {} THEN NoCombo
       ELSE reg[CHOOSE k \in c : \A j \in c : reg[j].priority < reg[k].priority
                                              \/ (reg[j].priority = reg[k].priority /\ k <= j)]

(* i915_resolve_format (the build without USE_GRALLOC1's private table).  *)
ResolveFormat(f, flags) ==
    CASE f = "FLEX_IMPLEMENTATION_DEFINED" ->
            IF flags \cap {"CAMERA_READ", "CAMERA_WRITE"} # {} THEN "NV12" ELSE "XBGR8888"
      [] f = "FLEX_YCbCr_420_888" -> "NV12"
      [] OTHER -> f

(* Mutant: the retry without SCANOUT leaves the descriptor's flags alone.  *)
IsSupportedKeepsScanout(reg, f, flags) ==
    LET r == ResolveFormat(f, flags)
        first == GetCombination(reg, r, flags) # NoCombo
    IN IF ~first /\ "SCANOUT" \in flags
       THEN [ok |-> GetCombination(reg, r, flags \ {"SCANOUT"}) # NoCombo, flags |-> flags]
       ELSE [ok |-> first, flags |-> flags]

(* cros_gralloc_driver::is_supported: the lookup, retried once without    *)
(* SCANOUT, which it also clears in the caller's descriptor.               *)
IsSupported(reg, f, flags) ==
    LET r == ResolveFormat(f, flags)
        first == GetCombination(reg, r, flags) # NoCombo
    IN IF ~first /\ "SCANOUT" \in flags
       THEN [ok |-> GetCombination(reg, r, flags \ {"SCANOUT"}) # NoCombo,
             flags |-> flags \ {"SCANOUT"}]
       ELSE [ok |-> first, flags |-> flags]

(* The use flags allocate() creates the bo with: NV12 always linear, and  *)
(* a FLEX_IMPLEMENTATION_DEFINED resolved to RGB loses the encoder flag.   *)
AllocFlags(f, resolved, flags) ==
    LET f1 == IF resolved = "NV12" THEN flags \cup {"LINEAR"} ELSE flags
    IN IF f = "FLEX_IMPLEMENTATION_DEFINED" /\ resolved \in {"XBGR8888", "ABGR8888"}
       THEN f1 \ {"HW_VIDEO_ENCODER"} ELSE f1

=============================================================================
