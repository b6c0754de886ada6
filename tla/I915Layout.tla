----------------------------- MODULE I915Layout -----------------------------
(***************************************************************************)
(* The i915 layout engine: i915_bo_compute_metadata picks a modifier and   *)
(* tiling and computes per-plane stride, size and offset and the total     *)
(* size, through i915_bo_from_format and i915_align_dimensions, or the     *)
(* YVU420_ANDROID and CCS special cases.  The plane tables of helpers.c it *)
(* calls (drv_stride_from_format, drv_height_from_format,                  *)
(* drv_bo_from_format, drv_pick_modifier) are modelled from the spec.      *)
(*                                                                         *)
(* The state is one request and the layout computed for it: each step      *)
(* takes a new request, so the invariants check the operators over every   *)
(* request of the bounded grid.  The code keeps sizes and offsets in       *)
(* uint32; TLC's integers end at 2^31 - 1, so the grid stays far below the *)
(* wrap and the arithmetic here is exact.                                  *)
(***************************************************************************)
EXTENDS Naturals, Sequences, SequencesExt, FiniteSets, I915Combinations

CONSTANTS
    Formats,      \* DRM formats requested
    Widths,       \* widths in pixels
    Heights,      \* heights in rows
    ModLists,     \* explicit modifier lists passed to bo_create_with_modifiers
    PageSize,     \* getpagesize()
    AllocFormats, \* formats asked of allocate() (no modifier list)
    FlagSets,     \* use-flag sets asked of allocate()
    GrpTypes,     \* GPU topologies drv_init was given
    DeviceIds     \* PCI device ids I915_PARAM_CHIPSET_ID reports

VARIABLES req, meta

vars == <<req, meta>>

AlignUp(x, a) == ((x + a - 1) \div a) * a      \* ALIGN()
DivRoundUp(x, d) == (x + d - 1) \div d     \* DIV_ROUND_UP()

(* helpers.c planar layouts: per plane horizontal and vertical subsampling *)
(* and bytes per component.                                                *)
PlanarLayout(f) ==
    CASE f \in {"R8"}             -> [hsub |-> <<1>>, vsub |-> <<1>>, bpc |-> <<1>>]
      [] f \in {"RGB565"}         -> [hsub |-> <<1>>, vsub |-> <<1>>, bpc |-> <<2>>]
      [] f \in {"XRGB8888", "ABGR8888", "XBGR8888", "ARGB8888", "ABGR2101010",
                "ARGB2101010", "XBGR2101010", "XRGB2101010"}
                                  -> [hsub |-> <<1>>, vsub |-> <<1>>, bpc |-> <<4>>]
      [] f \in {"ABGR16161616F"}  -> [hsub |-> <<1>>, vsub |-> <<1>>, bpc |-> <<8>>]
      [] f \in {"NV12"}           -> [hsub |-> <<1, 2>>, vsub |-> <<1, 2>>, bpc |-> <<1, 2>>]
      [] f \in {"P010"}           -> [hsub |-> <<1, 2>>, vsub |-> <<1, 2>>, bpc |-> <<2, 4>>]
      [] f \in {"YVU420", "YVU420_ANDROID"} ->
                                     [hsub |-> <<1, 2, 2>>, vsub |-> <<1, 2, 2>>, bpc |-> <<1, 1, 1>>]

NumPlanes(f) == Len(PlanarLayout(f).bpc)

(* drv_stride_from_format, with the Android YV12 16-byte chroma rule.      *)
StrideFromFormat(f, w, p) ==
    LET l == PlanarLayout(f)
        s == DivRoundUp(w, l.hsub[p]) * l.bpc[p]
    IN IF f = "YVU420_ANDROID" THEN (IF p = 1 THEN AlignUp(s, 32) ELSE AlignUp(s, 16))
       ELSE s

(* Mutant: plane height divided down instead of rounded up.             *)
HeightFromFormatFloor(f, h, p) == h \div PlanarLayout(f).vsub[p]

HeightFromFormat(f, h, p) == DivRoundUp(h, PlanarLayout(f).vsub[p])

Modifiers == {"LINEAR", "X_TILED", "Y_TILED", "Y_TILED_CCS"}

(* modifier_order of i915_bo_compute_metadata.                             *)
ModifierOrder == <<"Y_TILED", "X_TILED", "LINEAR">>

(* drv_pick_modifier: the first of the order that the list contains, else  *)
(* DRM_FORMAT_MOD_LINEAR.                                                  *)
PickModifier(mods, order) ==
    LET i == SelectInSeq(order, LAMBDA m : m \in ToSet(mods))
    IN IF i = 0 THEN "LINEAR" ELSE order[i]

(* The switch on the modifier: the Y family tiles Y.                       *)
TilingOf(m) ==
    CASE m = "LINEAR" -> "NONE"
      [] m = "X_TILED" -> "X"
      [] m \in {"Y_TILED", "Y_TILED_CCS"} -> "Y"

(* i915_align_dimensions: (stride, height) rounded up to the tiling's      *)
(* horizontal and vertical alignment; R8 keeps its stride in GRALLOC1.     *)
(* Mutant: Y tiles taken as 16 rows tall.                                *)
AlignmentYRows16(tiling) ==
    CASE tiling = "NONE" -> [h |-> 64, v |-> 4]
      [] tiling = "X"    -> [h |-> 512, v |-> 8]
      [] tiling = "Y"    -> [h |-> 128, v |-> 16]

Alignment(tiling) ==
    CASE tiling = "NONE" -> [h |-> 64, v |-> 4]
      [] tiling = "X"    -> [h |-> 512, v |-> 8]
      [] tiling = "Y"    -> [h |-> 128, v |-> 32]

AlignDimensions(f, tiling, stride, height) ==
    [stride |-> IF UseGralloc1 /\ f = "R8" THEN stride
                ELSE AlignUp(stride, Alignment(tiling).h),
     height |-> AlignUp(height, Alignment(tiling).v)]

(* Planes laid end to end: offset of plane p is the running sum of       *)
(* the sizes before it.                                                    *)
(* Mutant: the offset is recorded after the plane's size is added.       *)
OffsetsAfterSize(sizes) == [p \in 1..Len(sizes) |-> FoldLeft(+, 0, SubSeq(sizes, 1, p))]

Offsets(sizes) == [p \in 1..Len(sizes) |-> FoldLeft(+, 0, SubSeq(sizes, 1, p - 1))]

EndOf(sizes) == FoldLeft(+, 0, sizes)

(* i915_bo_from_format: each plane's stride and height aligned, size is    *)
(* stride * aligned height, total rounded up to a page.                    *)
I915BoFromFormat(f, w, h, tiling) ==
    LET n  == NumPlanes(f)
        ad == [p \in 1..n |-> AlignDimensions(f, tiling, StrideFromFormat(f, w, p),
                                                         HeightFromFormat(f, h, p))]
        sizes == [p \in 1..n |-> ad[p].stride * ad[p].height]
    IN [strides |-> [p \in 1..n |-> ad[p].stride], sizes |-> sizes,
        offsets |-> Offsets(sizes), total |-> AlignUp(EndOf(sizes), PageSize)]

(* drv_bo_from_format with the Y stride given: chroma planes of YVU420     *)
(* take half the stride; total is the end of the last plane.               *)
DrvBoFromFormat(stride, h, f) ==
    LET n == NumPlanes(f)
        strides == [p \in 1..n |-> IF p = 1 THEN stride ELSE DivRoundUp(stride, 2)]
        sizes == [p \in 1..n |-> strides[p] * HeightFromFormat(f, h, p)]
    IN [strides |-> strides, sizes |-> sizes, offsets |-> Offsets(sizes),
        total |-> EndOf(sizes)]

(* The CCS branch: a main surface of 128x32 Y tiles of 4096 bytes and a    *)
(* control surface with one tile per 32x16 main tiles, right after it.     *)
CcsLayout(f, w, h) ==
    LET wt  == DivRoundUp(StrideFromFormat(f, w, 1), 128)
        ht  == DivRoundUp(h, 32)
        sz  == wt * ht * 4096
        cwt == DivRoundUp(wt, 32)
        csz == cwt * DivRoundUp(ht, 16) * 4096
    IN [strides |-> <<wt * 128, cwt * 128>>, sizes |-> <<sz, csz>>,
        offsets |-> <<0, sz>>, total |-> sz + csz]

(* i915_bo_compute_metadata once the modifier is chosen: the tiling of    *)
(* the modifier and the layout of its branch.                              *)
LayoutFor(f, w, h, m) ==
    LET t == TilingOf(m)
        l == CASE f = "YVU420_ANDROID" -> DrvBoFromFormat(AlignUp(w, 32), h, f)
               [] m = "Y_TILED_CCS"    -> CcsLayout(f, w, h)
               [] OTHER                -> I915BoFromFormat(f, w, h, t)
    IN [err |-> "NONE", modifier |-> m, tiling |-> t, format |-> f] @@ l

(* i915_bo_compute_metadata for an explicit modifier list.                 *)
ComputeMetadata(f, w, h, mods) == LayoutFor(f, w, h, PickModifier(mods, ModifierOrder))

(* The registry i915_add_combinations builds for each topology.            *)
Registry == [g \in GrpTypes, k \in BOOLEAN |-> I915AddCombinations(g, k)]

(* The gralloc path without a modifier: the HAL's is_supported check on    *)
(* the descriptor (which may clear SCANOUT in it), then allocate():        *)
(* resolve the format, adjust the use flags, and i915_bo_compute_metadata  *)
(* takes the modifier of drv_get_combination; without one it fails with    *)
(* -EINVAL, drv_bo_create returns NULL and allocate() returns -ENOMEM.     *)
(* The handle records the descriptor's use flags, not the adjusted ones.   *)
Allocate(f, w, h, flags, g, k) ==
    LET reg == Registry[g, k]
        sup == IsSupported(reg, f, flags)
        r == ResolveFormat(f, sup.flags)
        u == AllocFlags(f, r, sup.flags)
        c == GetCombination(reg, r, u)
    IN CASE ~sup.ok         -> [err |-> "UNSUPPORTED"]
         [] c = NoCombo     -> [err |-> "ENOMEM"]
         [] OTHER           -> LayoutFor(r, w, h, c.modifier)
                               @@ [useFlags |-> u]

-----------------------------------------------------------------------------
(* bo_create_with_modifiers requests, and allocate() requests on every     *)
(* topology and device, under KVM or not.                                  *)
Requests ==
    [format : Formats, width : Widths, height : Heights, mods : ModLists,
     flags : {{}}, grp : {"ONE_GPU_INTEL"}, kvm : {FALSE}, dev : {CHOOSE d \in DeviceIds : TRUE}]
    \cup [format : AllocFormats, width : Widths, height : Heights, mods : {<<>>},
          flags : FlagSets, grp : GrpTypes, kvm : BOOLEAN, dev : DeviceIds]

Layout(r) ==
    IF r.mods = <<>> THEN Allocate(r.format, r.width, r.height, r.flags, r.grp, KvmAdlp(r.kvm, r.dev))
    ELSE ComputeMetadata(r.format, r.width, r.height, r.mods)

Init == \E r \in Requests : req = r /\ meta = Layout(r)

(* A caller asks for another buffer.                                       *)
Compute(r) == req' = r /\ meta' = Layout(r)

(* The next request differs from the last in one parameter: every request *)
(* is an initial state already, so this only keeps the steps few.          *)
FieldValues ==
    [format |-> Formats \cup AllocFormats, width |-> Widths, height |-> Heights,
     mods |-> ModLists \cup {<<>>}, flags |-> FlagSets \cup {{}}, grp |-> GrpTypes,
     kvm |-> BOOLEAN, dev |-> DeviceIds]

Neighbours(r) ==
    {n \in UNION {{[r EXCEPT ![fld] = v] : v \in FieldValues[fld]} : fld \in DOMAIN r} :
        n # r /\ n \in Requests}

Next == \E r \in Neighbours(req) : Compute(r)

Spec == Init /\ [][Next]_vars

-----------------------------------------------------------------------------
Laid == meta.err = "NONE"   \* the request produced a layout

Planes == IF Laid THEN 1..Len(meta.sizes) ELSE {}

TypeOK ==
    /\ req \in Requests
    /\ meta.err \in {"NONE", "UNSUPPORTED", "ENOMEM"}
    /\ Laid =>
        /\ meta.modifier \in Modifiers /\ meta.tiling \in {"NONE", "X", "Y"}
        /\ meta.strides \in [Planes -> Nat \ {0}]
        /\ meta.sizes \in [Planes -> Nat \ {0}]
        /\ meta.offsets \in [Planes -> Nat]
        /\ meta.total \in Nat

(* Plane layout (spec 3): the planes lie end to end from offset 0 in plane *)
(* order and the last one ends within the total size that GEM_CREATE is    *)
(* asked for, so no plane reaches past the object.                         *)
PlanesWithinBuffer ==
    Laid =>
    /\ meta.offsets[1] = 0
    /\ \A p \in Planes :
        /\ p > 1 => meta.offsets[p] = meta.offsets[p - 1] + meta.sizes[p - 1]
        /\ meta.offsets[p] + meta.sizes[p] <= meta.total

(* The assert of i915_bo_from_format: every plane of a tiled buffer laid   *)
(* out there (all formats but YVU420_ANDROID, all modifiers but CCS)       *)
(* starts on a page, which holds only because each aligned stride times    *)
(* aligned height is a multiple of the page size.                          *)
TiledPlanesPageAligned ==
    /\ Laid /\ meta.format # "YVU420_ANDROID" /\ meta.modifier # "Y_TILED_CCS"
    /\ meta.tiling # "NONE"
    => \A p \in Planes : meta.offsets[p] % PageSize = 0

(* Modifier preference as spec 4.2 states it: from an explicit list the    *)
(* most compressed or tiled modifier the list offers is chosen, Y-tiled    *)
(* with CCS first, linear last.                                            *)
ModifierPreference ==
    req.mods # <<>> =>
        meta.modifier = PickModifier(req.mods, <<"Y_TILED_CCS", "Y_TILED", "X_TILED", "LINEAR">>)

(* What is_supported promises the HAL: a descriptor it accepts (after it   *)
(* has cleared SCANOUT where only that made the lookup fail) is one        *)
(* allocate() finds a combination for, although allocate resolves the      *)
(* format again and adds LINEAR or drops HW_VIDEO_ENCODER before its own    *)
(* lookup.                                                                  *)
SupportedImpliesAllocatable == req.mods = <<>> /\ meta.err # "UNSUPPORTED" => Laid

(* Uses that need a linear buffer get one: a buffer allocated for CPU      *)
(* access (SW_*_OFTEN), RenderScript, protected content or the camera is   *)
(* never tiled, whatever combination of tiers and topology chose it.       *)
(* Only the SW_*_RARELY uses may land on a tiled buffer.                    *)
LinearOnlyUses == {"RENDERSCRIPT", "LINEAR", "PROTECTED", "SW_READ_OFTEN", "SW_WRITE_OFTEN",
                   "CAMERA_READ", "CAMERA_WRITE"}

LinearUsesLinear ==
    req.mods = <<>> /\ Laid /\ meta.useFlags \cap LinearOnlyUses # {} => meta.tiling = "NONE"

(* Scanout buffers (SCANOUT still set after is_supported) get a tiling    *)
(* the display engine takes: never Y on a topology with a discrete GPU.    *)
ScanoutTilingSupported ==
    /\ req.mods = <<>> /\ Laid /\ "SCANOUT" \in meta.useFlags
    /\ req.grp \in {"TWO_GPU_IGPU_DGPU", "THREE_GPU_IGPU_VIRTIO_DGPU"}
    => meta.tiling # "Y"

(* On every ADL-P (an id of the ADL-P table) under KVM a scanout buffer is *)
(* linear: i915_info_from_device_id must recognise each ADL-P id although   *)
(* most of them are in its gen12 table too.                                *)
AdlpKvmScanoutLinear ==
    /\ req.mods = <<>> /\ Laid /\ "SCANOUT" \in meta.useFlags
    /\ req.kvm /\ \E k \in DOMAIN AdlpIds : AdlpIds[k] = req.dev
    => meta.tiling = "NONE"

=============================================================================
