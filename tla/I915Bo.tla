------------------------------- MODULE I915Bo -------------------------------
(***************************************************************************)
(* The i915 buffer object factory and mapping/coherency engine: one bo    *)
(* through i915_bo_create_from_metadata or i915_bo_import, i915_bo_map,    *)
(* i915_bo_invalidate, i915_bo_flush (with i915_clflush) and destruction.  *)
(*                                                                         *)
(* The kernel is modelled by whether the bo's GEM handle is open, the     *)
(* tiling the kernel records for the object, the domain the object was    *)
(* last moved to, and the cache lines the CPU has written through a       *)
(* cacheable mapping that memory has not seen yet.  The callers (drv.c,   *)
(* cros_gralloc_buffer) may call map, invalidate, flush and unmap in any  *)
(* order the mapping state allows; each call is one step.                 *)
(***************************************************************************)
EXTENDS Naturals, FiniteSets

CONSTANT Sizes   \* total_size of the bo (the mapping's length)

ASSUME Sizes \subseteq Nat \ {0}


Tilings == {"NONE", "X", "Y"}
CacheLine == 64   \* I915_CACHELINE_SIZE

NoBo == [state |-> "none"]
NoFlush == [start |-> 0, size |-> 0, lines |-> {}]

VARIABLES
    bo,        \* the bo: NoBo, or its meta (tiling, ccs modifier, WC use)
    gemOpen,   \* the bo's GEM handle is open on the driver fd
    kTiling,   \* the tiling the kernel records for the object
    mapping,   \* "none", or the mapping's kind: "GTT", "WC" or "WB" (cached)
    domain,    \* the domain i915_bo_invalidate last moved the object to
    dirty,     \* lines written by the CPU, still only in its cache
    published, \* a flush returned since the last CPU write
    lastFlush, \* the range the last i915_clflush was given and the lines it flushed
    hasLlc,    \* i915->has_llc
    ret        \* what the last call returned

vars == <<bo, gemOpen, kTiling, mapping, domain, dirty, published, lastFlush, hasLlc, ret>>

Meta == [state : {"live"}, tiling : Tilings, ccs : BOOLEAN, wc : BOOLEAN, size : Sizes]

(* The last cache line of a bo mapped at address 0.                       *)
LastLine(b) == (b.size - 1) \div CacheLine

(* The loop of i915_clflush from p up to end, one cache line per round.   *)
RECURSIVE ClflushLoop(_, _)
ClflushLoop(p, end) ==
    IF p >= end THEN {} ELSE {p \div CacheLine} \cup ClflushLoop(p + CacheLine, end)

(* Mutant: the loop stops before a partial last line.                    *)
I915ClflushWholeLines(start, size) ==
    ClflushLoop(start - (start % CacheLine), start + size - ((start + size) % CacheLine))

(* i915_clflush(start, size): the lines it flushes.                        *)
I915Clflush(start, size) == ClflushLoop(start - (start % CacheLine), start + size)

(* The WC heuristic of i915_bo_map: scanout and neither renderscript nor   *)
(* camera use.                                                             *)
UseFlags == [scanout : BOOLEAN, rsCamera : BOOLEAN]
WantsWc(u) == u.scanout /\ ~u.rsCamera

(* A CPU mapping through DRM_IOCTL_I915_GEM_MMAP.                          *)
CpuMapKind == IF bo.wc THEN "WC" ELSE "WB"

(* No bo yet; has_llc is whatever I915_PARAM_HAS_LLC answered in         *)
(* i915_init (lines 333-342).                                               *)
Init ==
    /\ bo = NoBo /\ gemOpen = FALSE /\ kTiling = "NONE"
    /\ mapping = "none" /\ domain = "CPU" /\ dirty = {} /\ published = FALSE
    /\ lastFlush = NoFlush
    /\ hasLlc \in BOOLEAN /\ ret = "NONE"

-----------------------------------------------------------------------------
(* i915_bo_create_from_metadata: GEM_CREATE fails, -errno.                  *)
GemCreateFails ==
    /\ bo = NoBo
    /\ ret' = "ERRNO"
    /\ UNCHANGED <<bo, gemOpen, kTiling, mapping, domain, dirty, published, lastFlush, hasLlc>>

(* GEM_CREATE and GEM_SET_TILING succeed: the object has the tiling the    *)
(* layout chose (CCS is Y-tiled).                                          *)
Create(t, ccs, u, sz) ==
    /\ bo = NoBo
    /\ ccs => t = "Y"
    /\ bo' = [state |-> "live", tiling |-> t, ccs |-> ccs, wc |-> WantsWc(u), size |-> sz]
    /\ gemOpen' = TRUE /\ kTiling' = t
    /\ ret' = "OK"
    /\ UNCHANGED <<mapping, domain, dirty, published, lastFlush, hasLlc>>

(* Mutant: the new handle is not closed when SET_TILING fails.           *)
SetTilingFailsNoClose ==
    /\ bo = NoBo
    /\ gemOpen' = TRUE
    /\ ret' = "ERRNO"
    /\ UNCHANGED <<bo, kTiling, mapping, domain, dirty, published, lastFlush, hasLlc>>

(* GEM_CREATE succeeds, GEM_SET_TILING fails: the handle is closed with    *)
(* GEM_CLOSE before -errno returns.                                         *)
SetTilingFails ==
    /\ bo = NoBo
    /\ ret' = "ERRNO"
    /\ UNCHANGED <<bo, gemOpen, kTiling, mapping, domain, dirty, published, lastFlush, hasLlc>>

(* i915_bo_import: drv_prime_bo_import fails and returns its error.       *)
PrimeImportFails ==
    /\ bo = NoBo
    /\ ret' = "ERRNO"
    /\ UNCHANGED <<bo, gemOpen, kTiling, mapping, domain, dirty, published, lastFlush, hasLlc>>

(* drv_prime_bo_import and GEM_GET_TILING succeed: an object another      *)
(* process created with tiling kt; the kernel's answer overwrites the     *)
(* tiling assumed from the handle.                                        *)
Import(kt, ccs, u, sz) ==
    /\ bo = NoBo
    /\ ccs => kt = "Y"
    /\ bo' = [state |-> "live", tiling |-> kt, ccs |-> ccs, wc |-> WantsWc(u), size |-> sz]
    /\ gemOpen' = TRUE /\ kTiling' = kt
    /\ ret' = "OK"
    /\ UNCHANGED <<mapping, domain, dirty, published, lastFlush, hasLlc>>

(* GEM_GET_TILING fails: drv_gem_bo_destroy closes the imported handle.   *)
GetTilingFails ==
    /\ bo = NoBo
    /\ ret' = "ERRNO"
    /\ UNCHANGED <<bo, gemOpen, kTiling, mapping, domain, dirty, published, lastFlush, hasLlc>>

(* Mutant: the bo is destroyed with its mapping still in place.         *)
DestroyWhileMapped ==
    /\ bo # NoBo
    /\ bo' = NoBo /\ gemOpen' = FALSE
    /\ ret' = "OK"
    /\ UNCHANGED <<kTiling, mapping, domain, dirty, published, lastFlush, hasLlc>>

(* bo_destroy (drv_gem_bo_destroy) of an unmapped bo closes its handle.   *)
Destroy ==
    /\ bo # NoBo /\ mapping = "none"
    /\ bo' = NoBo /\ gemOpen' = FALSE
    /\ ret' = "OK"
    /\ UNCHANGED <<kTiling, mapping, domain, dirty, published, lastFlush, hasLlc>>

-----------------------------------------------------------------------------
(* i915_bo_map fails: a CCS bo is refused, or an mmap ioctl (GEM_MMAP,    *)
(* the fallback GEM_MMAP after MMAP_GTT, or mmap itself) fails.           *)
MapFails ==
    /\ bo # NoBo /\ mapping = "none"
    /\ ret' = "MAP_FAILED"
    /\ UNCHANGED <<bo, gemOpen, kTiling, mapping, domain, dirty, published, lastFlush, hasLlc>>

(* i915_bo_map through GEM_MMAP: an untiled bo, or a tiled one whose       *)
(* MMAP_GTT failed (no aperture); WC when the use flags ask for it.        *)
MapCpu ==
    /\ bo # NoBo /\ mapping = "none" /\ ~bo.ccs
    /\ mapping' = CpuMapKind
    /\ ret' = "OK"
    /\ UNCHANGED <<bo, gemOpen, kTiling, domain, dirty, published, lastFlush, hasLlc>>

(* i915_bo_map of a tiled bo through MMAP_GTT and mmap on the fd.          *)
MapGtt ==
    /\ bo # NoBo /\ mapping = "none" /\ ~bo.ccs /\ bo.tiling # "NONE"
    /\ mapping' = "GTT"
    /\ ret' = "OK"
    /\ UNCHANGED <<bo, gemOpen, kTiling, domain, dirty, published, lastFlush, hasLlc>>

(* The CPU writes line l through the mapping: only a cacheable mapping on *)
(* a device without a shared last-level cache leaves it in the CPU cache. *)
CpuWrite(l) ==
    /\ mapping # "none"
    /\ dirty' = IF mapping = "WB" /\ ~hasLlc THEN dirty \cup {l} ELSE dirty
    /\ published' = FALSE
    /\ UNCHANGED <<bo, gemOpen, kTiling, mapping, domain, lastFlush, hasLlc, ret>>

(* i915_bo_invalidate: SET_DOMAIN to CPU for an untiled bo, to GTT for a   *)
(* tiled one (read and, with BO_MAP_WRITE, write domain alike).           *)
Invalidate ==
    /\ mapping # "none"
    /\ domain' = IF bo.tiling = "NONE" THEN "CPU" ELSE "GTT"
    /\ ret' = "OK"
    /\ UNCHANGED <<bo, gemOpen, kTiling, mapping, dirty, published, lastFlush, hasLlc>>

(* SET_DOMAIN fails: its error is returned.                               *)
InvalidateFails ==
    /\ mapping # "none"
    /\ ret' = "ERRNO"
    /\ UNCHANGED <<bo, gemOpen, kTiling, mapping, domain, dirty, published, lastFlush, hasLlc>>

(* i915_bo_flush: without LLC, an untiled bo's mapping (vma->addr, 0 in   *)
(* the model, and vma->length, the total size) is clflushed.               *)
Flush ==
    /\ mapping # "none"
    /\ IF ~hasLlc /\ bo.tiling = "NONE"
       THEN LET fl == I915Clflush(0, bo.size) IN
            /\ dirty' = dirty \ fl
            /\ lastFlush' = [start |-> 0, size |-> bo.size, lines |-> fl]
       ELSE UNCHANGED <<dirty, lastFlush>>
    /\ published' = TRUE
    /\ ret' = "OK"
    /\ UNCHANGED <<bo, gemOpen, kTiling, mapping, domain, hasLlc>>

(* bo_unmap (drv_bo_munmap): the mapping goes; the cache keeps its lines. *)
Unmap ==
    /\ mapping # "none"
    /\ mapping' = "none"
    /\ ret' = "OK"
    /\ UNCHANGED <<bo, gemOpen, kTiling, domain, dirty, published, lastFlush, hasLlc>>

Next ==
    \/ GemCreateFails \/ SetTilingFails \/ PrimeImportFails \/ GetTilingFails
    \/ \E t \in Tilings, ccs \in BOOLEAN, u \in UseFlags, sz \in Sizes :
            Create(t, ccs, u, sz) \/ Import(t, ccs, u, sz)
    \/ Destroy \/ MapFails \/ MapCpu \/ MapGtt
    \/ mapping # "none" /\ \E l \in {0, LastLine(bo)} : CpuWrite(l)
    \/ Invalidate \/ InvalidateFails \/ Flush \/ Unmap

Spec == Init /\ [][Next]_vars

-----------------------------------------------------------------------------
TypeOK ==
    /\ bo \in {NoBo} \cup Meta
    /\ gemOpen \in BOOLEAN /\ kTiling \in Tilings
    /\ mapping \in {"none", "GTT", "WC", "WB"} /\ domain \in {"CPU", "GTT"}
    /\ mapping # "none" => bo # NoBo
    /\ dirty \in SUBSET Nat /\ published \in BOOLEAN /\ hasLlc \in BOOLEAN
    /\ ret \in {"OK", "ERRNO", "MAP_FAILED", "NONE"}

(* Spec 4.3 and 7: a failed create or import leaves no GEM handle open;    *)
(* the handle is open exactly while the bo exists, whichever of GEM_CREATE,*)
(* SET_TILING, the PRIME import or GET_TILING failed.                      *)
NoGemLeak == gemOpen <=> bo # NoBo

(* The lines a flush of [start, start + size) must write back: every      *)
(* cache line the range touches, the partial first and last included.      *)
LinesTouching(start, size) ==
    {l \in 0 .. (start + size) \div CacheLine :
        l * CacheLine < start + size /\ start < (l + 1) * CacheLine}

(* i915_clflush's loop, started at the line of start and stepping a line   *)
(* at a time, flushed exactly the lines its range touches, the partial     *)
(* last line of a total size that is no multiple of 64 included.           *)
ClflushCoversRange == lastFlush.lines = LinesTouching(lastFlush.start, lastFlush.size)

(* Spec 4.4, flush publishes CPU writes before GPU access: once a flush   *)
(* has returned and the CPU has not written since, no written line is     *)
(* still held only in the CPU cache.                                       *)
FlushPublishesWrites == published => dirty = {}

=============================================================================
