--------------------------- MODULE GrallocDriver ---------------------------
(***************************************************************************)
(* The buffer/handle lifecycle manager of cros_gralloc_driver.cc.          *)
(*                                                                         *)
(* The driver keeps two tables under one mutex:                            *)
(*   buffers_  GEM handle id  -> cros_gralloc_buffer (with a refcount)     *)
(*   handles_  native handle  -> (buffer, local count)                     *)
(* A buffer is keyed by the GEM handle of its plane 0 on the render fd,    *)
(* which the kernel returns for every import of the same object, so two    *)
(* handles of one object meet at one buffer.                               *)
(*                                                                         *)
(* allocate() creates the bo, the reserved region and the native handle    *)
(* outside the mutex and registers them under it: two steps of a thread.  *)
(* retain(), release() and the accessors run whole under the mutex: one    *)
(* step each.  lock() first waits on its acquire fence without the mutex,  *)
(* then looks the handle up under it: two steps of a thread.  The kernel   *)
(* is modelled by the per-fd GEM handle table gem.                         *)
(***************************************************************************)
EXTENDS Naturals, FiniteSets, Functions, FiniteSetsExt, TLC

CONSTANTS
    Threads,    \* threads of the process calling into the driver
    Hnds,       \* addresses a native handle can be allocated at
    Objs,       \* kernel buffer objects
    GemIds,     \* GEM handle numbers the kernel hands out on the render fd
    Foreign,    \* objects created by other processes, whose handles may arrive
    NoHnd,      \* a buffer created by import owns no native handle
    MaxCount,   \* bound on a local handle count (caps retain)
    MaxFds      \* bound on open reserved-region memfds (caps allocate)

ASSUME Foreign \subseteq Objs /\ NoHnd \notin Hnds /\ MaxCount \in Nat \ {0} /\ MaxFds \in Nat

VARIABLES
    gem,      \* GEM handle table of the render fd: id -> object
    hnds,     \* native handles present in the process: hnd -> [obj, rfd, owned]
    buffers,  \* buffers_: id -> [obj, refcount, hnd]
    handles,  \* handles_: hnd -> [buf, count]
    memfds,   \* reserved-region memfds this process has open
    pc,       \* per thread: "idle", "created" (allocate between its two halves)
              \* or "fence" (lock waiting on its acquire fence)
    tl,       \* per thread: what allocate() has created before taking the mutex
    lh,       \* per thread: the handle lock() was called with
    lkd,      \* per thread: the handles it holds locked
    ret       \* the value the last completed call returned

vars == <<gem, hnds, buffers, handles, memfds, pc, tl, lh, lkd, ret>>

Rets == {"OK", "ENOMEM", "EINVAL", "EFAULT", "ERRNO", "NONE"}

NoAlloc == [obj |-> NoHnd, gem |-> NoHnd, hnd |-> NoHnd, rfd |-> FALSE]

(* A kernel object stays alive while this process references it or while *)
(* another process holds it; only dead objects can be created afresh.     *)
InFlight == {t \in Threads : pc[t] = "created"}
LiveObjs == Foreign \cup Range(gem) \cup {hnds[h].obj : h \in DOMAIN hnds}
                    \cup {tl[t].obj : t \in InFlight}
UsedHnds == DOMAIN hnds \cup {tl[t].hnd : t \in InFlight}

(* map.emplace(k, v): inserts only when k is absent.                      *)
Emplace(f, k, v) == IF k \in DOMAIN f THEN f ELSE f @@ (k :> v)
Erase(f, k) == Restrict(f, DOMAIN f \ {k})

(* drmPrimeFDToHandle: the id the fd's object already has on this fd, or  *)
(* a fresh one; an import of an object never yields two ids.              *)
PrimeIds(o) == IF \E g \in DOMAIN gem : gem[g] = o
               THEN {CHOOSE g \in DOMAIN gem : gem[g] = o}
               ELSE GemIds \ DOMAIN gem

Init ==
    /\ gem = [g \in {} |-> NoHnd]
    /\ hnds = [h \in {} |-> NoHnd]
    /\ buffers = [g \in {} |-> NoHnd]
    /\ handles = [h \in {} |-> NoHnd]
    /\ memfds = 0
    /\ pc = [t \in Threads |-> "idle"]
    /\ tl = [t \in Threads |-> NoAlloc]
    /\ lh = [t \in Threads |-> NoHnd]
    /\ lkd = [t \in Threads |-> {}]
    /\ ret = "NONE"

-----------------------------------------------------------------------------
(* allocate(), lines 237-358: outside the mutex.  drv_bo_create makes the *)
(* GEM object, create_reserved_region the memfd, malloc the handle.       *)
(* The drv_num_buffers_per_bo != 1 exit (lines 278-282) is not an action: *)
(* i915 gives every plane the one GEM handle (i915.c:496), so it is 1.    *)
AllocCreate(t, withRegion) ==
    /\ pc[t] = "idle"
    /\ withRegion => memfds < MaxFds
    /\ \E o \in Objs \ LiveObjs, g \in GemIds \ DOMAIN gem, h \in Hnds \ UsedHnds :
        /\ gem' = gem @@ (g :> o)
        /\ memfds' = IF withRegion THEN memfds + 1 ELSE memfds
        /\ tl' = [tl EXCEPT ![t] = [obj |-> o, gem |-> g, hnd |-> h, rfd |-> withRegion]]
    /\ pc' = [pc EXCEPT ![t] = "created"]
    /\ UNCHANGED <<lh, lkd, hnds, buffers, handles, ret>>

(* drv_bo_create fails: -ENOMEM, nothing was created.                     *)
AllocNoBo(t) ==
    /\ pc[t] = "idle"
    /\ ret' = "ENOMEM"
    /\ UNCHANGED <<lh, lkd, gem, hnds, buffers, handles, memfds, pc, tl>>

(* create_reserved_region fails; allocate destroys the bo and returns the *)
(* error.  When memfd_create succeeded and ftruncate failed, the memfd is *)
(* returned from neither branch and stays open (leaksFd).                 *)
AllocRegionFails(t, leaksFd) ==
    /\ pc[t] = "idle"
    /\ leaksFd => memfds < MaxFds
    /\ Objs \ LiveObjs # {} /\ GemIds \ DOMAIN gem # {}   \* the bo existed
    /\ memfds' = IF leaksFd THEN memfds + 1 ELSE memfds
    /\ ret' = "ERRNO"
    /\ UNCHANGED <<lh, lkd, gem, hnds, buffers, handles, pc, tl>>

(* allocate(), lines 359-367: under the mutex, emplace the new buffer     *)
(* (refcount 1, owning the handle) and the handle with count 1.           *)
AllocRegister(t) ==
    LET a == tl[t] IN
    /\ pc[t] = "created"
    /\ hnds' = hnds @@ (a.hnd :> [obj |-> a.obj, rfd |-> a.rfd, owned |-> TRUE])
    /\ buffers' = Emplace(buffers, a.gem, [obj |-> a.obj, refcount |-> 1, hnd |-> a.hnd, locks |-> 0])
    /\ handles' = Emplace(handles, a.hnd, [buf |-> a.gem, count |-> 1])
    /\ pc' = [pc EXCEPT ![t] = "idle"]
    /\ tl' = [tl EXCEPT ![t] = NoAlloc]
    /\ ret' = "OK"
    /\ UNCHANGED <<lh, lkd, gem, memfds>>

-----------------------------------------------------------------------------
(* retain(), lines 370-428, one critical section.                         *)
(* cros_gralloc_convert_handle rejects what is not a live native handle.  *)
RetainInvalid(t, h) ==
    /\ pc[t] = "idle"
    /\ h \notin DOMAIN hnds
    /\ ret' = "EINVAL"
    /\ UNCHANGED <<lh, lkd, gem, hnds, buffers, handles, memfds, pc, tl>>

(* get_buffer(hnd) finds the handle: both counts go up.                   *)
RetainRegistered(t, h) ==
    LET g == handles[h].buf IN
    /\ pc[t] = "idle"
    /\ h \in DOMAIN handles
    /\ handles[h].count < MaxCount
    /\ handles' = [handles EXCEPT ![h].count = @ + 1]
    /\ buffers' = [buffers EXCEPT ![g].refcount = @ + 1]
    /\ ret' = "OK"
    /\ UNCHANGED <<lh, lkd, gem, hnds, memfds, pc, tl>>

(* drmPrimeFDToHandle on fds[0] fails: -errno.                            *)
RetainPrimeFails(t, h) ==
    /\ pc[t] = "idle"
    /\ h \in DOMAIN hnds \ DOMAIN handles
    /\ ret' = "ERRNO"
    /\ UNCHANGED <<lh, lkd, gem, hnds, buffers, handles, memfds, pc, tl>>

RetainShared(t, h) ==
    /\ pc[t] = "idle"
    /\ h \in DOMAIN hnds \ DOMAIN handles
    /\ \E g \in PrimeIds(hnds[h].obj) :
        /\ g \in DOMAIN buffers
        /\ gem' = gem @@ (g :> hnds[h].obj)
        /\ buffers' = [buffers EXCEPT ![g].refcount = @ + 1]
        /\ handles' = Emplace(handles, h, [buf |-> g, count |-> 1])
    /\ ret' = "OK"
    /\ UNCHANGED <<lh, lkd, hnds, memfds, pc, tl>>

(* The id is unknown: drv_bo_import makes a new buffer that owns no       *)
(* native handle; the handle is registered with count 1.                  *)
RetainImport(t, h) ==
    /\ pc[t] = "idle"
    /\ h \in DOMAIN hnds \ DOMAIN handles
    /\ \E g \in PrimeIds(hnds[h].obj) :
        /\ g \notin DOMAIN buffers
        /\ gem' = gem @@ (g :> hnds[h].obj)
        /\ buffers' = Emplace(buffers, g, [obj |-> hnds[h].obj, refcount |-> 1, hnd |-> NoHnd, locks |-> 0])
        /\ handles' = Emplace(handles, h, [buf |-> g, count |-> 1])
    /\ ret' = "OK"
    /\ UNCHANGED <<lh, lkd, hnds, memfds, pc, tl>>

(* Mutant: the import runs without first looking the id up in buffers_.  *)
RetainImportFailsUnchecked(t, h, closesId) ==
    /\ pc[t] = "idle"
    /\ h \in DOMAIN hnds \ DOMAIN handles
    /\ \E g \in PrimeIds(hnds[h].obj) :
        gem' = IF closesId THEN Erase(gem, g) ELSE gem @@ (g :> hnds[h].obj)
    /\ ret' = "EFAULT"
    /\ UNCHANGED <<lh, lkd, hnds, buffers, handles, memfds, pc, tl>>

(* drv_bo_import returns NULL: -EFAULT.  When i915_bo_import's            *)
(* GET_TILING failed, drv_gem_bo_destroy closed the id (closesId); when   *)
(* drv_bo_new or drv_prime_bo_import failed, the id opened by retain's    *)
(* own drmPrimeFDToHandle stays open.                                     *)
RetainImportFails(t, h, closesId) ==
    /\ pc[t] = "idle"
    /\ h \in DOMAIN hnds \ DOMAIN handles
    /\ \E g \in PrimeIds(hnds[h].obj) :
        /\ g \notin DOMAIN buffers
        /\ gem' = IF closesId THEN Erase(gem, g) ELSE gem @@ (g :> hnds[h].obj)
    /\ ret' = "EFAULT"
    /\ UNCHANGED <<lh, lkd, hnds, buffers, handles, memfds, pc, tl>>

-----------------------------------------------------------------------------
(* release(), lines 430-455, one critical section.  The handle's count    *)
(* drops (erased at zero), then the buffer's; at zero the buffer is       *)
(* erased and deleted: drv_bo_destroy closes its GEM id and, for an       *)
(* allocated buffer, the owned native handle is closed and freed.         *)
ReleaseInvalid(t, h) ==
    /\ pc[t] = "idle"
    /\ h \notin DOMAIN handles
    /\ ret' = "EINVAL"
    /\ UNCHANGED <<lh, lkd, gem, hnds, buffers, handles, memfds, pc, tl>>

(* Mutant: the handle's count is decremented but never erased at zero.  *)
ReleaseKeepsZeroEntry(t, h) ==
    LET g == handles[h].buf IN
    /\ pc[t] = "idle"
    /\ h \in DOMAIN handles
    /\ handles' = [handles EXCEPT ![h].count = @ - 1]
    /\ buffers' = IF buffers[g].refcount = 1 THEN Erase(buffers, g)
                  ELSE [buffers EXCEPT ![g].refcount = @ - 1]
    /\ gem' = IF buffers[g].refcount = 1 THEN Erase(gem, g) ELSE gem
    /\ ret' = "OK"
    /\ UNCHANGED <<lh, lkd, hnds, memfds, pc, tl>>

(* Mutant: the buffer is destroyed when this handle's count reaches zero, *)
(* whatever other handles still hold it.                                   *)
ReleaseDestroysWithHandle(t, h) ==
    LET g == handles[h].buf
        dies == handles[h].count = 1
    IN
    /\ pc[t] = "idle"
    /\ h \in DOMAIN handles
    /\ handles' = IF dies THEN Erase(handles, h) ELSE [handles EXCEPT ![h].count = @ - 1]
    /\ buffers' = IF dies THEN Erase(buffers, g) ELSE [buffers EXCEPT ![g].refcount = @ - 1]
    /\ gem' = IF dies THEN Erase(gem, g) ELSE gem
    /\ ret' = "OK"
    /\ UNCHANGED <<lh, lkd, hnds, memfds, pc, tl>>

Release(t, h) ==
    LET g     == handles[h].buf
        b     == buffers[g]
        dies  == b.refcount = 1
        owned == IF b.hnd = NoHnd THEN {} ELSE {b.hnd}
    IN
    /\ pc[t] = "idle"
    /\ h \in DOMAIN handles
    /\ handles' = IF handles[h].count = 1 THEN Erase(handles, h)
                  ELSE [handles EXCEPT ![h].count = @ - 1]
    /\ buffers' = IF dies THEN Erase(buffers, g)
                  ELSE [buffers EXCEPT ![g].refcount = @ - 1]
    /\ gem' = IF dies THEN Erase(gem, g) ELSE gem
    /\ hnds' = IF dies THEN Restrict(hnds, DOMAIN hnds \ owned) ELSE hnds
    /\ memfds' = IF dies /\ \E x \in owned : hnds[x].rfd THEN memfds - 1 ELSE memfds
    /\ ret' = "OK"
    /\ UNCHANGED <<lh, lkd, pc, tl>>

(* lock(), lines 457-478: cros_gralloc_sync_wait on the acquire fence,    *)
(* without the mutex, until the fence signals (or at once for -1).  A      *)
(* caller does not lock again a handle it holds locked.                    *)
LockBegin(t, h) ==
    /\ pc[t] = "idle"
    /\ h \notin lkd[t]
    /\ pc' = [pc EXCEPT ![t] = "fence"]
    /\ lh' = [lh EXCEPT ![t] = h]
    /\ UNCHANGED <<gem, hnds, buffers, handles, memfds, tl, lkd, ret>>

(* The wait fails (a bad fence fd): lock returns its error.               *)
SyncWaitFails(t) ==
    /\ pc[t] = "fence"
    /\ pc' = [pc EXCEPT ![t] = "idle"]
    /\ lh' = [lh EXCEPT ![t] = NoHnd]
    /\ ret' = "ERRNO"
    /\ UNCHANGED <<gem, hnds, buffers, handles, memfds, tl, lkd>>

(* The fence has signalled; then, under the mutex, the handle is looked   *)
(* up only now, so a release during the wait makes it -EINVAL.  buffer->lock maps the bo   *)
(* on the first lock (cros_gralloc_buffer, which can fail with -EINVAL)    *)
(* and counts the lock.                                                    *)
LockEnter(t) ==
    LET h == lh[t] IN
    /\ pc[t] = "fence"
    /\ pc' = [pc EXCEPT ![t] = "idle"]
    /\ lh' = [lh EXCEPT ![t] = NoHnd]
    /\ IF h \in DOMAIN handles
       THEN \E mapped \in BOOLEAN :
              IF mapped \/ buffers[handles[h].buf].locks > 0
              THEN /\ buffers' = [buffers EXCEPT ![handles[h].buf].locks = @ + 1]
                   /\ lkd' = [lkd EXCEPT ![t] = @ \cup {h}]
                   /\ ret' = "OK"
              ELSE /\ ret' = "EINVAL"
                   /\ UNCHANGED <<buffers, lkd>>
       ELSE /\ ret' = "EINVAL"
            /\ UNCHANGED <<buffers, lkd>>
    /\ UNCHANGED <<gem, hnds, handles, memfds, tl>>

(* Mutant: unlock forgets every lock of the buffer, not just its own.     *)
UnlockDropsAll(t, h) ==
    /\ pc[t] = "idle"
    /\ h \in lkd[t] /\ h \in DOMAIN handles
    /\ buffers' = [buffers EXCEPT ![handles[h].buf].locks = 0]
    /\ lkd' = [lkd EXCEPT ![t] = @ \ {h}]
    /\ ret' = "OK"
    /\ UNCHANGED <<gem, hnds, handles, memfds, pc, tl, lh>>

(* unlock(), lines 506-530, under the mutex: look the handle up, then     *)
(* buffer->unlock drops one lock (unmapping with the last).  A caller      *)
(* unlocks what it locked, or gets -EINVAL for a handle that is unknown    *)
(* or not locked.                                                          *)
Unlock(t, h) ==
    /\ pc[t] = "idle"
    /\ h \in lkd[t] /\ h \in DOMAIN handles
    /\ buffers' = [buffers EXCEPT ![handles[h].buf].locks = @ - 1]
    /\ lkd' = [lkd EXCEPT ![t] = @ \ {h}]
    /\ ret' = "OK"
    /\ UNCHANGED <<gem, hnds, handles, memfds, pc, tl, lh>>

UnlockInvalid(t, h) ==
    /\ pc[t] = "idle"
    /\ h \notin lkd[t]
    /\ h \in DOMAIN handles => buffers[handles[h].buf].locks = 0
    /\ ret' = "EINVAL"
    /\ UNCHANGED <<gem, hnds, buffers, handles, memfds, pc, tl, lh, lkd>>

(* invalidate, flush, get_backing_store, resource_info and                *)
(* get_reserved_region (lines 526-640) share one prologue under the        *)
(* mutex: convert the handle, get_buffer, -EINVAL when either fails, and  *)
(* otherwise hand over to the buffer, which the tables do not see.        *)
Access(t, h) ==
    /\ pc[t] = "idle"
    /\ ret' = IF h \in DOMAIN handles THEN "OK" ELSE "EINVAL"
    /\ UNCHANGED <<lh, lkd, gem, hnds, buffers, handles, memfds, pc, tl>>

-----------------------------------------------------------------------------
(* The rest of the process: a handle duplicated by another process (or of *)
(* an object this process holds) arrives at a free address, and the       *)
(* caller frees an imported handle it no longer has registered            *)
(* (native_handle_close and native_handle_delete).                        *)
Receive(h) ==
    /\ h \in Hnds \ UsedHnds
    /\ \E o \in Foreign \cup {hnds[x].obj : x \in DOMAIN hnds} :
        hnds' = hnds @@ (h :> [obj |-> o, rfd |-> FALSE, owned |-> FALSE])
    /\ UNCHANGED <<lh, lkd, gem, buffers, handles, memfds, pc, tl, ret>>

FreeImported(h) ==
    /\ h \in DOMAIN hnds
    /\ ~hnds[h].owned
    /\ h \notin DOMAIN handles
    /\ hnds' = Erase(hnds, h)
    /\ UNCHANGED <<lh, lkd, gem, buffers, handles, memfds, pc, tl, ret>>

(* Handles some thread holds locked.  Callers release a handle only after *)
(* unlocking it (the gralloc contract); release() itself does not check.  *)
Locked == UNION {lkd[t] : t \in Threads}

Next ==
    \/ \E t \in Threads :
        \/ \E r \in BOOLEAN : AllocCreate(t, r) \/ AllocRegionFails(t, r)
        \/ AllocNoBo(t)
        \/ AllocRegister(t)
        \/ \E h \in Hnds :
            \/ RetainInvalid(t, h)
            \/ RetainRegistered(t, h)
            \/ RetainPrimeFails(t, h)
            \/ RetainShared(t, h)
            \/ RetainImport(t, h)
            \/ \E c \in BOOLEAN : RetainImportFails(t, h, c)
            \/ ReleaseInvalid(t, h)
            \/ h \notin Locked /\ Release(t, h)
            \/ Access(t, h)
            \/ LockBegin(t, h) \/ Unlock(t, h) \/ UnlockInvalid(t, h)
        \/ SyncWaitFails(t) \/ LockEnter(t)
    \/ \E h \in Hnds : Receive(h) \/ FreeImported(h)

(* No fairness: a fence that never signals stalls lock() forever, by     *)
(* design (spec 5), and the driver promises its callers nothing further. *)
Spec == Init /\ [][Next]_vars

-----------------------------------------------------------------------------
TypeOK ==
    /\ IsInjective(gem) /\ DOMAIN gem \subseteq GemIds /\ Range(gem) \subseteq Objs
    /\ DOMAIN hnds \subseteq Hnds
    /\ \A h \in DOMAIN hnds : hnds[h] \in [obj : Objs, rfd : BOOLEAN, owned : BOOLEAN]
    /\ DOMAIN buffers \subseteq GemIds
    /\ \A g \in DOMAIN buffers :
        buffers[g] \in [obj : Objs, refcount : Nat \ {0}, hnd : Hnds \cup {NoHnd}, locks : Nat]
    /\ DOMAIN handles \subseteq Hnds
    /\ \A h \in DOMAIN handles : handles[h] \in [buf : GemIds, count : 1..MaxCount]
    /\ memfds \in 0..MaxFds
    /\ pc \in [Threads -> {"idle", "created", "fence"}]
    /\ lh \in [Threads -> Hnds \cup {NoHnd}]
    /\ lkd \in [Threads -> SUBSET Hnds]
    /\ ret \in Rets

(* The sum of the local counts of the handles registered to buffer g.     *)
HandleCountSum(g) ==
    MapThenSumSet(LAMBDA h : handles[h].count, {h \in DOMAIN handles : handles[h].buf = g})

BufferIdentity ==
    /\ \A g \in DOMAIN buffers : g \in DOMAIN gem /\ gem[g] = buffers[g].obj
    /\ \A h \in DOMAIN handles : h \in DOMAIN hnds
                                 /\ hnds[h].obj = buffers[handles[h].buf].obj

(* No leaked GEM id (spec 7: partial construction is torn down): every    *)
(* open GEM id on the render fd belongs to a registered buffer or to an   *)
(* allocate() between its two halves.                                     *)
NoLeakedGemId ==
    \A g \in DOMAIN gem : g \in DOMAIN buffers \/ \E t \in InFlight : tl[t].gem = g

(* No leaked reserved region (spec 7): every memfd create_reserved_region *)
(* opened is held by an allocate() in progress or by a live allocated     *)
(* handle, whose release closes it.                                       *)
NoLeakedMemfd ==
    memfds = Cardinality({t \in InFlight : tl[t].rfd})
             + Cardinality({h \in DOMAIN hnds : hnds[h].owned /\ hnds[h].rfd})

-----------------------------------------------------------------------------
(* Refinement: the tables implement BufferRefs.  A handle's references    *)
(* are its count in handles_; an object is live when a buffer in          *)
(* buffers_ wraps it.                                                     *)
(* A buffer's lock count is the number of locks its callers hold through *)
(* its handles, and a locked handle stays registered: lock() looks the     *)
(* handle up only after the fence wait, so a release racing the wait makes *)
(* it fail, never lock a buffer that is gone or whose GEM id was reused,   *)
(* and unlock() drops exactly the lock it returns.                         *)
LockCountMatchesHolders ==
    /\ Locked \subseteq DOMAIN handles
    /\ \A g \in DOMAIN buffers :
         buffers[g].locks =
           Cardinality({th \in Threads \X Hnds :
                          th[2] \in lkd[th[1]] /\ handles[th[2]].buf = g})

Abs == INSTANCE BufferRefs WITH
           hobj <- [h \in DOMAIN hnds |-> hnds[h].obj],
           refs <- [h \in Hnds |-> IF h \in DOMAIN handles THEN handles[h].count ELSE 0],
           live <- {buffers[g].obj : g \in DOMAIN buffers}

(* Every step of allocate, retain, release and the accessors is a step of *)
(* BufferRefs: a call adds or drops exactly one reference, a Buffer       *)
(* appears with the first reference to its object and is destroyed with   *)
(* the last one, and no handle holding references is freed or re-pointed.*)
RefinesBufferRefs == Abs!Spec

=============================================================================
