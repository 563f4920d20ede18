------------------------------ MODULE GttFault ------------------------------
(***************************************************************************)
(* The aperture (GTT) fault path of i915_gem_mman.c, vm_fault_gtt, and the *)
(* revocation of the user mappings it creates: i915_vma_revoke_mmap, run   *)
(* on eviction and fence stealing, i915_gem_object_release_mmap_gtt and    *)
(* the runtime-suspend walk of ggtt->userfault_list.                       *)
(*                                                                         *)
(* A vma is an (object, view) pair; "full" is the normal view, "partial"  *)
(* the chunk compute_partial_view picks.  The mappable aperture has        *)
(* ApertureSlots slots: a partial view takes one, the full view of object  *)
(* o takes ObjSlots[o].  Fences is the number of fence registers.          *)
(* Concurrent faulting threads interleave with eviction, with object-wide *)
(* revocation and with runtime suspend.                                    *)
(***************************************************************************)
EXTENDS Naturals, FiniteSets, FiniteSetsExt

CONSTANTS
    Threads,       \* threads faulting on GTT mmaps
    Objects,       \* GEM objects with a GTT mmap
    ObjSlots,      \* [Objects -> Nat \ {0}]: aperture slots of the full view
    ApertureSlots, \* size of the mappable aperture, in slots
    Fences,        \* number of fence registers
    Tiled,         \* objects whose GTT access needs a fence
    ReadOnly,      \* objects i915_gem_object_is_readonly
    Incoherent,    \* snooped objects on a device without LLC
    MaxFaults,     \* bound on the faults each thread takes
    OtherSlots,    \* bound on the aperture slots other users pin
    NULL

ASSUME ObjSlots \in [Objects -> Nat \ {0}]
ASSUME ApertureSlots \in Nat /\ Fences \in Nat /\ MaxFaults \in Nat /\ OtherSlots \in Nat
ASSUME Tiled \cup ReadOnly \cup Incoherent \subseteq Objects

Views == {"full", "partial"}
Vmas == Objects \X Views
Obj(v) == v[1]

VARIABLES
    objLock,    \* [Objects -> Threads \cup {NULL}]: owner of the object's dma-resv
    bound,      \* vmas bound into the mappable aperture
    vmaPin,     \* [Vmas -> Nat]: pin count of each vma
    fenced,     \* vmas holding a fence register
    fencePin,   \* [Vmas -> Nat]: pin count of each vma's fence
    userfault,  \* vmas with I915_VMA_USERFAULT set
    ptes,       \* vmas whose aperture range is mapped into user space
    count,      \* [Objects -> Nat]: obj->userfault_count
    onList,     \* objects on ggtt->userfault_list
    suspended,  \* the device is runtime suspended
    pc,         \* per thread: where its fault stands
    fobj,       \* per thread: the object faulted on
    fwrite,     \* per thread: VM_WRITE of the faulting area
    fvma,       \* per thread: the vma it pinned, or NULL
    held,       \* per thread: pins held, for the unwind
    contended,  \* per thread: the object ww backoff must lock, or NULL
    faults,     \* per thread: faults taken so far
    ret,        \* per thread: the errno the fault ends with
    pinErr,     \* per thread: pin_pages_sync failed in this fault (history)
    extSlots    \* aperture slots pinned by other users (scanout, context images)

vars == <<objLock, bound, vmaPin, fenced, fencePin, userfault, ptes, count,
          onList, suspended, pc, fobj, fwrite, fvma, held, contended, faults,
          ret, pinErr, extSlots>>

(* pin_pages_sync: a purged object (EFAULT), a shmemfs swap failure    *)
(* (EIO), an unreachable backing store (ENXIO), an object larger than the *)
(* store (E2BIG), or an allocation failure                                *)
PinErrors == {"EFAULT", "EIO", "ENXIO", "E2BIG", "ENOMEM"}
Errors == {"0", "EINTR", "ENOSPC", "EDEADLK"} \cup PinErrors
PCs == {"idle", "lock", "backoff", "pages", "reset", "bind", "cache", "fence", "remap",
        "mark", "unwind", "done"}
Resources == {"reset", "vma", "fence"}

MaxCount == Cardinality(Views)

TypeOK ==
    /\ objLock \in [Objects -> Threads \cup {NULL}]
    /\ bound \subseteq Vmas /\ fenced \subseteq bound
    /\ vmaPin \in [Vmas -> Nat] /\ fencePin \in [Vmas -> Nat]
    /\ userfault \subseteq Vmas /\ ptes \subseteq Vmas
    /\ count \in [Objects -> 0..MaxCount]
    /\ onList \subseteq Objects
    /\ suspended \in BOOLEAN
    /\ pc \in [Threads -> PCs]
    /\ fobj \in [Threads -> Objects]
    /\ fwrite \in [Threads -> BOOLEAN]
    /\ fvma \in [Threads -> Vmas \cup {NULL}]
    /\ held \in [Threads -> SUBSET Resources]
    /\ contended \in [Threads -> Objects \cup {NULL}]
    /\ faults \in [Threads -> 0..MaxFaults]
    /\ ret \in [Threads -> Errors]
    /\ pinErr \in [Threads -> BOOLEAN]
    /\ extSlots \in 0..OtherSlots

Init ==
    /\ objLock = [o \in Objects |-> NULL]
    /\ bound = {} /\ fenced = {}
    /\ vmaPin = [v \in Vmas |-> 0] /\ fencePin = [v \in Vmas |-> 0]
    /\ userfault = {} /\ ptes = {}
    /\ count = [o \in Objects |-> 0]
    /\ onList = {}
    /\ suspended = FALSE
    /\ pc = [t \in Threads |-> "idle"]
    /\ fobj \in [Threads -> Objects]
    /\ fwrite = [t \in Threads |-> FALSE]
    /\ fvma = [t \in Threads |-> NULL]
    /\ held = [t \in Threads |-> {}]
    /\ contended = [t \in Threads |-> NULL]
    /\ faults = [t \in Threads |-> 0]
    /\ ret = [t \in Threads |-> "0"]
    /\ pinErr = [t \in Threads |-> FALSE]
    /\ extSlots = 0

-----------------------------------------------------------------------------
(* i915_vma_revoke_mmap, under ggtt->vm.mutex: a vma whose USERFAULT flag  *)
(* is set has its user range unmapped and the flag cleared; the object    *)
(* leaves userfault_list when its count drops to zero.  A vma without the *)
(* flag is left alone.  RevokeAll applies it to a set of vmas at once.    *)
RevokeAll(vs) ==
    LET hit == vs \cap userfault
        drop(o) == Cardinality({v \in hit : Obj(v) = o})
    IN
    /\ ptes' = ptes \ hit
    /\ userfault' = userfault \ hit
    /\ count' = [o \in Objects |-> count[o] - drop(o)]
    /\ onList' = {o \in onList : count[o] - drop(o) > 0}

Slots(v) == IF v[2] = "full" THEN ObjSlots[Obj(v)] ELSE 1

UsedSlots == MapThenSumSet(Slots, bound) + extSlots

Fits(v) == v \in bound \/ UsedSlots + Slots(v) <= ApertureSlots

(* vmas i915_gem_evict_something may unbind for thread t: bound, unpinned, *)
(* of an object t holds or nobody holds                                    *)
Evictable(t) == {v \in bound : vmaPin[v] = 0 /\ objLock[Obj(v)] \in {NULL, t}}

Goto(t, to) == pc' = [pc EXCEPT ![t] = to]

-----------------------------------------------------------------------------
(* Thread steps                                                            *)

(* vm_fault_gtt entry: intel_runtime_pm_get wakes the device *)
Fault(t, o, w) ==
    /\ pc[t] = "idle"
    /\ faults[t] < MaxFaults
    /\ faults' = [faults EXCEPT ![t] = @ + 1]
    /\ fobj' = [fobj EXCEPT ![t] = o]
    /\ fwrite' = [fwrite EXCEPT ![t] = w]
    /\ suspended' = FALSE
    /\ pinErr' = [pinErr EXCEPT ![t] = FALSE]
    /\ Goto(t, "lock")
    /\ UNCHANGED <<extSlots, objLock, bound, vmaPin, fenced, fencePin, userfault, ptes,
                   count, onList, fvma, held, contended, ret>>

(* i915_gem_object_lock, then the read-only check *)
Lock(t) ==
    LET o == fobj[t] IN
    /\ pc[t] = "lock"
    /\ objLock[o] = NULL
    /\ objLock' = [objLock EXCEPT ![o] = t]
    /\ IF o \in ReadOnly /\ fwrite[t]
         THEN /\ ret' = [ret EXCEPT ![t] = "EFAULT"]
              /\ Goto(t, "unwind")
         ELSE /\ Goto(t, "pages")
              /\ UNCHANGED ret
    /\ UNCHANGED <<extSlots, bound, vmaPin, fenced, fencePin, userfault, ptes, count,
                   onList, suspended, fobj, fwrite, fvma, held, contended, faults, pinErr>>

(* i915_gem_object_pin_pages_sync; its failure goes to err_rpm.  The page *)
(* pin itself is not state this model reads.                               *)
PinPages(t) ==
    /\ pc[t] = "pages"
    /\ \/ Goto(t, "reset") /\ UNCHANGED <<ret, pinErr>>
       \/ /\ \E e \in PinErrors : ret' = [ret EXCEPT ![t] = e]
          /\ pinErr' = [pinErr EXCEPT ![t] = TRUE]
          /\ Goto(t, "unwind")
    /\ UNCHANGED <<extSlots, objLock, bound, vmaPin, fenced, fencePin, userfault, ptes,
                   count, onList, suspended, fobj, fwrite, fvma, held, contended, faults, pinErr>>

(* intel_gt_reset_lock_interruptible: EINTR if a signal ends the wait *)
ResetLock(t) ==
    /\ pc[t] = "reset"
    /\ \/ /\ held' = [held EXCEPT ![t] = @ \cup {"reset"}]
          /\ Goto(t, "bind")
          /\ UNCHANGED ret
       \/ /\ ret' = [ret EXCEPT ![t] = "EINTR"]
          /\ Goto(t, "unwind")
          /\ UNCHANGED held
    /\ UNCHANGED <<extSlots, objLock, bound, vmaPin, fenced, fencePin, userfault, ptes,
                   count, onList, suspended, fobj, fwrite, fvma, contended, faults, pinErr>>

(* pin vma v for thread t, binding it after evicting the set victims *)
PinVma(t, v, victims) ==
    /\ RevokeAll(victims)
    /\ bound' = (bound \ victims) \cup {v}
    /\ fenced' = fenced \ victims
    /\ vmaPin' = [vmaPin EXCEPT ![v] = @ + 1]
    /\ fvma' = [fvma EXCEPT ![t] = v]
    /\ held' = [held EXCEPT ![t] = @ \cup {"vma"}]
    /\ Goto(t, "cache")
    /\ UNCHANGED <<extSlots, ret, contended>>

(* The three i915_gem_object_ggtt_pin_ww calls: the full view without     *)
(* blocking or eviction; else the partial view without search; else the   *)
(* partial view with eviction.  Eviction that needs a vma of an object    *)
(* another thread has locked backs off with EDEADLK; with everything      *)
(* pinned the pin fails with ENOSPC, the case GEM_BUG_ON calls            *)
(* unexpected.                                                            *)
Bind(t) ==
    LET o == fobj[t]
        full == <<o, "full">>
        part == <<o, "partial">>
        roomWith(S) == UsedSlots - MapThenSumSet(Slots, S) + (IF part \in bound THEN 0 ELSE 1)
                           <= ApertureSlots
        others == {v \in bound : vmaPin[v] = 0} \ Evictable(t)
    IN
    /\ pc[t] = "bind"
    /\ IF Fits(full)
         THEN PinVma(t, full, {})
       ELSE IF Fits(part)
         THEN PinVma(t, part, {})
       ELSE IF \E S \in SUBSET Evictable(t) : roomWith(S)
         THEN \E S \in SUBSET Evictable(t) :
                /\ roomWith(S)
                /\ \A v \in S : ~roomWith(S \ {v})
                /\ PinVma(t, part, S)
       ELSE IF roomWith(Evictable(t) \cup others)
         THEN \E v \in others :
                /\ ret' = [ret EXCEPT ![t] = "EDEADLK"]
                /\ contended' = [contended EXCEPT ![t] = Obj(v)]
                /\ Goto(t, "unwind")
                /\ UNCHANGED <<extSlots, bound, vmaPin, fenced, userfault, ptes, count,
                               onList, fvma, held>>
         ELSE /\ ret' = [ret EXCEPT ![t] = "ENOSPC"]
              /\ Goto(t, "unwind")
              /\ UNCHANGED <<extSlots, bound, vmaPin, fenced, userfault, ptes, count,
                             onList, fvma, held, contended>>
    /\ UNCHANGED <<extSlots, objLock, fencePin, suspended, fobj, fwrite, faults, pinErr>>

(* snooped pages cannot be accessed through the aperture: EFAULT *)
CacheCheck(t) ==
    /\ pc[t] = "cache"
    /\ IF fobj[t] \in Incoherent
         THEN /\ ret' = [ret EXCEPT ![t] = "EFAULT"]
              /\ Goto(t, "unwind")
         ELSE /\ Goto(t, "fence")
              /\ UNCHANGED ret
    /\ UNCHANGED <<extSlots, objLock, bound, vmaPin, fenced, fencePin, userfault, ptes,
                   count, onList, suspended, fobj, fwrite, fvma, held, contended, faults, pinErr>>

(* i915_vma_pin_fence_wait: a tiled vma keeps or takes a fence register,  *)
(* stealing one whose fence is not pinned and revoking that vma's user     *)
(* mapping; with every fence pinned it fails with EDEADLK.  An untiled     *)
(* vma gives up any fence it holds.                                        *)
PinFence(t) ==
    LET v == fvma[t]
        free == Cardinality(fenced) < Fences
        stealable == {u \in fenced : fencePin[u] = 0 /\ u # v}
        take(victims) ==
            /\ RevokeAll(victims)
            /\ fenced' = (fenced \ victims) \cup {v}
            /\ fencePin' = [fencePin EXCEPT ![v] = @ + 1]
            /\ held' = [held EXCEPT ![t] = @ \cup {"fence"}]
            /\ Goto(t, "remap")
            /\ UNCHANGED ret
    IN
    /\ pc[t] = "fence"
    /\ IF Obj(v) \notin Tiled
         THEN /\ fenced' = fenced \ {v}
              /\ Goto(t, "remap")
              /\ UNCHANGED <<extSlots, fencePin, userfault, ptes, count, onList, held, ret>>
       ELSE IF v \in fenced \/ free
         THEN take({})
       ELSE IF stealable # {}
         THEN \E u \in stealable : take({u})
         ELSE /\ ret' = [ret EXCEPT ![t] = "EDEADLK"]
              /\ Goto(t, "unwind")
              /\ UNCHANGED <<extSlots, fenced, fencePin, userfault, ptes, count, onList, held>>
    /\ UNCHANGED <<extSlots, objLock, bound, vmaPin, suspended, fobj, fwrite, fvma, contended,
                   faults, pinErr>>

(* remap_io_mapping of the vma's aperture range into the area; on failure *)
(* the partly filled range is zapped.                                      *)
Remap(t) ==
    /\ pc[t] = "remap"
    /\ \/ /\ ptes' = ptes \cup {fvma[t]}
          /\ Goto(t, "mark")
          /\ UNCHANGED ret
       \/ /\ ret' = [ret EXCEPT ![t] = "ENOMEM"]
          /\ Goto(t, "unwind")
          /\ UNCHANGED ptes
    /\ UNCHANGED <<extSlots, objLock, bound, vmaPin, fenced, fencePin, userfault, count,
                   onList, suspended, fobj, fwrite, fvma, held, contended, faults, pinErr>>

(* Mutants of the marking: counting every fault, not the vma's first     *)
(* setting of the flag; setting the flag only when the object's count     *)
(* rises from zero.                                                        *)
MarkUserfaultRecount(t) ==
    LET v == fvma[t] IN
    /\ pc[t] = "mark"
    /\ userfault' = userfault \cup {v}
    /\ count' = [count EXCEPT ![Obj(v)] = @ + 1]
    /\ onList' = onList \cup {Obj(v)}
    /\ Goto(t, "unwind")
    /\ UNCHANGED <<extSlots, objLock, bound, vmaPin, fenced, fencePin, ptes, suspended,
                   fobj, fwrite, fvma, held, ret, contended, faults, pinErr>>

MarkUserfaultFirstOnly(t) ==
    LET v == fvma[t]
        o == Obj(v)
    IN
    /\ pc[t] = "mark"
    /\ userfault' = IF count[o] = 0 THEN userfault \cup {v} ELSE userfault
    /\ count' = [count EXCEPT ![o] = IF count[o] = 0 THEN 1 ELSE @]
    /\ onList' = onList \cup {o}
    /\ Goto(t, "unwind")
    /\ UNCHANGED <<extSlots, objLock, bound, vmaPin, fenced, fencePin, ptes, suspended,
                   fobj, fwrite, fvma, held, ret, contended, faults, pinErr>>

(* Under ggtt->vm.mutex: i915_vma_set_userfault is a test-and-set; only    *)
(* the vma's first setting counts in obj->userfault_count, and the count's *)
(* rise from zero puts the object on userfault_list.                       *)
MarkUserfault(t) ==
    LET v == fvma[t]
        o == Obj(v)
        first == v \notin userfault
    IN
    /\ pc[t] = "mark"
    /\ userfault' = userfault \cup {v}
    /\ count' = [count EXCEPT ![o] = IF first THEN @ + 1 ELSE @]
    /\ onList' = IF first /\ count[o] = 0 THEN onList \cup {o} ELSE onList
    /\ Goto(t, "unwind")
    /\ UNCHANGED <<extSlots, objLock, bound, vmaPin, fenced, fencePin, ptes, suspended,
                   fobj, fwrite, fvma, held, ret, contended, faults, pinErr>>

(* Mutant of the unwind: the object locks are dropped only on the way to *)
(* the backoff, as if i915_gem_ww_ctx_fini were skipped on the error path *)
UnwindNoFini(t) ==
    LET v == fvma[t]
        h == held[t]
    IN
    /\ pc[t] = "unwind"
    /\ fencePin' = IF "fence" \in h THEN [fencePin EXCEPT ![v] = @ - 1] ELSE fencePin
    /\ vmaPin' = IF "vma" \in h THEN [vmaPin EXCEPT ![v] = @ - 1] ELSE vmaPin
    /\ objLock' = IF ret[t] = "EDEADLK"
                     THEN [o \in Objects |-> IF objLock[o] = t THEN NULL ELSE objLock[o]]
                     ELSE objLock
    /\ held' = [held EXCEPT ![t] = {}]
    /\ fvma' = [fvma EXCEPT ![t] = NULL]
    /\ IF ret[t] = "EDEADLK"
         THEN /\ Goto(t, IF contended[t] = NULL THEN "lock" ELSE "backoff")
              /\ ret' = [ret EXCEPT ![t] = "0"]
         ELSE /\ Goto(t, "done")
              /\ UNCHANGED ret
    /\ UNCHANGED <<extSlots, bound, fenced, userfault, ptes, count, onList, suspended,
                   fobj, fwrite, contended, faults, pinErr>>

(* err_fence .. err_rpm: release what is held in reverse order and end    *)
(* the ww transaction, dropping every object lock it took.  On EDEADLK    *)
(* i915_gem_ww_ctx_backoff restarts from the object lock with the wakeref *)
(* kept, first sleeping on the contended object's lock if there is one;   *)
(* otherwise the wakeref is put.                                           *)
Unwind(t) ==
    LET v == fvma[t]
        h == held[t]
    IN
    /\ pc[t] = "unwind"
    /\ fencePin' = IF "fence" \in h THEN [fencePin EXCEPT ![v] = @ - 1] ELSE fencePin
    /\ vmaPin' = IF "vma" \in h THEN [vmaPin EXCEPT ![v] = @ - 1] ELSE vmaPin
    /\ objLock' = [o \in Objects |-> IF objLock[o] = t THEN NULL ELSE objLock[o]]
    /\ held' = [held EXCEPT ![t] = {}]
    /\ fvma' = [fvma EXCEPT ![t] = NULL]
    /\ IF ret[t] = "EDEADLK"
         THEN /\ Goto(t, IF contended[t] = NULL THEN "lock" ELSE "backoff")
              /\ ret' = [ret EXCEPT ![t] = "0"]
         ELSE /\ Goto(t, "done")
              /\ UNCHANGED ret
    /\ UNCHANGED <<extSlots, bound, fenced, userfault, ptes, count, onList, suspended,
                   fobj, fwrite, contended, faults, pinErr>>

(* i915_gem_ww_ctx_backoff: i915_gem_object_lock_slow on the contended    *)
(* object, held across the restart; a signal ends the interruptible wait  *)
(* with EINTR and the fault returns.                                      *)
Backoff(t) ==
    LET c == contended[t] IN
    /\ pc[t] = "backoff"
    /\ objLock[c] = NULL
    /\ contended' = [contended EXCEPT ![t] = NULL]
    /\ \/ /\ objLock' = [objLock EXCEPT ![c] = t]
          /\ Goto(t, "lock")
          /\ UNCHANGED ret
       \/ /\ ret' = [ret EXCEPT ![t] = "EINTR"]
          /\ Goto(t, "done")
          /\ UNCHANGED objLock
    /\ UNCHANGED <<extSlots, bound, vmaPin, fenced, fencePin, userfault, ptes, count,
                   onList, suspended, fobj, fwrite, fvma, held, faults, pinErr>>

(* i915_error_to_vmf_fault with ENOSPC among the errors that kill        *)
ErrorToVmfFaultNoSpcSigbus(e) ==
    CASE e \in {"EIO", "EFAULT", "ENODEV", "ENXIO", "E2BIG", "ENOSPC"} -> "SIGBUS"
      [] e = "ENOMEM" -> "OOM"
      [] e \in {"0", "EAGAIN", "ERESTARTSYS", "EINTR", "EBUSY"} -> "NOPAGE"
      [] OTHER -> "SIGBUS"

(* i915_error_to_vmf_fault: the errno a fault ends with becomes SIGBUS,   *)
(* OOM or NOPAGE (the mm retries the access); an errno the switch does    *)
(* not list warns and falls through to SIGBUS.                             *)
ErrorToVmfFault(e) ==
    CASE e \in {"EIO", "EFAULT", "ENODEV", "ENXIO", "E2BIG"} -> "SIGBUS"
      [] e = "ENOMEM" -> "OOM"
      [] e \in {"0", "EAGAIN", "ENOSPC", "ERESTARTSYS", "EINTR", "EBUSY"} -> "NOPAGE"
      [] OTHER -> "SIGBUS"

(* the errnos the switch lists, which do not WARN                          *)
HandledError(e) ==
    e \in {"EIO", "EFAULT", "ENODEV", "ENXIO", "E2BIG", "ENOMEM",
           "0", "EAGAIN", "ENOSPC", "ERESTARTSYS", "EINTR", "EBUSY"}

(* i915_error_to_vmf_fault hands the result to the mm; the thread may    *)
(* fault again                                                            *)
Return(t) ==
    /\ pc[t] = "done"
    /\ Goto(t, "idle")
    /\ ret' = [ret EXCEPT ![t] = "0"]
    /\ UNCHANGED <<extSlots, objLock, bound, vmaPin, fenced, fencePin, userfault, ptes,
                   count, onList, suspended, fobj, fwrite, fvma, held, contended, faults, pinErr>>

-----------------------------------------------------------------------------
(* Other actors                                                            *)

(* The shrinker or an unrelated bind evicts an unpinned vma of an object  *)
(* it can lock: i915_vma_unbind revokes the user mapping and the fence.   *)
Evict(v) ==
    /\ v \in bound
    /\ vmaPin[v] = 0
    /\ objLock[Obj(v)] = NULL
    /\ RevokeAll({v})
    /\ bound' = bound \ {v}
    /\ fenced' = fenced \ {v}
    /\ UNCHANGED <<extSlots, objLock, vmaPin, fencePin, suspended, pc, fobj, fwrite,
                   fvma, held, ret, contended, faults, pinErr>>

(* i915_gem_object_release_mmap_gtt, by a caller holding the object lock *)
(* (set_tiling, unbind, free): under ggtt->vm.mutex, nothing to do when   *)
(* userfault_count is zero, else revoke every GGTT vma of the object.      *)
ReleaseMmapGtt(o) ==
    /\ objLock[o] = NULL
    /\ count[o] > 0
    /\ RevokeAll({v \in Vmas : Obj(v) = o})
    /\ UNCHANGED <<extSlots, objLock, bound, vmaPin, fenced, fencePin, suspended, pc,
                   fobj, fwrite, fvma, held, ret, contended, faults, pinErr>>

(* Runtime suspend, once no fault holds a wakeref: every object on        *)
(* userfault_list has its GTT mmaps released before the aperture powers   *)
(* down.                                                                   *)
HoldsWakeref(t) == pc[t] \notin {"idle", "done"}

RuntimeSuspend ==
    /\ ~suspended
    /\ \A t \in Threads : ~HoldsWakeref(t)
    /\ RevokeAll({v \in Vmas : Obj(v) \in onList})
    /\ suspended' = TRUE
    /\ UNCHANGED <<extSlots, objLock, bound, vmaPin, fenced, fencePin, pc, fobj, fwrite,
                   fvma, held, ret, contended, faults, pinErr>>

(* Another user of the mappable aperture (a scanout, a context image)     *)
(* pins a slot of its own where there is room without evicting, and       *)
(* unpins it whenever it likes.                                            *)
OtherPin ==
    /\ extSlots < OtherSlots
    /\ UsedSlots + 1 <= ApertureSlots
    /\ extSlots' = extSlots + 1
    /\ UNCHANGED <<objLock, bound, vmaPin, fenced, fencePin, userfault, ptes, count,
                   onList, suspended, pc, fobj, fwrite, fvma, held, ret, contended, faults, pinErr>>

OtherUnpin ==
    /\ extSlots > 0
    /\ extSlots' = extSlots - 1
    /\ UNCHANGED <<objLock, bound, vmaPin, fenced, fencePin, userfault, ptes, count,
                   onList, suspended, pc, fobj, fwrite, fvma, held, ret, contended, faults, pinErr>>

(* every thread has taken its MaxFaults faults and returned: the bounded  *)
(* model stops here, which is not a deadlock                              *)
Terminated ==
    /\ \A t \in Threads : pc[t] = "idle" /\ faults[t] = MaxFaults
    /\ UNCHANGED vars

Next ==
    \/ \E t \in Threads, o \in Objects, w \in BOOLEAN : Fault(t, o, w)
    \/ \E t \in Threads :
         \/ Lock(t) \/ PinPages(t) \/ ResetLock(t) \/ Bind(t) \/ CacheCheck(t)
         \/ PinFence(t) \/ Remap(t) \/ MarkUserfault(t) \/ Unwind(t) \/ Return(t)
         \/ Backoff(t)
    \/ \E v \in Vmas : Evict(v)
    \/ OtherPin \/ OtherUnpin
    \/ \E o \in Objects : ReleaseMmapGtt(o)
    \/ RuntimeSuspend
    \/ Terminated

Spec == Init /\ [][Next]_vars

(* A fault, once entered, runs on the faulting thread until it returns:   *)
(* every step of it is weakly fair.  The object lock is a sleeping lock   *)
(* handed to waiters as it is released, so taking it is strongly fair.   *)
(* Nothing obliges the other actors to act.                                *)
FaultStep(t) ==
    \/ PinPages(t) \/ ResetLock(t) \/ Bind(t) \/ CacheCheck(t)
    \/ PinFence(t) \/ Remap(t) \/ MarkUserfault(t) \/ Unwind(t)
    \/ Backoff(t) \/ Return(t)

FairSpec ==
    /\ Spec
    /\ \A t \in Threads : WF_vars(FaultStep(t)) /\ SF_vars(Lock(t)) /\ SF_vars(Backoff(t))

-----------------------------------------------------------------------------
(* Properties                                                              *)

(* obj->userfault_count is the number of the object's vmas with the       *)
(* USERFAULT flag, and the object is on userfault_list exactly when that  *)
(* number is not zero: concurrent faults on one vma count it once, and     *)
(* revocation by eviction, fence stealing, release and suspend never      *)
(* drives the count below the flags or leaves a listed object unflagged.  *)
UserfaultAccounting ==
    \A o \in Objects :
        /\ count[o] = Cardinality({v \in userfault : Obj(v) = o})
        /\ (o \in onList <=> count[o] > 0)

(* A user mapping of the aperture never outlives what makes it valid: the *)
(* vma it maps is bound, holds a fence register when the object is tiled, *)
(* and the device is awake.  Eviction, fence stealing and runtime suspend *)
(* find it only through the USERFAULT flag and userfault_list, which the  *)
(* fault sets after the remap; this is the requirement stated above        *)
(* i915_gem_object_release_mmap_gtt.                                       *)
NoStalePte ==
    \A v \in ptes :
        /\ v \in bound
        /\ Obj(v) \in Tiled => v \in fenced
        /\ ~suspended

(* A GTT fault kills the process (SIGBUS) only for a cause in the object *)
(* itself: a write to a read-only object, a snooped object on a device    *)
(* without LLC, or a failure of its backing store that pin_pages_sync     *)
(* reports (purged, EIO, ENXIO, E2BIG).  What the fault meets from other  *)
(* users on the way (a full aperture, the ENOSPC GEM_BUG_ON calls          *)
(* unexpected; every fence pinned; a signal; a backoff) never becomes     *)
(* SIGBUS, and no errno escapes the ww retry that the switch does not      *)
(* list.                                                                   *)
FaultResultJustified ==
    \A t \in Threads : pc[t] = "done" =>
        /\ HandledError(ret[t])
        /\ ErrorToVmfFault(ret[t]) = "SIGBUS" =>
              \/ fobj[t] \in ReadOnly /\ fwrite[t]
              \/ fobj[t] \in Incoherent
              \/ pinErr[t]

(* Every fault that has started eventually returns to the mm: the ww      *)
(* backoff after EDEADLK, from eviction or from every fence being pinned, *)
(* does not loop forever while the other threads keep faulting.            *)
FaultReturns ==
    \A t \in Threads : (pc[t] = "lock") ~> (pc[t] = "done")

=============================================================================
