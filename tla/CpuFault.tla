------------------------------ MODULE CpuFault ------------------------------
(***************************************************************************)
(* The direct (CPU) fault path of i915_gem_mman.c, vm_fault_cpu, with the  *)
(* swap-object policy use_swapto/create_swapto, against the actors that   *)
(* take its mappings away: the release of an object's pages, which revokes *)
(* its mmaps through i915_gem_object_release_mmap_offset, and the          *)
(* invalidation of all local-memory mmaps, which sets invalidate_lmem_mmaps *)
(* and waits for active_fault_handlers to drain.                           *)
(*                                                                         *)
(* Objects are local-memory objects with a CPU mmap; Swaps are the shmem   *)
(* objects create_swapto may allocate for them.  A PTE <<o, p>> is a page  *)
(* of object o's user mapping that shows the pages of p, o itself or its   *)
(* swap object.  The segment window is FaultWindow's; here a fault fills   *)
(* the whole window at once.                                               *)
(***************************************************************************)
EXTENDS Naturals, FiniteSets

CONSTANTS
    Threads,     \* threads faulting on CPU mmaps
    Objects,     \* local-memory objects with a CPU mmap
    Swaps,       \* shmem objects create_swapto can create
    ReadOnly,    \* objects i915_gem_object_is_readonly
    MaxFaults,   \* per thread: bound on the faults and accesses it makes
    NULL

ASSUME ReadOnly \subseteq Objects /\ MaxFaults \in [Threads -> Nat]

Pgs == Objects \cup Swaps

VARIABLES
    invalidate,  \* i915->invalidate_lmem_mmaps
    active,      \* i915->active_fault_handlers
    inv,         \* the invalidator: "idle", "waiting" for the faults, "revoked"
    pages,       \* objects whose backing pages are present
    pin,         \* [Pgs -> Nat]: pages pins held by faults
    otherPins,   \* objects whose pages another user holds pinned
    ptes,        \* PTEs <<o, p>> of object o's mmap on the pages of p
    swapto,      \* [Objects -> Swaps \cup {NULL}]: obj->swapto
    willneed,    \* swap objects whose mm.madv is I915_MADV_WILLNEED
    created,     \* swap objects create_swapto has made
    objLock,     \* [Objects -> Threads \cup {NULL}]: the dma-resv, shared with the swap object
    pc, fobj, fwrite,
    pg,          \* per thread: the object whose pages the fault maps
    err,         \* per thread: the errno of the current pass
    faults,      \* per thread: faults and vm_access calls taken
    failing      \* allocations and ww locking may still fail

vars == <<invalidate, active, inv, pages, pin, otherPins, ptes, swapto, willneed, created,
          objLock, pc, fobj, fwrite, pg, err, faults, failing>>

Errors == {"0", "EDEADLK", "ENOMEM", "ENXIO", "EINTR", "EFAULT"}
PCs == {"idle", "check", "lock", "swap", "migrate", "pin", "remap", "unpin",
        "fini", "out", "alock", "amap", "acopy", "afini"}

TypeOK ==
    /\ invalidate \in BOOLEAN
    /\ active \in 0..Cardinality(Threads)
    /\ inv \in {"idle", "waiting", "revoked"}
    /\ pages \subseteq Pgs /\ pin \in [Pgs -> Nat] /\ otherPins \subseteq pages
    /\ ptes \subseteq Objects \X Pgs
    /\ swapto \in [Objects -> Swaps \cup {NULL}]
    /\ willneed \subseteq created /\ created \subseteq Swaps
    /\ objLock \in [Objects -> Threads \cup {NULL}]
    /\ pc \in [Threads -> PCs]
    /\ fobj \in [Threads -> Objects] /\ fwrite \in [Threads -> BOOLEAN]
    /\ pg \in [Threads -> Pgs]
    /\ err \in [Threads -> Errors]
    /\ \A t \in Threads : faults[t] \in 0..MaxFaults[t]
    /\ failing \in BOOLEAN

Init ==
    /\ invalidate = FALSE /\ active = 0 /\ inv = "idle"
    /\ pages \in SUBSET Objects
    /\ pin = [p \in Pgs |-> 0] /\ otherPins = {}
    /\ ptes = {}
    /\ swapto = [o \in Objects |-> NULL]
    /\ willneed = {} /\ created = {}
    /\ objLock = [o \in Objects |-> NULL]
    /\ pc = [t \in Threads |-> "idle"]
    /\ fobj \in [Threads -> Objects] /\ fwrite = [t \in Threads |-> FALSE]
    /\ pg = fobj
    /\ err = [t \in Threads |-> "0"]
    /\ faults = [t \in Threads |-> 0]
    /\ failing = TRUE

Goto(t, to) == pc' = [pc EXCEPT ![t] = to]

SetErr(t, e) == err' = [err EXCEPT ![t] = e]

(* Mutant: the walk skips the CPU mmaps as it should skip the GTT one *)
ReleaseMmapOffsetSkipAll(p) == ptes

(* i915_gem_object_release_mmap_offset(p): unmap the CPU mmaps of p's own  *)
(* mmo records.  A swap object has none.                                  *)
ReleaseMmapOffset(p) == {e \in ptes : e[1] # p}

(* the lock covering p's pages: an object's own, or for a swap object the *)
(* lock of the object whose swapto it is, if any                           *)
LockOf(p) ==
    IF p \in Objects THEN objLock[p]
    ELSE IF \E o \in Objects : swapto[o] = p
           THEN objLock[CHOOSE o \in Objects : swapto[o] = p]
           ELSE NULL

(* i915_gem_object_has_pinned_pages *)
HasPinnedPages(p) == pin[p] > 0 \/ p \in otherPins

-----------------------------------------------------------------------------
(* Thread steps                                                            *)

(* vm_fault_cpu entry: a write to a read-only object is refused at once;  *)
(* otherwise the fault counts itself in active_fault_handlers.            *)
Fault(t, o, w) ==
    /\ pc[t] = "idle"
    /\ faults[t] < MaxFaults[t]
    /\ faults' = [faults EXCEPT ![t] = @ + 1]
    /\ fobj' = [fobj EXCEPT ![t] = o]
    /\ fwrite' = [fwrite EXCEPT ![t] = w]
    /\ pg' = [pg EXCEPT ![t] = o]
    /\ IF o \in ReadOnly /\ w
         THEN UNCHANGED <<active, pc>>
         ELSE /\ active' = active + 1
              /\ Goto(t, "check")
    /\ UNCHANGED <<failing, otherPins, invalidate, inv, pages, pin, ptes, swapto, willneed, created,
                   objLock, err>>

(* Mutant: the fault does not look at invalidate_lmem_mmaps *)
CheckFlagIgnored(t) ==
    /\ pc[t] = "check"
    /\ Goto(t, "lock")
    /\ UNCHANGED <<failing, otherPins, invalidate, active, inv, pages, pin, ptes, swapto, willneed,
                   created, objLock, fobj, fwrite, pg, err, faults>>

(* Mutant: the SIGBUS return for a set invalidate_lmem_mmaps skips the    *)
(* decrement at out                                                        *)
CheckFlagNoDec(t) ==
    /\ pc[t] = "check"
    /\ Goto(t, IF invalidate THEN "idle" ELSE "lock")
    /\ UNCHANGED <<failing, otherPins, invalidate, active, inv, pages, pin, ptes, swapto, willneed,
                   created, objLock, fobj, fwrite, pg, err, faults>>

(* READ_ONCE(invalidate_lmem_mmaps): SIGBUS while an invalidation is on *)
CheckFlag(t) ==
    /\ pc[t] = "check"
    /\ Goto(t, IF invalidate THEN "out" ELSE "lock")
    /\ UNCHANGED <<failing, otherPins, invalidate, active, inv, pages, pin, ptes, swapto, willneed,
                   created, objLock, fobj, fwrite, pg, err, faults>>

(* i915_gem_object_lock at the top of each pass of for_i915_gem_ww: the  *)
(* thread sleeps until the dma-resv is free and then holds it.            *)
Lock(t) ==
    LET o == fobj[t] IN
    /\ pc[t] = "lock"
    /\ objLock[o] = NULL
    /\ objLock' = [objLock EXCEPT ![o] = t]
    /\ SetErr(t, "0")
    /\ Goto(t, "swap")
    /\ UNCHANGED <<failing, otherPins, invalidate, active, inv, pages, pin, ptes, swapto, willneed,
                   created, fobj, fwrite, pg, faults>>

(* A signal ends the interruptible wait with EINTR, whether or not the    *)
(* lock is held by another: an event of the environment, never forced.    *)
LockInterrupted(t) ==
    /\ pc[t] = "lock"
    /\ SetErr(t, "EINTR")
    /\ Goto(t, "fini")
    /\ UNCHANGED <<failing, otherPins, invalidate, active, inv, pages, pin, ptes, swapto, willneed,
                   created, objLock, fobj, fwrite, pg, faults>>

(* use_swapto, under the object lock: an existing swap object marked      *)
(* WILLNEED is used; otherwise create_swapto keeps the object itself when *)
(* it has pages, or when a write leaves twice its size free in the region *)
(* or the shmem allocation fails, and else makes a swap object and stores *)
(* it in obj->swapto.  GEM_BUG_ON(obj->swapto) compiles to nothing in a   *)
(* build without CONFIG_DRM_I915_DEBUG_GEM: the store overwrites.          *)
UseSwapto(t) ==
    LET o == fobj[t]
        sw == swapto[o]
    IN
    /\ pc[t] = "swap"
    /\ IF sw # NULL /\ sw \in willneed
         THEN /\ pg' = [pg EXCEPT ![t] = sw]
              /\ UNCHANGED <<swapto, willneed, created>>
       ELSE IF o \in pages
         THEN /\ pg' = [pg EXCEPT ![t] = o]
              /\ UNCHANGED <<swapto, willneed, created>>
         ELSE \/ /\ pg' = [pg EXCEPT ![t] = o]
                 /\ UNCHANGED <<swapto, willneed, created>>
              \/ \E s \in Swaps \ created :
                   /\ swapto' = [swapto EXCEPT ![o] = s]
                   /\ created' = created \cup {s}
                   /\ willneed' = willneed \cup {s}
                   /\ pg' = [pg EXCEPT ![t] = s]
    /\ Goto(t, "migrate")
    /\ UNCHANGED <<failing, otherPins, invalidate, active, inv, pages, pin, ptes, objLock, fobj,
                   fwrite, err, faults>>

(* i915_gem_object_should_migrate_smem may ask for a move of a local-     *)
(* memory object to system memory, required or as a hint.  Pinned pages   *)
(* fail with EFAULT; else i915_gem_object_migrate_to_smem moves it, its    *)
(* old pages released and their mmaps revoked, or fails.  A required move *)
(* that failed ends the pass with its error, as does EDEADLK; any other   *)
(* failure of a hint is ignored.                                           *)
Migrate(t) ==
    LET p == pg[t]
        outcomes == IF HasPinnedPages(p) THEN {"EFAULT"}
                    ELSE {"0"} \cup (IF failing THEN {"EDEADLK", "ENOMEM"} ELSE {})
    IN
    /\ pc[t] = "migrate"
    /\ \/ /\ Goto(t, "pin")
          /\ UNCHANGED <<pages, ptes, err>>
       \/ /\ p \in Objects
          /\ \E required \in BOOLEAN, e \in outcomes :
               /\ IF e = "0"
                    THEN /\ pages' = pages \ {p}
                         /\ ptes' = ReleaseMmapOffset(p)
                    ELSE UNCHANGED <<pages, ptes>>
               /\ IF (e # "0" /\ required) \/ e = "EDEADLK"
                    THEN /\ SetErr(t, e)
                         /\ Goto(t, "fini")
                    ELSE Goto(t, "pin") /\ UNCHANGED err
    /\ UNCHANGED <<failing, otherPins, invalidate, active, inv, pin, swapto, willneed, created,
                   objLock, fobj, fwrite, pg, faults>>

(* i915_gem_object_pin_pages_sync on the chosen object: its pages come in *)
(* and stay pinned, or the pass fails with ENOMEM or ENXIO                 *)
PinPages(t) ==
    LET p == pg[t] IN
    /\ pc[t] = "pin"
    /\ \/ /\ pages' = pages \cup {p}
          /\ pin' = [pin EXCEPT ![p] = @ + 1]
          /\ Goto(t, "remap")
          /\ UNCHANGED err
       \/ /\ failing
          /\ \E e \in {"ENOMEM", "ENXIO"} : SetErr(t, e)
          /\ Goto(t, "fini")
          /\ UNCHANGED <<pages, pin>>
    /\ UNCHANGED <<failing, otherPins, invalidate, active, inv, ptes, swapto, willneed, created,
                   objLock, fobj, fwrite, pg, faults>>

(* remap_io_sg fills the window of the faulting object's mmap with the    *)
(* pinned pages; on failure it zaps what it filled and returns ENOMEM      *)
Remap(t) ==
    /\ pc[t] = "remap"
    /\ \/ /\ ptes' = ptes \cup {<<fobj[t], pg[t]>>}
          /\ UNCHANGED err
       \/ /\ failing
          /\ SetErr(t, "ENOMEM")
          /\ UNCHANGED ptes
    /\ Goto(t, "unpin")
    /\ UNCHANGED <<failing, otherPins, invalidate, active, inv, pages, pin, swapto, willneed,
                   created, objLock, fobj, fwrite, pg, faults>>

(* i915_gem_object_unpin_pages: the PTEs stay; put_pages revokes them *)
Unpin(t) ==
    /\ pc[t] = "unpin"
    /\ pin' = [pin EXCEPT ![pg[t]] = @ - 1]
    /\ Goto(t, "fini")
    /\ UNCHANGED <<failing, otherPins, invalidate, active, inv, pages, ptes, swapto, willneed,
                   created, objLock, fobj, fwrite, pg, err, faults>>

(* Mutant: a pass that runs again keeps the object lock of the failed   *)
(* pass, as if the ww context were not finalised before the retry          *)
FiniRetryKeepsLock(t) ==
    LET retry == err[t] \in {"EDEADLK", "ENXIO", "ENOMEM"} IN
    /\ pc[t] = "fini"
    /\ objLock' = IF retry THEN objLock
                  ELSE [o \in Objects |-> IF objLock[o] = t THEN NULL ELSE objLock[o]]
    /\ Goto(t, IF retry THEN "lock" ELSE "out")
    /\ UNCHANGED <<failing, otherPins, invalidate, active, inv, pages, pin, ptes, swapto, willneed,
                   created, fobj, fwrite, pg, err, faults>>

(* The end of a pass: __i915_gem_ww_fini drops the object lock; EDEADLK   *)
(* backs off and runs the pass again, the do-while runs it again after    *)
(* ENXIO or ENOMEM, and any other result leaves the loop.                  *)
Fini(t) ==
    /\ pc[t] = "fini"
    /\ objLock' = [o \in Objects |-> IF objLock[o] = t THEN NULL ELSE objLock[o]]
    /\ Goto(t, IF err[t] \in {"EDEADLK", "ENXIO", "ENOMEM"} THEN "lock" ELSE "out")
    /\ UNCHANGED <<failing, otherPins, invalidate, active, inv, pages, pin, ptes, swapto, willneed,
                   created, fobj, fwrite, pg, err, faults>>

(* out: atomic_dec_and_test(active_fault_handlers) wakes the invalidator *)
(* on the last one; i915_error_to_vmf_fault hands the result to the mm.   *)
Out(t) ==
    /\ pc[t] = "out"
    /\ active' = active - 1
    /\ Goto(t, "idle")
    /\ UNCHANGED <<failing, otherPins, invalidate, inv, pages, pin, ptes, swapto, willneed, created,
                   objLock, fobj, fwrite, pg, err, faults>>

-----------------------------------------------------------------------------
(* vm_access: a debugger (access_process_vm) reading or writing the area  *)
(* through the object.  It neither counts itself in active_fault_handlers *)
(* nor reads invalidate_lmem_mmaps, and it maps the object's own pages.   *)

(* A write to a read-only object is refused with EACCES; a range outside  *)
(* the object (or, for a segmented object, outside one segment) with      *)
(* EINVAL or ENXIO: the input choice inRange stands for addr and len.     *)
Access(t, o, w) ==
    /\ pc[t] = "idle"
    /\ faults[t] < MaxFaults[t]
    /\ faults' = [faults EXCEPT ![t] = @ + 1]
    /\ fobj' = [fobj EXCEPT ![t] = o]
    /\ fwrite' = [fwrite EXCEPT ![t] = w]
    /\ pg' = [pg EXCEPT ![t] = o]
    /\ \E inRange \in BOOLEAN :
         IF (o \in ReadOnly /\ w) \/ ~inRange THEN UNCHANGED pc ELSE Goto(t, "alock")
    /\ UNCHANGED <<failing, otherPins, invalidate, active, inv, pages, pin, ptes, swapto, willneed,
                   created, objLock, err>>

(* i915_gem_object_lock(obj, &ww), interruptible.  The context holds no   *)
(* other lock, so the ww mutex waits instead of returning EDEADLK and the *)
(* backoff at out is never taken.                                          *)
AccessLock(t) ==
    LET o == fobj[t] IN
    /\ pc[t] = "alock"
    /\ objLock[o] = NULL
    /\ objLock' = [objLock EXCEPT ![o] = t]
    /\ Goto(t, "amap")
    /\ UNCHANGED <<failing, otherPins, invalidate, active, inv, pages, pin, ptes, swapto, willneed,
                   created, fobj, fwrite, pg, err, faults>>

(* a signal ends the wait with EINTR, and vm_access goes to out *)
AccessLockInterrupted(t) ==
    /\ pc[t] = "alock"
    /\ SetErr(t, "EINTR")
    /\ Goto(t, "afini")
    /\ UNCHANGED <<failing, otherPins, invalidate, active, inv, pages, pin, ptes, swapto, willneed,
                   created, objLock, fobj, fwrite, pg, faults>>

(* Mutant: pin_map brings the pages in without taking its pin, which     *)
(* unpin_map then drops                                                    *)
AccessPinMapNoPin(t) ==
    LET o == fobj[t] IN
    /\ pc[t] = "amap"
    /\ pages' = pages \cup {o}
    /\ Goto(t, "acopy")
    /\ UNCHANGED <<failing, otherPins, invalidate, active, inv, pin, ptes, swapto, willneed,
                   created, objLock, fobj, fwrite, pg, err, faults>>

(* i915_gem_object_pin_map(obj, I915_MAP_FORCE_WC): the object's pages    *)
(* come in and stay pinned while mapped, or the call fails with ENOMEM    *)
AccessPinMap(t) ==
    LET o == fobj[t] IN
    /\ pc[t] = "amap"
    /\ \/ /\ pages' = pages \cup {o}
          /\ pin' = [pin EXCEPT ![o] = @ + 1]
          /\ Goto(t, "acopy")
          /\ UNCHANGED err
       \/ /\ failing
          /\ SetErr(t, "ENOMEM")
          /\ Goto(t, "afini")
          /\ UNCHANGED <<pages, pin>>
    /\ UNCHANGED <<failing, otherPins, invalidate, active, inv, ptes, swapto, willneed, created,
                   objLock, fobj, fwrite, pg, faults>>

(* memcpy to or from the map (flushed after a write), then                *)
(* i915_gem_object_unpin_map                                               *)
AccessCopy(t) ==
    /\ pc[t] = "acopy"
    /\ pin' = [pin EXCEPT ![fobj[t]] = @ - 1]
    /\ Goto(t, "afini")
    /\ UNCHANGED <<failing, otherPins, invalidate, active, inv, pages, ptes, swapto, willneed,
                   created, objLock, fobj, fwrite, pg, err, faults>>

(* out: i915_gem_ww_ctx_fini drops the lock; the errno or len is returned *)
AccessFini(t) ==
    /\ pc[t] = "afini"
    /\ objLock' = [o \in Objects |-> IF objLock[o] = t THEN NULL ELSE objLock[o]]
    /\ SetErr(t, "0")
    /\ Goto(t, "idle")
    /\ UNCHANGED <<failing, otherPins, invalidate, active, inv, pages, pin, ptes, swapto, willneed,
                   created, fobj, fwrite, pg, faults>>

-----------------------------------------------------------------------------
(* Other actors                                                            *)

(* The shrinker or an eviction, holding the lock (a trylock), puts the   *)
(* unpinned pages of p; put_pages calls i915_gem_object_release_mmap_offset *)
(* on p.                                                                   *)
PutPages(p) ==
    /\ p \in pages
    /\ ~HasPinnedPages(p)
    /\ LockOf(p) = NULL
    /\ pages' = pages \ {p}
    /\ ptes' = ReleaseMmapOffset(p)
    /\ UNCHANGED <<failing, otherPins, invalidate, active, inv, pin, swapto, willneed, created,
                   objLock, pc, fobj, fwrite, pg, err, faults>>

(* Another user (display, execbuf) pins or unpins the pages of p under   *)
(* its lock; one such pin at a time.                                       *)
OtherPin(p) ==
    /\ p \in pages \ otherPins
    /\ LockOf(p) = NULL
    /\ otherPins' = otherPins \cup {p}
    /\ UNCHANGED <<failing, invalidate, active, inv, pages, pin, ptes, swapto, willneed,
                   created, objLock, pc, fobj, fwrite, pg, err, faults>>

OtherUnpin(p) ==
    /\ p \in otherPins
    /\ otherPins' = otherPins \ {p}
    /\ UNCHANGED <<failing, invalidate, active, inv, pages, pin, ptes, swapto, willneed,
                   created, objLock, pc, fobj, fwrite, pg, err, faults>>

(* The swap object is marked no longer needed: its madv leaves WILLNEED *)
SwapDontneed(s) ==
    /\ s \in willneed
    /\ willneed' = willneed \ {s}
    /\ UNCHANGED <<failing, otherPins, invalidate, active, inv, pages, pin, ptes, swapto, created,
                   objLock, pc, fobj, fwrite, pg, err, faults>>

(* The invalidation of local-memory mmaps: set invalidate_lmem_mmaps, wait *)
(* for active_fault_handlers to reach zero, release the mmaps of every     *)
(* local-memory object; later the flag is cleared again.                   *)
InvalidateStart ==
    /\ inv = "idle"
    /\ invalidate' = TRUE
    /\ inv' = "waiting"
    /\ UNCHANGED <<failing, otherPins, active, pages, pin, ptes, swapto, willneed, created, objLock,
                   pc, fobj, fwrite, pg, err, faults>>

InvalidateRevoke ==
    /\ inv = "waiting"
    /\ active = 0
    /\ ptes' = {}
    /\ inv' = "revoked"
    /\ UNCHANGED <<failing, otherPins, invalidate, active, pages, pin, swapto, willneed, created,
                   objLock, pc, fobj, fwrite, pg, err, faults>>

InvalidateEnd ==
    /\ inv = "revoked"
    /\ invalidate' = FALSE
    /\ inv' = "idle"
    /\ UNCHANGED <<failing, otherPins, active, pages, pin, ptes, swapto, willneed, created, objLock,
                   pc, fobj, fwrite, pg, err, faults>>

(* The fault model of the retry loop: a pass may fail (ENOMEM from the   *)
(* allocator, ENXIO from the backing store, EDEADLK from another ww       *)
(* context) while failing holds, and failures are transient: the         *)
(* environment eventually recovers and stays so.  Nothing in vm_fault_cpu *)
(* bounds the loop (line 407); a failure that never ends spins the fault. *)
Recover ==
    /\ failing
    /\ failing' = FALSE
    /\ UNCHANGED <<invalidate, active, inv, pages, pin, otherPins, ptes, swapto, willneed,
                   created, objLock, pc, fobj, fwrite, pg, err, faults>>

(* every thread has taken its faults and returned *)
Terminated ==
    /\ \A t \in Threads : pc[t] = "idle" /\ faults[t] = MaxFaults[t]
    /\ UNCHANGED vars

Next ==
    \/ \E t \in Threads, o \in Objects, w \in BOOLEAN : Fault(t, o, w) \/ Access(t, o, w)
    \/ \E t \in Threads :
         \/ CheckFlag(t) \/ Lock(t) \/ LockInterrupted(t) \/ UseSwapto(t) \/ Migrate(t) \/ PinPages(t)
         \/ Remap(t) \/ Unpin(t) \/ Fini(t) \/ Out(t)
         \/ AccessLock(t) \/ AccessLockInterrupted(t) \/ AccessPinMap(t) \/ AccessCopy(t)
         \/ AccessFini(t)
    \/ \E p \in Pgs : PutPages(p) \/ OtherPin(p) \/ OtherUnpin(p)
    \/ \E s \in Swaps : SwapDontneed(s)
    \/ InvalidateStart \/ InvalidateRevoke \/ InvalidateEnd
    \/ Recover
    \/ Terminated

Spec == Init /\ [][Next]_vars

(* A fault runs on its thread until it returns: its steps are weakly      *)
(* fair, and the acquire of the sleeping object lock strongly fair (a     *)
(* waiter is woken whenever the holder unlocks).  Signals are not fair:   *)
(* a blocked waiter need never be interrupted.  wake_up_var on the last *)
(* decrement wakes the invalidator, which then keeps running: its revoke  *)
(* is weakly fair.                                                         *)
FaultStep(t) ==
    \/ CheckFlag(t) \/ UseSwapto(t) \/ Migrate(t) \/ PinPages(t) \/ Remap(t)
    \/ Unpin(t) \/ Fini(t) \/ Out(t)

(* vm_access runs on the debugger's thread until it returns, like a       *)
(* fault; a thread is in one or the other, so one condition covers both.  *)
AccessStep(t) == AccessPinMap(t) \/ AccessCopy(t) \/ AccessFini(t)

FairSpec ==
    /\ Spec
    /\ \A t \in Threads : /\ WF_vars(FaultStep(t) \/ AccessStep(t))
                          /\ SF_vars(Lock(t) \/ AccessLock(t))
    /\ WF_vars(InvalidateRevoke)
    /\ WF_vars(Recover)

-----------------------------------------------------------------------------
(* Properties                                                              *)

(* Once the invalidation has released the local-memory mmaps, no fault    *)
(* puts a PTE back until the flag is cleared: a fault either counted      *)
(* itself in active_fault_handlers before the invalidator read zero, and  *)
(* finished before the release, or reads the flag set and returns SIGBUS.  *)
NoPteWhileInvalidated ==
    inv = "revoked" => ptes = {}

(* Every PTE a fault leaves in a user mapping shows pages that are still  *)
(* present: remap_io_sg runs with the pages pinned, and whoever later puts *)
(* them revokes the mapping in put_pages (the comment at remap_io_sg).    *)
PtesBacked ==
    \A e \in ptes : e[2] \in pages

(* The PTEs of an object's mmap that show the object's own pages show     *)
(* pages still present: the fault maps them pinned and under the lock,    *)
(* and put_pages and the migration to system memory revoke the object's   *)
(* mmaps in the same step as they drop the pages.                          *)
ObjectPtesBacked ==
    \A e \in ptes : e[2] \in Objects => e[2] \in pages

(* A debugger's vm_access on an area reads and writes the data the        *)
(* process sees there: when it copies through the map of its object, no   *)
(* PTE of that object's mmap shows other pages (the swap object           *)
(* use_swapto made the preferred target).                                 *)
AccessSeesMapping ==
    \A t \in Threads : pc[t] = "acopy" =>
        \A e \in ptes : e[1] = fobj[t] => e[2] = fobj[t]

(* Every swap object create_swapto made is still obj->swapto of its       *)
(* object, where the object's free path finds it: none is dropped while   *)
(* referenced only by the PTEs and pins of a fault.                        *)
SwaptoTracked ==
    \A s \in created : \E o \in Objects : swapto[o] = s

(* Every fault and every vm_access returns, when failures are transient:  *)
(* a signal leaves the ww loop, EDEADLK, ENXIO and ENOMEM run another     *)
(* pass, and the do-while has no other way to keep a thread in            *)
(* vm_fault_cpu.                                                          *)
CpuFaultReturns ==
    \A t \in Threads : pc[t] # "idle" ~> pc[t] = "idle"

(* An invalidation that has started waiting for the fault handlers gets   *)
(* to release the mmaps: active_fault_handlers drains on every path out   *)
(* of vm_fault_cpu.                                                        *)
InvalidationCompletes ==
    inv = "waiting" ~> inv = "revoked"

=============================================================================
