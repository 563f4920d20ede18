----------------------------- MODULE MmapSetup -----------------------------
(***************************************************************************)
(* How a user mapping of a GEM object comes to exist and goes away, and   *)
(* what it holds meanwhile, in i915_gem_mman.c:                           *)
(*                                                                         *)
(*  - the offset ioctls (i915_gem_mmap_offset_ioctl, i915_gem_dumb_mmap_  *)
(*    offset) and the legacy i915_gem_mmap_ioctl, which mmaps through the  *)
(*    DRM file itself;                                                     *)
(*  - i915_gem_mmap: the exact lookup of the offset node, the reference   *)
(*    taken with kref_get_unless_zero on an object that may be on its way *)
(*    to the free worker, and i915_gem_update_vma_info, which shares one  *)
(*    anonymous file between all mappings (mmap_singleton) and seals the  *)
(*    mapping of a read-only object against a later mprotect;             *)
(*  - vm_open and vm_close on fork and munmap, singleton_release, and the *)
(*    PCI doorbell barrier mmap with its device references.               *)
(*                                                                         *)
(* Each client thread issues MaxCalls ioctls or mmaps.  The registry is   *)
(* abstracted to the set of offset nodes and the clients allowed on each; *)
(* MmapOffset models how a node is created.  A vma is a slot of VmaSlots. *)
(***************************************************************************)
EXTENDS Naturals, FiniteSets, TLC

CONSTANTS
    Threads,     \* clients, each with its own drm_file, mmapping objects
    Objects,     \* GEM objects; every client starts with a handle on each
    Types,       \* mmap types used: a subset of {"GTT", "WC", "WB", "UC"}
    ReadOnly,    \* objects i915_gem_object_is_readonly
    Unsupported, \* <<o, type>> pairs __assign_mmap_offset refuses
    PatEnabled,  \* pat_enabled()
    HasAperture, \* i915_ggtt_has_aperture()
    HasBarrier,  \* GRAPHICS_VER >= 12: the doorbell barrier page exists
    AnonFiles,   \* identities for the anonymous files anon_inode_getfile makes
    VmaSlots,    \* room for user vmas
    MaxCalls,    \* bound on the ioctls and mmaps each client issues
    NULL

ASSUME Types \subseteq {"GTT", "WC", "WB", "UC"} /\ ReadOnly \subseteq Objects
ASSUME Unsupported \subseteq Objects \X Types /\ MaxCalls \in Nat
ASSUME {PatEnabled, HasAperture, HasBarrier} \subseteq BOOLEAN

VARIABLES
    objRefs,    \* [Objects -> Int]: the object's kref
    objState,   \* "live"; "dying": kref reached 0, queued for the free
                \* worker, its offset nodes still in the manager; "freed"
    handles,    \* <<client, object>> handles, each holding a reference
    nodes,      \* <<object, type>> offset nodes in the vma offset manager
    allowed,    \* <<object, type, client>>: drm_vma_node_is_allowed
    singleton,  \* i915->gem.mmap_singleton
    fState,     \* [AnonFiles -> {"unused", "open", "released"}]
    fRefs,      \* [AnonFiles -> Int]: f_count of each anonymous file
    devRefs,    \* references on the drm_device beyond the driver's own
    rc6,        \* pvc_wa_disallow_rc6 calls not yet matched by an allow
    unplugged,  \* drm_dev_unplug has run
    vmas,       \* [VmaSlots -> Vma \cup {NULL}]: the user mappings
    pc,         \* per client: where its call stands
    tobj,       \* per client: the object of the call
    tlegacy,    \* per client: "none", or the args->offset class of an
                \* i915_gem_mmap_ioctl holding its lookup reference
    twrite,     \* per client: the mapping asks for VM_WRITE
    tfile,      \* per client: the anonymous file it holds a reference on
    tslot,      \* per client: the vma slot the mm core allocated for it
    calls,      \* per client: calls issued so far
    ret         \* per client: what its call returns

vars == <<objRefs, objState, handles, nodes, allowed, singleton, fState,
          fRefs, devRefs, rc6, unplugged, vmas, pc, tobj, tlegacy, twrite, tfile, tslot,
          calls, ret>>

(* A vma: the object it maps (NULL for the barrier page), the anonymous   *)
(* file it holds, and its access flags.                                    *)
Vma == [obj : Objects \cup {NULL}, file : AnonFiles \cup {NULL},
        read : BOOLEAN, write : BOOLEAN, mayread : BOOLEAN, maywrite : BOOLEAN]

(* args->offset and args->size of i915_gem_mmap_ioctl: at the object's   *)
(* first page, at a later page but inside the object, or overflowing it.  *)
LegacyArgs == {"at0", "inside", "overflow"}

PCs == {"idle", "update", "create", "store", "install", "done"}
Results == {"none", "ok", "EINVAL", "ENODEV", "ENOENT", "EACCES", "ENOMEM",
            "EFAULT"}

TypeOK ==
    /\ objRefs \in [Objects -> Nat]
    /\ objState \in [Objects -> {"live", "dying", "freed"}]
    /\ handles \subseteq Threads \X Objects
    /\ nodes \subseteq Objects \X Types
    /\ allowed \subseteq Objects \X Types \X Threads
    /\ singleton \in AnonFiles \cup {NULL}
    /\ fState \in [AnonFiles -> {"unused", "open", "released"}]
    /\ fRefs \in [AnonFiles -> Nat]
    /\ devRefs \in Nat /\ rc6 \in Nat /\ unplugged \in BOOLEAN
    /\ vmas \in [VmaSlots -> Vma \cup {NULL}]
    /\ pc \in [Threads -> PCs]
    /\ tobj \in [Threads -> Objects \cup {NULL}]
    /\ tlegacy \in [Threads -> {"none"} \cup LegacyArgs]
    /\ twrite \in [Threads -> BOOLEAN]
    /\ tfile \in [Threads -> AnonFiles \cup {NULL}]
    /\ tslot \in [Threads -> VmaSlots \cup {NULL}]
    /\ calls \in [Threads -> 0..MaxCalls]
    /\ ret \in [Threads -> Results]

Init ==
    /\ objRefs = [o \in Objects |-> Cardinality(Threads)]
    /\ objState = [o \in Objects |-> "live"]
    /\ handles = Threads \X Objects
    /\ nodes = {}
    /\ allowed = {}
    /\ singleton = NULL
    /\ fState = [f \in AnonFiles |-> "unused"]
    /\ fRefs = [f \in AnonFiles |-> 0]
    /\ devRefs = 0
    /\ rc6 = 0
    /\ unplugged = FALSE
    /\ vmas = [s \in VmaSlots |-> NULL]
    /\ pc = [t \in Threads |-> "idle"]
    /\ tobj = [t \in Threads |-> NULL]
    /\ tlegacy = [t \in Threads |-> "none"]
    /\ twrite = [t \in Threads |-> FALSE]
    /\ tfile = [t \in Threads |-> NULL]
    /\ tslot = [t \in Threads |-> NULL]
    /\ calls = [t \in Threads |-> 0]
    /\ ret = [t \in Threads |-> "none"]

-----------------------------------------------------------------------------
(* Helpers                                                                 *)

Goto(t, to) == pc' = [pc EXCEPT ![t] = to]

Finish(t, r) == Goto(t, "done") /\ ret' = [ret EXCEPT ![t] = r]

(* i915_gem_object_put: a kref reaching zero sends the object to          *)
(* i915_gem_free_object, which queues it for the free worker.             *)
PutObj(o) ==
    /\ objRefs' = [objRefs EXCEPT ![o] = @ - 1]
    /\ objState' = [objState EXCEPT ![o] = IF objRefs[o] = 1 THEN "dying" ELSE @]

GetRefs(o, k) ==
    /\ objRefs' = [objRefs EXCEPT ![o] = @ + k]
    /\ UNCHANGED objState

(* vm_area slots neither mapped nor allocated to a call in progress *)
FreeSlots == {s \in VmaSlots : vmas[s] = NULL /\ \A u \in Threads : tslot[u] # s}

(* a new call: the client has calls left *)
Start(t) == pc[t] = "idle" /\ calls[t] < MaxCalls

(* Mutant: i915_gem_object_get in place of kref_get_unless_zero *)
GetAlways(o, held) == TRUE

(* i915_gem_object_get_rcu: kref_get_unless_zero, counting the references *)
(* the caller takes in the same step                                       *)
GetUnlessZero(o, held) == objRefs[o] + held > 0

(* Mutant: a second put in update_vma_info's own error path *)
ErrPutTwice(o) ==
    /\ objRefs' = [objRefs EXCEPT ![o] = @ - 2]
    /\ objState' = [objState EXCEPT ![o] = IF objRefs[o] <= 2 THEN "dying" ELSE @]

(* i915_gem_mmap: if (err) i915_gem_object_put(obj) *)
ErrPut(o) == PutObj(o)

(* Mutant: VM_MAYWRITE left set on a read-only object *)
SealedVmaMayWrite(o, f, w) ==
    [obj |-> o, file |-> f, read |-> TRUE, write |-> w, mayread |-> TRUE,
     maywrite |-> TRUE]

(* the vma update_vma_info leaves: readable, written if asked, and        *)
(* VM_MAYWRITE cleared on a read-only object                               *)
SealedVma(o, f, w) ==
    [obj |-> o, file |-> f, read |-> TRUE, write |-> w, mayread |-> TRUE,
     maywrite |-> o \notin ReadOnly]

(* Mutant: vm_close without pvc_wa_allow_rc6 *)
AllowRc6Skipped == UNCHANGED rc6

(* pvc_wa_allow_rc6 *)
AllowRc6 == rc6' = rc6 - 1

(* Mutant: singleton_release without the cmpxchg *)
ClearSingletonNever(f) == singleton

(* cmpxchg(&i915->gem.mmap_singleton, file, NULL) *)
ClearSingleton(f) == IF singleton = f THEN NULL ELSE singleton
-----------------------------------------------------------------------------
(* The offset ioctls                                                       *)

(* i915_gem_mmap_offset_attach failing: before a node exists (ENOMEM,     *)
(* ENOSPC), or in vma_node_allow_once, leaving the node but not the client *)
(* on its allow list                                                        *)
AttachFails(o, ty) ==
    /\ nodes' \in {nodes, nodes \cup {<<o, ty>>}}
    /\ UNCHANGED allowed

(* __assign_mmap_offset_handle and __assign_mmap_offset: the handle lookup *)
(* (whose reference is dropped before the ioctl returns), the refusal of a *)
(* type the backing store cannot serve, and i915_gem_mmap_offset_attach,   *)
(* which either fails (ENOMEM, ENOSPC) or leaves a node the client is     *)
(* allowed on.  The race inside attach is MmapOffset's.                   *)
AssignOffset(t, o, ty) ==
    IF <<t, o>> \notin handles THEN Finish(t, "ENOENT") /\ UNCHANGED <<nodes, allowed>>
    ELSE IF <<o, ty>> \in Unsupported THEN Finish(t, "ENODEV") /\ UNCHANGED <<nodes, allowed>>
    ELSE \/ /\ nodes' = nodes \cup {<<o, ty>>}
            /\ allowed' = allowed \cup {<<o, ty, t>>}
            /\ Finish(t, "ok")
         \/ AttachFails(o, ty) /\ Finish(t, "ENOMEM")

(* i915_gem_mmap_offset_ioctl: the type the flags ask for, or the errno   *)
(* of the switch                                                           *)
OffsetIoctlType(flag) ==
    CASE flag = "GTT" -> IF HasAperture THEN "GTT" ELSE "ENODEV"
      [] flag = "WC"  -> IF PatEnabled THEN "WC" ELSE "ENODEV"
      [] flag = "WB"  -> "WB"
      [] flag = "UC"  -> IF PatEnabled THEN "UC" ELSE "ENODEV"
      [] OTHER        -> "EINVAL"

(* i915_gem_dumb_mmap_offset: WC where PAT is on, else GTT if there is an *)
(* aperture                                                                *)
DumbType == IF PatEnabled THEN "WC" ELSE IF HasAperture THEN "GTT" ELSE "ENODEV"

OffsetCall(t, o, ty) ==
    /\ Start(t)
    /\ ty \in Types \cup Results   \* a type outside Types is not instantiated
    /\ calls' = [calls EXCEPT ![t] = @ + 1]
    /\ IF ty \in Types THEN AssignOffset(t, o, ty)
                        ELSE Finish(t, ty) /\ UNCHANGED <<nodes, allowed>>
    /\ UNCHANGED <<unplugged, objRefs, objState, handles, singleton, fState, fRefs,
                   devRefs, rc6, vmas, tobj, tlegacy, twrite, tfile, tslot>>

OffsetIoctl(t, o, flag) == OffsetCall(t, o, OffsetIoctlType(flag))

DumbMmapOffset(t, o) == OffsetCall(t, o, DumbType)

-----------------------------------------------------------------------------
(* i915_gem_mmap                                                           *)

(* From the exact lookup of the offset node to the reference on its       *)
(* object.  The mm core has allocated the vma first (ENOMEM if it cannot).*)
(* exact says the area starts at a node's first page and fits in it, as    *)
(* drm_vma_offset_exact_lookup_locked requires.  Under the offset manager *)
(* lock and RCU, a node of an object whose kref is zero is skipped with   *)
(* EACCES: the object is on its way to the free worker.  held is the      *)
(* number of references the caller holds on o besides; nds and alw are   *)
(* the offset nodes and allow lists the lookup sees.                       *)
MmapLookup(t, o, ty, w, exact, held, nds, alw) ==
    LET found == exact /\ <<o, ty>> \in nds IN
    IF ~unplugged /\ FreeSlots # {} /\ found /\ <<o, ty, t>> \in alw /\ GetUnlessZero(o, held)
      THEN /\ GetRefs(o, held + 1)
           /\ \E s \in FreeSlots : tslot' = [tslot EXCEPT ![t] = s]
           /\ twrite' = [twrite EXCEPT ![t] = w]
           /\ Goto(t, "update")
           /\ UNCHANGED ret
      ELSE /\ Finish(t, CASE FreeSlots = {} -> "ENOMEM"
                          [] unplugged -> "ENODEV"
                          [] found -> "EACCES"
                          [] OTHER -> "EINVAL")
           /\ GetRefs(o, held)
           /\ UNCHANGED <<tslot, twrite>>

(* mmap(2) of an offset of the DRM file                                    *)
Mmap(t, o, ty, w, exact) ==
    /\ Start(t)
    /\ calls' = [calls EXCEPT ![t] = @ + 1]
    /\ tobj' = [tobj EXCEPT ![t] = o]
    /\ MmapLookup(t, o, ty, w, exact, 0, nodes, allowed)
    /\ UNCHANGED <<unplugged, handles, nodes, allowed, singleton, fState, fRefs, devRefs,
                   rc6, vmas, tlegacy, tfile>>

(* i915_gem_mmap_ioctl: the flags, the handle lookup, whose reference is  *)
(* held to the end, the range check, __assign_mmap_offset of WB or WC, and *)
(* vm_mmap of offset + args->offset on the client's own DRM file, read and *)
(* write, which runs i915_gem_mmap on the node's first page only when     *)
(* args->offset is 0.                                                      *)
LegacyMmapIoctl(t, o, wc, arg) ==
    LET ty == IF wc THEN "WC" ELSE "WB" IN
    /\ Start(t)
    /\ ty \in Types
    /\ calls' = [calls EXCEPT ![t] = @ + 1]
    /\ tobj' = [tobj EXCEPT ![t] = o]
    /\ IF (wc /\ ~PatEnabled) \/ <<t, o>> \notin handles
         THEN /\ Finish(t, IF wc /\ ~PatEnabled THEN "ENODEV" ELSE "ENOENT")
              /\ UNCHANGED <<objRefs, objState, tlegacy, nodes, allowed, twrite, tslot>>
         ELSE /\ tlegacy' = [tlegacy EXCEPT ![t] = arg]
              /\ \/ /\ arg # "overflow"
                    /\ <<o, ty>> \notin Unsupported
                    /\ nodes' = nodes \cup {<<o, ty>>}
                    /\ allowed' = allowed \cup {<<o, ty, t>>}
                    /\ MmapLookup(t, o, ty, TRUE, arg = "at0", 1, nodes', allowed')
                 \/ /\ arg # "overflow"
                    /\ <<o, ty>> \notin Unsupported
                    /\ AttachFails(o, ty)
                    /\ Finish(t, "ENOMEM")
                    /\ GetRefs(o, 1)
                    /\ UNCHANGED <<twrite, tslot>>
                 \/ /\ arg = "overflow" \/ <<o, ty>> \in Unsupported
                    /\ Finish(t, IF arg = "overflow" THEN "EINVAL" ELSE "ENODEV")
                    /\ GetRefs(o, 1)
                    /\ UNCHANGED <<nodes, allowed, twrite, tslot>>
    /\ UNCHANGED <<unplugged, handles, singleton, fState, fRefs, devRefs, rc6, vmas, tfile>>
-----------------------------------------------------------------------------
(* i915_gem_update_vma_info and mmap_singleton                            *)

(* A read-only object refuses VM_WRITE (i915_gem_mmap then drops its      *)
(* reference); otherwise mmap_singleton reads the singleton under RCU and *)
(* takes a reference with get_file_rcu, which fails on a file whose last  *)
(* reference is gone.                                                      *)
UpdateVmaInfo(t) ==
    LET o == tobj[t]
        f == singleton
    IN
    /\ pc[t] = "update"
    /\ IF o \in ReadOnly /\ twrite[t]
         THEN /\ ErrPut(o)
              /\ Finish(t, "EINVAL")
              /\ tslot' = [tslot EXCEPT ![t] = NULL]
              /\ UNCHANGED <<fRefs, tfile>>
         ELSE IF f # NULL /\ fRefs[f] > 0
           THEN /\ fRefs' = [fRefs EXCEPT ![f] = @ + 1]
                /\ tfile' = [tfile EXCEPT ![t] = f]
                /\ Goto(t, "install")
                /\ UNCHANGED <<objRefs, objState, tslot, ret>>
           ELSE /\ Goto(t, "create")
                /\ UNCHANGED <<objRefs, objState, fRefs, tfile, tslot, ret>>
    /\ UNCHANGED <<unplugged, handles, nodes, allowed, singleton, fState, devRefs, rc6,
                   vmas, tobj, tlegacy, twrite, calls>>

(* anon_inode_getfile: a new file with one reference, or an error that    *)
(* i915_gem_mmap answers by dropping its object reference.                 *)
CreateSingleton(t) ==
    /\ pc[t] = "create"
    /\ \/ \E f \in AnonFiles :
            /\ fState[f] = "unused"
            /\ fState' = [fState EXCEPT ![f] = "open"]
            /\ fRefs' = [fRefs EXCEPT ![f] = 1]
            /\ tfile' = [tfile EXCEPT ![t] = f]
            /\ Goto(t, "store")
            /\ UNCHANGED <<objRefs, objState, tslot, ret>>
       \/ /\ ErrPut(tobj[t])
          /\ Finish(t, "ENOMEM")
          /\ tslot' = [tslot EXCEPT ![t] = NULL]
          /\ UNCHANGED <<fState, fRefs, tfile>>
    /\ UNCHANGED <<unplugged, handles, nodes, allowed, singleton, devRefs, rc6, vmas, tobj,
                   tlegacy, twrite, calls>>

(* smp_store_mb(i915->gem.mmap_singleton, file), whatever another client  *)
(* stored meanwhile, and drm_dev_get for the file.                         *)
StoreSingleton(t) ==
    /\ pc[t] = "store"
    /\ singleton' = tfile[t]
    /\ devRefs' = devRefs + 1
    /\ Goto(t, "install")
    /\ UNCHANGED <<unplugged, objRefs, objState, handles, nodes, allowed, fState, fRefs,
                   rc6, vmas, tobj, tlegacy, twrite, tfile, tslot, calls, ret>>

(* The rest of i915_gem_update_vma_info: pvc_wa_disallow_rc6, the flags,  *)
(* VM_MAYWRITE cleared on a read-only object, vma_set_file taking a       *)
(* reference on the anonymous file and fput dropping the one mmap_singleton *)
(* returned, and vm_ops; the object reference now belongs to the vma.      *)
InstallVma(t) ==
    LET o == tobj[t] IN
    /\ pc[t] = "install"
    /\ rc6' = rc6 + 1
    /\ vmas' = [vmas EXCEPT ![tslot[t]] = SealedVma(o, tfile[t], twrite[t])]
    /\ tfile' = [tfile EXCEPT ![t] = NULL]
    /\ tslot' = [tslot EXCEPT ![t] = NULL]
    /\ Finish(t, "ok")
    /\ UNCHANGED <<unplugged, objRefs, objState, handles, nodes, allowed, singleton, fState,
                   fRefs, devRefs, tobj, tlegacy, twrite, calls>>

(* The call returns; i915_gem_mmap_ioctl drops its lookup reference.       *)
Return(t) ==
    /\ pc[t] = "done"
    /\ IF tlegacy[t] # "none" THEN PutObj(tobj[t]) ELSE UNCHANGED <<objRefs, objState>>
    /\ Goto(t, "idle")
    /\ tobj' = [tobj EXCEPT ![t] = NULL]
    /\ tlegacy' = [tlegacy EXCEPT ![t] = "none"]
    /\ twrite' = [twrite EXCEPT ![t] = FALSE]
    /\ ret' = [ret EXCEPT ![t] = "none"]
    /\ UNCHANGED <<unplugged, handles, nodes, allowed, singleton, fState, fRefs, devRefs,
                   rc6, vmas, tfile, tslot, calls>>

-----------------------------------------------------------------------------
(* The doorbell barrier page                                               *)

(* The shapes of an mmap of PRELIM_I915_PCI_BARRIER_MMAP_OFFSET: one page *)
(* write-only and shared, longer than a page, copy-on-write, or readable. *)
BarrierReqs == {"ok", "big", "cow", "read"}

(* i915_gem_mmap on the barrier offset: i915_pci_barrier_mmap's checks,   *)
(* vmf_insert_pfn_prot, which may fail, and drm_dev_get for the vma.       *)
BarrierMmap(t, req) ==
    /\ Start(t)
    /\ calls' = [calls EXCEPT ![t] = @ + 1]
    /\ IF ~unplugged /\ FreeSlots # {} /\ HasBarrier /\ req = "ok"
         THEN \/ /\ \E s \in FreeSlots :
                      vmas' = [vmas EXCEPT ![s] =
                        [obj |-> NULL, file |-> NULL, read |-> FALSE, write |-> TRUE,
                         mayread |-> FALSE, maywrite |-> TRUE]]
                 /\ devRefs' = devRefs + 1
                 /\ Finish(t, "ok")
              \/ /\ Finish(t, "EFAULT")
                 /\ UNCHANGED <<vmas, devRefs>>
         ELSE /\ Finish(t, CASE FreeSlots = {} -> "ENOMEM"
                             [] unplugged \/ ~HasBarrier -> "ENODEV"
                             [] OTHER -> "EINVAL")
              /\ UNCHANGED <<vmas, devRefs>>
    /\ UNCHANGED <<unplugged, objRefs, objState, handles, nodes, allowed, singleton, fState,
                   fRefs, rc6, tobj, tlegacy, twrite, tfile, tslot>>
-----------------------------------------------------------------------------
(* The rest of the system                                                  *)

(* A client closes its handle: drm_gem_handle_delete drops its reference. *)
CloseHandle(t, o) ==
    /\ <<t, o>> \in handles
    /\ handles' = handles \ {<<t, o>>}
    /\ PutObj(o)
    /\ UNCHANGED <<unplugged, nodes, allowed, singleton, fState, fRefs, devRefs, rc6, vmas,
                   pc, tobj, tlegacy, twrite, tfile, tslot, calls, ret>>

(* The free worker: __i915_gem_free_object removes the object's offset    *)
(* nodes with its mmos.                                                    *)
FreeWorker(o) ==
    /\ objState[o] = "dying"
    /\ objState' = [objState EXCEPT ![o] = "freed"]
    /\ nodes' = {n \in nodes : n[1] # o}
    /\ allowed' = {a \in allowed : a[1] # o}
    /\ UNCHANGED <<unplugged, objRefs, handles, singleton, fState, fRefs, devRefs, rc6, vmas,
                   pc, tobj, tlegacy, twrite, tfile, tslot, calls, ret>>

(* fork or a split copies a vma: the mm core takes a reference on its     *)
(* file, and vm_open (pvc_wa_disallow_rc6, i915_gem_object_get) or         *)
(* barrier_open (drm_dev_get) runs on the copy.                            *)
VmOpen(s) ==
    LET v == vmas[s] IN
    /\ v # NULL
    /\ FreeSlots # {}
    /\ \E n \in FreeSlots : vmas' = [vmas EXCEPT ![n] = v]
    /\ IF v.obj # NULL
         THEN /\ rc6' = rc6 + 1
              /\ GetRefs(v.obj, 1)
              /\ fRefs' = [fRefs EXCEPT ![v.file] = @ + 1]
              /\ UNCHANGED devRefs
         ELSE /\ devRefs' = devRefs + 1
              /\ UNCHANGED <<rc6, objRefs, objState, fRefs>>
    /\ UNCHANGED <<unplugged, handles, nodes, allowed, singleton, fState, pc, tobj, tlegacy,
                   twrite, tfile, tslot, calls, ret>>

(* munmap: vm_close (pvc_wa_allow_rc6, i915_gem_object_put) or            *)
(* barrier_close (drm_dev_put), then the mm core's fput of the file.       *)
VmClose(s) ==
    LET v == vmas[s] IN
    /\ v # NULL
    /\ vmas' = [vmas EXCEPT ![s] = NULL]
    /\ IF v.obj # NULL
         THEN /\ AllowRc6
              /\ PutObj(v.obj)
              /\ fRefs' = [fRefs EXCEPT ![v.file] = @ - 1]
              /\ UNCHANGED devRefs
         ELSE /\ devRefs' = devRefs - 1
              /\ UNCHANGED <<rc6, objRefs, objState, fRefs>>
    /\ UNCHANGED <<unplugged, handles, nodes, allowed, singleton, fState, pc, tobj, tlegacy,
                   twrite, tfile, tslot, calls, ret>>

(* mprotect: the mm core grants VM_READ and VM_WRITE only where VM_MAYREAD *)
(* and VM_MAYWRITE allow.                                                  *)
Mprotect(s, r, w) ==
    LET v == vmas[s] IN
    /\ v # NULL
    /\ (r => v.mayread) /\ (w => v.maywrite)
    /\ <<r, w>> # <<v.read, v.write>>
    /\ vmas' = [vmas EXCEPT ![s].read = r, ![s].write = w]
    /\ UNCHANGED <<unplugged, objRefs, objState, handles, nodes, allowed, singleton, fState,
                   fRefs, devRefs, rc6, pc, tobj, tlegacy, twrite, tfile, tslot,
                   calls, ret>>

(* The last reference to an anonymous file is gone: __fput runs           *)
(* singleton_release, which clears the singleton only if it is still this *)
(* file, and drops the device reference.                                   *)
SingletonRelease(f) ==
    /\ fState[f] = "open"
    /\ fRefs[f] = 0
    /\ fState' = [fState EXCEPT ![f] = "released"]
    /\ singleton' = ClearSingleton(f)
    /\ devRefs' = devRefs - 1
    /\ UNCHANGED <<unplugged, objRefs, objState, handles, nodes, allowed, fRefs, rc6, vmas,
                   pc, tobj, tlegacy, twrite, tfile, tslot, calls, ret>>

(* The device is hot-unplugged; existing mappings stay.                   *)
Unplug ==
    /\ ~unplugged
    /\ unplugged' = TRUE
    /\ UNCHANGED <<objRefs, objState, handles, nodes, allowed, singleton, fState,
                   fRefs, devRefs, rc6, vmas, pc, tobj, tlegacy, twrite, tfile,
                   tslot, calls, ret>>

(* Every client has made its calls and nothing is left to release.         *)
Terminated ==
    /\ \A t \in Threads : pc[t] = "idle" /\ calls[t] = MaxCalls
    /\ handles = {} /\ \A s \in VmaSlots : vmas[s] = NULL
    /\ \A o \in Objects : objState[o] # "dying"
    /\ \A f \in AnonFiles : fState[f] # "open"
    /\ UNCHANGED vars

-----------------------------------------------------------------------------

Flags == {"GTT", "WC", "WB", "UC", "bad"}

(* the steps of a call in progress *)
CallStep(t) ==
    \/ UpdateVmaInfo(t) \/ CreateSingleton(t) \/ StoreSingleton(t)
    \/ InstallVma(t) \/ Return(t)

Next ==
    \/ \E t \in Threads :
         \/ CallStep(t)
         \/ \E o \in Objects :
              \/ \E flag \in Flags : OffsetIoctl(t, o, flag)
              \/ DumbMmapOffset(t, o)
              \/ \E ty \in Types, w, exact \in BOOLEAN : Mmap(t, o, ty, w, exact)
              \/ \E wc \in BOOLEAN, arg \in LegacyArgs : LegacyMmapIoctl(t, o, wc, arg)
              \/ CloseHandle(t, o)
         \/ \E req \in BarrierReqs : BarrierMmap(t, req)
    \/ \E o \in Objects : FreeWorker(o)
    \/ \E s \in VmaSlots :
         \/ VmOpen(s) \/ VmClose(s)
         \/ \E r, w \in BOOLEAN : Mprotect(s, r, w)
    \/ \E f \in AnonFiles : SingletonRelease(f)
    \/ Unplug
    \/ Terminated

Spec == Init /\ [][Next]_vars

-----------------------------------------------------------------------------
(* Properties                                                              *)

(* the calls that hold a reference on their object: i915_gem_mmap between *)
(* kref_get_unless_zero and the vma, and i915_gem_mmap_ioctl to its end   *)
HoldsObj(t) == pc[t] \in {"update", "create", "store", "install"}
HoldsLookup(t) == tlegacy[t] # "none"

CountOf(S) == Cardinality(S)

(* No mapping outlives its object: every vma, and every call holding a    *)
(* reference, is on a live object, never on one the free worker has or   *)
(* will free.  This is what kref_get_unless_zero in i915_gem_mmap and the *)
(* references of vm_open and vm_close guard against an object whose last  *)
(* handle closes while its offset node can still be looked up.            *)
ObjectsOutliveMappings ==
    /\ \A s \in VmaSlots : vmas[s] # NULL /\ vmas[s].obj # NULL =>
          objState[vmas[s].obj] = "live"
    /\ \A t \in Threads : HoldsObj(t) \/ HoldsLookup(t) => objState[tobj[t]] = "live"

(* The singleton never names a released file, and every mapping's file is *)
(* open: mmap_singleton's unlocked store and singleton_release's cmpxchg  *)
(* keep i915->gem.mmap_singleton valid whichever of two racing creators   *)
(* stores last.                                                            *)
SingletonValid ==
    /\ singleton # NULL => fState[singleton] = "open"
    /\ \A s \in VmaSlots : vmas[s] # NULL /\ vmas[s].file # NULL =>
          fState[vmas[s].file] = "open"

(* No mprotect after mmap, fork or split makes the mapping of a read-only *)
(* object writable, or the doorbell barrier page readable: update_vma_info *)
(* and i915_pci_barrier_mmap clear VM_MAYWRITE and VM_MAYREAD.             *)
SealedMappings ==
    \A s \in VmaSlots : vmas[s] # NULL =>
        /\ vmas[s].obj \in ReadOnly => ~vmas[s].write
        /\ vmas[s].obj = NULL => ~vmas[s].read

(* Every reference is owned by someone: an object's kref counts its       *)
(* handles, its vmas and the calls holding it; a file's f_count its vmas  *)
(* and the clients between mmap_singleton and the vma; the device its     *)
(* anonymous files and barrier vmas; rc6 is disallowed once per object     *)
(* vma.  Each error path of i915_gem_mmap, each vm_open/vm_close pair and  *)
(* each singleton file must balance.                                       *)
ReferencesBalanced ==
    /\ \A o \in Objects :
         objRefs[o] = CountOf({t \in Threads : <<t, o>> \in handles})
                      + CountOf({s \in VmaSlots : vmas[s] # NULL /\ vmas[s].obj = o})
                      + CountOf({t \in Threads : tobj[t] = o /\ HoldsObj(t)})
                      + CountOf({t \in Threads : tobj[t] = o /\ HoldsLookup(t)})
    /\ \A f \in AnonFiles :
         fRefs[f] = CountOf({s \in VmaSlots : vmas[s] # NULL /\ vmas[s].file = f})
                    + CountOf({t \in Threads : tfile[t] = f})
    /\ devRefs = CountOf({f \in AnonFiles : fState[f] = "open"})
                 - CountOf({t \in Threads : pc[t] = "store"})
                 + CountOf({s \in VmaSlots : vmas[s] # NULL /\ vmas[s].obj = NULL})
    /\ rc6 = CountOf({s \in VmaSlots : vmas[s] # NULL /\ vmas[s].obj # NULL})

(* i915_gem_mmap_ioctl maps an object from any args->offset its range     *)
(* check admits: an in-range offset never ends in EINVAL.                  *)
LegacyMmapHonoursOffset ==
    \A t \in Threads : pc[t] = "done" /\ tlegacy[t] = "inside" => ret[t] # "EINVAL"

=============================================================================
