----------------------------- MODULE MmapOffset -----------------------------
(***************************************************************************)
(* The mmap-offset registry of i915_gem_mman.c: i915_gem_mmap_offset_attach *)
(* with lookup_mmo, insert_mmo and vma_node_allow_once, reached through     *)
(* __assign_mmap_offset from the MMAP_OFFSET / dumb / legacy mmap ioctls.   *)
(*                                                                         *)
(* Each drm_file is a thread that asks for the offset of (object, type).   *)
(* The per-object registry (obj->mmo.offsets, under obj->mmo.lock) and the *)
(* device-wide offset manager (dev->vma_offset_manager, its own lock) are  *)
(* separate, so two threads may both miss in lookup_mmo, both allocate an *)
(* offset node, and race in insert_mmo, where the loser must give its node *)
(* back and adopt the winner's mmo.                                        *)
(*                                                                         *)
(* An offset node is identified by the thread, object and type that        *)
(* allocated it; it stands for the fake offset drm_vma_node_offset_addr    *)
(* returns.  Node sizes are the object's page count.                       *)
(***************************************************************************)
EXTENDS Naturals, FiniteSets, FiniteSetsExt

CONSTANTS
    Files,       \* drm_files issuing the ioctls (one request in flight each)
    Objects,     \* GEM objects
    Types,       \* enum i915_mmap_type values that may be requested
    ObjPages,    \* [Objects -> Nat \ {0}]: obj->base.size / PAGE_SIZE
    AddrSpace,   \* pages of fake-offset space the offset manager owns
    Unsupported, \* (object, type) pairs __assign_mmap_offset refuses (ENODEV)
    NULL

ASSUME ObjPages \in [Objects -> Nat \ {0}]
ASSUME AddrSpace \in Nat
ASSUME Unsupported \subseteq Objects \X Types

VARIABLES
    objState,  \* "live" (has a handle), "dead" (on the freed list), "gone"
    mmos,      \* the registries: a set of [obj, type, node] records
    vmaNodes,  \* nodes allocated in the offset manager
    allowed,   \* <<node, file>> pairs: the node's vm_files allow-list
    pc,        \* per file: where its request stands
    req,       \* per file: the [obj, type] it asked for
    own,       \* per file: the node of the mmo it kmalloc'ed, or NULL
    got,       \* per file: node of the mmo attach settled on, or NULL
    ret        \* per file: result of the request

vars == <<objState, mmos, vmaNodes, allowed, pc, req, own, got, ret>>

NodeIds == Files \X Objects \X Types
NodeObj(n) == n[2]
Results == {"none", "ok", "ENODEV", "ENOMEM", "ENOSPC"}
PCs == {"idle", "lookup", "add", "reap", "retry", "insert", "allow", "done"}

(* pages of offset space in use *)
UsedPages == MapThenSumSet(LAMBDA n : ObjPages[NodeObj(n)], vmaNodes)

(* drm_vma_offset_add: succeeds when the node's pages still fit *)
HasRoom(n) == UsedPages + ObjPages[NodeObj(n)] <= AddrSpace

(* the registered mmo of (o, ty), as a set of zero or one records *)
Registered(o, ty) == {m \in mmos : m.obj = o /\ m.type = ty}

(* a file between i915_gem_object_lookup and i915_gem_object_put *)
InFlight(f) == pc[f] # "idle"

TypeOK ==
    /\ objState \in [Objects -> {"live", "dead", "gone"}]
    /\ mmos \subseteq [obj : Objects, type : Types, node : NodeIds]
    /\ vmaNodes \subseteq NodeIds
    /\ allowed \subseteq NodeIds \X Files
    /\ pc \in [Files -> PCs]
    /\ req \in [Files -> [obj : Objects, type : Types]]
    /\ own \in [Files -> NodeIds \cup {NULL}]
    /\ got \in [Files -> NodeIds \cup {NULL}]
    /\ ret \in [Files -> Results]

Init ==
    /\ objState = [o \in Objects |-> "live"]
    /\ mmos = {}
    /\ vmaNodes = {}
    /\ allowed = {}
    /\ pc = [f \in Files |-> "idle"]
    /\ req \in [Files -> [obj : Objects, type : Types]]
    /\ own = [f \in Files |-> NULL]
    /\ got = [f \in Files |-> NULL]
    /\ ret = [f \in Files |-> "none"]

Goto(f, to) == pc' = [pc EXCEPT ![f] = to]

Finish(f, r) ==
    /\ Goto(f, "done")
    /\ ret' = [ret EXCEPT ![f] = r]

(* __assign_mmap_offset_handle: i915_gem_object_lookup takes a reference  *)
(* on a live object; __assign_mmap_offset refuses never-mmap objects and  *)
(* types the backing store cannot serve before anything is allocated.     *)
Request(f, o, ty) ==
    /\ pc[f] = "idle"
    /\ objState[o] = "live"
    /\ req' = [req EXCEPT ![f] = [obj |-> o, type |-> ty]]
    /\ IF <<o, ty>> \in Unsupported
         THEN Finish(f, "ENODEV")
         ELSE /\ Goto(f, "lookup")
              /\ UNCHANGED ret
    /\ UNCHANGED <<objState, mmos, vmaNodes, allowed, own, got>>

(* lookup_mmo under obj->mmo.lock; on a miss, kmalloc a fresh mmo, which  *)
(* may fail with ENOMEM.                                                   *)
Lookup(f) ==
    LET o == req[f].obj
        ty == req[f].type
        hit == Registered(o, ty)
    IN
    /\ pc[f] = "lookup"
    /\ IF hit # {}
         THEN /\ got' = [got EXCEPT ![f] = (CHOOSE m \in hit : TRUE).node]
              /\ Goto(f, "allow")
              /\ UNCHANGED <<own, ret>>
         ELSE \/ /\ own' = [own EXCEPT ![f] = <<f, o, ty>>]
                 /\ Goto(f, "add")
                 /\ UNCHANGED <<got, ret>>
              \/ /\ Finish(f, "ENOMEM")
                 /\ UNCHANGED <<own, got>>
    /\ UNCHANGED <<objState, mmos, vmaNodes, allowed, req>>

(* first drm_vma_offset_add; on failure try to reap space *)
AddOffset(f) ==
    /\ pc[f] = "add"
    /\ IF HasRoom(own[f])
         THEN /\ vmaNodes' = vmaNodes \cup {own[f]}
              /\ Goto(f, "insert")
         ELSE /\ Goto(f, "reap")
              /\ UNCHANGED vmaNodes
    /\ UNCHANGED <<objState, mmos, allowed, req, own, got, ret>>

(* Mutant: a teardown that frees the offset nodes but leaves the mmos     *)
(* linked in the dead object's registry.                                   *)
FreeDeadKeepMmos(dead) ==
    LET nodes == {m.node : m \in {k \in mmos : k.obj \in dead}} IN
    /\ objState' = [o \in Objects |-> IF o \in dead THEN "gone" ELSE objState[o]]
    /\ vmaNodes' = vmaNodes \ nodes
    /\ allowed' = {a \in allowed : a[1] \notin nodes}
    /\ UNCHANGED mmos

(* The freed-object teardown (i915_gem_free_object): every mmo of a dead  *)
(* object leaves its registry and its node leaves the offset manager.     *)
FreeDead(dead) ==
    LET gone == {m \in mmos : m.obj \in dead}
        nodes == {m.node : m \in gone}
    IN
    /\ objState' = [o \in Objects |-> IF o \in dead THEN "gone" ELSE objState[o]]
    /\ mmos' = mmos \ gone
    /\ vmaNodes' = vmaNodes \ nodes
    /\ allowed' = {a \in allowed : a[1] \notin nodes}

DeadObjects == {o \in Objects : objState[o] = "dead"}

(* intel_gt_retire_requests on every gt and i915_gem_drain_freed_objects: *)
(* the drain returns once the freed list is empty.                         *)
Reap(f) ==
    /\ pc[f] = "reap"
    /\ FreeDead(DeadObjects)
    /\ Goto(f, "retry")
    /\ UNCHANGED <<req, own, got, ret>>

(* second drm_vma_offset_add; on failure kfree the mmo, return ENOSPC *)
RetryOffset(f) ==
    /\ pc[f] = "retry"
    /\ IF HasRoom(own[f])
         THEN /\ vmaNodes' = vmaNodes \cup {own[f]}
              /\ Goto(f, "insert")
              /\ UNCHANGED <<own, ret>>
         ELSE /\ Finish(f, "ENOSPC")
              /\ own' = [own EXCEPT ![f] = NULL]
              /\ UNCHANGED vmaNodes
    /\ UNCHANGED <<objState, mmos, allowed, req, got>>

(* Mutants of insert_mmo: linking without looking for an mmo of the same  *)
(* type; losing the race and keeping the node; losing the race and        *)
(* returning the node just given back.                                     *)
InsertMmoUnchecked(f) ==
    /\ pc[f] = "insert"
    /\ mmos' = mmos \cup {[obj |-> req[f].obj, type |-> req[f].type, node |-> own[f]]}
    /\ got' = [got EXCEPT ![f] = own[f]]
    /\ own' = [own EXCEPT ![f] = NULL]
    /\ Goto(f, "allow")
    /\ UNCHANGED <<objState, vmaNodes, allowed, req, ret>>

InsertMmoKeepNode(f) ==
    LET pos == Registered(req[f].obj, req[f].type) IN
    /\ pc[f] = "insert"
    /\ IF pos # {}
         THEN /\ got' = [got EXCEPT ![f] = (CHOOSE m \in pos : TRUE).node]
              /\ UNCHANGED mmos
         ELSE /\ mmos' = mmos \cup {[obj |-> req[f].obj, type |-> req[f].type, node |-> own[f]]}
              /\ got' = [got EXCEPT ![f] = own[f]]
    /\ own' = [own EXCEPT ![f] = NULL]
    /\ Goto(f, "allow")
    /\ UNCHANGED <<objState, vmaNodes, allowed, req, ret>>

InsertMmoOwnOffset(f) ==
    LET pos == Registered(req[f].obj, req[f].type) IN
    /\ pc[f] = "insert"
    /\ IF pos # {}
         THEN /\ vmaNodes' = vmaNodes \ {own[f]}
              /\ UNCHANGED mmos
         ELSE /\ mmos' = mmos \cup {[obj |-> req[f].obj, type |-> req[f].type, node |-> own[f]]}
              /\ UNCHANGED vmaNodes
    /\ got' = [got EXCEPT ![f] = own[f]]
    /\ own' = [own EXCEPT ![f] = NULL]
    /\ Goto(f, "allow")
    /\ UNCHANGED <<objState, allowed, req, ret>>

(* Mutant: insert_mmo links a fresh mmo but does not return it, so the   *)
(* caller goes on with a NULL mmo.                                         *)
InsertMmoNoReturn(f) ==
    LET pos == Registered(req[f].obj, req[f].type) IN
    /\ pc[f] = "insert"
    /\ IF pos # {}
         THEN /\ vmaNodes' = vmaNodes \ {own[f]}
              /\ got' = [got EXCEPT ![f] = (CHOOSE m \in pos : TRUE).node]
              /\ UNCHANGED mmos
         ELSE /\ mmos' = mmos \cup {[obj |-> req[f].obj, type |-> req[f].type, node |-> own[f]]}
              /\ got' = [got EXCEPT ![f] = NULL]
              /\ UNCHANGED vmaNodes
    /\ own' = [own EXCEPT ![f] = NULL]
    /\ Goto(f, "allow")
    /\ UNCHANGED <<objState, allowed, req, ret>>

(* insert_mmo under obj->mmo.lock: if an mmo of this type is already in   *)
(* the tree, drop our node from the offset manager, free our mmo and use  *)
(* the one found; else link ours into the tree.                            *)
InsertMmo(f) ==
    LET o == req[f].obj
        ty == req[f].type
        pos == Registered(o, ty)
    IN
    /\ pc[f] = "insert"
    /\ IF pos # {}
         THEN /\ vmaNodes' = vmaNodes \ {own[f]}
              /\ got' = [got EXCEPT ![f] = (CHOOSE m \in pos : TRUE).node]
              /\ UNCHANGED mmos
         ELSE /\ mmos' = mmos \cup {[obj |-> o, type |-> ty, node |-> own[f]]}
              /\ got' = [got EXCEPT ![f] = own[f]]
              /\ UNCHANGED vmaNodes
    /\ own' = [own EXCEPT ![f] = NULL]
    /\ Goto(f, "allow")
    /\ UNCHANGED <<objState, allowed, req, ret>>

(* vma_node_allow_once: kmalloc first; an existing entry for the file is  *)
(* success whatever the kmalloc did; otherwise a failed kmalloc is ENOMEM *)
(* and leaves the mmo registered but the file not allowed.                 *)
AllowOnce(f) ==
    LET entry == <<got[f], f>> IN
    /\ pc[f] = "allow"
    /\ \/ /\ entry \in allowed
          /\ Finish(f, "ok")
          /\ UNCHANGED allowed
       \/ /\ entry \notin allowed
          /\ allowed' = allowed \cup {entry}
          /\ Finish(f, "ok")
       \/ /\ entry \notin allowed
          /\ Finish(f, "ENOMEM")
          /\ UNCHANGED allowed
    /\ UNCHANGED <<objState, mmos, vmaNodes, req, own, got>>

(* the ioctl returns and drops its object reference *)
Return(f) ==
    /\ pc[f] = "done"
    /\ Goto(f, "idle")
    /\ got' = [got EXCEPT ![f] = NULL]
    /\ ret' = [ret EXCEPT ![f] = "none"]
    /\ UNCHANGED <<objState, mmos, vmaNodes, allowed, req, own>>

(* The last handle of an object is closed while no ioctl holds a          *)
(* reference: the object goes on the freed list with its offsets intact.   *)
CloseObject(o) ==
    /\ objState[o] = "live"
    /\ \A f \in Files : InFlight(f) => req[f].obj # o
    /\ objState' = [objState EXCEPT ![o] = "dead"]
    /\ UNCHANGED <<mmos, vmaNodes, allowed, pc, req, own, got, ret>>

(* the free worker drains the freed list in the background *)
FreeWorker ==
    /\ DeadObjects # {}
    /\ FreeDead(DeadObjects)
    /\ UNCHANGED <<pc, req, own, got, ret>>

(* a new object is created under a recycled identity, with no offsets *)
CreateObject(o) ==
    /\ objState[o] = "gone"
    /\ objState' = [objState EXCEPT ![o] = "live"]
    /\ UNCHANGED <<mmos, vmaNodes, allowed, pc, req, own, got, ret>>

Next ==
    \/ \E f \in Files, o \in Objects, ty \in Types : Request(f, o, ty)
    \/ \E f \in Files :
         \/ Lookup(f) \/ AddOffset(f) \/ Reap(f) \/ RetryOffset(f)
         \/ InsertMmo(f) \/ AllowOnce(f) \/ Return(f)
    \/ \E o \in Objects : CloseObject(o) \/ CreateObject(o)
    \/ FreeWorker

Spec == Init /\ [][Next]_vars

-----------------------------------------------------------------------------
(* Properties                                                              *)

(* At most one mmo per (object, type) is ever linked into a registry, even *)
(* when two files miss in lookup_mmo and race into insert_mmo.             *)
UniqueMmo ==
    \A o \in Objects, ty \in Types : Cardinality(Registered(o, ty)) <= 1

(* Every node the offset manager holds belongs to a registered mmo or to  *)
(* the mmo a file is still holding before insert_mmo; every registered    *)
(* mmo's node is in the offset manager.  A loser of the insert race that  *)
(* kept its node, or a teardown that kept a dead object's node, leaks the  *)
(* fake-offset space for the life of the device.                          *)
NodesAccounted ==
    /\ \A n \in vmaNodes :
         \/ \E m \in mmos : m.node = n
         \/ \E f \in Files : own[f] = n
    /\ \A m \in mmos : m.node \in vmaNodes

(* A file whose request succeeded got the offset of the one registered    *)
(* mmo of its (object, type), and is on that mmo's allow-list, so that     *)
(* i915_gem_mmap will let it map the offset: concurrent creators observe   *)
(* the same offset.                                                       *)
AgreedOffset ==
    \A f \in Files :
        (pc[f] = "done" /\ ret[f] = "ok") =>
            \E m \in Registered(req[f].obj, req[f].type) :
                /\ m.node = got[f]
                /\ <<got[f], f>> \in allowed

(* The registry implements MmapOffsetAbstract: the offset of (o, ty) is   *)
(* the node of its registered mmo, and the closed objects are the dead    *)
(* ones.  Every interleaving of lookup, allocation, insert race, reaping   *)
(* and freeing looks like atomic get-or-create steps and whole-object     *)
(* frees.                                                                 *)
OffsetOf(p) ==
    IF Registered(p[1], p[2]) = {} THEN NULL
    ELSE (CHOOSE m \in Registered(p[1], p[2]) : TRUE).node

Abstract == INSTANCE MmapOffsetAbstract WITH
    Offsets <- NodeIds,
    offset <- [p \in Objects \X Types |-> OffsetOf(p)],
    closed <- DeadObjects

ImplementsAbstract == Abstract!Spec

=============================================================================
