# TLA+ models of the i915 GEM mmap code

This directory holds TLA+ models of `src/drivers/gpu/drm/i915/gem/i915_gem_mman.c`, checked with TLC. That file is the code that gives user space CPU and aperture (GTT) mappings of GEM buffer objects. The models cover its concurrency, its bookkeeping and its address arithmetic. Each module is translated from the C source. Where the code called lives outside this file, the module follows `spec.md` instead, and `PROJECT.json` marks those definitions `spec_modelled`.

## The system

`i915_gem_mman.c` has five interacting parts.

1. **Mmap offset registry** (`__assign_mmap_offset`, `i915_gem_mmap_offset_attach`, `lookup_mmo`, `insert_mmo`, `vma_node_allow_once`, lines 29-62 and 750-925).
   - An ioctl asks for the fake offset of an (object, mmap type) pair.
   - Each object keeps one `i915_mmap_offset` (mmo) per type, in an rbtree under `obj->mmo.lock`.
   - Offsets are carved from the device-wide `vma_offset_manager`, which has its own lock. When that space is full, the code retires requests, drains freed objects and tries once more.
   - Because the two locks are separate, two files can both miss in `lookup_mmo`, both allocate a node and then race in `insert_mmo`.
2. **GTT fault** (`vm_fault_gtt`, lines 417-558).
   - The fault takes a runtime-PM wakeref, then the object lock inside a wound-wait (ww) transaction, checks read-only, pins pages and takes the reset lock.
   - It then pins a vma into the mappable aperture. It tries three times: the whole object without eviction, then a partial view without search, then a partial view with eviction.
   - Then it checks cache coherency, takes a fence register (possibly stealing one from another vma and revoking that vma's user mapping), remaps the aperture range into the user area, and marks the vma USERFAULT under `ggtt->vm.mutex`. A marked vma is counted in `obj->userfault_count` and the object is put on `ggtt->userfault_list`.
   - Errors unwind in reverse order. EDEADLK backs off (`i915_gem_ww_ctx_backoff`) and restarts.
   - `i915_error_to_vmf_fault` (lines 218-247) turns the final errno into SIGBUS, OOM or NOPAGE (the mm retries the access). An errno the switch does not list WARNs and becomes SIGBUS.
3. **CPU fault** (`vm_fault_cpu`, lines 303-415).
   - The fault counts itself in `active_fault_handlers`, then returns SIGBUS if `invalidate_lmem_mmaps` is set.
   - For a segmented object it computes the window of one segment.
   - It then loops inside a ww transaction. Each pass takes the lock and picks the backing through `use_swapto`/`create_swapto` (lines 248-301). It may migrate to system memory, pins the pages, fills the PTEs with `remap_io_sg` and unpins. The loop runs again on EDEADLK, ENXIO and ENOMEM.
4. **Revocation.**
   - `i915_gem_object_release_mmap_gtt` unmaps every vma flagged USERFAULT.
   - `i915_gem_object_release_mmap_offset` unmaps an object's CPU mmaps, and is called when its pages go.
   - Outside this file: eviction and fence stealing call `i915_vma_revoke_mmap`, and runtime suspend walks `userfault_list`.
5. **Setup.** `i915_gem_mmap`, `vm_open`/`vm_close`, the anonymous-inode singleton, `vm_access` and the PCI barrier mmap.

How the parts interact:
- A fault reads the mmo that the registry created.
- The GTT fault and revocation share the USERFAULT flag, `userfault_count` and `userfault_list`.
- The CPU fault and revocation share the object's pages and its PTEs.
- The CPU fault and the lmem invalidation share the flag and the counter.
- `vm_access` shares the object lock and pages with the CPU fault. It skips the invalidation's flag and counter, and it always uses the object's own pages, never `obj->swapto`.

## Modules

| Module | Models | State | Actions |
|---|---|---|---|
| `MmapOffset` | the registry | `mmos` (registered mmos), `vmaNodes` (nodes in the offset manager), `allowed` (node, file) pairs, object life states, and per file `pc`, `req`, `own` (node allocated), `got` (node returned), `ret` | `Request` (`__assign_mmap_offset`), `Lookup`, `AddOffset`, `Reap`, `RetryOffset`, `InsertMmo`, `AllowOnce`, `Return`; object `CloseObject`/`FreeWorker`/`CreateObject` from the spec |
| `MmapOffsetAbstract` | what the registry promises | `offset[(o, ty)]` and `closed` | atomic `GetOrCreate`, `Close`, `Free` |
| `GttFault` | `vm_fault_gtt` with eviction, fence stealing, `release_mmap_gtt` and runtime suspend | `objLock`, `bound`, `vmaPin`, `fenced`, `fencePin`, `userfault`, `ptes`, `count` (`userfault_count`), `onList`, `suspended`, and per thread `pc`, `fobj`, `fwrite`, `fvma`, `held`, `contended`, `faults`, `ret`, and `pinErr` (a history variable: `pin_pages_sync` failed in this fault) | one action per stretch of `vm_fault_gtt` between two points where another thread can act: `Fault`, `Lock`, `PinPages` (failing with any errno of `PinErrors`: purged EFAULT, EIO, ENXIO, E2BIG, ENOMEM), `ResetLock`, `Bind`, `CacheCheck`, `PinFence`, `Remap`, `MarkUserfault`, `Unwind` (the `err_*` labels), `Backoff`, `Return`; plus `Evict`, `ReleaseMmapGtt`, `RuntimeSuspend`, and `OtherPin`/`OtherUnpin` for aperture slots (`extSlots`) pinned by other users. `ErrorToVmfFault` is the errno table of `i915_error_to_vmf_fault` |
| `FaultWindow` | the page arithmetic of both faults | one input: object size, segment cuts, tile row, area offset and length, fault page, whether the whole-object pin succeeded | `ComputePartialView`, `GttView`, `GttRemapped`, `CpuWindow`, `CpuRemapped` as operators |
| `MmapSetup` | `i915_gem_mmap`, `i915_gem_update_vma_info` with `mmap_singleton`, `vm_open`/`vm_close`, `singleton_release`, the PCI barrier mmap, and the three ioctls that hand out offsets | object `objRefs`/`objState`, `handles`, offset `nodes` and `allowed`, `singleton`, anonymous files `fState`/`fRefs`, `devRefs` (drm_dev references held by this file), `rc6` (disallow count), `unplugged`, `vmas` (slots with object, file and the READ/WRITE/MAYREAD/MAYWRITE flags), and per client `pc`, `tobj`, `tlegacy`, `twrite`, `tfile`, `tslot`, `calls`, `ret` | `OffsetIoctl`, `DumbMmapOffset`, `LegacyMmapIoctl`, `Mmap` (the lookup), `UpdateVmaInfo`, `CreateSingleton`, `StoreSingleton`, `InstallVma`, `Return`, `BarrierMmap`; the environment's `VmOpen` (fork), `VmClose` (munmap), `Mprotect`, `SingletonRelease` (last `fput`), `CloseHandle`, `FreeWorker`, `Unplug` |
| `MmoTree` | the per-object rbtree of mmos: `insert_mmo`, `lookup_mmo` and the postorder walk of `release_mmap_offset` | `root`, `left`, `right`, `parent`, `red` (the tree, nodes named by mmap type), `present`, and for the walk `rpc`, `pos`, `nxt` (the saved next entry), `unmapped`, `started` | `InsertMmo` (descent, `rb_link_node`, `rb_insert_color`), `ReleaseStart`, `ReleaseTest` (the loop test with the lock held, `continue` on GTT), `ReleaseUnmap` (unmap with the lock dropped, relock, `pos = n`); `lib/rbtree.c` insertion and postorder iteration as operators |
| `CpuFault` | `vm_fault_cpu` and `vm_access` with `use_swapto`, page release, other pinners and the lmem invalidation | `invalidate`, `active`, `inv` (the invalidator), `pages`, `pin`, `otherPins`, `ptes` (pairs of mmap object and backing object), `swapto`, `willneed`, `created`, `objLock`, and per thread `pc`, `fobj`, `fwrite`, `pg`, `err`, `faults`; `failing` (the environment may still fail a pass) | `Fault`, `CheckFlag`, `Lock` (the acquire), `LockInterrupted` (a signal ends the wait with EINTR), `UseSwapto`, `Migrate`, `PinPages`, `Remap`, `Unpin`, `Fini` (the end of a `for_i915_gem_ww` pass and the do-while test), `Out`; `vm_access` as `Access`, `AccessLock`, `AccessLockInterrupted`, `AccessPinMap`, `AccessCopy`, `AccessFini` on the same threads; plus `PutPages`, `OtherPin`/`OtherUnpin`, `SwapDontneed`, `InvalidateStart`/`InvalidateRevoke`/`InvalidateEnd`, and `Recover`, which ends the failures |

`MmapOffset` instantiates `MmapOffsetAbstract` with a refinement mapping:
- the offset of (o, ty) is the node of its registered mmo;
- the closed objects are the dead ones.

The abstract `Spec` is checked as a property.

Data is abstracted as follows:
- Offsets are node identities (file, object, type).
- Aperture space is counted in slots.
- A vma is an (object, view) pair.
- Pages are counted per object, except in `FaultWindow`, which counts them one by one.
- Calls outside this file are nondeterministic choices over their outcomes: allocation, pinning, migration and `should_migrate_smem`.

## Runs

| Run | Config | Expect | Checks |
|---|---|---|---|
| `mmap_offset` | `MCMmapOffset.cfg` | pass | `UniqueMmo`, `NodesAccounted`, `AgreedOffset`, `ImplementsAbstract`: two files race get-or-create on two objects and two types in a 3-page offset space, with reaping and frees |
| `gtt_fault` | `MCGttFault.cfg` | pass | under `FairSpec`: `UserfaultAccounting` (count = flagged vmas, listed iff count > 0), `NoStalePte` (a user PTE is on a bound vma, fenced if tiled, device awake) `FaultResultJustified` (a fault ends only with an errno the switch lists, and it is SIGBUS only for a cause in the object: a write to a read-only object, an incoherent object, or a failure `pin_pages_sync` reports; a full aperture, every fence pinned, a signal or a backoff never becomes SIGBUS) and `FaultReturns` (every fault returns, EDEADLK backoffs included) |
| `fault_window` | `MCFaultWindow.cfg` | pass | `PartialViewSelection` (spec §8) and `CpuFaultWindow` over every object of up to 5 pages |
| `gtt_remap_short_area` | `MCFaultWindowShort.cfg` | violation | `GttRemapWithinArea` |
| `gtt_remap_pgoff` | `MCFaultWindowPgoff.cfg` | violation | `GttRemapPageMatches` |
| `cpu_fault` | `MCCpuFault.cfg` | pass | under `FairSpec`, with faults and `vm_access` calls: `NoPteWhileInvalidated` (no PTE between the invalidation's release and the flag's clearing), `ObjectPtesBacked` (a PTE on the object's own pages shows present pages) `InvalidationCompletes` (an invalidation waiting on `active_fault_handlers` gets to release the mmaps) and `CpuFaultReturns` (every fault and access returns, however many passes fail before the environment recovers) |
| `cpu_access` | `MCCpuFaultAccess.cfg` | violation | `AccessSeesMapping` |
| `cpu_swap_tracked` | `MCCpuFaultSwapTracked.cfg` | violation | `SwaptoTracked` |
| `cpu_swap_backed` | `MCCpuFaultSwapBacked.cfg` | violation | `PtesBacked` with swap objects |
| `mmap_setup` | `MCMmapSetup.cfg` | pass | `ObjectsOutliveMappings` (no mapping or in-flight mmap holds a dying or freed object), `SingletonValid` (the singleton is an open file), `SealedMappings` (a read-only object is never writable nor may become so), `ReferencesBalanced` (object, file, device and rc6 counts equal what holds them) |
| `mmo_tree` | `MCMmoTree.cfg` | pass | `LookupFindsInserted` (the descents of `insert_mmo` and `lookup_mmo` agree through every rebalance) and `ReleaseUnmapsAll` (the walk unmaps every non-GTT mmo present when it began, whatever `insert_mmo` did while the lock was dropped) |
| `legacy_mmap_offset` | `MCMmapSetupLegacy.cfg` | violation | `LegacyMmapHonoursOffset` |

Every property of a passing run has a mutant in `PROJECT.json`. A mutant is an operator defined next to the definition it replaces, modelling a plausible bug: a dropped check, a missing decrement, a race loser that keeps its node, a chunk not rounded to tile rows, and so on. TLC finds each property violated under its mutant.

### What the violations show

- **GTT remap past `vm_end`** (line 516). `remap_io_mapping` starts at `vm_start + partial.offset` and maps `min(vma->size, area size)`. Take a 4-page object mapped by a 3-page area, with a fault on page 2: the partial view is pages 2-3, and page 3 lands beyond `vm_end`. Upstream fixed this as CVE-2024-42259.
- **GTT fault ignores `vm_pgoff`** (line 437). `page_offset` is taken from `vm_start`, and the normal view is mapped from object page 0. An area that starts inside the object therefore shows the wrong pages. Such an area arises when a partial `munmap` of the first pages splits the vma; an `mmap` at the fake offset plus a page is refused by the exact lookup (line 1245). `vm_fault_cpu` does use the offset (line 310).
- **`GEM_BUG_ON(obj->swapto)` is reachable** (line 282). Once the swap object is no longer WILLNEED, `use_swapto` calls `create_swapto`. That function overwrites `obj->swapto` in a non-debug build, and the old swap object is left with no reference from its object.
- **PTEs on a swap object's pages are not revoked.** The comment at line 401 says `put_pages` revokes the PTEs. `release_mmap_offset` only walks the mmos of the object being released, and a swap object has none, so the parent's PTEs survive. This rests on the assumption, outside this file, that `put_pages` revokes by calling `release_mmap_offset` on its own object.

- **`vm_access` ignores the swap object** (line 598). This, like the two swap findings above, needs the config options `CPTCFG_DRM_I915_CHICKEN_MMAP_SWAP` (line 293) and `CPTCFG_DRM_I915_CHICKEN_MMAP_SWAP_CREATE` (line 254) enabled; the model assumes both, and with either off `use_swapto` maps the object itself. `vm_access` always pins and copies through `obj`'s own pages. Once `use_swapto` has made the swap object the fault target, the process sees the swap object, while a debugger (`access_process_vm`, e.g. ptrace) reads freshly populated local-memory pages. A debugger write changes memory that the process never reads. The trace is 13 steps: one thread faults and maps `s1` into `o1`'s mmap, and the other thread's `vm_access` then pins `o1`.
- **Legacy mmap ignores the exact lookup** (line 116). `i915_gem_mmap_ioctl` accepts any `args->offset` that `range_overflows` admits and calls `vm_mmap` at `offset + args->offset`. `i915_gem_mmap` then uses `drm_vma_offset_exact_lookup_locked` (line 1245), which matches a node only at its first page. A nonzero in-range offset therefore always fails with EINVAL.

### The walk that drops its lock

`release_mmap_offset` saves the next postorder entry and then drops `obj->mmo.lock` for every non-GTT mmo. A concurrent `insert_mmo` can rotate the saved node above nodes the walk has not reached, and the resumed walk never visits them. `mmo_tree` checks every insert order for the four types of this file (GTT, WC, WB, UC), which is the real bound. With them, no mmo is missed. Widening `MmapTypes` shows the margin: five types still pass, but six or more fail. In the failing trace, with the tree 2(1, 3(-, 4)), the walk saves 4 after unmapping 1. Inserting 5 rotates 3 under 4, and the walk goes from 4 to 2, so 3 is never unmapped. The safety of this loop rests on the small number of mmap types.

## Bounds and why they are enough

- **Registry:** 2 files, 2 objects of 2 and 1 pages, 2 types (one unsupported for an object), and 3 pages of offset space. Two allocations fill the space, so both the reap path and ENOSPC happen. Both files can race on one (object, type).
- **GTT:** 2 threads and 2 objects, each needing 2 of 3 aperture slots. A second full view forces a partial view or an eviction, and an eviction blocked by the other thread's lock gives EDEADLK. Other users may pin one slot (`OtherSlots = 1`). With that slot and one thread's full view pinned, the other thread has nothing to evict, and both of its pins fail with ENOSPC. The `GEM_BUG_ON` at line 494 calls that unexpected, but the state is reachable whenever the aperture is shared; the properties check that a production build unwinds it cleanly and retries. With one fence and a tiled object, its two views steal the fence from each other. `MaxFaults = 2` per thread lets a thread re-fault after revocation. When every thread has taken its faults, the model stops in `Terminated`, a stuttering step, so deadlock checking stays on.
- **Window:** objects of up to 5 pages, a chunk of 2 (standing for `MIN_CHUNK_PAGES`), and tile rows of 1, 2 and 3 pages. These cover a single chunk, several chunks with a short tail, and a chunk rounded up to tile rows. All segmentations are checked.
- **CPU:** 2 threads on one object with one possible swap object. Each thread makes one fault or `vm_access` call (`MaxFaults` is per thread; the swap violation runs give each thread two). The number of failed passes is not bounded: while `failing` holds, every pass may fail at migration, page pinning or remap, so a fault can run its loop any number of times while the other thread, the shrinker and the invalidator act. With liveness this takes about two and a half minutes. Two operations for one thread take over nine.

- **Setup:** 2 clients, each making 2 calls, on one read-only WB object, with 2 anonymous files and 2 vma slots. Two calls let a client get an offset and then mmap it, and let both clients race `mmap_singleton` or map after the other's file was released. The second slot lets a fork copy a mapping. The read-only object exercises both the EINVAL path and the sealed `VM_MAYWRITE`. It reaches 278,824 states in about 20 s; a third slot takes minutes. The legacy run needs only one client, one writable object and one slot.

- **Tree:** the four mmap types, all inserted in every order, with the walk starting at any point. This is exhaustive for the file, since an object has at most one mmo per type.

## Fairness

- **GTT and CPU faults, and `vm_access`:** every fault and access step is weakly fair. Each runs on its thread until it returns; nothing in `vm_fault_*` or `vm_access` waits forever except on locks.
- **Object locks:** the acquires `Lock`, `AccessLock` (and GTT's `Backoff`) are strongly fair. The dma-resv ww-mutex is a sleeping lock that wakes its waiters as it is released. Each is enabled only while the lock is free, so the fairness says nothing about a lock that is never released: a waiter then waits forever and the liveness properties fail. The EINTR exits `LockInterrupted` and `AccessLockInterrupted` are signals from outside and have no fairness; a blocked waiter is never forced out.
- **The invalidator's revoke:** weakly fair, because `wake_up_var` on the last decrement wakes it.
- **Failures of the CPU retry loop (the fault model):** `Recover` is weakly fair. ENOMEM, ENXIO and EDEADLK are assumed transient, so the environment eventually stops failing passes. `vm_fault_cpu` relies on this: its do-while (line 407) has no bound, and a failure that never ends spins the fault. The model shows the rest: once failures stop, every path leaves the loop. A signal, for instance, is not retried.
- **Setup:** `mmap_setup` checks only invariants, under `Spec` without fairness. Once everything is unmapped and closed, `ReferencesBalanced` already makes every count zero; that the free worker and the deferred fput then run would come only from assumed fairness, so no liveness property is stated.
- **Everything else** (eviction, suspend, release, page release, other pinners) has no fairness; nothing obliges them to act.

## Not modelled

- In `vm_access`, the address arithmetic and the segment lookup (an input choice of in or out of range), and the EDEADLK backoff, which a ww context holding a single lock never takes.
- The `obj->ops->mmap_ops` branch of `i915_gem_update_vma_info` (TTM objects). Its vm_ops live outside this file. Whether their close re-allows rc6 is listed as a hazard with no property.
- `i915_user_extensions` in the offset ioctl, and the sizes of areas, which are abstracted to whether the area starts at a node's first page.
- The segment branch of `release_mmap_offset` (it only changes the range unmapped), and removal from the mmo tree, which happens only when the object is freed.
- Persistent ENOMEM in the CPU retry loop. Nothing in the code ends it; the fairness of `Recover` assumes it away.

## Plan for later work

1. Compose `MmapSetup` with `MmapOffset`, so that the attach race feeds the mmap lookup.
2. Compose `MmapOffset` with the faults, so that freeing an object revokes its mmaps.
3. Add the segment path to `CpuFault`, releasing the segment mmaps with `vma_offset`.
4. Decide what `invalidate_lmem_mmaps` protects (its setter is outside this file). If it must also keep debugger accesses off local memory, state that as a property of `vm_access`.
