---------------------------- MODULE MCMmapSetup ----------------------------
(* Model values for MmapSetup.  MCMmapSetup.cfg: two clients making two   *)
(* calls each on one read-only object, two vma slots and two anonymous    *)
(* files, under the fair specification, so that two clients race          *)
(* mmap_singleton, a fork copies a mapping and an mmap meets an object    *)
(* whose handles are all closed.  MCMmapSetupLegacy.cfg: one client and   *)
(* one writable object through i915_gem_mmap_ioctl.                       *)
EXTENDS MmapSetup

CONSTANTS t1, t2, o1, o2, a1, a2, v1, v2, v3

=============================================================================
