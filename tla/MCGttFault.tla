----------------------------- MODULE MCGttFault -----------------------------
(* Two threads, two objects whose full views take two slots each of a   *)
(* three-slot aperture, so the second full view forces the partial view  *)
(* or an eviction, and an eviction blocked by the other thread's object   *)
(* lock backs off with EDEADLK.  o2 is tiled and read-only; one fence     *)
(* register makes its full and partial views steal the fence from each    *)
(* other.  Each thread takes MaxFaults faults.  Another user pinning one   *)
(* slot while a thread has a full view pinned leaves the other thread     *)
(* nothing to evict: ENOSPC.                                               *)
EXTENDS GttFault

CONSTANTS t1, t2, o1, o2

MCObjSlots == [o \in {o1, o2} |-> 2]

=============================================================================
