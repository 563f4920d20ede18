---------------------------- MODULE MCMmapOffset ----------------------------
(* Two files, two objects of 2 and 1 pages, two mmap types, and 3 pages of *)
(* offset space: both objects fit once, a second type of the big object   *)
(* does not, so the reap-and-retry path and ENOSPC both happen.           *)
EXTENDS MmapOffset

CONSTANTS f1, f2, o1, o2, WB, WC

MCObjPages == [o \in {o1, o2} |-> IF o = o1 THEN 2 ELSE 1]

MCUnsupported == {<<o2, WC>>}

=============================================================================
