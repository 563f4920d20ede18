------------------------- MODULE MmapOffsetAbstract -------------------------
(***************************************************************************)
(* What the mmap-offset registry promises, with no locks and no races:     *)
(* each (object, type) has at most one fake offset; it is created          *)
(* atomically by the first request for it while the object is open, never *)
(* changes while it exists, is never shared with another (object, type),  *)
(* and is dropped, with all the object's offsets, only when a closed       *)
(* object is freed.                                                        *)
(***************************************************************************)
CONSTANTS Objects, Types, Offsets, NULL

VARIABLES
    offset,  \* [Objects \X Types -> Offsets \cup {NULL}]
    closed   \* objects whose last handle is gone and that await freeing

InUse == {offset[p] : p \in Objects \X Types} \ {NULL}

Init ==
    /\ offset = [p \in Objects \X Types |-> NULL]
    /\ closed = {}

GetOrCreate(o, ty, n) ==
    /\ o \notin closed
    /\ offset[<<o, ty>>] = NULL
    /\ n \notin InUse
    /\ offset' = [offset EXCEPT ![<<o, ty>>] = n]
    /\ UNCHANGED closed

Close(o) ==
    /\ o \notin closed
    /\ closed' = closed \cup {o}
    /\ UNCHANGED offset

Free(dead) ==
    /\ dead # {}
    /\ dead \subseteq closed
    /\ offset' = [p \in Objects \X Types |-> IF p[1] \in dead THEN NULL ELSE offset[p]]
    /\ closed' = closed \ dead

Next ==
    \/ \E o \in Objects, ty \in Types, n \in Offsets : GetOrCreate(o, ty, n)
    \/ \E o \in Objects : Close(o)
    \/ \E dead \in SUBSET Objects : Free(dead)

Spec == Init /\ [][Next]_<<offset, closed>>

=============================================================================
