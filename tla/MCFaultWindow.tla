--------------------------- MODULE MCFaultWindow ---------------------------
(* Objects of up to five pages with a two-page chunk, so an object is one *)
(* chunk, or two or three chunks with a short last one; tile rows of one,  *)
(* two and three pages, so rounding the chunk up changes it; every way of *)
(* cutting the object into segments.                                       *)
EXTENDS FaultWindow

(* every area the mmap offset lookup accepts *)
AnyArea(n, o, len) == TRUE

(* areas mapping the object from its first page but ending before its end *)
ShortArea(n, o, len) == o = 0 /\ len < n

(* areas mapping the object from a later page on, up to its end *)
OffsetArea(n, o, len) == o > 0 /\ o + len = n

=============================================================================
