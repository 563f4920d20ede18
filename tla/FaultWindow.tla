---------------------------- MODULE FaultWindow ----------------------------
(***************************************************************************)
(* The address arithmetic of the two fault handlers: which user pages a   *)
(* fault fills and which object pages it maps there.                      *)
(*                                                                         *)
(*  - compute_partial_view, the chunk of an object vm_fault_gtt binds when *)
(*    the whole object does not fit the aperture;                          *)
(*  - the range vm_fault_gtt hands remap_io_mapping;                       *)
(*  - the window vm_fault_cpu computes for one segment of a segmented      *)
(*    object and hands remap_io_sg.                                        *)
(*                                                                         *)
(* Everything is in pages.  A user area is len pages and maps the object  *)
(* from page o on (area->vm_pgoff less the start of the mmap offset       *)
(* node): area page a shows object page o + a.  Area pages are counted    *)
(* from vm_start, so the area is 0..len-1.  The input of one fault is a   *)
(* state; the properties are checked on every input.                      *)
(***************************************************************************)
EXTENDS Naturals, FiniteSets, FiniteSetsExt

CONSTANTS
    MaxPages,        \* largest object, in pages
    Chunk,           \* MIN_CHUNK_PAGES, scaled down
    TileRowPages,    \* tile_row_pages values; 0 stands for an untiled object
    AreaOK(_, _, _)  \* AreaOK(n, o, len): the areas of an n-page object faulted on

ASSUME Chunk \in Nat \ {0} /\ TileRowPages \subseteq Nat

VARIABLE in   \* the object, the area and the fault

Inputs ==
    UNION { { [n |-> n, cuts |-> cuts, tile |-> tile, o |-> o, len |-> len,
               fp |-> fp, full |-> full] :
                cuts \in SUBSET (1..(n - 1)), tile \in TileRowPages,
                o \in 0..(n - 1), len \in 1..n, fp \in 0..(n - 1),
                full \in BOOLEAN } :
            n \in 1..MaxPages }

(* drm_vma_offset_lookup_locked only finds a node that holds the whole    *)
(* area, so an area never runs past the end of its object.                 *)
Possible(x) == x.o + x.len <= x.n /\ x.fp < x.len /\ AreaOK(x.n, x.o, x.len)

TypeOK == in \in Inputs

Init == in \in {x \in Inputs : Possible(x)}

Next == UNCHANGED in

Spec == Init /\ [][Next]_in

Least(a, b) == IF a <= b THEN a ELSE b

RoundUp(x, m) == ((x + m - 1) \div m) * m

RoundDown(x, m) == (x \div m) * m

-----------------------------------------------------------------------------
(* compute_partial_view                                                    *)

(* Mutant: the chunk is not rounded up to whole tile rows *)
ComputePartialViewUnrounded(pages, tile, pageOffset, chunk) ==
    [type   |-> IF chunk >= pages THEN "normal" ELSE "partial",
     offset |-> RoundDown(pageOffset, chunk),
     size   |-> Least(chunk, pages - RoundDown(pageOffset, chunk))]

(* A tiled object's chunk is rounded up to whole tile rows; the view      *)
(* starts at the fault page rounded down to the chunk and is cut at the    *)
(* object's end.  A chunk as large as the object is a normal view.        *)
ComputePartialView(pages, tile, pageOffset, chunk) ==
    LET c == IF tile > 0 THEN RoundUp(chunk, tile) ELSE chunk
        off == RoundDown(pageOffset, c)
    IN [type   |-> IF c >= pages THEN "normal" ELSE "partial",
        offset |-> off,
        size   |-> Least(c, pages - off)]

(* The view vm_fault_gtt ends up with: the normal view when the first,    *)
(* non-evicting pin of the whole object succeeds, else compute_partial_view *)
(* of the fault page, which vm_fault_gtt takes relative to vm_start.  A   *)
(* normal vma starts at object page 0 and spans the object.                *)
GttView(x) ==
    LET v == ComputePartialView(x.n, x.tile, x.fp, Chunk) IN
    IF x.full \/ v.type = "normal" THEN [offset |-> 0, size |-> x.n]
                                   ELSE [offset |-> v.offset, size |-> v.size]

(* remap_io_mapping(area, vm_start + partial.offset, the vma's aperture    *)
(* pages, min(vma size, area size)): pairs <<area page, object page>>     *)
GttRemapped(x) ==
    LET v == GttView(x) IN
    { <<v.offset + k, v.offset + k>> : k \in 0..(Least(v.size, x.len) - 1) }

-----------------------------------------------------------------------------
(* The segment window of vm_fault_cpu                                      *)

(* the segment of an object with segment boundaries cuts holding page p,  *)
(* as i915_gem_object_lookup_segment finds it                              *)
LookupSegment(x, p) ==
    LET start == Max({c \in x.cuts \cup {0} : c <= p})
        end == Min({c \in x.cuts \cup {x.n} : c > p})
    IN [start |-> start, size |-> end - start]

(* Mutant: obj_offset is moved into the segment but the window keeps the  *)
(* segment's whole size                                                    *)
CpuWindowNoTrim(x) ==
    IF x.cuts = {} THEN [start |-> 0, size |-> x.len, off |-> x.o, base |-> 0]
    ELSE
    LET seg == LookupSegment(x, x.o + x.fp) IN
    IF x.o > seg.start
      THEN [start |-> 0, size |-> Least(x.len, seg.size), off |-> x.o - seg.start,
            base |-> seg.start]
      ELSE LET s == seg.start - x.o IN
           [start |-> s, size |-> Least(x.len, s + seg.size) - s, off |-> 0,
            base |-> seg.start]

(* vm_start, vm_size and obj_offset as vm_fault_cpu computes them: the     *)
(* whole area for an unsegmented object; for a segmented one the part of  *)
(* the area inside the segment holding the fault, with obj_offset made    *)
(* relative to the segment.  base is the segment's first page.            *)
CpuWindow(x) ==
    IF x.cuts = {} THEN [start |-> 0, size |-> x.len, off |-> x.o, base |-> 0]
    ELSE
    LET seg == LookupSegment(x, x.o + x.fp) IN
    IF x.o > seg.start
      THEN LET off == x.o - seg.start IN
           [start |-> 0, size |-> Least(x.len, seg.size - off), off |-> off,
            base |-> seg.start]
      ELSE LET s == seg.start - x.o IN
           [start |-> s, size |-> Least(x.len, s + seg.size) - s, off |-> 0,
            base |-> seg.start]

(* remap_io_sg(area, vm_start, vm_size, the segment's pages, obj_offset): *)
(* pairs <<area page, object page>>, the object page counted in the parent *)
CpuRemapped(x) ==
    LET w == CpuWindow(x) IN
    { <<w.start + k, w.base + w.off + k>> : k \in 0..(w.size - 1) }

-----------------------------------------------------------------------------
(* Properties                                                              *)

(* The partial view vm_fault_gtt binds holds the page that faulted, starts *)
(* on a tile row of a tiled object and ends within the object: the        *)
(* selection rule of compute_partial_view.                                 *)
PartialViewSelection ==
    LET v == ComputePartialView(in.n, in.tile, in.fp, Chunk) IN
    v.type = "partial" =>
        /\ v.offset <= in.fp /\ in.fp < v.offset + v.size
        /\ v.offset + v.size <= in.n
        /\ in.tile > 0 => v.offset % in.tile = 0

(* Every user page vm_fault_gtt's remap_io_mapping fills lies inside the  *)
(* faulting area.                                                          *)
GttRemapWithinArea ==
    \A p \in GttRemapped(in) : p[1] < in.len

(* Every user page vm_fault_gtt fills shows the object page the area maps *)
(* there, o + a, whatever page of the object the area starts at.          *)
GttRemapPageMatches ==
    \A p \in GttRemapped(in) : p[2] = in.o + p[1]

(* The window vm_fault_cpu fills for a fault lies inside the area, holds   *)
(* the faulting page, maps every page to the object page the area shows   *)
(* there, and stays inside the segment whose pages remap_io_sg walks.     *)
CpuFaultWindow ==
    LET seg == LookupSegment(in, in.o + in.fp)
        inSeg(q) == in.cuts = {} \/ (seg.start <= q /\ q < seg.start + seg.size)
    IN
    /\ in.fp \in {p[1] : p \in CpuRemapped(in)}
    /\ \A p \in CpuRemapped(in) :
          /\ p[1] < in.len
          /\ p[2] = in.o + p[1]
          /\ inSeg(p[2])

=============================================================================
