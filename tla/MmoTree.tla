------------------------------- MODULE MmoTree -------------------------------
(***************************************************************************)
(* The per-object rbtree of mmap offsets, obj->mmo.offsets, keyed by mmap  *)
(* type: insert_mmo and lookup_mmo under obj->mmo.lock, and the postorder  *)
(* walk of i915_gem_object_release_mmap_offset, which drops the lock       *)
(* around every drm_vma_node_unmap_range.  While it is dropped insert_mmo  *)
(* may link a node and rebalance the tree; the walk then goes on from the  *)
(* next node it saved, in the tree as it now is.                           *)
(*                                                                         *)
(* An object has at most one mmo per type, so a node is named by its type *)
(* and the tree has at most |MmapTypes| nodes.  Linking and recolouring    *)
(* follow lib/rbtree.c (rb_link_node, rb_insert_color, rb_first_postorder, *)
(* rb_next_postorder), which is not part of this file.                     *)
(***************************************************************************)
EXTENDS Naturals, FiniteSets

CONSTANTS
    MmapTypes,  \* the values of enum i915_mmap_type, in their order
    GTT,        \* I915_MMAP_TYPE_GTT
    NULL

ASSUME MmapTypes \subseteq Nat /\ GTT \in MmapTypes /\ NULL \notin MmapTypes

VARIABLES
    root,       \* obj->mmo.offsets.rb_node
    left, right, parent, \* rb_left, rb_right and the parent of each node
    red,        \* the nodes coloured red
    present,    \* the mmos linked into the tree
    rpc,        \* where release_mmap_offset is: idle, test (lock held), unmap (lock dropped), done
    pos, nxt,   \* the iterator and the next entry it saved
    unmapped,   \* the mmos whose range has been unmapped
    started     \* the mmos present when the walk took the lock

vars == <<root, left, right, parent, red, present, rpc, pos, nxt, unmapped, started>>

Node == MmapTypes \cup {NULL}

TypeOK ==
    /\ root \in Node
    /\ left \in [MmapTypes -> Node] /\ right \in [MmapTypes -> Node]
    /\ parent \in [MmapTypes -> Node]
    /\ red \subseteq present /\ present \subseteq MmapTypes
    /\ rpc \in {"idle", "test", "unmap", "done"}
    /\ pos \in Node /\ nxt \in Node
    /\ unmapped \subseteq MmapTypes /\ started \subseteq MmapTypes

Init ==
    /\ root = NULL
    /\ left = [k \in MmapTypes |-> NULL]
    /\ right = [k \in MmapTypes |-> NULL]
    /\ parent = [k \in MmapTypes |-> NULL]
    /\ red = {}
    /\ present = {}
    /\ rpc = "idle"
    /\ pos = NULL /\ nxt = NULL
    /\ unmapped = {} /\ started = {}
-----------------------------------------------------------------------------
(* The tree as one value, so that rotations compose as functions.         *)
Current == [root |-> root, left |-> left, right |-> right, parent |-> parent, red |-> red]

SetTree(T) ==
    /\ root' = T.root /\ left' = T.left /\ right' = T.right
    /\ parent' = T.parent /\ red' = T.red

(* Make c take old's place under p (the root when p is NULL).              *)
ReplaceChild(T, p, old, c) ==
    IF p = NULL THEN [T EXCEPT !.root = c]
    ELSE IF T.left[p] = old THEN [T EXCEPT !.left[p] = c]
    ELSE [T EXCEPT !.right[p] = c]

SetParentOf(T, x, p) == IF x = NULL THEN T ELSE [T EXCEPT !.parent[x] = p]

(* Rotate x down to the left: its right child y takes its place.           *)
RotateLeft(T, x) ==
    LET y == T.right[x]
        b == T.left[y]
        T1 == SetParentOf([T EXCEPT !.right[x] = b], b, x)
        T2 == ReplaceChild([T1 EXCEPT !.parent[y] = T.parent[x]], T.parent[x], x, y)
    IN [T2 EXCEPT !.left[y] = x, !.parent[x] = y]

(* Rotate x down to the right: its left child y takes its place.           *)
RotateRight(T, x) ==
    LET y == T.left[x]
        b == T.right[y]
        T1 == SetParentOf([T EXCEPT !.left[x] = b], b, x)
        T2 == ReplaceChild([T1 EXCEPT !.parent[y] = T.parent[x]], T.parent[x], x, y)
    IN [T2 EXCEPT !.right[y] = x, !.parent[x] = y]

IsRed(T, x) == x # NULL /\ x \in T.red

(* rb_insert_color: restore the colouring after linking the red node z.   *)
(* An uncle that is red is recoloured and the fix moves up to the         *)
(* grandparent; otherwise one or two rotations end it.                    *)
RECURSIVE InsertColor(_, _)
InsertColor(T, z) ==
    LET p == T.parent[z] IN
    IF p = NULL THEN [T EXCEPT !.red = @ \ {z}]
    ELSE IF ~IsRed(T, p) THEN T
    ELSE LET g == T.parent[p]
             pLeft == T.left[g] = p
             u == IF pLeft THEN T.right[g] ELSE T.left[g]
         IN IF IsRed(T, u)
              THEN InsertColor([T EXCEPT !.red = (@ \ {p, u}) \cup {g}], g)
            ELSE IF pLeft
              THEN LET T1 == IF z = T.right[p] THEN RotateLeft(T, p) ELSE T
                       q == IF z = T.right[p] THEN z ELSE p
                   IN [RotateRight(T1, g) EXCEPT !.red = (@ \ {q}) \cup {g}]
              ELSE LET T1 == IF z = T.left[p] THEN RotateRight(T, p) ELSE T
                       q == IF z = T.left[p] THEN z ELSE p
                   IN [RotateLeft(T1, g) EXCEPT !.red = (@ \ {q}) \cup {g}]

(* rb_left_deepest_node: go left where possible, else right, to a leaf.    *)
RECURSIVE LeftDeepest(_, _)
LeftDeepest(T, x) ==
    IF T.left[x] # NULL THEN LeftDeepest(T, T.left[x])
    ELSE IF T.right[x] # NULL THEN LeftDeepest(T, T.right[x])
    ELSE x

(* rb_first_postorder                                                      *)
FirstPostorder(T) == IF T.root = NULL THEN NULL ELSE LeftDeepest(T, T.root)

(* rb_next_postorder: after a left child comes its right sibling's        *)
(* left-deepest node, otherwise the parent.                                *)
NextPostorder(T, x) ==
    LET p == T.parent[x] IN
    IF p # NULL /\ x = T.left[p] /\ T.right[p] # NULL
      THEN LeftDeepest(T, T.right[p])
      ELSE p
-----------------------------------------------------------------------------
(* lookup_mmo's descent: stop at the mmo of type k, or at NULL.            *)
RECURSIVE Descend(_, _, _)
Descend(T, rb, k) ==
    IF rb = NULL \/ rb = k THEN rb
    ELSE Descend(T, IF rb < k THEN T.right[rb] ELSE T.left[rb], k)

(* lookup_mmo(obj, k) finds an mmo                                         *)
LookupMmo(T, k) == Descend(T, T.root, k) = k

(* insert_mmo's descent from rb below parent p: the existing mmo of type  *)
(* k, or the parent and side of the empty link it ends at.                 *)
RECURSIVE InsertSlotSwapped(_, _, _, _, _)
InsertSlotSwapped(T, rb, p, side, k) ==
    IF rb = NULL THEN <<p, side>>
    ELSE IF rb = k THEN <<rb, "found">>
    ELSE IF rb > k THEN InsertSlotSwapped(T, T.right[rb], rb, "right", k)
    ELSE InsertSlotSwapped(T, T.left[rb], rb, "left", k)

RECURSIVE InsertSlot(_, _, _, _, _)
InsertSlot(T, rb, p, side, k) ==
    IF rb = NULL THEN <<p, side>>
    ELSE IF rb = k THEN <<rb, "found">>
    ELSE IF rb < k THEN InsertSlot(T, T.right[rb], rb, "right", k)
    ELSE InsertSlot(T, T.left[rb], rb, "left", k)

(* rb_link_node of the red node k at the link of p on side                 *)
LinkNode(T, k, p, side) ==
    LET T1 == [T EXCEPT !.parent[k] = p, !.red = @ \cup {k}] IN
    CASE p = NULL       -> [T1 EXCEPT !.root = k]
      [] side = "left"  -> [T1 EXCEPT !.left[p] = k]
      [] side = "right" -> [T1 EXCEPT !.right[p] = k]

(* insert_mmo of a new mmo of type k under obj->mmo.lock: a descent that  *)
(* returns the existing mmo of that type (the new one is dropped), or     *)
(* rb_link_node at the empty link and rb_insert_color.  The walk of       *)
(* release_mmap_offset holds the lock only while it tests.                 *)
InsertMmo(k) ==
    LET slot == InsertSlot(Current, root, NULL, "root", k) IN
    /\ rpc # "test"
    /\ slot[2] # "found"
    /\ present' = present \cup {k}
    /\ SetTree(InsertColor(LinkNode(Current, k, slot[1], slot[2]), k))
    /\ UNCHANGED <<rpc, pos, nxt, unmapped, started>>
-----------------------------------------------------------------------------
(* i915_gem_object_release_mmap_offset                                     *)

(* spin_lock and rb_first_postorder                                        *)
ReleaseStart ==
    /\ rpc = "idle"
    /\ rpc' = "test"
    /\ pos' = FirstPostorder(Current)
    /\ started' = present
    /\ UNCHANGED <<root, left, right, parent, red, present, nxt, unmapped>>

(* The loop test of rbtree_postorder_for_each_entry_safe with the lock    *)
(* held: the walk ends at NULL; otherwise the next entry is saved, a GTT  *)
(* mmo is passed over without dropping the lock (continue), and for any   *)
(* other the lock is dropped to unmap it.                                  *)
ReleaseTestBreak ==
    /\ rpc = "test"
    /\ LET n == NextPostorder(Current, pos) IN
       IF pos = NULL \/ pos = GTT THEN rpc' = "done" /\ UNCHANGED <<pos, nxt>>
       ELSE rpc' = "unmap" /\ nxt' = n /\ UNCHANGED pos
    /\ UNCHANGED <<root, left, right, parent, red, present, unmapped, started>>

ReleaseTest ==
    /\ rpc = "test"
    /\ IF pos = NULL
         THEN rpc' = "done" /\ UNCHANGED <<pos, nxt>>
         ELSE LET n == NextPostorder(Current, pos) IN
              IF pos = GTT
                THEN pos' = n /\ UNCHANGED <<rpc, nxt>>
                ELSE rpc' = "unmap" /\ nxt' = n /\ UNCHANGED pos
    /\ UNCHANGED <<root, left, right, parent, red, present, unmapped, started>>

(* drm_vma_node_unmap_range with the lock dropped, spin_lock again, and   *)
(* pos = n                                                                 *)
ReleaseUnmap ==
    /\ rpc = "unmap"
    /\ unmapped' = unmapped \cup {pos}
    /\ pos' = nxt
    /\ rpc' = "test"
    /\ UNCHANGED <<root, left, right, parent, red, present, nxt, started>>

(* Every mmo type has been inserted and the walk is over.                  *)
Terminated ==
    /\ present = MmapTypes /\ rpc = "done"
    /\ UNCHANGED vars

Next ==
    \/ \E k \in MmapTypes : InsertMmo(k)
    \/ ReleaseStart \/ ReleaseTest \/ ReleaseUnmap
    \/ Terminated

Spec == Init /\ [][Next]_vars
-----------------------------------------------------------------------------
(* Properties                                                              *)

(* insert_mmo and lookup_mmo agree: after any sequence of inserts and the *)
(* rotations of rb_insert_color, the descent of lookup_mmo finds every    *)
(* linked mmo, so __assign_mmap_offset never makes a second mmo of a type *)
(* the object already has.                                                 *)
LookupFindsInserted == \A k \in present : LookupMmo(Current, k)

(* Though insert_mmo may rebalance the tree whenever release_mmap_offset  *)
(* drops obj->mmo.lock, the walk it resumes from its saved next entry     *)
(* still unmaps every non-GTT mmo that was in the tree when it began, so  *)
(* no CPU mmap keeps PTEs on pages being released.                         *)
ReleaseUnmapsAll == rpc = "done" => started \ {GTT} \subseteq unmapped

=============================================================================
