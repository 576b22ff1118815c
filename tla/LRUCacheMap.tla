--------------------------- MODULE LRUCacheMap ---------------------------
(***************************************************************************)
(* The bounded LRU map the hotspot metrics are kept in (cache.LRUCacheMap, *)
(* spec section 4.1; its code is not under src/).  A cache maps keys to    *)
(* pointers: the values are cell identities, the cells themselves live in *)
(* the caller's heap, so a pointer obtained before an eviction stays       *)
(* valid after it.                                                        *)
(*                                                                         *)
(* A cache is a record: its capacity, its items (key -> cell) and its     *)
(* recency order, least recently used first.                              *)
(***************************************************************************)
EXTENDS Sequences

LOCAL INSTANCE SequencesExt

\* cache.NewLRUCacheMap(size): an empty cache of the given capacity.
NewLRUCacheMap(size) == [size |-> size, items |-> << >>, order |-> << >>]

HasKey(c, k) == k \in DOMAIN c.items

\* The key moved to the most recently used end.
LOCAL Touch(order, k) == Append(Remove(order, k), k)

\* Get(k): the pointer, if present, and the key becomes the most recent.
\* The cache after the call (a miss leaves it as it was).
Get(c, k) ==
    IF HasKey(c, k) THEN [c EXCEPT !.order = Touch(@, k)] ELSE c

\* AddIfAbsent(k, ptr): a present key is left alone and its pointer
\* returned; an absent one is inserted as the most recent, and when the
\* cache then exceeds its size the least recently used key is removed.
AddIfAbsent(c, k, ptr) ==
    IF HasKey(c, k) THEN c
    ELSE LET order == Append(c.order, k)
             items == [x \in DOMAIN c.items \cup {k} |->
                         IF x = k THEN ptr ELSE c.items[x]]
         IN  IF Len(order) > c.size
             THEN [size |-> c.size,
                   items |-> [x \in DOMAIN items \ {Head(order)} |-> items[x]],
                   order |-> Tail(order)]
             ELSE [size |-> c.size, items |-> items, order |-> order]
=============================================================================
