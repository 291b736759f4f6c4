---------------------------- MODULE OrderedDict ----------------------------
(***************************************************************************)
(* The iteration order of collections.OrderedDict, as scripts/             *)
(* prefix_cache.py uses it for its LRU indexes: a sequence of distinct     *)
(* keys, the least recently used first.  The values live in a function of  *)
(* the module that uses this one.                                          *)
(***************************************************************************)
EXTENDS Integers, SequencesExt

\* Place of a key of the dictionary in its order.
Position(order, key) == CHOOSE i \in DOMAIN order : order[i] = key

\* pop(key, None)
Pop(order, key) ==
  IF key \in ToSet(order) THEN RemoveAt(order, Position(order, key)) ELSE order

\* d[key] = value: a new key goes last, a key already there keeps its place.
Insert(order, key) ==
  IF key \in ToSet(order) THEN order ELSE Append(order, key)

\* move_to_end(key), for a key of the dictionary
MoveToEnd(order, key) == Append(Pop(order, key), key)

\* next(iter(d)): the least recently used key
Oldest(order) == order[1]
=============================================================================
