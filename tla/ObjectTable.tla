----------------------------- MODULE ObjectTable -----------------------------
(***************************************************************************)
(* objectTable (src/objects.go): a map from object IDs to values behind a  *)
(* read-write lock.  Every method holds the lock for its whole body, so    *)
(* each operator below is one atomic step of its caller.  A table is a     *)
(* function on the IDs; `absent` marks an ID that is not in the map.       *)
(***************************************************************************)

Load(table, id) == table[id]

Store(table, id, v) == [table EXCEPT ![id] = v]

Delete(table, id, absent) == [table EXCEPT ![id] = absent]

CompareAndDelete(table, id, old, absent) ==
  IF table[id] = old THEN [table EXCEPT ![id] = absent] ELSE table

CompareAndSwap(table, id, old, new) ==
  IF table[id] = old THEN [table EXCEPT ![id] = new] ELSE table
=============================================================================
