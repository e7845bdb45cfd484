----------------------------- MODULE Blackboard -----------------------------
(***************************************************************************)
(* A tasklet Blackboard: a map from keys to values that know their type.   *)
(* Each operator is one call, which holds the board's mutex from beginning *)
(* to end; clones share the map.  A board is a function whose domain is    *)
(* the keys that are stored, and an Option is a set of at most one value.  *)
(***************************************************************************)
EXTENDS Functions

Value(type, is) == [type |-> type, is |-> is]

NewBoard == <<>>

(* set: whatever was there, of any type, is replaced. *)
Set(board, key, value) ==
  [k \in DOMAIN board \union {key} |-> IF k = key THEN value ELSE board[k]]

(* get::<type>: nothing if the key is absent or holds another type. *)
Get(board, key, type) ==
  IF key \in DOMAIN board /\ board[key].type = type THEN {board[key].is} ELSE {}

Contains(board, key) == key \in DOMAIN board

Remove(board, key) == Restrict(board, DOMAIN board \ {key})

(* get_or_insert: what it returns, and the board it leaves. *)
GetOr(board, key, default) ==
  IF Get(board, key, default.type) # {} THEN board[key].is ELSE default.is

(* Mutant: the default is stored even where there is a value.              *)
InsertedAlways(board, key, default) == Set(board, key, default)

Inserted(board, key, default) ==
  IF Get(board, key, default.type) # {} THEN board ELSE Set(board, key, default)
=============================================================================
