----------------------------- MODULE SlogGroups -----------------------------
(***************************************************************************)
(* The groups of the slog handler (go/slog.go): handlers made from one     *)
(* another with WithGroup and WithAttrs, and goroutines that log a group   *)
(* of attributes through them at the same time.  put names each attribute  *)
(* of the group by the handler's groups and the group's key, in a slice it *)
(* makes with append.                                                      *)
(*                                                                         *)
(* A slice is an array in the heap and a length.  append writes into the   *)
(* array when it has room behind the length and copies it otherwise.  Each *)
(* append and each reading of a shared slice is one step; what a call does *)
(* to a handler that it has not returned yet is part of that call's step.  *)
(***************************************************************************)
EXTENDS Integers, SequencesExt

CONSTANTS
  Names,        \* names given to WithGroup
  Keys,         \* keys of attributes that are groups
  Loggers,      \* goroutines that log
  MaxHandlers,  \* bound: the handlers, the first one included
  MaxDepth,     \* bound: nested WithGroup calls
  MaxAttrs      \* bound: nested WithAttrs calls

ASSUME GroupsAssumption == 
  MaxHandlers \in Nat \ {0} /\ MaxDepth \in Nat /\ MaxAttrs \in Nat

VARIABLES
  heap,      \* the arrays
  handlers,  \* h.groups and the keys of h.attrs of each handler; history:
             \* the groups and the attributes it was asked for
  putPC,     \* where each logger is
  using,     \* the handler each one logs through
  name,      \* the key of its group
  view,      \* the slice put made
  keys       \* the keys it gave to the attributes of its group

groupsVars == <<heap, handlers, putPC, using, name, view, keys>>

NoName == "none"
Nil == [arr |-> 0, len |-> 0]

GroupsInit ==
  /\ heap = <<>>
  /\ handlers = <<[groups |-> Nil, asked |-> <<>>,
                  attrs |-> {}, given |-> {}]>>
  /\ putPC = [l \in Loggers |-> "idle"]
  /\ using = [l \in Loggers |-> 1]
  /\ name = [l \in Loggers |-> NoName]
  /\ view = [l \in Loggers |-> Nil]
  /\ keys = [l \in Loggers |-> <<>>]

-----------------------------------------------------------------------------
(* Slices: what one holds, its capacity, and append.                       *)

Content(s) == [i \in 1 .. s.len |-> heap[s.arr][i]]
Capacity(s) == IF s.arr = 0 THEN 0 ELSE Len(heap[s.arr])

(* The runtime doubles a full array of this size.                          *)
Grown(n) == IF n = 0 THEN 1 ELSE 2 * n

InPlace(s, x) == [heap EXCEPT ![s.arr][s.len + 1] = x]
Copied(s, x) ==
  Append(heap, [i \in 1 .. Grown(s.len) |->
                  IF i <= s.len THEN heap[s.arr][i]
                  ELSE IF i = s.len + 1 THEN x ELSE NoName])

(* append(s, x): the heap after it, and the slice it returns.              *)
HasRoom(s) == s.len < Capacity(s)
HeapAfter(s, x) == IF HasRoom(s) THEN InPlace(s, x) ELSE Copied(s, x)
Appended(s) ==
  [arr |-> IF HasRoom(s) THEN s.arr ELSE Len(heap) + 1, len |-> s.len + 1]

-----------------------------------------------------------------------------
(* clone: the groups in an array without room.                             *)
Cloned(s) == IF s.len = 0 THEN heap ELSE Append(heap, Content(s))
CloneOf(s) == IF s.len = 0 THEN Nil ELSE [arr |-> Len(heap) + 1, len |-> s.len]

(* WithGroup: the append copies the clone into an array that may have room.*)
WithGroupShared(s, x) == [heap |-> HeapAfter(s, x), groups |-> Appended(s)]
WithGroupCloned(s, x) ==
  [heap |-> Copied(s, x),
   groups |-> [arr |-> Len(heap) + 1, len |-> s.len + 1]]
WithGroup(h, x) ==
  LET was == handlers[h]
      made == WithGroupCloned(was.groups, x)
  IN /\ Len(handlers) < MaxHandlers /\ Len(was.asked) < MaxDepth
     /\ heap' = made.heap
     /\ handlers' = Append(handlers, [groups |-> made.groups,
                                      asked |-> Append(was.asked, x),
                                      attrs |-> was.attrs,
                                      given |-> was.given])
     /\ UNCHANGED <<putPC, using, name, view, keys>>

(* WithAttrs with a group named x: put names its attributes by the clone's *)
(* groups, for the new handler only.                                       *)
WithAttrs(h, x) ==
  LET was == handlers[h]
  IN /\ Len(handlers) < MaxHandlers /\ Cardinality(was.attrs) < MaxAttrs
     /\ heap' = Cloned(was.groups)
     /\ handlers' =
          Append(handlers,
                 [groups |-> CloneOf(was.groups), asked |-> was.asked,
                  attrs |-> was.attrs \union {Append(Content(was.groups), x)},
                  given |-> was.given \union {Append(was.asked, x)}])
     /\ UNCHANGED <<putPC, using, name, view, keys>>

(* Handle with an attribute that is a group named x: put appends x to the  *)
(* handler's groups, once for each attribute in the group, and each call   *)
(* below it reads the slice to make the key.                               *)
Handle(l, h, x) ==
  /\ putPC[l] = "idle"
  /\ putPC' = [putPC EXCEPT ![l] = "append"]
  /\ using' = [using EXCEPT ![l] = h]
  /\ name' = [name EXCEPT ![l] = x]
  /\ keys' = [keys EXCEPT ![l] = <<>>]
  /\ UNCHANGED <<heap, handlers, view>>
PutAppend(l) ==
  LET s == handlers[using[l]].groups
  IN /\ putPC[l] = "append"
     /\ putPC' = [putPC EXCEPT ![l] = "read"]
     /\ heap' = HeapAfter(s, name[l])
     /\ view' = [view EXCEPT ![l] = Appended(s)]
     /\ UNCHANGED <<handlers, using, name, keys>>
Key(l) == Content(view[l])
PutKey(l) ==
  /\ putPC[l] = "read"
  /\ keys' = [keys EXCEPT ![l] = Append(@, Key(l))]
  /\ putPC' = [putPC EXCEPT ![l] =
                  IF Len(keys[l]) = 0 THEN "append" ELSE "logged"]
  /\ UNCHANGED <<heap, handlers, using, name, view>>

GroupsNext ==
  \/ \E h \in DOMAIN handlers, x \in Names : WithGroup(h, x)
  \/ \E h \in DOMAIN handlers, x \in Keys : WithAttrs(h, x)
  \/ \E l \in Loggers, h \in DOMAIN handlers, x \in Keys : Handle(l, h, x)
  \/ \E l \in Loggers : PutAppend(l) \/ PutKey(l)

GroupsSpec == GroupsInit /\ [][GroupsNext]_groupsVars

-----------------------------------------------------------------------------
(* Properties.                                                             *)

Slices == [arr : Nat, len : Nat]

(* Every variable has its type, and a slice lies within its array.         *)
GroupsTypeOK ==
  /\ \A i \in DOMAIN heap : heap[i] \in Seq(Names \union Keys \union {NoName})
  /\ \A h \in DOMAIN handlers :
       /\ handlers[h].groups \in Slices
       /\ handlers[h].groups.len <= Capacity(handlers[h].groups)
  /\ putPC \in [Loggers -> {"idle", "append", "read", "logged"}]
  /\ \A l \in Loggers : view[l].len <= Capacity(view[l])

(* A handler keeps the groups it was made with, whatever is made from it   *)
(* and logged through it and its relatives, and its attributes are named   *)
(* by them.  The only key that may be another's is one of a handler with   *)
(* at least three groups, logged through by two goroutines.                *)
GroupsKept ==
  /\ GroupsTypeOK
  /\ \A h \in DOMAIN handlers :
       /\ Content(handlers[h].groups) = handlers[h].asked
       /\ handlers[h].attrs = handlers[h].given
  /\ \A l \in Loggers : \A i \in DOMAIN keys[l] :
       \/ keys[l][i] = Append(handlers[using[l]].asked, name[l])
       \/ /\ Len(handlers[using[l]].asked) >= 3
          /\ \E m \in Loggers \ {l} : using[m] = using[l] /\ putPC[m] # "idle"

(* Every attribute of a group is named by the groups of the handler it was *)
(* logged through and by the key of its own group.                         *)
KeysAreOwn ==
  \A l \in Loggers : \A i \in DOMAIN keys[l] :
    keys[l][i] = Append(handlers[using[l]].asked, name[l])
=============================================================================
