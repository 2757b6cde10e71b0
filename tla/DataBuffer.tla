------------------------------ MODULE DataBuffer ------------------------------
(***************************************************************************)
(* DataBuffer (pkg/core/realtime/buffer.go): a bounded channel with        *)
(* counters, of the subscribers and of an instance.  Its back-pressure     *)
(* flag, read and written apart from the channel, is left out.             *)
(***************************************************************************)
EXTENDS Integers, Sequences

NewDataBuffer(capacity) ==
  [items |-> <<>>, capacity |-> capacity, totalIn |-> 0, totalOut |-> 0, dropped |-> 0]

HasRoom(b) == Len(b.items) < b.capacity

PushBlocking(b, item) == [b EXCEPT !.items = Append(@, item), !.totalIn = @ + 1]

\* Without room the item is dropped, and Push says so.
Push(b, item) ==
  IF HasRoom(b) THEN PushBlocking(b, item) ELSE [b EXCEPT !.dropped = @ + 1]

\* TryPop, when there is an item.
TryPop(b) == [b EXCEPT !.items = Tail(@), !.totalOut = @ + 1]
=============================================================================
