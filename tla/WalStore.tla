------------------------------- MODULE WalStore -------------------------------
(***************************************************************************)
(* WalStore (pkg/core/realtime/wal_store.go, wal_store_badger.go): what the *)
(* three stores do with the log of one instance, a function from sequence  *)
(* numbers to records [data, acked].                                       *)
(***************************************************************************)
EXTENDS Integers, FiniteSets

EmptyLog == <<>>

\* A number that is in use already is left alone, and that is no error.
AppendRecord(log, seq, data) ==
  IF seq \in DOMAIN log THEN log
  ELSE [n \in DOMAIN log \cup {seq} |->
          IF n = seq THEN [data |-> data, acked |-> FALSE] ELSE log[n]]

MarkAcked(log, seq) ==
  [n \in DOMAIN log |-> IF n = seq THEN [log[n] EXCEPT !.acked = TRUE] ELSE log[n]]

Unacked(log) == {n \in DOMAIN log : ~log[n].acked}

\* IterateUnacked gives these in the order of their numbers: of what is left the
\* first.
IterateUnacked(log) == {[data |-> log[n].data, seq |-> n] : n \in Unacked(log)}
IsFirst(x, records) == x \in records /\ \A y \in records : x.seq <= y.seq

\* Mutant: what was replayed is taken for acked.
GCAll(log) == EmptyLog

GC(log) == [n \in Unacked(log) |-> log[n]]
=============================================================================
