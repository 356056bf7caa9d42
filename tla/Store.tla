------------------------------- MODULE Store -------------------------------
(***************************************************************************)
(* The log half of the State trait (src/zeroraft/src/state.rs) as the      *)
(* repository's only implementation, MemoryState                           *)
(* (src/zeroraft/tests/fixtures/state.rs), defines it.                     *)
(*                                                                         *)
(* Nothing in the Raft code looks inside a command, so an entry is         *)
(* abstracted to its term and a log is a sequence of terms.                *)
(***************************************************************************)
EXTENDS Naturals, Sequences

CONSTANT
    \* Index under which get_entry finds the oldest entry.  The trait says
    \* "entries start at index 1"; MemoryState::get_entry indexes a Vec, so
    \* there it is 0 although get_last_index still counts from 1.
    FirstEntryIndex

ASSUME FirstEntryIndexAssumption == FirstEntryIndex \in {0, 1}

Log == Seq(Nat)

\* Mutant: the position in the Vec, which underflows for an empty log.
get_last_index_Position(log) == Len(log) - 1

get_last_index(log) == Len(log)

get_last_term(log) == IF log = << >> THEN 0 ELSE log[Len(log)]

\* get_entry(index).is_some(), and the term of the entry it returns.
has_entry(log, index) == index + 1 - FirstEntryIndex \in 1 .. Len(log)
get_entry(log, index) == log[index + 1 - FirstEntryIndex]

\* Vec::truncate: a no-op when the log is already that short.
remove_entries_after(log, index) ==
    IF index < Len(log) THEN SubSeq(log, 1, index) ELSE log

append_entries(log, entries) == log \o entries

=============================================================================
