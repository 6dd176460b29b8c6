----------------------------- MODULE MCEntryDesk -----------------------------
(* Two entries whose random ids sort against their age. *)
EXTENDS EntryDeskProps, TLC

YoungestFirst == [e \in Entries |-> MaxEntries + 1 - e]
DeskSymmetry  == Permutations(Nonces) \cup Permutations(Requests)
=============================================================================
