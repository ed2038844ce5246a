----------------------------- MODULE MCMessenger -----------------------------
(***************************************************************************)
(* Messenger for TLC's run over faults: no action tells the entries of one *)
(* kind apart, so states that differ by a permutation of them are one.     *)
(***************************************************************************)
EXTENDS Messenger, TLC

EntrySymmetry ==
  Permutations(Task) \cup Permutations(HabitEntry) \cup Permutations(Event)
=============================================================================
