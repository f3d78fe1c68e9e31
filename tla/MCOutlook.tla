----------------------------- MODULE MCOutlook -----------------------------
(***************************************************************************)
(* OutlookSync for TLC. Without liveness, the messages are interchangeable.*)
(***************************************************************************)
EXTENDS OutlookSync, TLC

Alike == Permutations(Message \ NoId)
=============================================================================
