----------------------------- MODULE MCWhatsApp -----------------------------
(***************************************************************************)
(* WhatsAppQueue for TLC.                                                  *)
(***************************************************************************)
EXTENDS WhatsAppQueue, TLC

Alike == Permutations(Message \ (Group \cup Malformed)) \cup Permutations(Runner)
=============================================================================
