----------------------------- MODULE MCLinkedIn -----------------------------
(***************************************************************************)
(* LinkedInInbox for TLC.                                                  *)
(***************************************************************************)
EXTENDS LinkedInInbox

Message(thread, from, to, flags) ==
    [thread |-> thread, from |-> from, to |-> to, mass |-> "mass" \in flags,
     text |-> IF flags \cap Texts = {} THEN "some"
              ELSE CHOOSE text \in Texts : text \in flags,
     automated |-> "automated" \in flags]

Kinds ==
    {Message("la", "alice", {"me"}, {}), Message("la", "me", {"alice"}, {}),
     Message("lb", "bob", {"me"}, {}), Message("lb", "bob", {"me"}, {"spaces"}),
     Message("lb", "bob", {"me"}, {"none"}),
     Message("mail", "bob", {"me"}, {"mass", "blank"}),
     Message("mail", "alice", {"me"}, {"automated"})}
=============================================================================
