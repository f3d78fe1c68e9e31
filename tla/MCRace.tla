------------------------------- MODULE MCRace -------------------------------
EXTENDS ResolutionRace

Email(x, y) == [rule |-> "email", a |-> x, b |-> y]
Bridge(x, y) == [rule |-> "bridge", a |-> x, b |-> y]

\* Outlook, LinkedIn and WhatsApp identities.  Two persons of two each; then
\* an exact e-mail brings a LinkedIn identity to the second one, and a contact
\* record joins the two.
MCSettled == Email("o1", "l1") :> "P1" @@ Bridge("o2", "w") :> "P2"
MCMatches == DOMAIN MCSettled \cup {Email("o2", "l2"), Bridge("o1", "w")}
=============================================================================
