---------------------------- MODULE MessageStore ----------------------------
(***************************************************************************)
(* What the store promises of the messages of a channel, whichever adapter *)
(* brings them: store_writer.upsert inserts a message with "on conflict do *)
(* nothing" on (channel, external_id), so that a message that the channel  *)
(* has gets a row at most once, however often it is handed over, and keeps *)
(* it.                                                                     *)
(***************************************************************************)
EXTENDS Naturals

CONSTANT Message  \* the external ids of one channel

VARIABLES
  sent,  \* the messages that the channel has
  rows   \* table message: how many committed rows each external id has

Init ==
  /\ sent \in SUBSET Message
  /\ rows \in [Message -> {0, 1}]
  /\ \A m \in Message : rows[m] = 1 => m \in sent

Send == \E m \in Message : sent' = sent \cup {m} /\ UNCHANGED rows

\* A transaction commits: the messages it inserted get their row.
Record ==
  \E S \in SUBSET {m \in sent : rows[m] = 0} :
    /\ rows' = [m \in Message |-> IF m \in S THEN 1 ELSE rows[m]]
    /\ UNCHANGED sent

Next == Send \/ Record

Spec == Init /\ [][Next]_<<sent, rows>>
=============================================================================
