----------------------------- MODULE TriageInbox -----------------------------
(***************************************************************************)
(* The triage inbox (adapters/inbox_query.py): which contacts are listed,  *)
(* what a conversation shows, and what reading it does.  The rows are      *)
(* written by the syncs of the channels, at any time.                      *)
(*                                                                         *)
(* Time is the number of messages sent so far on all channels: the n-th    *)
(* message is sent at time n, and now is the number of the last one.  The  *)
(* text of a message is some, none, spaces alone, or blank: nothing but    *)
(* line breaks and the like.                                               *)
(***************************************************************************)
EXTENDS Naturals

CONSTANTS
    Contact,     \* contact keys; each contact has one identity here
    Named,       \* those with a display name
    Hidden,      \* those in contact_hidden (see IdentityMerge)
    Me,          \* the operator, is_self
    Thread

VARIABLES
    rows,         \* stored messages with their participants
    now,
    last_read_at, \* of every thread; 0 when null
    panel         \* the conversation on the screen: whose it is, the
                  \* messages it shows and those that were stored by then

NobodyOpen == [contact |-> Me, messages |-> {}, stored |-> {}]

(* The contacts of a message: its rows of message_participant.             *)
Participants(r) == ({r.from} \cup r.to) \ {Me}
RowsOf(c) == {r \in rows : c \in Participants(r)}
Inbound(r) == r.from # Me
Newest(r, S) == \A s \in S : s.at <= r.at

IsUnread(r) == Inbound(r) /\ r.at > last_read_at[r.thread]

(* Mutation: one mass mail is enough.                                      *)
SomeMassMail(c) == \E r \in RowsOf(c) : r.mass
(* Sender of nothing, recipient of mass mail alone.                        *)
MassMailOnly(c) ==
    \A r \in RowsOf(c) : r.from # c /\ (c \in r.to => r.mass)

(* Messages up to `year_ago` are more than a year old.                     *)
Clutter(c, year_ago) ==
    \/ c \notin Named /\ \/ \E r \in rows : RowsOf(c) = {r}
                         \/ \A r \in RowsOf(c) : r.at <= year_ago
    \/ \E r \in RowsOf(c) : Newest(r, RowsOf(c)) /\ r.automated
    \/ MassMailOnly(c)

(* Mutation: the list before 2026-09-18, which did not look at bodies.     *)
AnyMessage(c) == TRUE
\* trim takes off spaces, but neither line breaks nor tabs.
HasText(c) == \E r \in RowsOf(c) : r.text \in {"some", "blank"}

list_conversations(show_hidden, year_ago) ==
    {c \in Contact : RowsOf(c) # {} /\ ~Clutter(c, year_ago) /\ HasText(c)
                     /\ (c \in Hidden) = show_hidden}

(* Every message the contact takes part in, whoever wrote it; strip takes  *)
(* off line breaks too.                                                    *)
Conversation(c) == {r \in RowsOf(c) : r.text = "some"}

Init ==
    /\ last_read_at = [t \in Thread |-> 0]
    /\ panel = NobodyOpen

(* The list on the screen may be an old one.                               *)
get_detail(c) ==
    /\ RowsOf(c) # {}
    /\ panel = NobodyOpen
    /\ panel' = [contact |-> c, messages |-> {r.at : r \in Conversation(c)},
                 stored |-> {r.at : r \in rows}]
    /\ UNCHANGED <<rows, now, last_read_at>>

(* Mutation: every thread is marked.                                       *)
AllThreads(c) == Thread
ThreadsOf(c) == {r.thread : r \in RowsOf(c)}

(* The page posts it after it has drawn the conversation.                  *)
mark_read ==
    /\ panel # NobodyOpen
    /\ last_read_at' = [t \in Thread |->
          IF t \in ThreadsOf(panel.contact) THEN now ELSE last_read_at[t]]
    /\ panel' = NobodyOpen
    /\ UNCHANGED <<rows, now>>

Next == mark_read \/ \E c \in Contact : get_detail(c)

---------------------------------------------------------------------------
(* A listed contact has something to open, unless a message of line breaks *)
(* alone is all its text: the list takes it for text, the conversation     *)
(* drops it.                                                               *)
ListedHasText ==
    \A c \in Contact, h \in BOOLEAN :
      c \in list_conversations(h, 0) /\ Conversation(c) = {} =>
        \E r \in RowsOf(c) : r.text = "blank"

(* What a sync stores never hides a listed contact, unless the newest of   *)
(* its messages has been flagged as automated.                             *)
ArrivalHidesOnlyAutomated ==
    [][rows # rows' =>
       \A c \in Contact, h \in BOOLEAN, year_ago \in 0..now :
         /\ c \in list_conversations(h, year_ago)
         /\ c \notin list_conversations(h, year_ago)'
         => \E r \in RowsOf(c)' : r.automated /\ Newest(r, RowsOf(c)')]_rows

(* A message that stops being unread was on the screen, but for a message  *)
(* without text, one that was stored after the conversation had been read  *)
(* from the store, and one of somebody else in a thread the contact        *)
(* shares: threads are marked, messages are shown.                         *)
ReadMeansShown ==
    [][last_read_at # last_read_at' =>
       \A r \in rows :
         IsUnread(r) /\ ~IsUnread(r)' =>
           \/ r.at \in panel.messages
           \/ r.text # "some"
           \/ r.at \notin panel.stored
           \/ panel.contact \notin Participants(r)
                /\ \E s \in RowsOf(panel.contact) : s.thread = r.thread]_last_read_at
=============================================================================
