---------------------------- MODULE LinkedInInbox ----------------------------
(***************************************************************************)
(* The LinkedIn sync and the triage inbox over one store, which a sync of  *)
(* another channel writes too.                                             *)
(***************************************************************************)
EXTENDS LinkedInSync

CONSTANTS
    Contact, Named, Hidden,
    MailThread     \* threads of the other channel

Texts == {"some", "blank", "spaces", "none"}
Thread == LinkedInThread \cup MailThread

ASSUME ContactAssumption ==
    /\ Named \cup Hidden \subseteq Contact
    /\ Me \notin Contact
    /\ LinkedInThread \cap MailThread = {}
    /\ Kind \subseteq [thread : Thread, from : Contact \cup {Me},
                       to : SUBSET (Contact \cup {Me}), mass : BOOLEAN,
                       text : Texts, automated : BOOLEAN]

VARIABLES last_read_at, panel

inbox == <<last_read_at, panel>>
all == <<vars, inbox>>

Inbox == INSTANCE TriageInbox WITH now <- Len(sent)

(* A message of the other channel is stored, with all its participants.    *)
OtherSync(n) ==
    /\ n \in DOMAIN sent /\ sent[n].thread \in MailThread
    /\ ~Stored(n)
    /\ rows' = rows \cup {Row(n)}
    /\ UNCHANGED <<sent, session, day, glitches, inbox>>

LinkedInStep == Next /\ UNCHANGED inbox
InboxStep == UNCHANGED <<sent, session, day, glitches>> /\ Inbox!Next

SystemInit == Init /\ Inbox!Init
SystemNext ==
    LinkedInStep \/ InboxStep \/ \E n \in DOMAIN sent : OtherSync(n)

System == SystemInit /\ [][SystemNext]_all
FairSystem == System /\ Fairness

RowType == [at : 1..MaxSent, thread : Thread, from : Contact \cup {Me},
            to : SUBSET (Contact \cup {Me}), mass : BOOLEAN, text : Texts,
            automated : BOOLEAN]

TypeOK ==
    /\ sent \in Seq(Kind) /\ Len(sent) <= MaxSent
    /\ rows \subseteq RowType
    /\ \A r, s \in rows : r.at = s.at => r = s
    /\ session \in [at : {"idle", "page", "store"}, item : 0..MaxPages + 1,
                    items : 0..MaxPages, batch : SUBSET (DOMAIN sent),
                    other : BOOLEAN]
    /\ session.at = "store" <=> session.batch # {}
    /\ counted \in 0..MaxPerDay /\ today \in BOOLEAN
    /\ glitches \in 0..MaxGlitches
    /\ last_read_at \in [Thread -> 0..Len(sent)]
    /\ panel.contact \in Contact \cup {Me}
    /\ panel.messages \subseteq panel.stored /\ panel.stored \subseteq DOMAIN sent

(* How many rows each message has: the store's promise, of both channels.  *)
Copies == [n \in 1..MaxSent |-> Cardinality({r \in rows : r.at = n})]
Store == INSTANCE MessageStore
         WITH Message <- 1..MaxSent, sent <- DOMAIN sent, rows <- Copies

(* However often responses are captured again, sessions are killed between *)
(* two messages and the other channel's sync commits in between: a message *)
(* that was sent gets one row at most, and keeps it.                       *)
StoreSpec == Store!Spec

ListedHasText == Inbox!ListedHasText
ArrivalHidesOnlyAutomated == Inbox!ArrivalHidesOnlyAutomated
ReadMeansShown == Inbox!ReadMeansShown

(* What a contact writes on LinkedIn ends up in its conversation, whatever *)
(* sessions were refused, killed, skipped a row because the list was       *)
(* reordered, or took one conversation for another; with no more           *)
(* conversations than a session visits.  Sends are bounded, and never      *)
(* forced: again and again nothing that was sent is missing.               *)
AllShown ==
    \A n \in DOMAIN sent :
      sent[n].thread \in LinkedInThread /\ sent[n].from # Me /\ sent[n].text = "some"
        => \E r \in Inbox!Conversation(sent[n].from) : r.at = n
EventuallyShown == Cardinality(LinkedInThread) <= MaxPages => []<>AllShown
=============================================================================
