--------------------------- MODULE LinkedInProofs ---------------------------
(***************************************************************************)
(* LinkedInInbox, for any conversations, sessions, bounds and kinds of     *)
(* messages: its variables keep their kind, reading a contact marks        *)
(* nothing as read that was not shown, a listed contact stays listed when  *)
(* messages arrive and can be opened, and the syncs implement MessageStore.*)
(***************************************************************************)
EXTENDS LinkedInInbox, TLAPS, SequenceTheorems, FiniteSetTheorems

(* Where a session is; a conversation is being stored only if it was one   *)
(* of those counted.                                                       *)
InSession ==
    /\ session \in [at : {"idle", "page", "store"}, item : 0..MaxPages + 1,
                    items : 0..MaxPages, batch : SUBSET (DOMAIN sent),
                    other : BOOLEAN]
    /\ session.at = "store" <=> session.batch # {}
    /\ session.at = "store" => session.item <= session.items

(* What is sent and what is stored of it.                                  *)
InStore ==
    /\ sent \in Seq(Kind) /\ Len(sent) <= MaxSent
    /\ rows \subseteq [at : DOMAIN sent, thread : Thread, from : Contact \cup {Me},
                       to : SUBSET (Contact \cup {Me}), mass : BOOLEAN,
                       text : Texts, automated : BOOLEAN]
    /\ \A r, s \in rows : r.at = s.at => r = s

Counts ==
    /\ counted \in 0..MaxPerDay /\ today \in BOOLEAN
    /\ glitches \in 0..MaxGlitches

(* The conversation on the screen shows all that the contact took part in  *)
(* and that was stored when it was read.                                   *)
OnScreen ==
    /\ last_read_at \in [Thread -> 0..Len(sent)]
    /\ panel \in [contact : Contact \cup {Me}, messages : SUBSET (DOMAIN sent),
                  stored : SUBSET (DOMAIN sent)]
    /\ panel.messages \subseteq panel.stored
    /\ panel.stored \subseteq {r.at : r \in rows}
    /\ \A r \in rows :
         r.at \in panel.stored /\ panel.contact \in Inbox!Participants(r) /\ r.text = "some"
           => r.at \in panel.messages

(* The inductive invariant.                                                *)
SystemInv == InSession /\ InStore /\ Counts /\ OnScreen

---------------------------------------------------------------------------
(* The initial states satisfy it.                                          *)
LEMMA InitInv == SystemInit => SystemInv
<1> SUFFICES ASSUME SystemInit PROVE SystemInv
  OBVIOUS
<1>1. sent = <<>> /\ rows = {} /\ session = Idle /\ counted = 0 /\ today = FALSE
      /\ glitches = 0 /\ last_read_at = [t \in Thread |-> 0]
      /\ panel = [contact |-> Me, messages |-> {}, stored |-> {}]
  BY DEF SystemInit, Init, Inbox!Init, Inbox!NobodyOpen
<1>2. sent \in Seq(Kind) /\ Len(sent) = 0
  BY <1>1
<1>3. InSession
  BY <1>1, LimitAssumption DEF InSession, Idle
<1>4. InStore
  BY <1>1, <1>2, BoundAssumption DEF InStore
<1>5. Counts
  <2>1. 0 \in 0..MaxPerDay /\ 0 \in 0..MaxGlitches
    BY LimitAssumption, BoundAssumption
  <2>2. today \in BOOLEAN
    BY <1>1
  <2> QED  BY <1>1, <2>1, <2>2 DEF Counts
<1>6. OnScreen
  BY <1>1, <1>2 DEF OnScreen
<1> QED  BY <1>3, <1>4, <1>5, <1>6 DEF SystemInv

(* A session counts at most max_pages_per_session conversations.           *)
LEMMA CountType ==
    ASSUME sent \in Seq(Kind)
    PROVE  _count_conversation_items \in 0..MaxPages
<1>1. DOMAIN sent = 1 .. Len(sent) /\ Len(sent) \in Nat
  BY LenProperties
<1>2. IsFiniteSet(DOMAIN sent)
  BY <1>1, FS_Interval
<1>3. IsFiniteSet({sent[n].thread : n \in DOMAIN sent})
  <2> DEFINE threads == {sent[n].thread : n \in DOMAIN sent}
             of == [n \in DOMAIN sent |-> sent[n].thread]
  <2>1. of \in Surjection(DOMAIN sent, threads)
    BY DEF Surjection
  <2> HIDE DEF threads, of
  <2>2. IsFiniteSet(threads)
    BY <1>2, <2>1, FS_Surjection
  <2> QED  BY <2>2 DEF threads
<1>4. Conversations \subseteq {sent[n].thread : n \in DOMAIN sent}
  BY DEF Conversations, In
<1>5. Cardinality(Conversations) \in Nat
  BY <1>3, <1>4, FS_Subset, FS_CardinalityType
<1> QED  BY <1>5, LimitAssumption DEF _count_conversation_items, Smaller

(* One more message is sent.                                               *)
LEMMA SendKeepsInvariant ==
    ASSUME SystemInv, NEW k \in Kind, Send(k), UNCHANGED inbox
    PROVE  SystemInv'
<1>1. /\ sent' = Append(sent, k) /\ Len(sent) < MaxSent
      /\ UNCHANGED <<rows, session, counted, today, glitches, last_read_at, panel>>
  BY DEF Send, day, inbox
<1>2. /\ sent' \in Seq(Kind) /\ Len(sent') = Len(sent) + 1
      /\ Len(sent) \in Nat
      /\ DOMAIN sent = 1 .. Len(sent) /\ DOMAIN sent' = 1 .. Len(sent')
  BY <1>1, AppendProperties, LenProperties DEF SystemInv, InStore
<1>3. DOMAIN sent \subseteq DOMAIN sent' /\ 0..Len(sent) \subseteq 0..Len(sent')
      /\ Len(sent') <= MaxSent
  BY <1>1, <1>2, BoundAssumption
<1>4. InSession'
  BY <1>1, <1>3 DEF SystemInv, InSession
<1>5. InStore' /\ Counts'
  BY <1>1, <1>2, <1>3 DEF SystemInv, InStore, Counts
<1>6. OnScreen'
  BY <1>1, <1>3 DEF SystemInv, OnScreen, Inbox!Participants
<1> QED  BY <1>4, <1>5, <1>6 DEF SystemInv

(* The session alone.                                                      *)
LEMMA SessionKeepsInvariant ==
    ASSUME SystemInv, UNCHANGED <<sent, rows, inbox>>, InSession', Counts'
    PROVE  SystemInv'
BY DEF SystemInv, InStore, OnScreen, inbox, Inbox!Participants

(* A conversation is taken up for storing, or passed by.                   *)
LEMMA YieldKeepsSession ==
    ASSUME SystemInv, session.at = "page", session.item <= session.items,
           UNCHANGED sent, NEW S \in SUBSET (DOMAIN sent), Yield(S)
    PROVE  InSession'
<1>1. session.item + 1 \in 0..MaxPages + 1
  BY LimitAssumption DEF SystemInv, InSession
<1> QED  BY <1>1 DEF Yield, NextItem, SystemInv, InSession

(* A glitch is one of those that the bound allows.                         *)
LEMMA GlitchType ==
    ASSUME SystemInv, Glitch \/ UNCHANGED glitches, UNCHANGED day
    PROVE  Counts'
BY BoundAssumption DEF Glitch, SystemInv, Counts, day

(* One message more is stored, none under the number of another.           *)
LEMMA InsertKeepsStore ==
    ASSUME SystemInv, NEW n \in DOMAIN sent, rows' = Insert(n), UNCHANGED <<sent, inbox>>
    PROVE  InStore' /\ OnScreen'
<1>1. sent[n] \in Kind
  BY ElementOfSeq, LenProperties DEF SystemInv, InStore
<1>2. Row(n) \in [at : DOMAIN sent, thread : Thread, from : Contact \cup {Me},
                  to : SUBSET (Contact \cup {Me}), mass : BOOLEAN,
                  text : Texts, automated : BOOLEAN]
      /\ Row(n).at = n
  BY <1>1, ContactAssumption DEF Row, Recipients
<1>3. rows \subseteq rows'
      /\ \A r \in rows' \ rows : r = Row(n) /\ \A s \in rows : s.at # n
  BY DEF Insert, Stored
<1>4. InStore'
  BY <1>2, <1>3 DEF SystemInv, InStore
<1>5. \A r \in rows' \ rows : r.at \notin panel.stored
  BY <1>2, <1>3 DEF SystemInv, OnScreen
<1>6. OnScreen'
  BY <1>3, <1>5 DEF SystemInv, OnScreen, inbox, Inbox!Participants
<1> QED  BY <1>4, <1>6

(* The sync of LinkedIn, whatever it is refused and however it ends.       *)
LEMMA SyncKeepsInvariant ==
    ASSUME SystemInv, UNCHANGED inbox, Midnight \/ Sync \/ LateResponse \/ Fail
    PROVE  SystemInv'
<1>1. CASE Midnight
  <2>1. UNCHANGED <<sent, rows, session, counted, glitches>> /\ today' = FALSE
    BY <1>1 DEF Midnight
  <2> QED  BY <2>1, SessionKeepsInvariant DEF SystemInv, InSession, Counts
<1>2. CASE record_session
  <2>1. /\ counted' = CountedToday + 1 /\ today' = TRUE /\ CountedToday < MaxPerDay
        /\ session' = [Idle EXCEPT !.at = "page", !.items = _count_conversation_items,
                                   !.item = 1]
        /\ UNCHANGED <<sent, rows, glitches>>
    BY <1>2 DEF record_session
  <2>2. Counts'
    BY <2>1, LimitAssumption DEF CountedToday, SystemInv, Counts
  <2>3. _count_conversation_items \in 0..MaxPages
    BY CountType DEF SystemInv, InStore
  <2>4. session' = [at |-> "page", item |-> 1, items |-> _count_conversation_items,
                    batch |-> {}, other |-> FALSE]
    BY <2>1 DEF Idle
  <2>5. 1 \in 0..MaxPages + 1
    BY LimitAssumption
  <2>6. InSession'
    BY <2>3, <2>4, <2>5 DEF InSession
  <2> QED  BY <2>1, <2>2, <2>6, SessionKeepsInvariant
<1>3. CASE OpenItem
  <2>1. PICK S \in SUBSET TextIn(ItemAt(session.item)) :
          (Glitch \/ UNCHANGED glitches) /\ Yield(S)
    BY <1>3 DEF OpenItem
  <2>2. /\ session.at = "page" /\ session.item <= session.items
        /\ UNCHANGED <<sent, rows, day>>
    BY <1>3 DEF OpenItem
  <2>3. S \in SUBSET (DOMAIN sent)
    BY DEF TextIn, In
  <2>4. InSession' /\ Counts'
    BY <2>1, <2>2, <2>3, YieldKeepsSession, GlitchType
  <2> QED  BY <2>2, <2>4, SessionKeepsInvariant
<1>4. CASE LateResponse
  <2>1. PICK t \in Conversations : \E S \in SUBSET TextIn(t) : Yield(S)
    BY <1>4 DEF LateResponse
  <2>2. PICK S \in SUBSET TextIn(t) : Yield(S)
    BY <2>1
  <2>3. /\ session.at = "page" /\ session.item <= session.items /\ Glitch
        /\ UNCHANGED <<sent, rows, day>>
    BY <1>4 DEF LateResponse
  <2>4. S \in SUBSET (DOMAIN sent)
    BY DEF TextIn, In
  <2>5. InSession' /\ Counts'
    BY <2>2, <2>3, <2>4, YieldKeepsSession, GlitchType
  <2> QED  BY <2>3, <2>5, SessionKeepsInvariant
<1>5. ASSUME NEW n \in 1..MaxSent, upsert(n) PROVE SystemInv'
  <2>1. /\ session.at = "store" /\ n \in session.batch /\ rows' = Insert(n)
        /\ session' = IF session.batch = {n} THEN NextItem
                      ELSE [session EXCEPT !.batch = @ \ {n}]
        /\ UNCHANGED <<sent, counted, today, glitches>>
    BY <1>5 DEF upsert, day
  <2>2. n \in DOMAIN sent
    BY <2>1 DEF SystemInv, InSession
  <2>3. InStore' /\ OnScreen'
    BY <2>1, <2>2, InsertKeepsStore
  <2>4. session.item + 1 \in 0..MaxPages + 1
    BY <2>1, LimitAssumption DEF SystemInv, InSession
  <2>5. InSession'
    BY <2>1, <2>4 DEF NextItem, SystemInv, InSession
  <2> QED  BY <2>1, <2>3, <2>5 DEF SystemInv, Counts
<1>6. CASE EndSession \/ Fail
  <2>1. /\ session' = Idle /\ UNCHANGED <<sent, rows, day>>
        /\ (Glitch \/ UNCHANGED glitches)
    BY <1>6 DEF EndSession, Fail
  <2>2. InSession'
    BY <2>1, LimitAssumption DEF InSession, Idle
  <2> QED  BY <2>1, <2>2, GlitchType, SessionKeepsInvariant
<1> QED  BY <1>1, <1>2, <1>3, <1>4, <1>5, <1>6 DEF Sync

(* The inbox: a conversation is read from the store as it is now.          *)
LEMMA InboxKeepsInvariant ==
    ASSUME SystemInv, InboxStep
    PROVE  SystemInv'
<1>0. UNCHANGED <<sent, session, counted, today, glitches>>
  BY DEF InboxStep, day
<1>1. ASSUME NEW c \in Contact, Inbox!get_detail(c) PROVE SystemInv'
  <2>1. /\ panel' = [contact |-> c, messages |-> {r.at : r \in Inbox!Conversation(c)},
                     stored |-> {r.at : r \in rows}]
        /\ UNCHANGED <<rows, last_read_at>>
    BY <1>1 DEF Inbox!get_detail
  <2>2. \A r \in rows : r.at \in DOMAIN sent
    BY DEF SystemInv, InStore
  <2>3. Inbox!Conversation(c) \subseteq rows
        /\ \A r \in rows : c \in Inbox!Participants(r) /\ r.text = "some"
                             => r \in Inbox!Conversation(c)
    BY DEF Inbox!Conversation, Inbox!RowsOf
  <2>4. OnScreen'
    BY <1>0, <2>1, <2>2, <2>3 DEF SystemInv, OnScreen, Inbox!Participants
  <2> QED  BY <1>0, <2>1, <2>4 DEF SystemInv, InSession, InStore, Counts
<1>2. CASE Inbox!mark_read
  <2>1. /\ last_read_at' = [t \in Thread |->
              IF t \in Inbox!ThreadsOf(panel.contact) THEN Len(sent) ELSE last_read_at[t]]
        /\ panel' = [contact |-> Me, messages |-> {}, stored |-> {}]
        /\ rows' = rows
    BY <1>2 DEF Inbox!mark_read, Inbox!NobodyOpen
  <2>2. Len(sent) \in 0..Len(sent)
    BY LenProperties DEF SystemInv, InStore
  <2>3. OnScreen'
    BY <1>0, <2>1, <2>2 DEF SystemInv, OnScreen
  <2> QED  BY <1>0, <2>1, <2>3 DEF SystemInv, InSession, InStore, Counts
<1> QED  BY <1>1, <1>2 DEF InboxStep, Inbox!Next

(* The invariant is inductive.                                             *)
LEMMA NextInv == SystemInv /\ [SystemNext]_all => SystemInv'
<1> SUFFICES ASSUME SystemInv, [SystemNext]_all PROVE SystemInv'
  OBVIOUS
<1>1. ASSUME NEW n \in DOMAIN sent, OtherSync(n) PROVE SystemInv'
  <2>1. /\ rows' = Insert(n)
        /\ UNCHANGED <<sent, session, counted, today, glitches, inbox>>
    BY <1>1 DEF OtherSync, Insert, day
  <2> QED  BY <2>1, InsertKeepsStore DEF SystemInv, InSession, Counts
<1>2. CASE UNCHANGED all
  BY <1>2 DEF all, vars, day, inbox, SystemInv, InSession, InStore, Counts, OnScreen,
              Inbox!Participants
<1>3. CASE LinkedInStep
  BY <1>3, SendKeepsInvariant, SyncKeepsInvariant DEF LinkedInStep, Next
<1> QED  BY <1>1, <1>2, <1>3, InboxKeepsInvariant DEF SystemNext

---------------------------------------------------------------------------
(* Every variable keeps its kind: a session visits no more conversations,  *)
(* and a day has no more sessions, than the settings allow.                *)
THEOREM TypeCorrect == System => []TypeOK
<1>1. SystemInv => TypeOK
  <2> SUFFICES ASSUME SystemInv PROVE TypeOK
    OBVIOUS
  <2>1. DOMAIN sent \subseteq 1..MaxSent
    BY LenProperties, BoundAssumption DEF SystemInv, InStore
  <2>2. rows \subseteq RowType
    BY <2>1 DEF SystemInv, InStore, RowType
  <2> QED  BY <2>2 DEF TypeOK, SystemInv, InSession, InStore, Counts, OnScreen
<1> QED  BY <1>1, InitInv, NextInv, PTL DEF System

(* Whatever is stored between reading a conversation and marking it read:  *)
(* what stops being unread was shown, had no text, was stored too late for *)
(* it, or is somebody else's in a thread they share. (get_detail and       *)
(* mark_read of inbox_query.py.)                                           *)
THEOREM ReadWasShown == System => ReadMeansShown
<1> DEFINE Shown(r) == \/ r.at \in panel.messages
                       \/ r.text # "some"
                       \/ r.at \notin panel.stored
                       \/ panel.contact \notin Inbox!Participants(r)
                            /\ \E s \in Inbox!RowsOf(panel.contact) : s.thread = r.thread
<1>1. SystemInv /\ [SystemNext]_all =>
        [last_read_at # last_read_at' =>
           \A r \in rows : Inbox!IsUnread(r) /\ ~Inbox!IsUnread(r)' => Shown(r)]_last_read_at
  <2> SUFFICES ASSUME SystemInv, SystemNext, last_read_at # last_read_at',
                      NEW r \in rows, Inbox!IsUnread(r), ~Inbox!IsUnread(r)'
               PROVE  Shown(r)
    BY DEF all, inbox
  <2>1. Inbox!mark_read
    BY DEF SystemNext, LinkedInStep, OtherSync, InboxStep, inbox, Inbox!Next,
           Inbox!get_detail
  <2>2. last_read_at' = [t \in Thread |->
          IF t \in Inbox!ThreadsOf(panel.contact) THEN Len(sent) ELSE last_read_at[t]]
    BY <2>1 DEF Inbox!mark_read
  <2>3. r.thread \in Thread
    BY DEF SystemInv, InStore
  <2>4. r.thread \in Inbox!ThreadsOf(panel.contact)
    BY <2>2, <2>3 DEF Inbox!IsUnread, Inbox!Inbound
  <2>5. \E s \in Inbox!RowsOf(panel.contact) : s.thread = r.thread
    BY <2>4 DEF Inbox!ThreadsOf
  <2> QED  BY <2>5 DEF SystemInv, OnScreen
<1> QED  BY <1>1, InitInv, NextInv, PTL
         DEF System, ReadMeansShown, Inbox!ReadMeansShown

(* No step takes a message out of the store.                               *)
LEMMA StoreGrows == [SystemNext]_all => rows \subseteq rows'
BY DEF SystemNext, LinkedInStep, InboxStep, OtherSync, Next, Send, Midnight, Sync,
       LateResponse, Fail, record_session, OpenItem, upsert, Insert, EndSession,
       Inbox!Next, Inbox!get_detail, Inbox!mark_read, all, vars

(* What arrives takes nothing away: of the contact's messages those that   *)
(* were stored are still there, and still the ones they were.              *)
LEMMA ArrivalKeeps ==
    ASSUME rows \subseteq rows', NEW c
    PROVE  Inbox!RowsOf(c) \subseteq Inbox!RowsOf(c)'
BY DEF Inbox!RowsOf, Inbox!Participants

(* Arrivals make a contact clutter only by the newest message: no contact  *)
(* comes to have a single message, only old ones, or mass mail alone.      *)
LEMMA ArrivalMakesNoClutter ==
    ASSUME rows \subseteq rows', NEW c \in Contact, NEW year_ago \in Nat,
           Inbox!RowsOf(c) # {}, ~Inbox!Clutter(c, year_ago), Inbox!Clutter(c, year_ago)'
    PROVE  \E r \in Inbox!RowsOf(c)' :
              r.automated /\ Inbox!Newest(r, Inbox!RowsOf(c)')
<1>1. Inbox!RowsOf(c) \subseteq Inbox!RowsOf(c)'
  BY ArrivalKeeps
<1>2. ASSUME c \notin Named, NEW r, Inbox!RowsOf(c)' = {r} PROVE FALSE
  <2>1. Inbox!RowsOf(c) = {r} /\ r \in rows
    BY <1>1, <1>2 DEF Inbox!RowsOf
  <2> QED  BY <1>2, <2>1 DEF Inbox!Clutter
<1>3. ASSUME c \notin Named, \A r \in Inbox!RowsOf(c)' : r.at <= year_ago PROVE FALSE
  BY <1>1, <1>3 DEF Inbox!Clutter
<1>4. ASSUME Inbox!MassMailOnly(c)' PROVE FALSE
  BY <1>1, <1>4 DEF Inbox!Clutter, Inbox!MassMailOnly
<1> QED  BY <1>2, <1>3, <1>4 DEF Inbox!Clutter

(* A contact that is listed stays listed when messages arrive, on whatever *)
(* channel, unless the newest of its messages has been flagged as          *)
(* automated.  (list_conversations of inbox_query.py.)                     *)
THEOREM ArrivalsKeepListed == System => ArrivalHidesOnlyAutomated
<1> DEFINE Flagged(c) == \E r \in Inbox!RowsOf(c)' :
                           r.automated /\ Inbox!Newest(r, Inbox!RowsOf(c)')
           Leaves(c, h, year_ago) == /\ c \in Inbox!list_conversations(h, year_ago)
                                     /\ c \notin Inbox!list_conversations(h, year_ago)'
<1>1. [SystemNext]_all =>
        [rows # rows' =>
           \A c \in Contact, h \in BOOLEAN, year_ago \in 0..Len(sent) :
             Leaves(c, h, year_ago) => Flagged(c)]_rows
  <2> SUFFICES ASSUME [SystemNext]_all, rows \subseteq rows', NEW c \in Contact,
                      NEW h \in BOOLEAN, NEW year_ago \in 0..Len(sent),
                      Leaves(c, h, year_ago)
               PROVE  Flagged(c)
    BY StoreGrows
  <2>1. /\ Inbox!RowsOf(c) # {} /\ ~Inbox!Clutter(c, year_ago) /\ Inbox!HasText(c)
        /\ (c \in Hidden) = h
    BY DEF Inbox!list_conversations
  <2>2. Inbox!RowsOf(c)' # {} /\ Inbox!HasText(c)'
    BY <2>1, ArrivalKeeps DEF Inbox!HasText
  <2>3. Inbox!Clutter(c, year_ago)'
    BY <2>1, <2>2 DEF Inbox!list_conversations
  <2> QED  BY <2>1, <2>3, ArrivalMakesNoClutter
<1> QED  BY <1>1, PTL
         DEF System, ArrivalHidesOnlyAutomated, Inbox!ArrivalHidesOnlyAutomated

(* A listed contact has something to open, whatever is stored and however  *)
(* old it is, but for a message of line breaks alone, on which the filter  *)
(* of the list and the query of the conversation disagree.                 *)
THEOREM ListedCanBeOpened == System => []ListedHasText
<1>1. SystemInv => ListedHasText
  <2> SUFFICES ASSUME SystemInv, NEW c \in Contact, NEW h \in BOOLEAN,
                      c \in Inbox!list_conversations(h, 0), Inbox!Conversation(c) = {}
               PROVE  \E r \in Inbox!RowsOf(c) : r.text = "blank"
    BY DEF ListedHasText, Inbox!ListedHasText
  <2>1. PICK r \in Inbox!RowsOf(c) : r.text \in {"some", "blank"}
    BY DEF Inbox!list_conversations, Inbox!HasText
  <2>2. r.text # "some"
    BY DEF Inbox!Conversation
  <2> QED  BY <2>1, <2>2
<1> QED  BY <1>1, InitInv, NextInv, PTL DEF System

---------------------------------------------------------------------------
(* A message has one row if it is stored and none if it is not.            *)
OneCopy == Copies = [n \in 1..MaxSent |-> IF Stored(n) THEN 1 ELSE 0]

LEMMA CopiesCount == SystemInv => OneCopy
<1> SUFFICES ASSUME SystemInv, NEW n \in 1..MaxSent
             PROVE  Cardinality({r \in rows : r.at = n}) = IF Stored(n) THEN 1 ELSE 0
  BY DEF Copies, OneCopy
<1>1. CASE Stored(n)
  <2>1. PICK r \in rows : r.at = n
    BY <1>1 DEF Stored
  <2>2. {s \in rows : s.at = n} = {r}
    BY <2>1 DEF SystemInv, InStore
  <2> QED  BY <1>1, <2>2, FS_Singleton
<1>2. CASE ~Stored(n)
  <2>1. {r \in rows : r.at = n} = {}
    BY <1>2 DEF Stored
  <2> QED  BY <1>2, <2>1, FS_EmptySet
<1> QED  BY <1>1, <1>2

(* Storing a message of those sent is a transaction of the store, empty if *)
(* the message is there already.                                           *)
LEMMA InsertRecords ==
    ASSUME SystemInv, SystemInv', NEW n \in DOMAIN sent, rows' = Insert(n),
           UNCHANGED sent
    PROVE  Store!Record
<1> DEFINE S == IF Stored(n) THEN {} ELSE {n}
<1>1. DOMAIN sent \subseteq 1..MaxSent
  BY LenProperties, BoundAssumption DEF SystemInv, InStore
<1>2. Copies = [m \in 1..MaxSent |-> IF Stored(m) THEN 1 ELSE 0]
  BY CopiesCount DEF OneCopy
<1>3. Copies' = [m \in 1..MaxSent |-> IF Stored(m)' THEN 1 ELSE 0]
  <2>1. OneCopy'
    BY CopiesCount, PTL
  <2> QED  BY <2>1 DEF OneCopy
<1>4. Row(n).at = n
  BY DEF Row
<1>5. \A m : Stored(m)' <=> Stored(m) \/ m = n
  BY <1>4 DEF Stored, Insert
<1>6. Copies' = [m \in 1..MaxSent |-> IF m \in S THEN 1 ELSE Copies[m]]
  BY <1>2, <1>3, <1>5
<1>7. S \in SUBSET {m \in DOMAIN sent : Copies[m] = 0}
  BY <1>1, <1>2
<1> HIDE DEF S
<1> QED  BY <1>6, <1>7 DEF Store!Record

(* What neither sends nor stores is no step of the store.                  *)
LEMMA NoCopy ==
    ASSUME UNCHANGED <<sent, rows>>
    PROVE  UNCHANGED <<DOMAIN sent, Copies>>
BY DEF Copies

(* Both syncs implement the store: however often responses are captured    *)
(* again, wherever a session is killed, and whatever the other channel's   *)
(* sync commits in between, a message that was sent gets one row at most   *)
(* and keeps it. (upsert of store_writer.py.)                              *)
THEOREM StoreImplemented == System => StoreSpec
<1>1. SystemInit => Store!Init
  <2> SUFFICES ASSUME SystemInit PROVE Store!Init
    OBVIOUS
  <2>1. SystemInv /\ sent = <<>> /\ rows = {}
    BY InitInv DEF SystemInit, Init
  <2>2. Copies = [n \in 1..MaxSent |-> 0]
    BY <2>1, CopiesCount DEF OneCopy, Stored
  <2>3. DOMAIN sent = {}
    BY <2>1
  <2> QED  BY <2>2, <2>3 DEF Store!Init
<1>2. SystemInv /\ SystemInv' /\ [SystemNext]_all
        => [Store!Next]_<<DOMAIN sent, Copies>>
  <2> SUFFICES ASSUME SystemInv, SystemInv', [SystemNext]_all
               PROVE  Store!Next \/ UNCHANGED <<DOMAIN sent, Copies>>
    OBVIOUS
  <2>1. ASSUME NEW k \in Kind, Send(k) PROVE Store!Send
    <3>1. /\ sent' = Append(sent, k) /\ rows' = rows
          /\ sent \in Seq(Kind) /\ Len(sent) < MaxSent
      BY <2>1 DEF Send, SystemInv, InStore
    <3>2. /\ Len(sent) \in Nat /\ DOMAIN sent = 1..Len(sent)
          /\ DOMAIN sent' = 1..Len(sent) + 1
      BY <3>1, AppendProperties, LenProperties
    <3>3. DOMAIN sent' = DOMAIN sent \cup {Len(sent) + 1}
      BY <3>2
    <3>4. Len(sent) + 1 \in 1..MaxSent
      BY <3>1, <3>2, BoundAssumption
    <3>5. Copies' = Copies
      BY <3>1 DEF Copies
    <3> QED  BY <3>3, <3>4, <3>5 DEF Store!Send
  <2>2. ASSUME NEW n \in 1..MaxSent, upsert(n) PROVE Store!Record
    <3>1. n \in DOMAIN sent
      BY <2>2 DEF upsert, SystemInv, InSession
    <3> QED  BY <2>2, <3>1, InsertRecords DEF upsert
  <2>3. ASSUME NEW n \in DOMAIN sent, OtherSync(n) PROVE Store!Record
    BY <2>3, InsertRecords DEF OtherSync, Insert
  <2>4. CASE \/ Midnight \/ record_session \/ OpenItem \/ EndSession \/ LateResponse
             \/ Fail \/ InboxStep \/ UNCHANGED all
    <3>1. UNCHANGED <<sent, rows>>
      BY <2>4 DEF Midnight, record_session, OpenItem, EndSession, LateResponse, Fail,
                  InboxStep, Inbox!Next, Inbox!get_detail, Inbox!mark_read, all, vars
    <3> QED  BY <3>1, NoCopy
  <2> QED  BY <2>1, <2>2, <2>3, <2>4
           DEF SystemNext, LinkedInStep, Next, Sync, Store!Next
<1> QED  BY <1>1, <1>2, InitInv, NextInv, PTL
         DEF System, StoreSpec, Store!Spec
=============================================================================
