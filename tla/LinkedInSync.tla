---------------------------- MODULE LinkedInSync ----------------------------
(***************************************************************************)
(* The live LinkedIn sync (adapters/linkedin/sync.py, client.py,           *)
(* session_limit.py): a browser session that a schedule starts a few times *)
(* a day opens the conversations of the messaging page one after the       *)
(* other, listens to the responses that the page gets, and stores what     *)
(* they carry, one message per transaction.                                *)
(*                                                                         *)
(* The n-th message of all channels is sent at time n.  A conversation     *)
(* whose messages scrolling does not reach to the top is left out.         *)
(***************************************************************************)
EXTENDS Naturals, Sequences, FiniteSets

CONSTANTS
    Me,
    Kind,            \* what a message can be like, on any channel
    LinkedInThread,
    MaxPages,        \* max_pages_per_session
    MaxPerDay,       \* max_sessions_per_day
    MaxSent,         \* bound: messages sent, on all channels together
    MaxGlitches      \* bound: kills and responses that come late or never

ASSUME LimitAssumption ==
    MaxPages \in Nat \ {0} /\ MaxPerDay \in Nat \ {0}
ASSUME BoundAssumption == MaxSent \in Nat /\ MaxGlitches \in Nat
(* LinkedIn messages have one sender and, as far as the store is told, one *)
(* recipient; they are not flagged and not addressed to many.              *)
ASSUME KindAssumption ==
    \A k \in Kind : k.thread \in LinkedInThread =>
      ~k.mass /\ ~k.automated /\ (k.from # Me => k.to = {Me})

VARIABLES
    sent,      \* the messages sent so far, oldest first
    rows,      \* stored messages with their participants
    session,   \* the browser session
    counted,   \* .session_count.json: sessions under its date
    today,     \* whether that date is today's
    glitches   \* so far

vars == <<sent, rows, session, counted, today, glitches>>
day == <<counted, today>>

Idle == [at |-> "idle", item |-> 0, items |-> 0, batch |-> {}, other |-> FALSE]

Init ==
    /\ sent = <<>>
    /\ rows = {}
    /\ session = Idle
    /\ counted = 0 /\ today = FALSE
    /\ glitches = 0

Send(k) ==
    /\ Len(sent) < MaxSent
    /\ sent' = Append(sent, k)
    /\ UNCHANGED <<rows, session, day, glitches>>

Midnight ==
    /\ today
    /\ today' = FALSE
    /\ UNCHANGED <<sent, rows, session, counted, glitches>>

Glitch == glitches < MaxGlitches /\ glitches' = glitches + 1

---------------------------------------------------------------------------
(* The page: conversations by their last message, newest first.            *)

In(t) == {n \in DOMAIN sent : sent[n].thread = t}
Conversations == {t \in LinkedInThread : In(t) # {}}
NewerThan(t) == {u \in Conversations : \E n \in In(u) : \A m \in In(t) : m < n}
ItemAt(i) == CHOOSE t \in Conversations : Cardinality(NewerThan(t)) = i - 1

Smaller(m, n) == IF m <= n THEN m ELSE n
(* Mutation: those rendered before any scrolling.                          *)
RenderedItems == Smaller(Cardinality(Conversations), 1)
_count_conversation_items == Smaller(Cardinality(Conversations), MaxPages)

(* _extract_messages drops what has no text; spaces are text to it.        *)
TextIn(t) == {n \in In(t) : sent[n].text # "none"}

(* Scrolling up loads older messages, until nothing new comes in time.     *)
Suffix(S, T) == S \subseteq T /\ \A m \in S, n \in T : n > m => n \in S

---------------------------------------------------------------------------
CountedToday == IF today THEN counted ELSE 0

record_session ==
    /\ session.at = "idle"
    /\ CountedToday < MaxPerDay
    /\ counted' = CountedToday + 1
    /\ today' = TRUE
    /\ session' = [Idle EXCEPT !.at = "page", !.items = _count_conversation_items,
                               !.item = 1]
    /\ UNCHANGED <<sent, rows, glitches>>

NextItem == [session EXCEPT !.at = "page", !.item = @ + 1, !.batch = {},
                            !.other = FALSE]

(* What goes to the store once a conversation has been scrolled through:   *)
(* an own message names no recipient, and gets the sender of any message   *)
(* captured with it that is not one's own.                                 *)
Yield(captured) ==
    session' = IF captured = {} THEN NextItem
               ELSE [session EXCEPT !.at = "store", !.batch = captured,
                        !.other = \E n \in captured : sent[n].from # Me]

(* The row at the session's position is clicked.  Its position may have    *)
(* been another conversation's when the rows were counted.                 *)
OpenItem ==
    /\ session.at = "page" /\ session.item <= session.items
    /\ \E captured \in SUBSET TextIn(ItemAt(session.item)) :
         /\ Suffix(captured, TextIn(ItemAt(session.item)))
         /\ IF captured = TextIn(ItemAt(session.item))
            THEN UNCHANGED glitches ELSE Glitch
         /\ Yield(captured)
    /\ UNCHANGED <<sent, rows, day>>

(* A response for a conversation opened before comes in first: its         *)
(* conversation is taken for the open one, and the others' messages are    *)
(* filtered out.                                                           *)
LateResponse ==
    /\ session.at = "page" /\ 1 < session.item /\ session.item <= session.items
    /\ Glitch
    /\ \E t \in Conversations : \E captured \in SUBSET TextIn(t) :
         t # ItemAt(session.item) /\ captured # {} /\ Yield(captured)
    /\ UNCHANGED <<sent, rows, day>>

Recipients(n) ==
    IF sent[n].from # Me \/ session.other THEN sent[n].to ELSE {}
Row(n) == [at |-> n, thread |-> sent[n].thread, from |-> sent[n].from,
           to |-> Recipients(n), mass |-> sent[n].mass,
           text |-> sent[n].text, automated |-> sent[n].automated]
Stored(n) == \E r \in rows : r.at = n

(* Mutation: on conflict the participants are written again.               *)
InsertAgain(n) == rows \cup {Row(n)}
(* A message that is there keeps its row and its participants.             *)
Insert(n) == IF Stored(n) THEN rows ELSE rows \cup {Row(n)}

(* upsert and commit, one message at a time, in the order of the responses. *)
upsert(n) ==
    /\ session.at = "store" /\ n \in session.batch
    /\ rows' = Insert(n)
    /\ session' = IF session.batch = {n} THEN NextItem
                  ELSE [session EXCEPT !.batch = @ \ {n}]
    /\ UNCHANGED <<sent, day, glitches>>

EndSession ==
    /\ session.at = "page" /\ session.item > session.items
    /\ session' = Idle
    /\ UNCHANGED <<sent, rows, day, glitches>>

(* Killed, or an exception: what has been committed stays.                 *)
Fail ==
    /\ session.at # "idle"
    /\ Glitch
    /\ session' = Idle
    /\ UNCHANGED <<sent, rows, day>>

Sync == record_session \/ OpenItem \/ EndSession \/ \E n \in 1..MaxSent : upsert(n)

Next ==
    \/ \E k \in Kind : Send(k)
    \/ Midnight \/ Sync \/ LateResponse \/ Fail

Spec == Init /\ [][Next]_vars
(* The schedule goes on, and so do the days.                               *)
Fairness == WF_vars(Sync) /\ WF_vars(Midnight)
=============================================================================
