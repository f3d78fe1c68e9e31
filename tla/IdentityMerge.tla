--------------------------- MODULE IdentityMerge ---------------------------
(***************************************************************************)
(* Identity resolution over the store: merge, undo, review, the contact    *)
(* editor, and the tables keyed by contact that have to follow a merge.    *)
(*                                                                         *)
(* adapters/resolution/merge.py is the only code that gives an identity a  *)
(* person (contact_editor.add_contact_handle apart); it is called by the   *)
(* automatic rules, the review page and the contact panel. Each action     *)
(* below is one database transaction of one of these callers, taken as a   *)
(* whole; an identity of the store is a member of Identity, a person row a *)
(* member of Person, and a merge_log row an element of the sequence log,   *)
(* in the order of merged_at. A contact key is what the rest of the system *)
(* calls coalesce(person_id, id).                                          *)
(***************************************************************************)
EXTENDS Naturals, Sequences, FiniteSets, FiniteSetsExt

CONSTANTS
  Outlook, WhatsApp, LinkedIn,  \* the identities of each channel
  Known,           \* the identities that have messages before resolution runs
  Person,          \* the ids person rows can get
  None,            \* SQL null
  Name,            \* display names
  NoName,          \* a null or blank display name
  Reported,        \* what each identity's own channel reports as its name
  NameLen,         \* length of a name; 0 for one that is not name-like
  TokensOf,        \* the word tokens of a name
  EmailMatch,      \* pairs: an Outlook identity whose address a connection has
  BridgeMatch,     \* pairs: an Outlook and a WhatsApp identity of one contact
                   \* record of the address book
  PhoneMatch,      \* pairs: the Outlook identity signs with the WhatsApp number
  GenericRole,     \* Outlook identities of addresses such as support@ or info@
  Typed,           \* the names the operator may type in the contact panel
  MaxClusterSize,  \* safety.MAX_CLUSTER_SIZE
  MaxMerges,       \* bound: rows of merge_log
  Refresher,       \* the sync processes that refresh briefs
  MaxClock         \* bound: timestamps handed to brief refreshes

Identity == Outlook \cup WhatsApp \cup LinkedIn
AnyName  == Name \cup {NoName}
Key      == Identity \cup Person     \* values a contact key can take

ASSUME KeyAssumption ==
  /\ Identity \cap Person = {}
  /\ None \notin Key
  /\ Known \subseteq Identity
\* Person ids are UUIDs, of which there are finitely many.
ASSUME PersonAssumption == IsFiniteSet(Person)
ASSUME EvidenceAssumption ==
  /\ EmailMatch \subseteq Outlook \X LinkedIn
  /\ BridgeMatch \cup PhoneMatch \subseteq Outlook \X WhatsApp
ASSUME ChannelAssumption ==
  /\ IsFiniteSet(Identity)
  /\ Outlook \cap (WhatsApp \cup LinkedIn) = {} /\ WhatsApp \cap LinkedIn = {}
  /\ GenericRole \subseteq Outlook
ASSUME NameAssumption ==
  /\ NoName \notin Name
  /\ Typed \subseteq Name
  /\ Reported \in [Identity -> AnyName]
  /\ NameLen \in [Name -> Nat]
  /\ TokensOf \in [Name -> SUBSET STRING]
ASSUME BoundAssumption ==
  /\ MaxClusterSize \in Nat
  /\ MaxMerges \in Nat
  /\ MaxClock \in Nat

AutomaticMethod == {"exact_email", "contact_bridge"}
QueuedMethod    == {"email_signature_phone", "outlook_same_channel_dedupe",
                    "linkedin_name_company"}
RetiredMethod   == "linkedin_same_channel_dedupe"
Method          == AutomaticMethod \cup QueuedMethod \cup {RetiredMethod}
Decision        == {"automatic", "review", "manual"}

VARIABLES
  present,       \* identity rows that exist
  display_name,  \* identity.display_name
  person_id,     \* identity.person_id
  persons,       \* person rows that exist
  person_name,   \* person.primary_name, person.preferred_name
  merged_into,   \* person.merged_into
  merge_log,     \* rows of merge_log, oldest first
  candidate,     \* rows of link_candidate
  brief,         \* ai_brief: generated_at by contact key, 0 for no row
  brief_status,  \* ai_brief_status: attempted_at by contact key, 0 for no row
  hidden,        \* contact_hidden: the keys that have a row
  refreshing,    \* the open refresh transaction of each Refresher, if any
  clock,         \* the last timestamp handed out by now()
  undos,         \* history: whether every undo so far reversed the newest
                 \* standing merge, or at least a standing one
  undone         \* history: what the newest merge found, while nothing else
                 \* has happened since: <<>> or <<Contacts>>

identity_vars == <<present, display_name, person_id>>
person_vars   == <<persons, person_name, merged_into>>
side_vars     == <<brief, brief_status, hidden>>
brief_vars    == <<refreshing, clock>>
vars == <<identity_vars, person_vars, merge_log, candidate, side_vars,
          brief_vars, undos, undone>>

-----------------------------------------------------------------------------
(* Contacts. *)

\* coalesce(identity.person_id, identity.id)
ContactKey(i) == IF person_id[i] # None THEN person_id[i] ELSE i

Members(k) == {i \in Identity : ContactKey(i) = k}

\* Every identity of i's contact: its person's, or i alone if unresolved.
Cluster(i) == Members(ContactKey(i))

\* A key that an open browser page may still hold: one that is, or once was,
\* the key of a listed contact.
BrowserKey == Known \cup persons \cup {ContactKey(i) : i \in present}

\* What a merge or an undo changes, as the operator sees it.
Contacts == [person_id |-> person_id, merged_into |-> merged_into,
             person_name |-> person_name,
             hidden |-> {i \in present : ContactKey(i) \in hidden}]

-----------------------------------------------------------------------------
(* Names. *)

Longest(S) == {n \in S : \A m \in S : NameLen[m] <= NameLen[n]}

Names(primary, preferred) == [primary |-> primary, preferred |-> preferred]

\* The results select_names can return for these display names: the longest
\* name-like one is primary and the next longest preferred, in either order
\* for two of one length; otherwise any name at all is primary.
select_names(S) ==
  LET candidates == S \ {NoName}
      name_like  == {n \in candidates : NameLen[n] > 0}
  IN  IF candidates = {} THEN {Names(NoName, NoName)}
      ELSE IF name_like = {} THEN {Names(n, NoName) : n \in candidates}
      ELSE UNION {IF name_like = {n} THEN {Names(n, NoName)}
                  ELSE {Names(n, m) : m \in Longest(name_like \ {n})}
                  : n \in Longest(name_like)}

names_contradict(m, n) ==
  /\ m # NoName /\ n # NoName
  /\ TokensOf[m] # {} /\ TokensOf[n] # {}
  /\ TokensOf[m] \cap TokensOf[n] = {}

\* Mutation: the two identities are compared, not their clusters.
PairNamesContradict(a, b, names) == names_contradict(names[a], names[b])

\* Over the whole clusters of a and b, not only the two identities.
cluster_names_contradict(a, b, names) ==
  \E i \in Cluster(a), j \in Cluster(b) : names_contradict(names[i], names[j])

\* Mutation: identities merged earlier are not counted.
PairSize(a, b) == Cardinality({a, b})

cluster_size_after_merge(a, b) == Cardinality(Cluster(a) \cup Cluster(b))

-----------------------------------------------------------------------------
(* merge.py *)

\* Mutation: a row that the survivor already has is kept, be it the older one.
RelocateUnlessPresent(t, stale, survivor) ==
  [k \in Key |->
     IF k = survivor
     THEN IF t[k] # 0 THEN t[k] ELSE Max({t[j] : j \in stale \cup {survivor}})
     ELSE IF k \in stale THEN 0 ELSE t[k]]

\* The table t after the rows of the stale keys moved to the survivor's key:
\* the newest of them all is kept.
RelocateNewest(t, stale, survivor) ==
  [k \in Key |->
     IF k = survivor THEN Max({t[j] : j \in stale \cup {survivor}})
     ELSE IF k \in stale THEN 0 ELSE t[k]]

RelocateHidden(stale, survivor) ==
  (hidden \ stale) \cup (IF hidden \cap stale # {} THEN {survivor} ELSE {})

\* Two contacts that both have a person already: the second is folded into the
\* first.
Folds(a, b) ==
  person_id[a] # None /\ person_id[b] # None /\ person_id[a] # person_id[b]

\* The person that is kept, or a new one.
Survivors(a, b) == IF person_id[a] # None THEN {person_id[a]}
                   ELSE IF person_id[b] # None THEN {person_id[b]}
                   ELSE Person \ persons

\* Mutation: a fold moves the two identities only.
MovedPairOnly(a, b, survivor) == {i \in {a, b} : person_id[i] # survivor}

moved_identities(a, b, survivor) ==
  IF Folds(a, b) THEN Members(person_id[b])
  ELSE {i \in {a, b} : person_id[i] # survivor}

\* Mutation: the contact of b is taken not to have rows of its own.
StaleKeyOfFirst(a, b, survivor) == {ContactKey(a)} \ {survivor}

StaleKeys(a, b, survivor) == {ContactKey(a), ContactKey(b)} \ {survivor}

apply_merge(a, b, decision, names) ==
  \E survivor \in Survivors(a, b) :
    LET moved == moved_identities(a, b, survivor)
        stale == StaleKeys(a, b, survivor)
        now   == Members(survivor) \cup moved \cup {a, b}
    IN  /\ Len(merge_log) < MaxMerges
        /\ person_id' = [i \in Identity |-> IF i \in now THEN survivor
                                            ELSE person_id[i]]
        /\ persons' = persons \cup {survivor}
        /\ merged_into' = IF Folds(a, b)
                          THEN [merged_into EXCEPT ![person_id[b]] = survivor]
                          ELSE merged_into
        /\ merge_log' = Append(merge_log,
             [a |-> a, b |-> b, survivor |-> survivor,
              absorbed |-> IF Folds(a, b) THEN person_id[b] ELSE None,
              moved |-> moved, prev_name |-> person_name[survivor],
              decision |-> decision, reversed |-> FALSE])
        /\ \E n \in select_names({names[i] : i \in now}) :
             person_name' = [person_name EXCEPT ![survivor] = n]
        /\ brief' = RelocateNewest(brief, stale, survivor)
        /\ brief_status' = RelocateNewest(brief_status, stale, survivor)
        /\ hidden' = RelocateHidden(stale, survivor)
        /\ undone' = <<Contacts>>
        /\ UNCHANGED <<brief_vars, undos>>

Standing == {k \in DOMAIN merge_log : ~merge_log[k].reversed}

\* The query of undo_merge that makes it refuse: reversed_at is not asked for.
LaterMerge(k) == \E m \in DOMAIN merge_log :
                   m > k /\ merge_log[m].survivor = merge_log[k].survivor

\* Mutation: an undo leaves link_candidate alone.
NotReopened(a, b) == candidate

\* Mutation: the retired rule is not told from the others.
AllReopened(a, b) ==
  {IF c.a = a /\ c.b = b /\ c.status = "confirmed"
   THEN [c EXCEPT !.status = "pending"] ELSE c : c \in candidate}

\* link_candidate after the merge of exactly this ordered pair is undone.
Reopened(a, b) ==
  {IF c.a = a /\ c.b = b /\ c.status = "confirmed"
   THEN [c EXCEPT !.status = IF c.method = RetiredMethod THEN "retired"
                             ELSE "pending"]
   ELSE c : c \in candidate}

\* Mutation: an undo detaches whom a merge had moved, whatever their person was.
MovedBackToNone(e) == [i \in Identity |-> IF i \in e.moved THEN None ELSE person_id[i]]

MovedBack(e) == [i \in Identity |-> IF i \in e.moved THEN e.absorbed
                                     ELSE person_id[i]]

\* Mutation: the absorbed person goes on forwarding to the survivor.
StillForwarded(e) == merged_into

Unforwarded(e) == IF e.absorbed # None THEN [merged_into EXCEPT ![e.absorbed] = None]
                  ELSE merged_into

undo_merge(k) ==
  LET e == merge_log[k]
  IN  /\ ~LaterMerge(k)
      /\ person_id' = MovedBack(e)
      /\ merged_into' = Unforwarded(e)
      /\ person_name' = [person_name EXCEPT ![e.survivor] = e.prev_name]
      /\ merge_log' = [merge_log EXCEPT ![k].reversed = TRUE]
      /\ candidate' = Reopened(e.a, e.b)
      /\ undos' = IF k \notin Standing THEN "repeated"
                  ELSE IF undos = "newest_first" /\ \E m \in Standing : m > k
                  THEN "any_order" ELSE undos
      /\ undone' = <<>>
      /\ UNCHANGED <<present, display_name, persons, side_vars, brief_vars>>

-----------------------------------------------------------------------------
(* rules.py and linkedin_correlation.py: evidence about a pair turns up at *)
(* any time. A rule that handles several pairs in its transaction is these *)
(* actions one after the other.                                            *)

\* Mutation: only rejected pairs are passed over.
HasRejectedCandidate(a, b) ==
  \E c \in candidate : {c.a, c.b} = {a, b} /\ c.status = "rejected"

\* Mutation: the pair is looked for in one order only.
HasSameOrderCandidate(a, b) == \E c \in candidate : c.a = a /\ c.b = b

has_existing_candidate(a, b) ==
  \E c \in candidate : {c.a, c.b} = {a, b}

Row(a, b, method, status) ==
  [a |-> a, b |-> b, method |-> method, status |-> status]

\* A pair that has a row, whatever its status, is passed over.
Skip(a, b) ==
  /\ has_existing_candidate(a, b)
  /\ undone' = <<>>
  /\ UNCHANGED <<person_id, person_vars, merge_log, candidate, side_vars,
                 brief_vars, undos>>

propose_and_maybe_confirm(a, b, method, blocked, names) ==
  /\ ~has_existing_candidate(a, b)
  /\ IF \/ blocked
        \/ cluster_names_contradict(a, b, names)
        \/ cluster_size_after_merge(a, b) > MaxClusterSize
     THEN /\ candidate' = candidate \cup {Row(a, b, method, "pending")}
          /\ undone' = <<>>
          /\ UNCHANGED <<person_id, person_vars, merge_log, side_vars,
                         brief_vars, undos>>
     ELSE /\ candidate' = candidate \cup {Row(a, b, method, "confirmed")}
          /\ apply_merge(a, b, "automatic", names)

\* Mutation: a reported name replaces the one that is there.
Renamed(i) ==
  [display_name EXCEPT ![i] = IF Reported[i] # NoName THEN Reported[i] ELSE @]

Named(i) == [display_name EXCEPT ![i] = IF @ = NoName THEN Reported[i] ELSE @]

\* A LinkedIn connection with the address of an Outlook identity: the LinkedIn
\* identity is upserted first, its name filled in if it had none.
rule_exact_email_match(o, l) ==
  /\ present' = present \cup {l}
  /\ display_name' = Named(l)
  /\ \/ Skip(o, l)
     \/ propose_and_maybe_confirm(o, l, "exact_email", o \in GenericRole, Named(l))

rule_contact_bridge(o, w) ==
  /\ propose_and_maybe_confirm(o, w, "contact_bridge", o \in GenericRole, display_name)
  /\ UNCHANGED <<present, display_name>>

Queue(a, b, method) ==
  /\ ~has_existing_candidate(a, b)
  /\ candidate' = candidate \cup {Row(a, b, method, "pending")}
  /\ undone' = <<>>
  /\ UNCHANGED <<person_id, person_vars, merge_log, side_vars, brief_vars, undos>>

rule_signature_phone(o, w) ==
  /\ Queue(o, w, "email_signature_phone")
  /\ UNCHANGED <<present, display_name>>

\* Only between unresolved identities of one name.
rule_outlook_dedupe(o1, o2) ==
  /\ o1 # o2
  /\ person_id[o1] = None /\ person_id[o2] = None
  /\ display_name[o1] = display_name[o2] /\ display_name[o1] # NoName
  /\ Queue(o1, o2, "outlook_same_channel_dedupe")
  /\ UNCHANGED <<present, display_name>>

\* A LinkedIn connection with the name of an Outlook or WhatsApp identity.
rule_linkedin_correlation(l, i) ==
  /\ Reported[l] # NoName /\ display_name[i] = Reported[l]
  /\ present' = present \cup {l}
  /\ display_name' = Named(l)
  /\ \/ Skip(l, i)
     \/ Queue(l, i, "linkedin_name_company")

-----------------------------------------------------------------------------
(* The dashboard: the review page, the inbox and the contact panel.        *)

\* Mutation: the row is confirmed whatever its status.
ConfirmAnyStatus(c) ==
  /\ candidate' = (candidate \ {c}) \cup {[c EXCEPT !.status = "confirmed"]}
  /\ apply_merge(c.a, c.b, "review", display_name)
  /\ UNCHANGED <<present, display_name>>

\* The row is claimed by the update of its status; a repeated click finds it
\* no longer pending.
resolution_candidate_confirm(c) ==
  /\ c.status = "pending"
  /\ candidate' = (candidate \ {c}) \cup {[c EXCEPT !.status = "confirmed"]}
  /\ apply_merge(c.a, c.b, "review", display_name)
  /\ UNCHANGED <<present, display_name>>

resolution_candidate_reject(c) ==
  /\ c.status = "pending"
  /\ candidate' = (candidate \ {c}) \cup {[c EXCEPT !.status = "rejected"]}
  /\ undone' = <<>>
  /\ UNCHANGED <<identity_vars, person_vars, merge_log, side_vars, brief_vars,
                 undos>>

\* rep is whichever identity of the panel's contact the query returns first.
\* The search offers other contacts only; a merge since then may have joined
\* the two.
link_contact(rep, other) ==
  /\ rep = other => person_id[rep] # None
  /\ apply_merge(rep, other, "manual", display_name)
  /\ UNCHANGED <<present, display_name, candidate>>

\* Mutation: the new identity gets the contact's key for a person.
AddHandleUnderKey(rep, i) ==
  /\ present' = present \cup {i}
  /\ person_id' = [person_id EXCEPT ![i] = ContactKey(rep)]
  /\ undone' = <<>>
  /\ UNCHANGED <<display_name, person_vars, merge_log, candidate, side_vars,
                 brief_vars, undos>>

\* The new identity i joins the contact of rep, which gets a person first if
\* it has none. Nothing is logged and no side table is touched.
add_contact_handle(rep, i) ==
  /\ present' = present \cup {i}
  /\ IF person_id[rep] = None
     THEN \E p \in Person \ persons :
            /\ persons' = persons \cup {p}
            /\ person_name' = [person_name EXCEPT
                                 ![p] = Names(display_name[rep], NoName)]
            /\ person_id' = [person_id EXCEPT ![rep] = p, ![i] = p]
     ELSE /\ person_id' = [person_id EXCEPT ![i] = person_id[rep]]
          /\ UNCHANGED <<persons, person_name>>
  /\ undone' = <<>>
  /\ UNCHANGED <<display_name, merged_into, merge_log, candidate, side_vars,
                 brief_vars, undos>>

\* person.primary_name is not recomputed.
update_contact_name(rep, n) ==
  /\ display_name' = [i \in Identity |-> IF i \in Cluster(rep) THEN n
                                         ELSE display_name[i]]
  /\ undone' = <<>>
  /\ UNCHANGED <<present, person_id, person_vars, merge_log, candidate,
                 side_vars, brief_vars, undos>>

hide_contact(k) ==
  /\ hidden' = hidden \cup {k}
  /\ undone' = <<>>
  /\ UNCHANGED <<identity_vars, person_vars, merge_log, candidate, brief,
                 brief_status, brief_vars, undos>>

unhide_contact(k) ==
  /\ hidden' = hidden \ {k}
  /\ undone' = <<>>
  /\ UNCHANGED <<identity_vars, person_vars, merge_log, candidate, brief,
                 brief_status, brief_vars, undos>>

-----------------------------------------------------------------------------
(* The sync processes: names that arrive with later messages, and briefs.  *)

\* store_writer fills a missing display name and never replaces one.
UpsertIdentity(i) ==
  /\ display_name[i] = NoName /\ Reported[i] # NoName
  /\ display_name' = Named(i)
  /\ undone' = <<>>
  /\ UNCHANGED <<present, person_id, person_vars, merge_log, candidate,
                 side_vars, brief_vars, undos>>

\* After its resolution run a sync process looks up the keys of the contacts
\* that got messages.
person_keys_for_identities(r, i) ==
  /\ refreshing[r] = None
  /\ refreshing' = [refreshing EXCEPT ![r] = [key |-> ContactKey(i), at |-> 0]]
  /\ undone' = <<>>
  /\ UNCHANGED <<identity_vars, person_vars, merge_log, candidate, side_vars,
                 clock, undos>>

\* A transaction of its own for each of them: now() is the time it begins,
\* before the calls to the model.
BeginRefresh(r) ==
  /\ refreshing[r] # None /\ refreshing[r].at = 0
  /\ clock < MaxClock
  /\ clock' = clock + 1
  /\ refreshing' = [refreshing EXCEPT ![r].at = clock + 1]
  /\ undone' = <<>>
  /\ UNCHANGED <<identity_vars, person_vars, merge_log, candidate, side_vars,
                 undos>>

\* The brief and its status are written under the key taken at the start; a
\* failed or skipped attempt writes its status only.
StoreBrief(r, success) ==
  LET job == refreshing[r]
  IN  /\ job # None /\ job.at # 0
      /\ brief' = IF success THEN [brief EXCEPT ![job.key] = job.at] ELSE brief
      /\ brief_status' = [brief_status EXCEPT ![job.key] = job.at]
      /\ refreshing' = [refreshing EXCEPT ![r] = None]
      /\ undone' = <<>>
      /\ UNCHANGED <<identity_vars, person_vars, merge_log, candidate, hidden,
                     clock, undos>>

\* A storage error rolls the transaction back and records a failure in a new
\* one, with the time of that one.
StorageFailed(r) ==
  /\ refreshing[r] # None /\ refreshing[r].at # 0
  /\ clock < MaxClock
  /\ clock' = clock + 1
  /\ brief_status' = [brief_status EXCEPT ![refreshing[r].key] = clock + 1]
  /\ refreshing' = [refreshing EXCEPT ![r] = None]
  /\ undone' = <<>>
  /\ UNCHANGED <<identity_vars, person_vars, merge_log, candidate, brief,
                 hidden, undos>>

-----------------------------------------------------------------------------
(* The specification. A store may hold one merge that the LinkedIn rule,   *)
(* retired since, had queued and a reviewer confirmed.                     *)

InitStore(joined, p) ==
  /\ present = Known
  /\ display_name = [i \in Identity |-> IF i \in Known THEN Reported[i] ELSE NoName]
  /\ person_id = [i \in Identity |-> IF i \in joined THEN p ELSE None]
  /\ merged_into = [q \in Person |-> None]
  /\ brief = [k \in Key |-> 0]
  /\ brief_status = [k \in Key |-> 0]
  /\ hidden = {}
  /\ refreshing = [r \in Refresher |-> None]
  /\ clock = 0
  /\ undos = "newest_first"
  /\ undone = <<>>

NewPerson == Names(NoName, NoName)

InitFresh ==
  /\ InitStore({}, None)
  /\ persons = {}
  /\ person_name = [q \in Person |-> NewPerson]
  /\ merge_log = <<>>
  /\ candidate = {}

InitLegacy(a, b, p) ==
  /\ InitStore({a, b}, p)
  /\ persons = {p}
  /\ \E n \in select_names({Reported[a], Reported[b]}) :
       person_name = [q \in Person |-> IF q = p THEN n ELSE NewPerson]
  /\ merge_log = <<[a |-> a, b |-> b, survivor |-> p, absorbed |-> None,
                    moved |-> {a, b}, prev_name |-> NewPerson,
                    decision |-> "review", reversed |-> FALSE]>>
  /\ candidate = {Row(a, b, RetiredMethod, "confirmed")}

Init ==
  \/ InitFresh
  \/ \E a, b \in LinkedIn \cap Known, p \in Person :
       a # b /\ Reported[a] = Reported[b] /\ InitLegacy(a, b, p)

Resolution ==
  \/ \E e \in EmailMatch : e[1] \in present /\ rule_exact_email_match(e[1], e[2])
  \/ \E e \in BridgeMatch : {e[1], e[2]} \subseteq present /\ rule_contact_bridge(e[1], e[2])
  \/ \E e \in PhoneMatch : {e[1], e[2]} \subseteq present /\ rule_signature_phone(e[1], e[2])
  \/ \E o1, o2 \in Outlook \cap present : rule_outlook_dedupe(o1, o2)
  \/ \E l \in LinkedIn, i \in (Outlook \cup WhatsApp) \cap present :
       rule_linkedin_correlation(l, i)

Review ==
  \/ \E c \in candidate : resolution_candidate_confirm(c)
  \/ \E c \in candidate : resolution_candidate_reject(c)
  \/ \E rep, other \in present : link_contact(rep, other)
  \/ \E k \in DOMAIN merge_log : undo_merge(k)

Panel ==
  \/ \E rep \in present, i \in (Outlook \cup WhatsApp) \ present :
       add_contact_handle(rep, i)
  \/ \E rep \in present, n \in Typed : update_contact_name(rep, n)

Inbox ==
  \/ \E k \in BrowserKey : hide_contact(k)
  \/ \E k \in BrowserKey : unhide_contact(k)

Upsert == \E i \in present : UpsertIdentity(i)

Briefs ==
  \/ \E r \in Refresher, i \in present : person_keys_for_identities(r, i)
  \/ \E r \in Refresher : BeginRefresh(r)
  \/ \E r \in Refresher, success \in BOOLEAN : StoreBrief(r, success)
  \/ \E r \in Refresher : StorageFailed(r)

Next == Resolution \/ Review \/ Panel \/ Inbox \/ Upsert \/ Briefs

Spec == Init /\ [][Next]_vars

\* Two parts of the behaviours, each of which is all that a group of properties
\* depends on: identities, names and decisions; and the tables keyed by contact.
ClusterSpec == Init /\ [][Resolution \/ Review \/ Panel \/ Upsert]_vars
ContactSpec == Init /\ [][Review \/ Panel \/ Inbox \/ Briefs]_vars

-----------------------------------------------------------------------------
(* Types. *)

NameRow == [primary : AnyName, preferred : AnyName]

LogRow == [a : Identity, b : Identity, survivor : Person,
           absorbed : Person \cup {None}, moved : SUBSET Identity,
           prev_name : NameRow, decision : Decision, reversed : BOOLEAN]

Candidate == [a : Identity, b : Identity, method : Method,
              status : {"pending", "confirmed", "rejected", "retired"}]

Snapshot == [person_id : [Identity -> Person \cup {None}],
             merged_into : [Person -> Person \cup {None}],
             person_name : [Person -> NameRow], hidden : SUBSET Identity]

\* Every variable has a value of the columns it stands for.
TypeOK ==
  /\ present \in SUBSET Identity
  /\ display_name \in [Identity -> AnyName]
  /\ person_id \in [Identity -> Person \cup {None}]
  /\ persons \in SUBSET Person
  /\ person_name \in [Person -> NameRow]
  /\ merged_into \in [Person -> Person \cup {None}]
  /\ merge_log \in Seq(LogRow)
  /\ candidate \in SUBSET Candidate
  /\ brief \in [Key -> Nat]
  /\ brief_status \in [Key -> Nat]
  /\ hidden \in SUBSET Key
  /\ refreshing \in [Refresher -> [key : Key, at : Nat] \cup {None}]
  /\ clock \in Nat
  /\ undos \in {"newest_first", "any_order", "repeated"}
  /\ undone \in Seq(Snapshot)

-----------------------------------------------------------------------------
(* Persons and clusters. *)

\* No identity belongs to a person that was merged into another one: whatever
\* sequence of merges, undos (repeated ones too) and hand-added handles led
\* here, merge.py never strands an identity at an absorbed person.
NoIdentityAtMergedPerson ==
  \A i \in Identity : person_id[i] # None => merged_into[person_id[i]] = None

Forward == [p \in Person |-> IF merged_into[p] = None THEN p ELSE merged_into[p]]

\* The person reached from each person by following merged_into n times.
Forwarded[n \in 0..Cardinality(Person)] ==
  IF n = 0 THEN [p \in Person |-> p]
  ELSE [p \in Person |-> Forward[Forwarded[n - 1][p]]]

Follow == Forwarded[Cardinality(Person)]

\* merged_into is what rows that point at an absorbed person (action,
\* outreach) are followed through: it never cycles, whatever is undone in
\* whatever order, and as long as merges are undone newest first it leads to a
\* person that has identities.
MergedPersonForwardsToContact ==
  \A p \in Person :
    merged_into[p] # None =>
      /\ merged_into[Follow[p]] = None
      /\ undos = "newest_first" => \E i \in present : person_id[i] = Follow[p]

SamePerson(i, j) == person_id[i] # None /\ person_id[i] = person_id[j]

HandAdded == present \ (Known \cup LinkedIn)

\* As long as merges are undone newest first, the clusters are what the
\* standing rows of merge_log say: the two identities of each are together and,
\* unless a handle was typed in by hand, no cluster falls apart into two parts
\* that no standing merge connects.
ClustersMatchStandingMerges ==
  undos = "newest_first" =>
    /\ \A k \in Standing : SamePerson(merge_log[k].a, merge_log[k].b)
    /\ HandAdded = {} =>
         \A p \in persons : \A S \in SUBSET Members(p) :
           S # {} /\ S # Members(p) =>
             \E k \in Standing : {merge_log[k].a, merge_log[k].b} \cap S # {}
                                 /\ ~({merge_log[k].a, merge_log[k].b} \subseteq S)

\* Undoing the newest merge before anything else happens gives back exactly
\* the persons, names and forwarding that it found.
LatestUndoIsExact ==
  [][LET k == Len(merge_log)
     IN undone # <<>> /\ ~merge_log[k].reversed /\ k \in DOMAIN merge_log'
        /\ merge_log'[k].reversed =>
         /\ person_id' = undone[1].person_id
         /\ merged_into' = undone[1].merged_into
         /\ person_name' = undone[1].person_name]_vars

-----------------------------------------------------------------------------
(* Decisions. *)

\* An automatic rule merges a pair at most once, in either order: neither a
\* rerun nor an undo of the merge makes a rule apply it again.
PairMergedAutomaticallyOnce ==
  \A j, k \in DOMAIN merge_log :
    /\ merge_log[j].decision = "automatic"
    /\ merge_log[k].decision = "automatic"
    /\ {merge_log[j].a, merge_log[j].b} = {merge_log[k].a, merge_log[k].b}
    => j = k

\* A candidate is shown as confirmed only while a merge of its pair stands:
\* an undone merge never leaves its candidate stuck out of the review queue.
ConfirmedHasStandingMerge ==
  \A c \in candidate : c.status = "confirmed" =>
    \E k \in Standing : merge_log[k].a = c.a /\ merge_log[k].b = c.b

\* A candidate is merged once for each time it is up for review, clicks on a
\* stale page included: one more only for each merge of its pair that was undone.
OneMergePerConfirmation ==
  undos # "repeated" =>
    \A c \in candidate :
      LET merges == {k \in DOMAIN merge_log : merge_log[k].a = c.a /\ merge_log[k].b = c.b}
      IN  Cardinality({k \in merges : merge_log[k].decision = "review"})
            <= 1 + Cardinality(merges \ Standing)

\* A pair that a reviewer rejected, or that only the retired rule proposed, is
\* never put (back) into the review queue, in either order, and never merged
\* except by hand.
ClosedPairsStayClosed ==
  [][\A c \in candidate : c.status = "rejected" \/ c.method = RetiredMethod =>
       /\ \A d \in candidate' : {d.a, d.b} = {c.a, c.b} => d.status # "pending"
       /\ \A k \in DOMAIN merge_log' \ DOMAIN merge_log :
            {merge_log'[k].a, merge_log'[k].b} = {c.a, c.b} =>
              merge_log'[k].decision = "manual"]_vars

\* What an automatic merge leaves: a cluster of at most MaxClusterSize
\* identities, no name on one side of the merge contradicting one on the other,
\* those of identities merged earlier included, and no generic role address.
AutomaticMergeIsSafe ==
  [][\A k \in DOMAIN merge_log' \ DOMAIN merge_log :
       LET e       == merge_log'[k]
           cluster == {i \in Identity : person_id'[i] = e.survivor}
       IN  e.decision = "automatic" =>
             /\ {e.a, e.b} \cap GenericRole = {}
             /\ Cardinality(cluster) <= MaxClusterSize
             /\ \A i \in Cluster(e.a), j \in Cluster(e.b) :
                  ~names_contradict(display_name'[i], display_name'[j])]_vars
\* A name that an identity has is only ever replaced by the operator, who names
\* every identity of the contact: what a channel reports later, or a rule reads
\* from the LinkedIn export, never undoes a correction.
NamesReplacedByOperatorOnly ==
  [][\A i \in Identity :
       display_name[i] # NoName /\ display_name'[i] # display_name[i] =>
         /\ display_name'[i] \in Typed
         /\ \A j \in Cluster(i) : display_name'[j] = display_name'[i]]_vars

-----------------------------------------------------------------------------
(* The tables keyed by contact. *)

Merging == Len(merge_log') > Len(merge_log)

ListedKeys == {ContactKey(i) : i \in present}

\* Rows that no contact shows.
Orphans ==
  {k \in Key : k \in hidden \/ brief[k] # 0 \/ brief_status[k] # 0} \ ListedKeys

\* A merge, of any caller and any shape, never leaves behind a row of
\* contact_hidden, ai_brief or ai_brief_status that a contact showed before.
MergeOrphansNothing == [][Merging => Orphans' \subseteq Orphans]_vars

\* What a merged contact shows is the newest of what its parts showed, brief
\* and status alike, and it is hidden iff one of them was.
MergedContactShowsNewest ==
  [][Merging =>
       \A k \in ListedKeys' :
         LET parts == {ContactKey(i) : i \in {j \in present : (ContactKey(j))' = k}}
         IN  parts # {} =>
               /\ brief'[k] = Max({brief[j] : j \in parts})
               /\ brief_status'[k] = Max({brief_status[j] : j \in parts})
               /\ k \in hidden' <=> parts \cap hidden # {}]_vars
-----------------------------------------------------------------------------
\* undo_merge refuses where "reversing this one could pull identities out from
\* under a merge that was applied afterward": the pair of a later standing merge
\* that is together before an undo is together after it.  It does not hold.
UndoSparesLaterMerges ==
  [][\A k \in Standing : merge_log' = [merge_log EXCEPT ![k].reversed = TRUE] =>
       \A m \in Standing :
         m > k /\ SamePerson(merge_log[m].a, merge_log[m].b) =>
           SamePerson(merge_log[m].a, merge_log[m].b)']_vars
=============================================================================
