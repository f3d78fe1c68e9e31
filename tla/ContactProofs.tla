---------------------------- MODULE ContactProofs ----------------------------
(***************************************************************************)
(* What a merge does to the tables keyed by contact, in every store: a row *)
(* that some contact shows is shown by a contact after the merge, too, and *)
(* what is shown is the newest that there was.                             *)
(***************************************************************************)
EXTENDS IdentityMergeProofs

\* A candidate is about two identities that have rows (link_candidate's foreign
\* keys). Some identity of a merge is therefore one that a contact can show.
CandidatesPresent == \A c \in candidate : c.a \in present /\ c.b \in present

\* The inductive invariant, on top of the types.
CInv == TypeOK /\ CandidatesPresent

-----------------------------------------------------------------------------
(* The step that merges. *)

\* A merge of two identities. The first has a row before; a rule may insert that
\* of the second.
Merges ==
  \E a, b \in Identity, decision \in Decision, names \in [Identity -> AnyName] :
    /\ a \in present /\ b \in present'
    /\ present \subseteq present'
    /\ apply_merge(a, b, decision, names)

LEMMA ConfirmedHasRow ==
  ASSUME CInv, NEW c \in candidate
  PROVE  c.a \in Identity /\ c.b \in Identity /\ c.a \in present /\ c.b \in present
BY DEF CInv, CandidatesPresent, TypeOK, Candidate

\* The log only grows by a merge.
LEMMA MergingMerges ==
  ASSUME CInv, [Next]_vars, Merging
  PROVE  Merges
<1>0. /\ display_name \in [Identity -> AnyName] /\ present \in SUBSET Identity
      /\ "automatic" \in Decision /\ "review" \in Decision /\ "manual" \in Decision
      /\ \A i \in Identity : Named(i) \in [Identity -> AnyName]
  BY NamedType DEF CInv, TypeOK, Decision
<1>1. ASSUME UNCHANGED Len(merge_log) PROVE FALSE
  <2>1. Len(merge_log) \in Nat
    BY LenProperties DEF CInv, TypeOK
  <2> QED  BY <1>1, <2>1 DEF Merging
<1>2. ASSUME NEW a \in present, NEW b \in Identity, NEW method, NEW blocked,
             NEW names \in [Identity -> AnyName], present \subseteq present',
             b \in present', propose_and_maybe_confirm(a, b, method, blocked, names)
      PROVE  Merges
  BY <1>0, <1>1, <1>2 DEF propose_and_maybe_confirm, Merges
<1>3. ASSUME NEW e \in EmailMatch, e[1] \in present, rule_exact_email_match(e[1], e[2])
      PROVE  Merges
  <2>1. e[2] \in Identity /\ present \subseteq present' /\ e[2] \in present'
    BY <1>3, EvidenceAssumption DEF Identity, rule_exact_email_match
  <2> QED  BY <1>0, <1>1, <1>2, <1>3, <2>1 DEF rule_exact_email_match, Skip
<1>4. ASSUME NEW e \in BridgeMatch, {e[1], e[2]} \subseteq present,
             rule_contact_bridge(e[1], e[2])
      PROVE  Merges
  <2>1. e[2] \in Identity /\ present \subseteq present' /\ e[2] \in present'
    BY <1>4, EvidenceAssumption DEF Identity, rule_contact_bridge
  <2> QED  BY <1>0, <1>2, <1>4, <2>1 DEF rule_contact_bridge
<1>5. CASE Resolution
  BY <1>1, <1>3, <1>4, <1>5 DEF Resolution, rule_signature_phone, rule_outlook_dedupe,
     rule_linkedin_correlation, Skip, Queue
<1>6. ASSUME NEW c \in candidate, resolution_candidate_confirm(c)
      PROVE  Merges
  BY <1>0, <1>6, ConfirmedHasRow DEF resolution_candidate_confirm, Merges
<1>7. ASSUME NEW rep \in present, NEW other \in present, link_contact(rep, other)
      PROVE  Merges
  BY <1>0, <1>7 DEF link_contact, Merges
<1>8. ASSUME NEW k \in DOMAIN merge_log, undo_merge(k)
      PROVE  FALSE
  <2>1. merge_log \in Seq(LogRow)
    BY DEF CInv, TypeOK
  <2>2. DOMAIN merge_log' = DOMAIN merge_log /\ Len(merge_log') = Len(merge_log)
    BY <1>8, <2>1 DEF undo_merge
  <2> QED  BY <1>1, <2>2
<1>9. CASE Review
  BY <1>1, <1>6, <1>7, <1>8, <1>9 DEF Review, resolution_candidate_reject
<1>10. Panel \/ Inbox \/ Upsert \/ Briefs \/ UNCHANGED vars => UNCHANGED merge_log
  BY DEF Panel, Inbox, Upsert, Briefs, vars, add_contact_handle, update_contact_name,
         hide_contact, unhide_contact, UpsertIdentity, person_keys_for_identities,
         BeginRefresh, StoreBrief, StorageFailed
<1> QED  BY <1>1, <1>5, <1>9, <1>10 DEF Next

\* What a merge does to the tables keyed by contact.
Relocates(ka, kb, survivor) ==
  /\ survivor \in Person /\ ka \in Key /\ kb \in Key
  /\ brief' = RelocateNewest(brief, {ka, kb} \ {survivor}, survivor)
  /\ brief_status' = RelocateNewest(brief_status, {ka, kb} \ {survivor}, survivor)
  /\ hidden' = RelocateHidden({ka, kb} \ {survivor}, survivor)

\* The identities whose key is one of three have the survivor's after a merge,
\* and no other identity's key changes.
MovesKeys(ka, kb, survivor) ==
  \A i \in Identity :
    IF ContactKey(i) \in {ka, kb, survivor} THEN (ContactKey(i))' = survivor
    ELSE (ContactKey(i))' = ContactKey(i)

LEMMA MergeMoves ==
  ASSUME TypeOK, Merges
  PROVE  \E a, b \in Identity, survivor \in Person :
           /\ a \in present /\ b \in present' /\ present \subseteq present'
           /\ survivor \in Survivors(a, b)
           /\ Relocates(ContactKey(a), ContactKey(b), survivor)
           /\ MovesKeys(ContactKey(a), ContactKey(b), survivor)
           /\ (ContactKey(a))' = survivor
<1>1. PICK a \in Identity, b \in Identity, decision \in Decision,
           names \in [Identity -> AnyName] :
        /\ a \in present /\ b \in present' /\ present \subseteq present'
        /\ apply_merge(a, b, decision, names)
  BY DEF Merges
<1>2. PICK survivor \in Survivors(a, b) :
        LET stale == StaleKeys(a, b, survivor)
            now   == Members(survivor) \cup moved_identities(a, b, survivor) \cup {a, b}
        IN  /\ person_id' = [i \in Identity |-> IF i \in now THEN survivor ELSE person_id[i]]
            /\ brief' = RelocateNewest(brief, stale, survivor)
            /\ brief_status' = RelocateNewest(brief_status, stale, survivor)
            /\ hidden' = RelocateHidden(stale, survivor)
  BY <1>1 DEF apply_merge
<1> DEFINE ka  == ContactKey(a)
           kb  == ContactKey(b)
           now == Members(survivor) \cup moved_identities(a, b, survivor) \cup {a, b}
<1>3. /\ person_id \in [Identity -> Person \cup {None}]
      /\ survivor \in Person /\ survivor # None /\ None \notin Person
      /\ Identity \cap Person = {}
  BY KeyAssumption DEF TypeOK, Survivors, Key
<1>4. Relocates(ka, kb, survivor)
  BY <1>2, <1>3, ContactKeyType DEF Relocates, StaleKeys
<1>5. \A i \in now : ContactKey(i) \in {ka, kb, survivor}
  <2>1. \A i \in Members(survivor) \cup {a, b} : ContactKey(i) \in {ka, kb, survivor}
    BY DEF Members
  <2>2. CASE Folds(a, b)
    <3>1. \A i \in Members(person_id[b]) : ContactKey(i) = kb
      BY <2>2 DEF Folds, Members, ContactKey
    <3> QED  BY <2>1, <2>2, <3>1 DEF moved_identities
  <2>3. CASE ~Folds(a, b)
    <3>1. moved_identities(a, b, survivor) \subseteq {a, b}
      BY <2>3 DEF moved_identities
    <3> QED  BY <2>1, <3>1
  <2> QED  BY <2>2, <2>3
<1>6. \A i \in Identity : ContactKey(i) \in {ka, kb, survivor} => i \in now
  <2> SUFFICES ASSUME NEW i \in Identity, ContactKey(i) \in {ka, kb}, ContactKey(i) # survivor
               PROVE  i \in now
    BY DEF Members
  <2>1. CASE ContactKey(i) = ka
    <3>1. person_id[a] = None
      BY <2>1, <1>2 DEF Survivors, ContactKey
    <3> QED  BY <2>1, <3>1, <1>3 DEF ContactKey
  <2>2. CASE ContactKey(i) = kb /\ person_id[b] = None
    BY <2>2, <1>3 DEF ContactKey
  <2>3. CASE ContactKey(i) = kb /\ person_id[b] # None
    <3>1. Folds(a, b)
      BY <2>3, <1>2 DEF Survivors, ContactKey, Folds
    <3>2. i \in Members(person_id[b])
      BY <2>3 DEF Members, ContactKey
    <3> QED  BY <3>1, <3>2 DEF moved_identities
  <2> QED  BY <2>1, <2>2, <2>3
<1>7. \A i \in Identity : person_id'[i] = IF i \in now THEN survivor ELSE person_id[i]
  BY <1>2
<1>8. MovesKeys(ka, kb, survivor)
  BY <1>3, <1>5, <1>6, <1>7 DEF MovesKeys, ContactKey
<1>9. (ContactKey(a))' = survivor
  BY <1>3, <1>7 DEF ContactKey
<1> QED  BY <1>1, <1>2, <1>3, <1>4, <1>8, <1>9

\* A merge clears every key that it moves identities from.
LEMMA MergeOrphansNobody ==
  ASSUME CInv, Merges
  PROVE  Orphans' \subseteq Orphans
<1>1. PICK a \in Identity, b \in Identity, survivor \in Person :
        /\ a \in present /\ present \subseteq present'
        /\ Relocates(ContactKey(a), ContactKey(b), survivor)
        /\ MovesKeys(ContactKey(a), ContactKey(b), survivor)
        /\ (ContactKey(a))' = survivor
  BY MergeMoves DEF CInv
<1> SUFFICES ASSUME NEW k \in Orphans'
             PROVE  k \in Orphans
  OBVIOUS
<1>2. k \in Key /\ k \notin ListedKeys'
  BY DEF Orphans
<1>3. k # survivor
  BY <1>1, <1>2 DEF ListedKeys
<1>4. k \notin {ContactKey(a), ContactKey(b)} /\ brief'[k] = brief[k]
      /\ brief_status'[k] = brief_status[k] /\ (k \in hidden' <=> k \in hidden)
  BY <1>1, <1>2, <1>3 DEF Orphans, Relocates, RelocateNewest, RelocateHidden
<1>5. k \notin ListedKeys
  <2> SUFFICES ASSUME NEW i \in present, ContactKey(i) = k
               PROVE  FALSE
    BY DEF ListedKeys
  <2>1. i \in Identity /\ i \in present'
    BY <1>1 DEF CInv, TypeOK
  <2>2. (ContactKey(i))' = k
    BY <1>1, <1>3, <1>4, <2>1 DEF MovesKeys
  <2> QED  BY <1>2, <2>1, <2>2 DEF ListedKeys
<1> QED  BY <1>2, <1>4, <1>5 DEF Orphans

-----------------------------------------------------------------------------
(* The invariant. *)

LEMMA NextKeepsCandidatesPresent ==
  ASSUME CInv, [Next]_vars
  PROVE  CandidatesPresent'
<1>1. ASSUME NEW a, NEW b, NEW method, NEW status, present \subseteq present',
             a \in present', b \in present',
             candidate' = candidate \cup {Row(a, b, method, status)}
      PROVE  CandidatesPresent'
  BY <1>1 DEF CInv, CandidatesPresent, Row
<1>2. ASSUME candidate' = candidate, present \subseteq present'
      PROVE  CandidatesPresent'
  BY <1>2 DEF CInv, CandidatesPresent
<1>3. CASE Resolution
  <2>1. ASSUME NEW e \in EmailMatch, e[1] \in present, rule_exact_email_match(e[1], e[2])
        PROVE  CandidatesPresent'
    BY <1>1, <1>2, <2>1 DEF rule_exact_email_match, Skip, propose_and_maybe_confirm
  <2>2. ASSUME NEW e \in BridgeMatch, {e[1], e[2]} \subseteq present,
               rule_contact_bridge(e[1], e[2])
        PROVE  CandidatesPresent'
    BY <1>1, <2>2 DEF rule_contact_bridge, propose_and_maybe_confirm
  <2>3. ASSUME NEW e \in PhoneMatch, {e[1], e[2]} \subseteq present,
               rule_signature_phone(e[1], e[2])
        PROVE  CandidatesPresent'
    BY <1>1, <2>3 DEF rule_signature_phone, Queue
  <2>4. ASSUME NEW o1 \in Outlook \cap present, NEW o2 \in Outlook \cap present,
               rule_outlook_dedupe(o1, o2)
        PROVE  CandidatesPresent'
    BY <1>1, <2>4 DEF rule_outlook_dedupe, Queue
  <2>5. ASSUME NEW l \in LinkedIn, NEW i \in (Outlook \cup WhatsApp) \cap present,
               rule_linkedin_correlation(l, i)
        PROVE  CandidatesPresent'
    BY <1>1, <1>2, <2>5 DEF rule_linkedin_correlation, Skip, Queue
  <2> QED  BY <1>3, <2>1, <2>2, <2>3, <2>4, <2>5 DEF Resolution
<1>4. ASSUME NEW c \in candidate, NEW status, UNCHANGED present,
             candidate' = (candidate \ {c}) \cup {[c EXCEPT !.status = status]}
      PROVE  CandidatesPresent'
  <2>1. \A d \in candidate' : d \in candidate \/ (d.a = c.a /\ d.b = c.b)
    BY <1>4 DEF CInv, TypeOK, Candidate
  <2> QED  BY <1>4, <2>1 DEF CInv, CandidatesPresent
<1>5. ASSUME NEW k \in DOMAIN merge_log, undo_merge(k)
      PROVE  CandidatesPresent'
  <2>1. candidate' = Reopened(merge_log[k].a, merge_log[k].b) /\ UNCHANGED present
    BY <1>5 DEF undo_merge
  <2>2. \A d \in candidate' : \E c \in candidate : d.a = c.a /\ d.b = c.b
    BY <2>1 DEF CInv, TypeOK, Candidate, Reopened
  <2> QED  BY <2>1, <2>2 DEF CInv, CandidatesPresent
<1>6. CASE Review
  <2>1. ASSUME NEW c \in candidate, resolution_candidate_confirm(c)
        PROVE  CandidatesPresent'
    BY <1>4, <2>1 DEF resolution_candidate_confirm
  <2>2. ASSUME NEW c \in candidate, resolution_candidate_reject(c)
        PROVE  CandidatesPresent'
    BY <1>4, <2>2 DEF resolution_candidate_reject, identity_vars
  <2>3. ASSUME NEW rep, NEW other, link_contact(rep, other)
        PROVE  CandidatesPresent'
    BY <1>2, <2>3 DEF link_contact
  <2> QED  BY <1>5, <1>6, <2>1, <2>2, <2>3 DEF Review
<1>7. Panel \/ Inbox \/ Upsert \/ Briefs \/ UNCHANGED vars
        => candidate' = candidate /\ present \subseteq present'
  BY DEF Panel, Inbox, Upsert, Briefs, vars, identity_vars, add_contact_handle,
         update_contact_name, hide_contact, unhide_contact, UpsertIdentity,
         person_keys_for_identities, BeginRefresh, StoreBrief, StorageFailed
<1> QED  BY <1>2, <1>3, <1>6, <1>7 DEF Next

LEMMA InitCandidatesPresent == Init => CandidatesPresent
<1>1. ASSUME InitFresh PROVE CandidatesPresent
  BY <1>1 DEF InitFresh, CandidatesPresent
<1>2. ASSUME NEW a \in LinkedIn \cap Known, NEW b \in LinkedIn \cap Known, NEW p,
             InitLegacy(a, b, p)
      PROVE  CandidatesPresent
  BY <1>2 DEF InitLegacy, InitStore, CandidatesPresent, Row
<1> QED  BY <1>1, <1>2 DEF Init

-----------------------------------------------------------------------------

\* A merge, of any caller and any shape, leaves behind no row of contact_hidden,
\* ai_brief or ai_brief_status that a contact showed. (The relocation at the end
\* of apply_merge.)
THEOREM NothingOrphaned == Spec => MergeOrphansNothing
<1>1. TypeOK /\ CandidatesPresent /\ [Next]_vars => CandidatesPresent'
  BY NextKeepsCandidatesPresent DEF CInv
<1>2. TypeOK /\ CandidatesPresent /\ [Next]_vars
        => [Merging => Orphans' \subseteq Orphans]_vars
  BY MergingMerges, MergeOrphansNobody DEF CInv
<1> QED  BY <1>1, <1>2, InitCandidatesPresent, TypeCorrect, PTL DEF Spec, MergeOrphansNothing
-----------------------------------------------------------------------------
(* What a merged contact shows.                                            *)

\* An identity of a person has a row, then and when a merge that moved it is undone.
ResolvedPresent ==
  /\ Known \subseteq present
  /\ \A i \in Identity : person_id[i] # None => i \in present
  /\ \A k \in DOMAIN merge_log : merge_log[k].moved \subseteq present

\* A key that has rows, or that a refresh is about to write, is an identity that has
\* a row or a person: a person that a merge makes has none of an earlier one.
RowsHaveKeys ==
  /\ \A k \in Key : brief[k] # 0 \/ brief_status[k] # 0 \/ k \in hidden => k \in present \cup persons
  /\ \A r \in Refresher : refreshing[r] # None => refreshing[r].key \in present \cup persons

\* The inductive invariant.
KInv == IInv /\ CandidatesPresent /\ ResolvedPresent /\ RowsHaveKeys

Newest(t, keys) == Max({t[k] : k \in keys})

LEMMA ThreeHaveMax ==
  ASSUME NEW t \in [Key -> Nat], NEW x \in Key, NEW y \in Key, NEW z \in Key
  PROVE  \E m \in {x, y, z} : \A n \in {x, y, z} : t[m] >= t[n]
<1>1. t[x] \in Nat /\ t[y] \in Nat /\ t[z] \in Nat
  OBVIOUS
<1>2. CASE t[x] >= t[y] /\ t[x] >= t[z]  BY <1>1, <1>2
<1>3. CASE t[y] >= t[x] /\ t[y] >= t[z]  BY <1>1, <1>3
<1>4. CASE t[z] >= t[x] /\ t[z] >= t[y]  BY <1>1, <1>4
<1> QED  BY <1>1, <1>2, <1>3, <1>4

LEMMA NewestIs ==
  ASSUME NEW t \in [Key -> Nat], NEW keys \in SUBSET Key, NEW k \in keys,
         \A j \in keys : t[k] >= t[j]
  PROVE  Newest(t, keys) = t[k]
<1> DEFINE S == {t[j] : j \in keys}
<1>1. t[k] \in S /\ \A n \in S : t[k] >= n /\ n \in Nat
  OBVIOUS
<1>2. \A n \in S : (\A l \in S : n >= l) => n = t[k]
  BY <1>1
<1> HIDE DEF S
<1>3. Max(S) = t[k]
  BY <1>1, <1>2 DEF Max
<1> QED  BY <1>3 DEF S, Newest

\* Keys that have no row in a table do not count for its newest row.
LEMMA MaxIgnoresAbsent ==
  ASSUME NEW t \in [Key -> Nat], NEW keys \in SUBSET Key, NEW parts \in SUBSET keys,
         parts # {}, \A j \in keys \ parts : t[j] = 0,
         \E k \in keys : \A j \in keys : t[k] >= t[j]
  PROVE  Newest(t, keys) = Newest(t, parts)
<1>1. PICK k \in keys : \A j \in keys : t[k] >= t[j]
  OBVIOUS
<1>2. Newest(t, keys) = t[k]
  BY <1>1, NewestIs
<1>3. PICK l \in parts : t[l] = t[k]
  <2>1. CASE k \in parts
    BY <2>1
  <2>2. CASE k \notin parts
    <3>1. PICK l \in parts : TRUE
      OBVIOUS
    <3>2. t[k] = 0 /\ t[l] \in Nat /\ t[k] >= t[l]
      BY <1>1, <2>2
    <3> QED  BY <3>2
  <2> QED  BY <2>1, <2>2
<1>4. Newest(t, parts) = t[l]
  <2>1. \A j \in parts : t[l] >= t[j]
    BY <1>1, <1>3
  <2> QED  BY <2>1, NewestIs
<1> QED  BY <1>2, <1>3, <1>4

\* Every row under one of the keys that a merge brings together is one that a
\* contact shows: a person just made, and an identity just inserted, have none.
LEMMA MergedRowsAreShown ==
  ASSUME KInv, NEW a \in present, NEW b \in Identity, NEW survivor \in Survivors(a, b),
         NEW k \in {ContactKey(a), ContactKey(b), survivor}, k \notin ListedKeys
  PROVE  brief[k] = 0 /\ brief_status[k] = 0 /\ k \notin hidden
<1>1. /\ person_id \in [Identity -> Person \cup {None}] /\ present \subseteq Identity
      /\ persons \subseteq Person /\ survivor \in Person /\ survivor # None
      /\ Identity \cap Person = {} /\ None \notin Person
  BY KeyAssumption DEF KInv, IInv, TypeOK, Survivors, Key
<1>2. \A i \in Identity : person_id[i] # None => person_id[i] \in ListedKeys
  BY DEF KInv, ResolvedPresent, ListedKeys, ContactKey
<1>3. k # ContactKey(a)
  BY DEF ListedKeys
<1>4. CASE k = survivor
  <2>1. k \notin persons
    BY <1>1, <1>2, <1>4 DEF Survivors
  <2>2. k \in Key /\ k \notin present
    BY <1>1, <1>4 DEF Key
  <2> QED  BY <2>1, <2>2 DEF KInv, RowsHaveKeys
<1>5. CASE k = ContactKey(b)
  <2>1. person_id[b] = None /\ k = b
    BY <1>2, <1>5 DEF ContactKey
  <2>2. b \notin present
    BY <2>1 DEF ListedKeys, ContactKey
  <2>3. k \in Key /\ k \notin persons
    BY <1>1, <2>1 DEF Key
  <2> QED  BY <2>1, <2>2, <2>3 DEF KInv, RowsHaveKeys
<1> QED  BY <1>3, <1>4, <1>5

\* What MergedContactShowsNewest asks of a step that merges.
ShowsNewest ==
  \A k \in ListedKeys' :
    LET parts == {ContactKey(i) : i \in {j \in present : (ContactKey(j))' = k}}
    IN  parts # {} =>
          /\ brief'[k] = Max({brief[j] : j \in parts})
          /\ brief_status'[k] = Max({brief_status[j] : j \in parts})
          /\ k \in hidden' <=> parts \cap hidden # {}

LEMMA MergeShowsNewest ==
  ASSUME KInv, Merges
  PROVE  ShowsNewest
<1>0. /\ TypeOK /\ present \subseteq Identity
      /\ brief \in [Key -> Nat] /\ brief_status \in [Key -> Nat]
  BY DEF KInv, IInv, TypeOK
<1>1. PICK a \in Identity, b \in Identity, survivor \in Person :
        /\ a \in present /\ survivor \in Survivors(a, b)
        /\ Relocates(ContactKey(a), ContactKey(b), survivor)
        /\ MovesKeys(ContactKey(a), ContactKey(b), survivor)
        /\ (ContactKey(a))' = survivor
  BY <1>0, MergeMoves
<1> DEFINE ka == ContactKey(a)
           kb == ContactKey(b)
<1>2. ka \in Key /\ kb \in Key /\ survivor \in Key
  BY <1>1 DEF Relocates, Key
<1> SUFFICES ASSUME NEW k \in ListedKeys',
                    NEW parts, parts = {ContactKey(i) : i \in {j \in present : (ContactKey(j))' = k}},
                    parts # {}
             PROVE  /\ brief'[k] = Max({brief[j] : j \in parts})
                    /\ brief_status'[k] = Max({brief_status[j] : j \in parts})
                    /\ k \in hidden' <=> parts \cap hidden # {}
  BY DEF ShowsNewest
<1>3. CASE k = survivor
  <2>1. parts = ListedKeys \cap {ka, kb, survivor}
    <3>1. ASSUME NEW j \in present, ContactKey(j) \notin {ka, kb, survivor}
          PROVE  (ContactKey(j))' # survivor
      BY <1>0, <1>1, <3>1 DEF MovesKeys
    <3>2. ASSUME NEW j \in present, ContactKey(j) \in {ka, kb, survivor}
          PROVE  (ContactKey(j))' = survivor
      BY <1>0, <1>1, <3>2 DEF MovesKeys
    <3> QED  BY <1>3, <3>1, <3>2 DEF ListedKeys
  <2>2. \A j \in {ka, kb, survivor} \ parts : brief[j] = 0 /\ brief_status[j] = 0 /\ j \notin hidden
    BY <1>1, <2>1, MergedRowsAreShown
  <2>3. ({ka, kb} \ {survivor}) \cup {survivor} = {ka, kb, survivor}
    OBVIOUS
  <2>4. /\ brief'[survivor] = Max({brief[j] : j \in {ka, kb, survivor}})
        /\ brief_status'[survivor] = Max({brief_status[j] : j \in {ka, kb, survivor}})
    BY <1>1, <1>2, <2>3 DEF Relocates, RelocateNewest
  <2>5. /\ brief'[survivor] = Max({brief[j] : j \in parts})
        /\ brief_status'[survivor] = Max({brief_status[j] : j \in parts})
    <3> DEFINE keys == {ka, kb, survivor}
    <3>1. keys \in SUBSET Key /\ parts \in SUBSET keys /\ parts # {}
      BY <1>2, <2>1
    <3>2. \A j \in keys \ parts : brief[j] = 0 /\ brief_status[j] = 0
      BY <2>2
    <3>3. /\ \E m \in keys : \A n \in keys : brief[m] >= brief[n]
          /\ \E m \in keys : \A n \in keys : brief_status[m] >= brief_status[n]
      BY <1>0, <1>2, ThreeHaveMax
    <3>4. brief'[survivor] = Newest(brief, keys) /\ brief_status'[survivor] = Newest(brief_status, keys)
      BY <2>4 DEF Newest
    <3> HIDE DEF keys
    <3>5. Newest(brief, keys) = Newest(brief, parts)
      BY <1>0, <3>1, <3>2, <3>3, MaxIgnoresAbsent
    <3>6. Newest(brief_status, keys) = Newest(brief_status, parts)
      BY <1>0, <3>1, <3>2, <3>3, MaxIgnoresAbsent
    <3> QED  BY <3>4, <3>5, <3>6 DEF Newest
  <2>6. survivor \in hidden' <=> {ka, kb, survivor} \cap hidden # {}
    BY <1>1 DEF Relocates, RelocateHidden
  <2>7. {ka, kb, survivor} \cap hidden # {} <=> parts \cap hidden # {}
    BY <2>1, <2>2
  <2> QED  BY <1>3, <2>5, <2>6, <2>7
<1>4. CASE k # survivor
  <2>1. \A j \in present : (ContactKey(j))' = k => ContactKey(j) = k /\ k \notin {ka, kb, survivor}
    BY <1>0, <1>1, <1>4 DEF MovesKeys
  <2>2. parts = {k} /\ k \notin {ka, kb, survivor}
    BY <2>1
  <2>3. k \in Key
    BY <1>0, <2>1, ContactKeyType
  <2>4. brief'[k] = brief[k] /\ brief_status'[k] = brief_status[k] /\ (k \in hidden' <=> k \in hidden)
    BY <1>1, <2>2, <2>3 DEF Relocates, RelocateNewest, RelocateHidden
  <2>5. \A t \in [Key -> Nat] : t[k] = Max({t[j] : j \in {k}})
    <3> SUFFICES ASSUME NEW t \in [Key -> Nat] PROVE t[k] = Max({t[j] : j \in {k}})
      OBVIOUS
    <3>1. {t[j] : j \in {k}} = {t[k]} /\ t[k] >= t[k]
      BY <2>3
    <3> QED  BY <3>1 DEF Max
  <2> QED  BY <1>0, <2>2, <2>4, <2>5
<1> QED  BY <1>3, <1>4

LEMMA MergeKeepsKeys ==
  ASSUME KInv, Merges
  PROVE  ResolvedPresent' /\ RowsHaveKeys'
<1>1. PICK a \in Identity, b \in Identity, decision \in Decision,
           names \in [Identity -> AnyName] :
        /\ a \in present /\ b \in present' /\ present \subseteq present'
        /\ apply_merge(a, b, decision, names)
  BY DEF Merges
<1>2. PICK survivor \in Survivors(a, b) :
        LET moved == moved_identities(a, b, survivor)
            stale == StaleKeys(a, b, survivor)
            now   == Members(survivor) \cup moved \cup {a, b}
        IN  /\ person_id' = [i \in Identity |-> IF i \in now THEN survivor ELSE person_id[i]]
            /\ persons' = persons \cup {survivor}
            /\ \E e : merge_log' = Append(merge_log, e) /\ e.moved = moved
            /\ brief' = RelocateNewest(brief, stale, survivor)
            /\ brief_status' = RelocateNewest(brief_status, stale, survivor)
            /\ hidden' = RelocateHidden(stale, survivor)
            /\ refreshing' = refreshing
  BY <1>1 DEF apply_merge, brief_vars
<1> DEFINE moved == moved_identities(a, b, survivor)
           stale == StaleKeys(a, b, survivor)
           now   == Members(survivor) \cup moved \cup {a, b}
<1>3. /\ person_id \in [Identity -> Person \cup {None}] /\ merge_log \in Seq(LogRow)
      /\ survivor \in Person /\ survivor # None /\ None \notin Identity
  BY KeyAssumption DEF KInv, IInv, TypeOK, Survivors, Key
<1>4. moved \subseteq now /\ now \subseteq present'
  <2>1. \A k \in Person : k # None => Members(k) \subseteq present
    BY <1>3, KeyAssumption DEF KInv, ResolvedPresent, Members, ContactKey, Key
  <2>2. moved \subseteq present'
    BY <1>1, <1>3, <2>1 DEF moved_identities, Folds
  <2> QED  BY <1>1, <1>3, <2>1, <2>2
<1>5. ResolvedPresent'
  <2>1. PICK e : merge_log' = Append(merge_log, e) /\ e.moved = moved
    BY <1>2
  <2>2. \A k \in DOMAIN merge_log' :
          \/ merge_log'[k] = e
          \/ k \in DOMAIN merge_log /\ merge_log'[k] = merge_log[k]
    BY <1>3, <2>1
  <2>3. \A k \in DOMAIN merge_log' : merge_log'[k].moved \subseteq present'
    BY <1>1, <1>4, <2>1, <2>2 DEF KInv, ResolvedPresent
  <2>4. \A i \in Identity : person_id'[i] # None => i \in present'
    BY <1>1, <1>2, <1>4 DEF KInv, ResolvedPresent
  <2> QED  BY <1>1, <2>3, <2>4 DEF KInv, ResolvedPresent
<1>6. RowsHaveKeys'
  <2>1. \A k \in Key \ {survivor} :
          /\ brief'[k] # 0 => brief[k] # 0
          /\ brief_status'[k] # 0 => brief_status[k] # 0
          /\ k \in hidden' => k \in hidden
    BY <1>2 DEF RelocateNewest, RelocateHidden
  <2> QED  BY <1>1, <1>2, <2>1 DEF KInv, RowsHaveKeys
<1> QED  BY <1>5, <1>6

LEMMA NextKeepsKeys ==
  ASSUME KInv, [Next]_vars
  PROVE  ResolvedPresent' /\ RowsHaveKeys'
<1>0. /\ present \subseteq Identity /\ person_id \in [Identity -> Person \cup {None}]
      /\ persons \subseteq Person /\ merge_log \in Seq(LogRow) /\ hidden \subseteq Key
      /\ brief \in [Key -> Nat] /\ brief_status \in [Key -> Nat]
      /\ refreshing \in [Refresher -> [key : Key, at : Nat] \cup {None}]
  BY DEF KInv, IInv, TypeOK
<1>1. CASE Merging
  BY <1>1, MergingMerges, MergeKeepsKeys DEF KInv, IInv, CInv
<1>2. ASSUME present \subseteq present', persons \subseteq persons',
             UNCHANGED <<person_id, merge_log, brief, brief_status, hidden, refreshing>>
      PROVE  ResolvedPresent' /\ RowsHaveKeys'
  BY <1>2 DEF KInv, ResolvedPresent, RowsHaveKeys
<1>3. \A i \in present : ContactKey(i) \in present \cup persons
  BY <1>0 DEF ContactKey, KInv, IInv, PersonsExist
<1>4. CASE Resolution /\ UNCHANGED merge_log
  <2>1. /\ present \subseteq present'
        /\ UNCHANGED <<person_id, persons, brief, brief_status, hidden, refreshing>>
    <3>1. ASSUME NEW a, NEW b, NEW decision, NEW names, apply_merge(a, b, decision, names)
          PROVE  FALSE
      BY <1>0, <1>4, <3>1 DEF apply_merge
    <3> QED  BY <1>4, <3>1 DEF Resolution, rule_exact_email_match, rule_contact_bridge,
                rule_signature_phone, rule_outlook_dedupe, rule_linkedin_correlation,
                propose_and_maybe_confirm, Queue, Skip, person_vars, side_vars, brief_vars
  <2> QED  BY <1>2, <1>4, <2>1
<1>5. ASSUME NEW a, NEW b, NEW decision, NEW names, apply_merge(a, b, decision, names)
      PROVE  Merging
  <2>1. \E e : merge_log' = Append(merge_log, e)
    BY <1>5 DEF apply_merge
  <2> QED  BY <1>0, <2>1 DEF Merging
<1>6. Resolution => Merging \/ UNCHANGED merge_log
  BY <1>5 DEF Resolution, rule_exact_email_match, rule_contact_bridge,
     rule_signature_phone, rule_outlook_dedupe, rule_linkedin_correlation,
     propose_and_maybe_confirm, Queue, Skip
<1>7. ASSUME NEW c \in candidate, resolution_candidate_reject(c)
      PROVE  ResolvedPresent' /\ RowsHaveKeys'
  BY <1>2, <1>7 DEF resolution_candidate_reject, identity_vars, person_vars, side_vars, brief_vars
<1>8. ASSUME NEW k \in DOMAIN merge_log, undo_merge(k)
      PROVE  ResolvedPresent' /\ RowsHaveKeys'
  <2>1. /\ person_id' = MovedBack(merge_log[k])
        /\ merge_log' = [merge_log EXCEPT ![k].reversed = TRUE]
        /\ UNCHANGED <<present, persons, brief, brief_status, hidden, refreshing>>
    BY <1>8 DEF undo_merge, side_vars, brief_vars
  <2>2. merge_log[k] \in LogRow
    BY <1>0, ElementOfSeq, LenProperties
  <2>3. \A m \in DOMAIN merge_log' : m \in DOMAIN merge_log
                                     /\ merge_log'[m].moved = merge_log[m].moved
    BY <2>1, <2>2 DEF LogRow
  <2>4. \A i \in Identity : person_id'[i] # None => i \in present
    BY <2>1 DEF MovedBack, KInv, ResolvedPresent
  <2> QED  BY <2>1, <2>3, <2>4 DEF KInv, ResolvedPresent, RowsHaveKeys
<1>9. CASE Review
  BY <1>1, <1>5, <1>7, <1>8, <1>9 DEF Review, resolution_candidate_confirm, link_contact
<1>10. ASSUME NEW rep \in present, NEW i, add_contact_handle(rep, i)
       PROVE  ResolvedPresent' /\ RowsHaveKeys'
  <2>1. /\ present' = present \cup {i} /\ persons \subseteq persons'
        /\ UNCHANGED <<merge_log, brief, brief_status, hidden, refreshing>>
        /\ \A j \in Identity : j \in {rep, i} \/ person_id'[j] = person_id[j]
    BY <1>0, <1>10 DEF add_contact_handle, side_vars, brief_vars
  <2> QED  BY <2>1 DEF KInv, ResolvedPresent, RowsHaveKeys
<1>11. CASE Panel
  BY <1>2, <1>10, <1>11 DEF Panel, update_contact_name, person_vars, side_vars, brief_vars
<1>12. ASSUME NEW k \in BrowserKey, hide_contact(k) \/ unhide_contact(k)
       PROVE  ResolvedPresent' /\ RowsHaveKeys'
  <2>1. k \in present \cup persons
    BY <1>3 DEF BrowserKey, KInv, ResolvedPresent
  <2> QED  BY <1>12, <2>1 DEF hide_contact, unhide_contact, KInv, ResolvedPresent, RowsHaveKeys,
             identity_vars, person_vars, brief_vars
<1>13. CASE Inbox
  BY <1>12, <1>13 DEF Inbox
<1>14. CASE Upsert
  BY <1>2, <1>14 DEF Upsert, UpsertIdentity, person_vars, side_vars, brief_vars
<1>15. CASE Briefs
  <2>0. UNCHANGED <<present, person_id, persons, merge_log, hidden>>
    BY <1>15 DEF Briefs, person_keys_for_identities, BeginRefresh, StoreBrief, StorageFailed,
       identity_vars, person_vars, side_vars
  <2>1. ResolvedPresent'
    BY <2>0 DEF KInv, ResolvedPresent
  <2>2. ASSUME NEW r \in Refresher, NEW i \in present, person_keys_for_identities(r, i)
        PROVE  RowsHaveKeys'
    <3>1. \A q \in Refresher : q # r => refreshing'[q] = refreshing[q]
      BY <1>0, <2>2 DEF person_keys_for_identities
    <3>2. refreshing'[r].key = ContactKey(i) /\ UNCHANGED <<brief, brief_status>>
      BY <1>0, <2>2 DEF person_keys_for_identities, side_vars
    <3> QED  BY <1>3, <2>0, <3>1, <3>2 DEF KInv, RowsHaveKeys
  <2>3. ASSUME NEW r \in Refresher, BeginRefresh(r)
        PROVE  RowsHaveKeys'
    <3>1. \A q \in Refresher : q # r => refreshing'[q] = refreshing[q]
      BY <1>0, <2>3 DEF BeginRefresh
    <3>2. refreshing'[r].key = refreshing[r].key /\ refreshing[r] # None
          /\ UNCHANGED <<brief, brief_status>>
      BY <1>0, <2>3 DEF BeginRefresh, side_vars
    <3> QED  BY <2>0, <3>1, <3>2 DEF KInv, RowsHaveKeys
  <2>4. ASSUME NEW r \in Refresher, refreshing[r] # None,
               \A q \in Refresher : q # r => refreshing'[q] = refreshing[q],
               refreshing'[r] = None,
               \A k \in Key : k # refreshing[r].key => brief'[k] = brief[k]
                                                       /\ brief_status'[k] = brief_status[k]
        PROVE  RowsHaveKeys'
    BY <2>0, <2>4 DEF KInv, RowsHaveKeys
  <2>5. ASSUME NEW r \in Refresher, NEW success \in BOOLEAN, StoreBrief(r, success)
        PROVE  RowsHaveKeys'
    BY <1>0, <2>4, <2>5 DEF StoreBrief
  <2>6. ASSUME NEW r \in Refresher, StorageFailed(r)
        PROVE  RowsHaveKeys'
    BY <1>0, <2>4, <2>6 DEF StorageFailed
  <2> QED  BY <1>15, <2>1, <2>2, <2>3, <2>5, <2>6 DEF Briefs
<1>16. CASE UNCHANGED vars
  BY <1>2, <1>16 DEF vars, identity_vars, person_vars, side_vars, brief_vars
<1> QED  BY <1>1, <1>4, <1>6, <1>9, <1>11, <1>13, <1>14, <1>15, <1>16 DEF Next

LEMMA InitKeys == Init => ResolvedPresent /\ RowsHaveKeys
<1>1. ASSUME NEW joined, NEW p, joined \subseteq Known, InitStore(joined, p)
      PROVE  /\ Known \subseteq present /\ RowsHaveKeys
             /\ \A i \in Identity : person_id[i] # None => i \in present
  BY <1>1 DEF InitStore, RowsHaveKeys
<1>2. ASSUME InitFresh PROVE ResolvedPresent /\ RowsHaveKeys
  <2>1. DOMAIN merge_log = {}
    BY <1>2 DEF InitFresh
  <2> QED  BY <1>1, <1>2, <2>1 DEF InitFresh, ResolvedPresent
<1>3. ASSUME NEW a \in LinkedIn \cap Known, NEW b \in LinkedIn \cap Known, NEW p,
             InitLegacy(a, b, p)
      PROVE  ResolvedPresent /\ RowsHaveKeys
  <2>1. InitStore({a, b}, p) /\ \E e : merge_log = <<e>> /\ e.moved = {a, b}
    BY <1>3 DEF InitLegacy
  <2>2. \A k \in DOMAIN merge_log : merge_log[k].moved = {a, b}
    BY <2>1
  <2> QED  BY <1>1, <2>1, <2>2 DEF ResolvedPresent
<1> QED  BY <1>2, <1>3 DEF Init

\* A merged contact shows the newest brief and the newest status of its parts, and
\* is hidden iff one of them was, whatever merges, undos, refreshes and handles
\* added by hand came before. (The relocation at the end of apply_merge, over the
\* keys that refresh_contact and hide_contact write.)
THEOREM NewestIsShown == Spec => MergedContactShowsNewest
<1>1. KInv /\ [Next]_vars => KInv'
  BY NextInvariant, NextKeepsCandidatesPresent, NextKeepsKeys DEF KInv, IInv, CInv
<1>2. KInv /\ [Next]_vars => [Merging => ShowsNewest]_vars
  BY MergingMerges, MergeShowsNewest DEF KInv, IInv, CInv
<1>3. Init => KInv
  BY InitInvariant, InitCandidatesPresent, InitKeys DEF KInv
<1> QED  BY <1>1, <1>2, <1>3, PTL DEF Spec, MergedContactShowsNewest, ShowsNewest
=============================================================================
