------------------------ MODULE IdentityMergeProofs ------------------------
(***************************************************************************)
(* Proofs about IdentityMerge for every set of identities, persons, names  *)
(* and refreshers, and every bound: the types of its variables, and that   *)
(* no identity is ever left at a person that was merged into another.      *)
(***************************************************************************)
EXTENDS IdentityMerge, TLAPS, SequenceTheorems

\* Every person id that an identity, a forwarding pointer or a row of the log
\* holds is that of a person row. This is what makes a person that apply_merge
\* creates a new one, which nothing forwards from.
PersonsExist ==
  /\ \A i \in Identity : person_id[i] # None => person_id[i] \in persons
  /\ \A p \in Person : merged_into[p] # None => p \in persons
  /\ \A k \in DOMAIN merge_log :
       merge_log[k].absorbed # None => merge_log[k].absorbed \in persons

\* The inductive invariant.
IInv == TypeOK /\ PersonsExist /\ NoIdentityAtMergedPerson

-----------------------------------------------------------------------------
(* Helpers. *)

\* What select_names returns is a pair of names or nulls.
LEMMA SelectNamesType ==
  ASSUME NEW S \in SUBSET AnyName, NEW n \in select_names(S)
  PROVE  n \in NameRow
BY DEF select_names, Names, Longest, NameRow, AnyName

\* The newest of one, two or three timestamps is a timestamp.
LEMMA MaxOfThree ==
  ASSUME NEW x \in Nat, NEW y \in Nat, NEW z \in Nat
  PROVE  Max({x, y, z}) \in Nat
<1>1. \E m \in {x, y, z} : \A n \in {x, y, z} : m >= n
  <2>1. CASE x >= y /\ x >= z  BY <2>1
  <2>2. CASE y >= x /\ y >= z  BY <2>2
  <2>3. CASE z >= x /\ z >= y  BY <2>3
  <2> QED  BY <2>1, <2>2, <2>3
<1> QED  BY <1>1 DEF Max

\* Relocation keeps a table of timestamps one.
LEMMA RelocateNewestType ==
  ASSUME NEW t \in [Key -> Nat], NEW ka \in Key, NEW kb \in Key,
         NEW survivor \in Key
  PROVE  RelocateNewest(t, {ka, kb} \ {survivor}, survivor) \in [Key -> Nat]
<1>1. {t[j] : j \in ({ka, kb} \ {survivor}) \cup {survivor}}
        = {t[ka], t[kb], t[survivor]}
  OBVIOUS
<1>2. Max({t[ka], t[kb], t[survivor]}) \in Nat
  BY MaxOfThree
<1> QED  BY <1>1, <1>2 DEF RelocateNewest

LEMMA ContactKeyType ==
  ASSUME TypeOK, NEW i \in Identity
  PROVE  ContactKey(i) \in Key
BY DEF TypeOK, ContactKey, Key

\* A name filled in is a name.
LEMMA NamedType ==
  ASSUME TypeOK, NEW i \in Identity
  PROVE  Named(i) \in [Identity -> AnyName]
BY NameAssumption DEF TypeOK, Named

LEMMA SnapshotType ==
  ASSUME TypeOK
  PROVE  <<Contacts>> \in Seq(Snapshot) /\ <<>> \in Seq(Snapshot)
<1>1. Contacts \in Snapshot
  BY DEF TypeOK, Contacts, Snapshot
<1> QED  BY <1>1

\* The log after row k has been undone.
IsUndone(log, k, log2) ==
  /\ log2 \in Seq(LogRow) /\ DOMAIN log2 = DOMAIN log /\ Len(log2) = Len(log)
  /\ log2[k].reversed
  /\ \A m \in DOMAIN log :
       /\ log2[m].a = log[m].a /\ log2[m].b = log[m].b
       /\ log2[m].survivor = log[m].survivor /\ log2[m].decision = log[m].decision
       /\ log2[m].moved = log[m].moved /\ log2[m].absorbed = log[m].absorbed
       /\ m # k => log2[m] = log[m]

LEMMA UndoneRow ==
  ASSUME NEW log \in Seq(LogRow), NEW k \in DOMAIN log
  PROVE  IsUndone(log, k, [log EXCEPT ![k].reversed = TRUE])
<1> DEFINE log2 == [log EXCEPT ![k].reversed = TRUE]
<1>1. \A m \in DOMAIN log : log[m] \in LogRow
  BY ElementOfSeq, LenProperties
<1>2. [log[k] EXCEPT !.reversed = TRUE] \in LogRow
  BY <1>1 DEF LogRow
<1>3. log2 \in Seq(LogRow)
  BY <1>2, ExceptSeq
<1>4. DOMAIN log2 = DOMAIN log /\ Len(log2) = Len(log)
  BY ExceptSeq, <1>2
<1> QED  BY <1>1, <1>3, <1>4 DEF LogRow, IsUndone

-----------------------------------------------------------------------------
(* The two operations of merge.py. *)

\* The columns that merge.py writes.
MergeTypes ==
  /\ person_id \in [Identity -> Person \cup {None}]
  /\ persons \in SUBSET Person
  /\ person_name \in [Person -> NameRow]
  /\ merged_into \in [Person -> Person \cup {None}]
  /\ merge_log \in Seq(LogRow)
  /\ brief \in [Key -> Nat]
  /\ brief_status \in [Key -> Nat]
  /\ hidden \in SUBSET Key
  /\ refreshing \in [Refresher -> [key : Key, at : Nat] \cup {None}]
  /\ clock \in Nat
  /\ undos \in {"newest_first", "any_order", "repeated"}
  /\ undone \in Seq(Snapshot)

\* A merge of any two identities keeps the invariant: a fold takes every member
\* of the absorbed person along, and the survivor is a person some identity has,
\* which is therefore not merged into another, or a new one.
LEMMA ApplyMergeKeepsInvariant ==
  ASSUME IInv, NEW a \in Identity, NEW b \in Identity, NEW decision \in Decision,
         NEW names \in [Identity -> AnyName], apply_merge(a, b, decision, names)
  PROVE  MergeTypes' /\ PersonsExist' /\ NoIdentityAtMergedPerson'
<1> DEFINE pa   == person_id[a]
           pb   == person_id[b]
           fold == pa # None /\ pb # None /\ pa # pb
<1> PICK survivor \in Survivors(a, b) :
      LET moved == moved_identities(a, b, survivor)
          stale == StaleKeys(a, b, survivor)
          now   == Members(survivor) \cup moved \cup {a, b}
      IN  /\ person_id' = [i \in Identity |-> IF i \in now THEN survivor
                                              ELSE person_id[i]]
          /\ persons' = persons \cup {survivor}
          /\ merged_into' = IF Folds(a, b)
                            THEN [merged_into EXCEPT ![person_id[b]] = survivor]
                            ELSE merged_into
          /\ merge_log' = Append(merge_log,
               [a |-> a, b |-> b, survivor |-> survivor,
                absorbed |-> IF Folds(a, b) THEN person_id[b] ELSE None,
                moved |-> moved, prev_name |-> person_name[survivor],
                decision |-> decision, reversed |-> FALSE])
          /\ \E n \in select_names({names[i] : i \in now}) :
               person_name' = [person_name EXCEPT ![survivor] = n]
          /\ brief' = RelocateNewest(brief, stale, survivor)
          /\ brief_status' = RelocateNewest(brief_status, stale, survivor)
          /\ hidden' = RelocateHidden(stale, survivor)
          /\ undone' = <<Contacts>>
          /\ UNCHANGED <<brief_vars, undos>>
  BY DEF apply_merge
<1> DEFINE moved == moved_identities(a, b, survivor)
           now   == Members(survivor) \cup moved \cup {a, b}
           row   == [a |-> a, b |-> b, survivor |-> survivor,
                     absorbed |-> IF fold THEN pb ELSE None, moved |-> moved,
                     prev_name |-> person_name[survivor],
                     decision |-> decision, reversed |-> FALSE]
<1>0. /\ Folds(a, b) <=> fold
      /\ survivor \in IF pa # None THEN {pa}
                      ELSE IF pb # None THEN {pb} ELSE Person \ persons
      /\ moved = IF fold THEN Members(pb)
                 ELSE {i \in {a, b} : person_id[i] # survivor}
  BY DEF Folds, Survivors, moved_identities
<1>1. /\ person_id \in [Identity -> Person \cup {None}]
      /\ merged_into \in [Person -> Person \cup {None}]
      /\ persons \in SUBSET Person
      /\ person_name \in [Person -> NameRow]
      /\ merge_log \in Seq(LogRow)
  BY DEF IInv, TypeOK
<1>2. survivor \in Person /\ survivor \in Key /\ survivor # None
  BY <1>0, <1>1, KeyAssumption DEF Key
<1>3. moved \in SUBSET Identity /\ now \in SUBSET Identity
  BY <1>0 DEF Members
<1>4. row \in LogRow
  BY <1>1, <1>2, <1>3 DEF LogRow
<1>5. merge_log' = Append(merge_log, row)
  BY <1>0
<1>6. /\ merge_log' \in Seq(LogRow)
      /\ \A k \in DOMAIN merge_log' :
           \/ merge_log'[k] = row
           \/ k \in DOMAIN merge_log /\ merge_log'[k] = merge_log[k]
  <2> HIDE DEF row
  <2> QED  BY <1>1, <1>4, <1>5
<1>7. ContactKey(a) \in Key /\ ContactKey(b) \in Key
  BY ContactKeyType DEF IInv
<1>8. brief' \in [Key -> Nat] /\ brief_status' \in [Key -> Nat]
  BY <1>2, <1>7, RelocateNewestType DEF IInv, TypeOK, StaleKeys
<1>9. hidden' \in SUBSET Key
  BY <1>2 DEF IInv, TypeOK, RelocateHidden
<1>10. person_name' \in [Person -> NameRow]
  <2>1. PICK n \in select_names({names[i] : i \in now}) :
          person_name' = [person_name EXCEPT ![survivor] = n]
    OBVIOUS
  <2>2. {names[i] : i \in now} \in SUBSET AnyName
    BY <1>3
  <2>3. n \in NameRow
    BY <2>2, SelectNamesType
  <2> QED  BY <1>1, <2>1, <2>3
<1>11. person_id' = [i \in Identity |-> IF i \in now THEN survivor ELSE person_id[i]]
       /\ persons' = persons \cup {survivor}
       /\ merged_into' = IF fold THEN [merged_into EXCEPT ![pb] = survivor]
                         ELSE merged_into
  BY <1>0
<1>12. MergeTypes'
  <2>1. undone' \in Seq(Snapshot)
    BY SnapshotType DEF IInv
  <2>2. /\ refreshing' \in [Refresher -> [key : Key, at : Nat] \cup {None}]
        /\ clock' \in Nat
        /\ undos' \in {"newest_first", "any_order", "repeated"}
    BY DEF IInv, TypeOK, brief_vars
  <2>3. person_id' \in [Identity -> Person \cup {None}] /\ persons' \in SUBSET Person
        /\ merged_into' \in [Person -> Person \cup {None}]
    <3> HIDE DEF moved, now, row
    <3>1. person_id' \in [Identity -> Person \cup {None}]
      BY <1>1, <1>2, <1>11
    <3>2. persons' \in SUBSET Person
      BY <1>1, <1>2, <1>11
    <3>3. merged_into' \in [Person -> Person \cup {None}]
      <4> HIDE DEF fold, pb
      <4> QED  BY <1>1, <1>2, <1>11
    <3> QED  BY <3>1, <3>2, <3>3
  <2> QED  BY <1>6, <1>8, <1>9, <1>10, <2>1, <2>2, <2>3 DEF MergeTypes
<1>13. PersonsExist'
  <2>1. pa # None => pa \in persons
    BY DEF IInv, PersonsExist
  <2>2. pb # None => pb \in persons
    BY DEF IInv, PersonsExist
  <2>3. \A i \in Identity : person_id'[i] # None => person_id'[i] \in persons'
    BY <1>11 DEF IInv, PersonsExist
  <2>4. \A p \in Person : merged_into'[p] # None => p \in persons'
    BY <1>1, <1>11, <2>2 DEF IInv, PersonsExist
  <2>5. \A k \in DOMAIN merge_log' :
          merge_log'[k].absorbed # None => merge_log'[k].absorbed \in persons'
    BY <1>6, <1>11, <2>2 DEF IInv, PersonsExist
  <2> QED  BY <2>3, <2>4, <2>5 DEF PersonsExist
<1>14. NoIdentityAtMergedPerson'
  <2> SUFFICES ASSUME NEW i \in Identity, person_id'[i] # None
               PROVE  merged_into'[person_id'[i]] = None
    BY DEF NoIdentityAtMergedPerson
  <2>1. merged_into[survivor] = None
    BY <1>0, <1>1, <1>2, KeyAssumption DEF IInv, NoIdentityAtMergedPerson, PersonsExist
  <2>2. fold => survivor # pb
    BY <1>0
  <2>3. CASE i \in now
    BY <1>1, <1>2, <1>11, <2>1, <2>2, <2>3
  <2>4. CASE i \notin now
    <3>1. person_id'[i] = person_id[i] /\ merged_into[person_id[i]] = None
      BY <1>11, <2>4 DEF IInv, NoIdentityAtMergedPerson
    <3>2. fold => person_id[i] # pb
      <4> SUFFICES ASSUME fold, person_id[i] = pb PROVE FALSE
        OBVIOUS
      <4>1. i \in Members(pb)
        BY DEF Members, ContactKey
      <4> QED  BY <1>0, <2>4, <4>1
    <3> QED  BY <1>1, <1>11, <3>1, <3>2
  <2> QED  BY <2>3, <2>4
<1> QED  BY <1>12, <1>13, <1>14

\* So does an undo, a second undo of the same merge included: whoever it sends
\* back goes to no person, or to one that it makes live again.
LEMMA UndoMergeKeepsInvariant ==
  ASSUME IInv, NEW k \in DOMAIN merge_log, undo_merge(k)
  PROVE  IInv'
<1> DEFINE e == merge_log[k]
<1>1. /\ person_id \in [Identity -> Person \cup {None}]
      /\ merged_into \in [Person -> Person \cup {None}]
      /\ person_name \in [Person -> NameRow]
      /\ merge_log \in Seq(LogRow)
      /\ candidate \in SUBSET Candidate
  BY DEF IInv, TypeOK
<1>2. e \in LogRow
  BY <1>1
<1>3. /\ e.moved \in SUBSET Identity
      /\ e.absorbed \in Person \cup {None}
      /\ e.survivor \in Person
      /\ e.prev_name \in NameRow
  BY <1>2 DEF LogRow
<1> HIDE DEF e
<1>4. /\ person_id' = [i \in Identity |-> IF i \in e.moved THEN e.absorbed
                                          ELSE person_id[i]]
      /\ merged_into' = IF e.absorbed # None
                        THEN [merged_into EXCEPT ![e.absorbed] = None]
                        ELSE merged_into
      /\ person_name' = [person_name EXCEPT ![e.survivor] = e.prev_name]
      /\ merge_log' = [merge_log EXCEPT ![k].reversed = TRUE]
      /\ candidate' = Reopened(e.a, e.b)
      /\ undos' \in {undos, "any_order", "repeated"}
      /\ undone' = <<>>
      /\ UNCHANGED <<present, display_name, persons, side_vars, brief_vars>>
  BY DEF undo_merge, MovedBack, Unforwarded, e
<1>5. /\ merge_log' \in Seq(LogRow)
      /\ \A j \in DOMAIN merge_log' :
           j \in DOMAIN merge_log /\ merge_log'[j].absorbed = merge_log[j].absorbed
  <2>1. merge_log' = [merge_log EXCEPT ![k] = [e EXCEPT !.reversed = TRUE]]
    BY <1>4 DEF e
  <2>2. [e EXCEPT !.reversed = TRUE] \in LogRow
        /\ [e EXCEPT !.reversed = TRUE].absorbed = e.absorbed
    BY <1>2 DEF LogRow
  <2> DEFINE row == [e EXCEPT !.reversed = TRUE]
  <2>3. row \in LogRow /\ row.absorbed = merge_log[k].absorbed
    BY <2>2 DEF e
  <2>4. merge_log' = [merge_log EXCEPT ![k] = row]
    BY <2>1
  <2>5. merge_log \in Seq(LogRow)
    BY <1>1
  <2> HIDE DEF row
  <2>6. merge_log' \in Seq(LogRow)
    BY <2>3, <2>4, <2>5
  <2>7. DOMAIN merge_log' = DOMAIN merge_log
        /\ \A j \in DOMAIN merge_log : merge_log'[j] = IF j = k THEN row ELSE merge_log[j]
    BY <2>4, <2>5
  <2> QED  BY <2>3, <2>6, <2>7
<1>6. candidate' \in SUBSET Candidate
  BY <1>1, <1>4 DEF Reopened, Candidate
<1>7. TypeOK'
  <2>1. /\ person_id' \in [Identity -> Person \cup {None}]
        /\ merged_into' \in [Person -> Person \cup {None}]
        /\ person_name' \in [Person -> NameRow]
    BY <1>1, <1>3, <1>4
  <2>2. /\ undos' \in {"newest_first", "any_order", "repeated"}
        /\ undone' \in Seq(Snapshot)
    BY <1>4 DEF IInv, TypeOK
  <2> QED  BY <1>4, <1>5, <1>6, <2>1, <2>2 DEF IInv, TypeOK, side_vars, brief_vars
<1>8. PersonsExist'
  <2>1. e.absorbed # None => e.absorbed \in persons
    BY DEF IInv, PersonsExist, e
  <2> QED  BY <1>1, <1>3, <1>4, <1>5, <2>1 DEF IInv, PersonsExist
<1>9. NoIdentityAtMergedPerson'
  BY <1>1, <1>3, <1>4 DEF IInv, NoIdentityAtMergedPerson
<1> QED  BY <1>7, <1>8, <1>9 DEF IInv

-----------------------------------------------------------------------------
(* The other actions. *)

\* What IInv says of the parts that a step leaves alone, it says after the step.
LEMMA UnchangedMergeTypes ==
  ASSUME IInv,
         UNCHANGED <<person_id, person_vars, merge_log, side_vars, brief_vars, undos>>,
         undone' = <<>>
  PROVE  MergeTypes' /\ PersonsExist' /\ NoIdentityAtMergedPerson'
<1>1. undone' \in Seq(Snapshot)
  OBVIOUS
<1> QED
  BY <1>1 DEF IInv, TypeOK, MergeTypes, PersonsExist, NoIdentityAtMergedPerson,
              person_vars, side_vars, brief_vars

\* MergeTypes are the types of all variables but three.
LEMMA TypesTogether ==
  ASSUME MergeTypes', PersonsExist', NoIdentityAtMergedPerson',
         (present \in SUBSET Identity)', (display_name \in [Identity -> AnyName])',
         (candidate \in SUBSET Candidate)'
  PROVE  IInv'
BY DEF MergeTypes, IInv, TypeOK

LEMMA RowType ==
  ASSUME NEW a \in Identity, NEW b \in Identity, NEW method \in Method,
         NEW status \in {"pending", "confirmed"}
  PROVE  Row(a, b, method, status) \in Candidate
BY DEF Row, Candidate

\* A pair that an automatic rule proposes, merged or only queued.
LEMMA ProposeKeepsInvariant ==
  ASSUME IInv, NEW a \in Identity, NEW b \in Identity, NEW method \in Method,
         NEW blocked, NEW names \in [Identity -> AnyName],
         propose_and_maybe_confirm(a, b, method, blocked, names)
  PROVE  /\ MergeTypes' /\ PersonsExist' /\ NoIdentityAtMergedPerson'
         /\ candidate' \in SUBSET Candidate
<1>1. CASE candidate' = candidate \cup {Row(a, b, method, "pending")}
           /\ undone' = <<>>
           /\ UNCHANGED <<person_id, person_vars, merge_log, side_vars,
                          brief_vars, undos>>
  BY <1>1, UnchangedMergeTypes, RowType DEF IInv, TypeOK
<1>2. CASE candidate' = candidate \cup {Row(a, b, method, "confirmed")}
           /\ apply_merge(a, b, "automatic", names)
  <2>1. "automatic" \in Decision
    BY DEF Decision
  <2> QED  BY <1>2, <2>1, ApplyMergeKeepsInvariant, RowType DEF IInv, TypeOK
<1> QED  BY <1>1, <1>2 DEF propose_and_maybe_confirm

\* A pair that a rule only queues, or passes over.
LEMMA QueueKeepsInvariant ==
  ASSUME IInv, NEW a \in Identity, NEW b \in Identity, NEW method \in Method,
         Queue(a, b, method) \/ Skip(a, b)
  PROVE  /\ MergeTypes' /\ PersonsExist' /\ NoIdentityAtMergedPerson'
         /\ candidate' \in SUBSET Candidate
<1>1. CASE Queue(a, b, method)
  BY <1>1, UnchangedMergeTypes, RowType DEF Queue, IInv, TypeOK
<1>2. CASE Skip(a, b)
  BY <1>2, UnchangedMergeTypes DEF Skip, IInv, TypeOK, person_vars
<1> QED  BY <1>1, <1>2

\* The rules of rules.py and linkedin_correlation.py.
LEMMA ResolutionKeepsInvariant ==
  ASSUME IInv, Resolution
  PROVE  IInv'
<1>1. /\ present \in SUBSET Identity
      /\ display_name \in [Identity -> AnyName]
  BY DEF IInv, TypeOK
<1>2. \A l \in LinkedIn : l \in Identity /\ Named(l) \in [Identity -> AnyName]
  BY NamedType DEF IInv, Identity
<1>3. "exact_email" \in Method /\ "contact_bridge" \in Method
      /\ "email_signature_phone" \in Method
      /\ "outlook_same_channel_dedupe" \in Method
      /\ "linkedin_name_company" \in Method
  BY DEF Method, AutomaticMethod, QueuedMethod
<1>4. ASSUME NEW o \in Outlook \cap present, NEW l \in LinkedIn,
             rule_exact_email_match(o, l)
      PROVE  IInv'
  <2>1. o \in Identity /\ l \in Identity
    BY <1>1, <1>2
  <2>2. CASE Skip(o, l)
    BY <1>1, <1>2, <1>3, <1>4, <2>1, <2>2, QueueKeepsInvariant, TypesTogether
       DEF rule_exact_email_match
  <2>3. CASE propose_and_maybe_confirm(o, l, "exact_email", o \in GenericRole, Named(l))
    BY <1>1, <1>2, <1>3, <1>4, <2>1, <2>3, ProposeKeepsInvariant, TypesTogether
       DEF rule_exact_email_match
  <2> QED  BY <1>4, <2>2, <2>3 DEF rule_exact_email_match
<1>5. ASSUME NEW o \in Outlook \cap present, NEW w \in WhatsApp \cap present,
             rule_contact_bridge(o, w)
      PROVE  IInv'
  <2>1. o \in Identity /\ w \in Identity
    BY <1>1
  <2> QED  BY <1>1, <1>3, <1>5, <2>1, ProposeKeepsInvariant, TypesTogether
              DEF rule_contact_bridge
<1>6. ASSUME NEW o \in Outlook \cap present, NEW w \in WhatsApp \cap present,
             rule_signature_phone(o, w)
      PROVE  IInv'
  <2>1. o \in Identity /\ w \in Identity
    BY <1>1
  <2> QED  BY <1>1, <1>3, <1>6, <2>1, QueueKeepsInvariant, TypesTogether
              DEF rule_signature_phone
<1>7. ASSUME NEW o1 \in Outlook \cap present, NEW o2 \in Outlook \cap present,
             rule_outlook_dedupe(o1, o2)
      PROVE  IInv'
  <2>1. o1 \in Identity /\ o2 \in Identity
    BY <1>1
  <2> QED  BY <1>1, <1>3, <1>7, <2>1, QueueKeepsInvariant, TypesTogether
              DEF rule_outlook_dedupe
<1>8. ASSUME NEW l \in LinkedIn, NEW i \in (Outlook \cup WhatsApp) \cap present,
             rule_linkedin_correlation(l, i)
      PROVE  IInv'
  <2>1. l \in Identity /\ i \in Identity
    BY <1>1, <1>2
  <2> QED  BY <1>1, <1>2, <1>3, <1>8, <2>1, QueueKeepsInvariant, TypesTogether
              DEF rule_linkedin_correlation
<1> QED
  BY <1>4, <1>5, <1>6, <1>7, <1>8, EvidenceAssumption DEF Resolution

\* The review page, manual links and undo.
LEMMA ReviewKeepsInvariant ==
  ASSUME IInv, Review
  PROVE  IInv'
<1>1. /\ present \in SUBSET Identity
      /\ display_name \in [Identity -> AnyName]
      /\ candidate \in SUBSET Candidate
  BY DEF IInv, TypeOK
<1>2. "review" \in Decision /\ "manual" \in Decision
  BY DEF Decision
<1>3. ASSUME NEW c \in candidate, resolution_candidate_confirm(c)
      PROVE  IInv'
  <2>1. c.a \in Identity /\ c.b \in Identity
        /\ [c EXCEPT !.status = "confirmed"] \in Candidate
    BY <1>1 DEF Candidate
  <2>2. MergeTypes' /\ PersonsExist' /\ NoIdentityAtMergedPerson'
    BY <1>1, <1>2, <1>3, <2>1, ApplyMergeKeepsInvariant
       DEF resolution_candidate_confirm
  <2> QED  BY <1>1, <1>3, <2>1, <2>2, TypesTogether DEF resolution_candidate_confirm
<1>4. ASSUME NEW c \in candidate, resolution_candidate_reject(c)
      PROVE  IInv'
  <2>1. [c EXCEPT !.status = "rejected"] \in Candidate
    BY <1>1 DEF Candidate
  <2>2. MergeTypes' /\ PersonsExist' /\ NoIdentityAtMergedPerson'
    BY <1>4, UnchangedMergeTypes DEF resolution_candidate_reject, identity_vars
  <2> QED  BY <1>1, <1>4, <2>1, <2>2, TypesTogether
              DEF resolution_candidate_reject, identity_vars
<1>5. ASSUME NEW rep \in present, NEW other \in present, link_contact(rep, other)
      PROVE  IInv'
  <2>1. MergeTypes' /\ PersonsExist' /\ NoIdentityAtMergedPerson'
    BY <1>1, <1>2, <1>5, ApplyMergeKeepsInvariant DEF link_contact
  <2> QED  BY <1>1, <1>5, <2>1, TypesTogether DEF link_contact
<1>6. ASSUME NEW k \in DOMAIN merge_log, undo_merge(k)
      PROVE  IInv'
  BY <1>6, UndoMergeKeepsInvariant
<1> QED  BY <1>3, <1>4, <1>5, <1>6 DEF Review

\* A handle added by hand joins a person that is live, or a new one.
LEMMA AddContactHandleKeepsInvariant ==
  ASSUME IInv, NEW rep \in present, NEW i \in (Outlook \cup WhatsApp) \ present,
         add_contact_handle(rep, i)
  PROVE  IInv'
<1>1. /\ present \in SUBSET Identity
      /\ person_id \in [Identity -> Person \cup {None}]
      /\ persons \in SUBSET Person
      /\ person_name \in [Person -> NameRow]
      /\ merged_into \in [Person -> Person \cup {None}]
      /\ display_name \in [Identity -> AnyName]
  BY DEF IInv, TypeOK
<1>2. rep \in Identity /\ i \in Identity
  BY <1>1 DEF Identity
<1>3. present' \in SUBSET Identity /\ undone' \in Seq(Snapshot)
  BY <1>1, <1>2 DEF add_contact_handle
<1>4. UNCHANGED <<display_name, merged_into, merge_log, candidate, side_vars,
                  brief_vars, undos>>
  BY DEF add_contact_handle
<1>5. CASE person_id[rep] = None
  <2>1. PICK p \in Person \ persons :
          /\ persons' = persons \cup {p}
          /\ person_name' = [person_name EXCEPT ![p] = Names(display_name[rep], NoName)]
          /\ person_id' = [person_id EXCEPT ![rep] = p, ![i] = p]
    BY <1>5 DEF add_contact_handle
  <2>2. Names(display_name[rep], NoName) \in NameRow
    BY <1>1, <1>2 DEF Names, NameRow, AnyName
  <2>3. merged_into[p] = None
    BY <2>1 DEF IInv, PersonsExist
  <2>4. /\ persons' \in SUBSET Person
        /\ person_name' \in [Person -> NameRow]
        /\ person_id' \in [Identity -> Person \cup {None}]
    BY <1>1, <2>1, <2>2
  <2>5. TypeOK'
    BY <1>3, <1>4, <2>4 DEF IInv, TypeOK, side_vars, brief_vars
  <2>6. PersonsExist'
    BY <1>1, <1>2, <1>4, <2>1 DEF IInv, PersonsExist
  <2>7. NoIdentityAtMergedPerson'
    BY <1>1, <1>2, <1>4, <2>1, <2>3 DEF IInv, NoIdentityAtMergedPerson
  <2> QED  BY <2>5, <2>6, <2>7 DEF IInv
<1>6. CASE person_id[rep] # None
  <2>1. /\ person_id' = [person_id EXCEPT ![i] = person_id[rep]]
        /\ UNCHANGED <<persons, person_name>>
    BY <1>6 DEF add_contact_handle
  <2>2. TypeOK'
    BY <1>1, <1>2, <1>3, <1>4, <2>1 DEF IInv, TypeOK, side_vars, brief_vars
  <2>3. PersonsExist' /\ NoIdentityAtMergedPerson'
    BY <1>1, <1>2, <1>4, <2>1 DEF IInv, PersonsExist, NoIdentityAtMergedPerson
  <2> QED  BY <2>2, <2>3 DEF IInv
<1> QED  BY <1>5, <1>6

\* The contact panel, names that arrive, and hiding.
LEMMA PanelKeepsInvariant ==
  ASSUME IInv, Panel \/ Upsert \/ Inbox
  PROVE  IInv'
<1>1. /\ present \in SUBSET Identity
      /\ display_name \in [Identity -> AnyName]
      /\ candidate \in SUBSET Candidate
      /\ hidden \in SUBSET Key
      /\ persons \in SUBSET Person
  BY DEF IInv, TypeOK
<1>2. ASSUME NEW rep \in present, NEW n \in Typed, update_contact_name(rep, n)
      PROVE  IInv'
  <2>1. display_name' \in [Identity -> AnyName]
    BY <1>1, <1>2, NameAssumption DEF update_contact_name, AnyName
  <2>2. MergeTypes' /\ PersonsExist' /\ NoIdentityAtMergedPerson'
    BY <1>2, UnchangedMergeTypes DEF update_contact_name
  <2> QED  BY <1>1, <1>2, <2>1, <2>2, TypesTogether DEF update_contact_name
<1>3. ASSUME NEW i \in present, UpsertIdentity(i)
      PROVE  IInv'
  <2>1. display_name' \in [Identity -> AnyName]
    BY <1>1, <1>3, NamedType DEF UpsertIdentity, IInv
  <2>2. MergeTypes' /\ PersonsExist' /\ NoIdentityAtMergedPerson'
    BY <1>3, UnchangedMergeTypes DEF UpsertIdentity
  <2> QED  BY <1>1, <1>3, <2>1, <2>2, TypesTogether DEF UpsertIdentity
<1>4. BrowserKey \subseteq Key
  BY <1>1, KeyAssumption, ContactKeyType DEF BrowserKey, IInv, Key
<1>5. ASSUME NEW k \in BrowserKey, hide_contact(k) \/ unhide_contact(k)
      PROVE  IInv'
  <2>1. /\ hidden' \in SUBSET Key /\ undone' \in Seq(Snapshot)
        /\ UNCHANGED <<identity_vars, person_vars, merge_log, candidate, brief,
                       brief_status, brief_vars, undos>>
    <3>1. CASE hide_contact(k)
      BY <1>1, <1>4, <3>1, EmptySeq DEF hide_contact
    <3>2. CASE unhide_contact(k)
      BY <1>1, <3>2, EmptySeq DEF unhide_contact
    <3> QED  BY <1>5, <3>1, <3>2
  <2>2. TypeOK'
    BY <2>1 DEF IInv, TypeOK, identity_vars, person_vars, brief_vars
  <2> QED
    BY <2>1, <2>2 DEF IInv, PersonsExist, NoIdentityAtMergedPerson, identity_vars,
                      person_vars
<1> QED
  BY <1>2, <1>3, <1>5, AddContactHandleKeepsInvariant DEF Panel, Upsert, Inbox

\* Brief refreshes.
LEMMA BriefsKeepInvariant ==
  ASSUME IInv, Briefs
  PROVE  IInv'
<1>1. /\ present \in SUBSET Identity
      /\ brief \in [Key -> Nat]
      /\ brief_status \in [Key -> Nat]
      /\ refreshing \in [Refresher -> [key : Key, at : Nat] \cup {None}]
      /\ clock \in Nat
  BY DEF IInv, TypeOK
<1> SUFFICES ASSUME /\ brief' \in [Key -> Nat]
                    /\ brief_status' \in [Key -> Nat]
                    /\ refreshing' \in [Refresher -> [key : Key, at : Nat] \cup {None}]
                    /\ clock' \in Nat
                    /\ undone' = <<>>
                    /\ UNCHANGED <<identity_vars, person_vars, merge_log, candidate,
                                   hidden, undos>>
             PROVE  IInv'
  <2>1. ASSUME NEW r \in Refresher, NEW i \in present, person_keys_for_identities(r, i)
        PROVE  refreshing' \in [Refresher -> [key : Key, at : Nat] \cup {None}]
    BY <1>1, <2>1, ContactKeyType DEF person_keys_for_identities, IInv
  <2>2. ASSUME NEW r \in Refresher, BeginRefresh(r)
        PROVE  /\ refreshing' \in [Refresher -> [key : Key, at : Nat] \cup {None}]
               /\ clock' \in Nat
    <3>1. refreshing[r] \in [key : Key, at : Nat]
      BY <1>1, <2>2 DEF BeginRefresh
    <3> QED  BY <1>1, <2>2, <3>1 DEF BeginRefresh
  <2>3. ASSUME NEW r \in Refresher, NEW success \in BOOLEAN, StoreBrief(r, success)
        PROVE  /\ brief' \in [Key -> Nat]
               /\ brief_status' \in [Key -> Nat]
               /\ refreshing' \in [Refresher -> [key : Key, at : Nat] \cup {None}]
    BY <1>1, <2>3 DEF StoreBrief
  <2>4. ASSUME NEW r \in Refresher, StorageFailed(r)
        PROVE  /\ brief_status' \in [Key -> Nat]
               /\ refreshing' \in [Refresher -> [key : Key, at : Nat] \cup {None}]
               /\ clock' \in Nat
    BY <1>1, <2>4 DEF StorageFailed
  <2> QED
    BY <1>1, <2>1, <2>2, <2>3, <2>4
       DEF Briefs, person_keys_for_identities, BeginRefresh, StoreBrief,
           StorageFailed, side_vars
<1>2. undone' \in Seq(Snapshot)
  OBVIOUS
<1> QED
  BY <1>2 DEF IInv, TypeOK, PersonsExist, NoIdentityAtMergedPerson, identity_vars,
              person_vars

-----------------------------------------------------------------------------
(* The theorems. *)

LEMMA InitInvariant == Init => IInv
<1>1. ASSUME InitFresh PROVE IInv
  BY <1>1, KeyAssumption, NameAssumption
     DEF InitFresh, InitStore, IInv, TypeOK, PersonsExist, NoIdentityAtMergedPerson,
         NewPerson, Names, NameRow, AnyName, Key
<1>2. ASSUME NEW a \in LinkedIn \cap Known, NEW b \in LinkedIn \cap Known,
             NEW p \in Person, InitLegacy(a, b, p)
      PROVE  IInv
  <2>1. a \in Identity /\ b \in Identity /\ p # None
    BY KeyAssumption DEF Key
  <2>2. NewPerson \in NameRow
    BY DEF NewPerson, Names, NameRow, AnyName
  <2>3. PICK n \in select_names({Reported[a], Reported[b]}) :
          person_name = [q \in Person |-> IF q = p THEN n ELSE NewPerson]
    BY <1>2 DEF InitLegacy
  <2>4. n \in NameRow
    BY <2>1, SelectNamesType, NameAssumption
  <2> DEFINE row == [a |-> a, b |-> b, survivor |-> p, absorbed |-> None,
                     moved |-> {a, b}, prev_name |-> NewPerson,
                     decision |-> "review", reversed |-> FALSE]
  <2>5. row \in LogRow
    BY <2>1, <2>2 DEF LogRow, Decision
  <2>6. merge_log = <<row>>
    BY <1>2 DEF InitLegacy
  <2>7. merge_log \in Seq(LogRow) /\ \A k \in DOMAIN merge_log : merge_log[k].absorbed = None
    BY <2>5, <2>6
  <2>8. candidate \in SUBSET Candidate
    BY <1>2, <2>1 DEF InitLegacy, Row, Candidate, Method
  <2>9. TypeOK
    BY <1>2, <2>1, <2>2, <2>3, <2>4, <2>7, <2>8, KeyAssumption, NameAssumption
       DEF InitLegacy, InitStore, TypeOK, AnyName
  <2>10. PersonsExist /\ NoIdentityAtMergedPerson
    BY <1>2, <2>1, <2>7 DEF InitLegacy, InitStore, PersonsExist, NoIdentityAtMergedPerson
  <2> QED  BY <2>9, <2>10 DEF IInv
<1> QED  BY <1>1, <1>2 DEF Init

LEMMA NextInvariant == IInv /\ [Next]_vars => IInv'
<1> SUFFICES ASSUME IInv, [Next]_vars PROVE IInv'
  OBVIOUS
<1>1. CASE Resolution  BY <1>1, ResolutionKeepsInvariant
<1>2. CASE Review      BY <1>2, ReviewKeepsInvariant
<1>3. CASE Panel \/ Upsert \/ Inbox  BY <1>3, PanelKeepsInvariant
<1>4. CASE Briefs      BY <1>4, BriefsKeepInvariant
<1>5. CASE UNCHANGED vars
  BY <1>5 DEF vars, identity_vars, person_vars, side_vars, brief_vars, IInv, TypeOK,
              PersonsExist, NoIdentityAtMergedPerson
<1> QED  BY <1>1, <1>2, <1>3, <1>4, <1>5 DEF Next

\* The variables of the store keep the types of the columns they stand for.
THEOREM TypeCorrect == Spec => []TypeOK
<1>1. IInv => TypeOK
  BY DEF IInv
<1> QED  BY <1>1, InitInvariant, NextInvariant, PTL DEF Spec

\* No sequence of merges, undos (in any order, repeated ones too) and handles
\* added by hand leaves an identity at a person that was merged into another.
THEOREM NoIdentityStranded == Spec => []NoIdentityAtMergedPerson
<1>1. IInv => NoIdentityAtMergedPerson
  BY DEF IInv
<1> QED  BY <1>1, InitInvariant, NextInvariant, PTL DEF Spec

-----------------------------------------------------------------------------
(* Undoing what was merged last.                                           *)

\* The newest row of the log tells what its merge found, as long as nothing else
\* has happened since: the columns that undo_merge would write are those of then.
LatestRowTells ==
  undone # <<>> =>
    LET e == merge_log[Len(merge_log)]
    IN  /\ Len(merge_log) \in DOMAIN merge_log
        /\ undone[1].person_id = MovedBack(e)
        /\ undone[1].merged_into = Unforwarded(e)
        /\ undone[1].person_name = [person_name EXCEPT ![e.survivor] = e.prev_name]

\* A fold moves identities from one person, a join those that had none; and the
\* person that is folded did not forward before, as it had identities.
LEMMA MergeTells ==
  ASSUME IInv, NEW a \in Identity, NEW b \in Identity, NEW decision, NEW names,
         apply_merge(a, b, decision, names)
  PROVE  LatestRowTells'
<1>1. PICK survivor \in Survivors(a, b) : \E e :
        LET now == Members(survivor) \cup moved_identities(a, b, survivor) \cup {a, b}
        IN  /\ person_id' = [i \in Identity |-> IF i \in now THEN survivor ELSE person_id[i]]
            /\ merged_into' = IF Folds(a, b)
                              THEN [merged_into EXCEPT ![person_id[b]] = survivor]
                              ELSE merged_into
            /\ e.survivor = survivor /\ e.moved = moved_identities(a, b, survivor)
            /\ e.prev_name = person_name[survivor]
            /\ e.absorbed = IF Folds(a, b) THEN person_id[b] ELSE None
            /\ merge_log' = Append(merge_log, e)
            /\ \E n : person_name' = [person_name EXCEPT ![survivor] = n]
            /\ undone' = <<Contacts>>
  BY DEF apply_merge
<1> DEFINE moved == moved_identities(a, b, survivor)
<1>2. /\ person_id \in [Identity -> Person \cup {None}] /\ survivor \in Person /\ survivor # None
      /\ merged_into \in [Person -> Person \cup {None}] /\ person_name \in [Person -> NameRow]
      /\ merge_log \in Seq(LogRow) /\ Identity \cap Person = {} /\ None \notin Identity
  BY KeyAssumption DEF IInv, TypeOK, Survivors, Key
<1>3. PICK e : /\ e.survivor = survivor /\ e.moved = moved
               /\ e.prev_name = person_name[survivor]
               /\ e.absorbed = IF Folds(a, b) THEN person_id[b] ELSE None
               /\ merge_log' = Append(merge_log, e)
  BY <1>1
<1>4. Len(merge_log') \in DOMAIN merge_log' /\ merge_log'[Len(merge_log')] = e
  BY <1>2, <1>3
<1>5. undone'[1].person_id = person_id /\ undone'[1].merged_into = merged_into
      /\ undone'[1].person_name = person_name
  BY <1>1 DEF Contacts
<1>6. person_id = MovedBack(e)'
  <2>1. \A i \in moved : person_id[i] = e.absorbed
    <3>1. CASE Folds(a, b)
      BY <1>2, <1>3, <3>1 DEF Folds, moved_identities, Members, ContactKey
    <3>2. CASE ~Folds(a, b)
      BY <1>1, <1>2, <1>3, <3>2 DEF Folds, moved_identities, Survivors
    <3> QED  BY <3>1, <3>2
  <2>2. \A i \in Identity \ moved : person_id'[i] = person_id[i]
    <3>1. \A i \in Members(survivor) : person_id[i] = survivor
      BY <1>2 DEF Members, ContactKey
    <3>2. \A i \in {a, b} \ moved : person_id[i] = survivor
      <4>1. CASE Folds(a, b)
        BY <1>1, <1>2, <4>1 DEF Folds, moved_identities, Survivors, Members, ContactKey
      <4>2. CASE ~Folds(a, b)
        BY <4>2 DEF moved_identities
      <4> QED  BY <4>1, <4>2
    <3> QED  BY <1>1, <3>1, <3>2
  <2>3. \A i \in Identity : person_id[i] = IF i \in moved THEN e.absorbed ELSE person_id'[i]
    BY <2>1, <2>2
  <2>4. MovedBack(e)' = [i \in Identity |-> IF i \in moved THEN e.absorbed ELSE person_id'[i]]
    BY <1>3 DEF MovedBack
  <2> QED  BY <1>2, <2>3, <2>4
<1>7. merged_into = Unforwarded(e)'
  <2>1. CASE Folds(a, b)
    <3>1. person_id[b] \in Person /\ person_id[b] # None /\ merged_into[person_id[b]] = None
      BY <1>2, <2>1 DEF Folds, IInv, NoIdentityAtMergedPerson
    <3>2. merged_into' = [merged_into EXCEPT ![person_id[b]] = survivor]
      BY <1>1, <2>1
    <3>3. Unforwarded(e)' = [merged_into' EXCEPT ![person_id[b]] = None]
      BY <1>3, <2>1, <3>1 DEF Unforwarded
    <3> QED  BY <1>2, <3>1, <3>2, <3>3
  <2>2. CASE ~Folds(a, b)
    BY <1>1, <1>3, <2>2 DEF Unforwarded
  <2> QED  BY <2>1, <2>2
<1>8. person_name = [person_name' EXCEPT ![e.survivor] = e.prev_name]
  BY <1>1, <1>2, <1>3
<1> QED  BY <1>4, <1>5, <1>6, <1>7, <1>8 DEF LatestRowTells

\* Every step merges, or forgets what a merge found.
LEMMA NextMergesOrForgets ==
  ASSUME IInv, [Next]_vars
  PROVE  \/ \E a, b \in Identity : \E decision, names : apply_merge(a, b, decision, names)
         \/ undone' = <<>>
         \/ UNCHANGED vars
<1>1. \A e \in EmailMatch \cup BridgeMatch : e[1] \in Identity /\ e[2] \in Identity
  BY EvidenceAssumption DEF Identity
<1>2. CASE Resolution
  BY <1>1, <1>2 DEF Resolution, rule_exact_email_match, rule_contact_bridge,
     rule_signature_phone, rule_outlook_dedupe, rule_linkedin_correlation,
     propose_and_maybe_confirm, Skip, Queue
<1>3. CASE Review
  <2>1. \A c \in candidate : c.a \in Identity /\ c.b \in Identity
    BY DEF IInv, TypeOK, Candidate
  <2>2. present \subseteq Identity
    BY DEF IInv, TypeOK
  <2> QED  BY <1>3, <2>1, <2>2 DEF Review, resolution_candidate_confirm,
           resolution_candidate_reject, link_contact, undo_merge
<1>4. Panel \/ Inbox \/ Upsert \/ Briefs => undone' = <<>>
  BY DEF Panel, Inbox, Upsert, Briefs, add_contact_handle, update_contact_name,
         hide_contact, unhide_contact, UpsertIdentity, person_keys_for_identities,
         BeginRefresh, StoreBrief, StorageFailed
<1> QED  BY <1>2, <1>3, <1>4 DEF Next

LEMMA NextTells ==
  ASSUME IInv, LatestRowTells, [Next]_vars
  PROVE  LatestRowTells'
<1>1. CASE undone' = <<>>
  BY <1>1 DEF LatestRowTells
<1>2. CASE UNCHANGED vars
  BY <1>2 DEF vars, identity_vars, person_vars, LatestRowTells, MovedBack, Unforwarded
<1> QED  BY <1>1, <1>2, NextMergesOrForgets, MergeTells

\* What LatestUndoIsExact asks of a step.
UndoesExactly ==
  LET k == Len(merge_log)
  IN undone # <<>> /\ ~merge_log[k].reversed /\ k \in DOMAIN merge_log'
     /\ merge_log'[k].reversed =>
      /\ person_id' = undone[1].person_id
      /\ merged_into' = undone[1].merged_into
      /\ person_name' = undone[1].person_name

\* Only an undo reverses a row, and only its own.
LEMMA UndoUndoesExactly ==
  ASSUME IInv, LatestRowTells, [Next]_vars
  PROVE  UndoesExactly
<1> DEFINE k == Len(merge_log)
<1> SUFFICES ASSUME undone # <<>>, ~merge_log[k].reversed, k \in DOMAIN merge_log',
                    merge_log'[k].reversed
             PROVE  /\ person_id' = undone[1].person_id
                    /\ merged_into' = undone[1].merged_into
                    /\ person_name' = undone[1].person_name
  BY DEF UndoesExactly
<1>1. merge_log \in Seq(LogRow) /\ k \in DOMAIN merge_log
  BY DEF IInv, TypeOK, LatestRowTells
<1>2. ASSUME NEW a, NEW b, NEW decision, NEW names, apply_merge(a, b, decision, names)
      PROVE  FALSE
  <2>1. \E e : merge_log' = Append(merge_log, e)
    BY <1>2 DEF apply_merge
  <2>2. merge_log'[k] = merge_log[k]
    BY <1>1, <2>1
  <2> QED  BY <2>2
<1>3. merge_log' # merge_log
  OBVIOUS
<1>4. PICK j \in DOMAIN merge_log : undo_merge(j)
  BY <1>2, <1>3 DEF Next, Resolution, Review, Panel, Inbox, Upsert, Briefs, vars,
     rule_exact_email_match, rule_contact_bridge, rule_signature_phone,
     rule_outlook_dedupe, rule_linkedin_correlation, propose_and_maybe_confirm, Skip, Queue,
     resolution_candidate_confirm, resolution_candidate_reject, link_contact,
     add_contact_handle, update_contact_name, hide_contact, unhide_contact,
     UpsertIdentity, person_keys_for_identities, BeginRefresh, StoreBrief, StorageFailed
<1>5. merge_log' = [merge_log EXCEPT ![j].reversed = TRUE]
  BY <1>4 DEF undo_merge
<1>6. j = k
  BY <1>1, <1>5
<1> QED  BY <1>4, <1>6 DEF undo_merge, LatestRowTells

LEMMA InitTells == Init => LatestRowTells
BY DEF Init, InitFresh, InitLegacy, InitStore, LatestRowTells

\* Undoing the newest merge before anything else happens gives back the persons,
\* names and forwarding that it found, whatever the merge was and whatever was
\* merged and undone before. (undo_merge restores from the row alone; that the
\* absorbed person's forwarding was null rests on NoIdentityStranded.)
THEOREM LatestUndo == Spec => LatestUndoIsExact
<1>1. IInv /\ LatestRowTells /\ [Next]_vars => [UndoesExactly]_vars
  BY UndoUndoesExactly
<1>2. IInv /\ LatestRowTells /\ [Next]_vars => LatestRowTells'
  BY NextTells
<1> QED  BY <1>1, <1>2, InitInvariant, NextInvariant, InitTells, PTL
         DEF Spec, LatestUndoIsExact, UndoesExactly
=============================================================================
