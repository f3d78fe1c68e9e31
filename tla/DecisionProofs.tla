--------------------------- MODULE DecisionProofs ---------------------------
(***************************************************************************)
(* What the rules and a reviewer decide, and that it stays decided, in     *)
(* every store: no pair is merged automatically twice, no automatic merge  *)
(* joins what contradicts or makes a contact too large, and what was       *)
(* rejected, confirmed or named by hand stays so. The rules run again      *)
(* after every sync, over the same evidence, with reviews, undos and       *)
(* merges by hand in between; link_candidate is all that they remember by. *)
(***************************************************************************)
EXTENDS IdentityMergeProofs, FiniteSetTheorems

\* What a rule merged has a row in link_candidate, whose status does not matter.
\* Without this the property is not inductive: the rules ask for candidates
\* and not for merges.
AutomaticHasCandidate ==
  \A k \in DOMAIN merge_log :
    merge_log[k].decision = "automatic" =>
      has_existing_candidate(merge_log[k].a, merge_log[k].b)

\* The inductive invariant, on top of the types.
DInv == PairMergedAutomaticallyOnce /\ AutomaticHasCandidate

\* What every step does to the two tables: no pair loses its candidate, and a row
\* that joins the log is automatic only if its pair had none before and has one
\* after.
KeepsPairs == \A c \in candidate : \E d \in candidate' : d.a = c.a /\ d.b = c.b

SameLog ==
  /\ DOMAIN merge_log' = DOMAIN merge_log
  /\ \A k \in DOMAIN merge_log : /\ merge_log'[k].a = merge_log[k].a
                                 /\ merge_log'[k].b = merge_log[k].b
                                 /\ merge_log'[k].decision = merge_log[k].decision

NewRow ==
  \E e \in LogRow :
    /\ merge_log' = Append(merge_log, e)
    /\ e.decision = "automatic" =>
         /\ ~has_existing_candidate(e.a, e.b)
         /\ has_existing_candidate(e.a, e.b)'

Decides == KeepsPairs /\ (SameLog \/ NewRow)

-----------------------------------------------------------------------------

\* Such steps keep the invariant.
LEMMA DecidesKeepsInvariant ==
  ASSUME TypeOK, DInv, Decides
  PROVE  DInv'
<1> USE DEF DInv
<1>1. CASE SameLog
  <2>1. AutomaticHasCandidate'
    <3> SUFFICES ASSUME NEW k \in DOMAIN merge_log', merge_log'[k].decision = "automatic"
                 PROVE  \E d \in candidate' : {d.a, d.b} = {merge_log'[k].a, merge_log'[k].b}
      BY DEF AutomaticHasCandidate, has_existing_candidate
    <3>1. \E c \in candidate : {c.a, c.b} = {merge_log'[k].a, merge_log'[k].b}
      BY <1>1 DEF SameLog, AutomaticHasCandidate, has_existing_candidate
    <3> QED  BY <3>1 DEF Decides, KeepsPairs
  <2>2. PairMergedAutomaticallyOnce'
    BY <1>1 DEF SameLog, PairMergedAutomaticallyOnce
  <2> QED  BY <2>1, <2>2
<1>2. CASE NewRow
  <2> DEFINE n == Len(merge_log) + 1
  <2>1. PICK e \in LogRow :
          /\ merge_log' = Append(merge_log, e)
          /\ e.decision = "automatic" =>
               ~has_existing_candidate(e.a, e.b) /\ has_existing_candidate(e.a, e.b)'
    BY <1>2 DEF NewRow
  <2>2. /\ DOMAIN merge_log = 1 .. Len(merge_log) /\ Len(merge_log) \in Nat
        /\ DOMAIN merge_log' = 1 .. n
        /\ merge_log'[n] = e
        /\ \A k \in DOMAIN merge_log : merge_log'[k] = merge_log[k]
    BY <2>1, AppendProperties, LenProperties DEF TypeOK
  <2>3. \A k \in DOMAIN merge_log' : k # n => k \in DOMAIN merge_log
    BY <2>2
  <2>4. AutomaticHasCandidate'
    <3> SUFFICES ASSUME NEW k \in DOMAIN merge_log', merge_log'[k].decision = "automatic"
                 PROVE  \E d \in candidate' : {d.a, d.b} = {merge_log'[k].a, merge_log'[k].b}
      BY DEF AutomaticHasCandidate, has_existing_candidate
    <3>1. CASE k = n
      BY <2>1, <2>2, <3>1 DEF has_existing_candidate
    <3>2. CASE k # n
      <4>1. \E c \in candidate : {c.a, c.b} = {merge_log'[k].a, merge_log'[k].b}
        BY <2>2, <2>3, <3>2 DEF AutomaticHasCandidate, has_existing_candidate
      <4> QED  BY <4>1 DEF Decides, KeepsPairs
    <3> QED  BY <3>1, <3>2
  <2>5. PairMergedAutomaticallyOnce'
    <3> SUFFICES ASSUME NEW j \in DOMAIN merge_log', NEW k \in DOMAIN merge_log',
                        merge_log'[j].decision = "automatic",
                        merge_log'[k].decision = "automatic",
                        {merge_log'[j].a, merge_log'[j].b} = {merge_log'[k].a, merge_log'[k].b}
                 PROVE  j = k
      BY DEF PairMergedAutomaticallyOnce
    <3>1. CASE j # n /\ k # n
      BY <2>2, <2>3, <3>1 DEF PairMergedAutomaticallyOnce
    <3>2. ASSUME NEW i \in DOMAIN merge_log, merge_log[i].decision = "automatic",
                 e.decision = "automatic", {merge_log[i].a, merge_log[i].b} = {e.a, e.b}
          PROVE  FALSE
      <4>1. has_existing_candidate(merge_log[i].a, merge_log[i].b)
        BY <3>2 DEF AutomaticHasCandidate
      <4>2. ~has_existing_candidate(e.a, e.b)
        BY <2>1, <3>2
      <4>3. PICK c \in candidate : {c.a, c.b} = {merge_log[i].a, merge_log[i].b}
        BY <4>1 DEF has_existing_candidate
      <4>4. {c.a, c.b} = {e.a, e.b}
        BY <3>2, <4>3
      <4> QED  BY <4>2, <4>4 DEF has_existing_candidate
    <3>3. CASE j = n /\ k # n
      BY <2>2, <2>3, <3>2, <3>3
    <3>4. CASE j # n /\ k = n
      BY <2>2, <2>3, <3>2, <3>4
    <3> QED  BY <3>1, <3>3, <3>4
  <2> QED  BY <2>4, <2>5
<1> QED  BY <1>1, <1>2 DEF Decides

-----------------------------------------------------------------------------
(* Every step is such a step. *)

\* A merge adds the row of its pair to the log.
LEMMA MergeLogged ==
  ASSUME TypeOK, TypeOK', NEW a, NEW b, NEW decision, NEW names,
         apply_merge(a, b, decision, names)
  PROVE  \E e \in LogRow : /\ merge_log' = Append(merge_log, e)
                           /\ e.a = a /\ e.b = b /\ e.decision = decision
<1>1. PICK e : /\ merge_log' = Append(merge_log, e)
               /\ e.a = a /\ e.b = b /\ e.decision = decision
  BY DEF apply_merge
<1>2. merge_log \in Seq(LogRow) /\ merge_log' \in Seq(LogRow)
  BY DEF TypeOK
<1>3. Len(merge_log') = Len(merge_log) + 1 /\ merge_log'[Len(merge_log) + 1] = e
  BY <1>1, <1>2
<1>4. e \in LogRow
  BY <1>2, <1>3, LenProperties, ElementOfSeq
<1> QED  BY <1>1, <1>4

LEMMA ProposeDecides ==
  ASSUME TypeOK, TypeOK', NEW a, NEW b, NEW method, NEW blocked, NEW names,
         propose_and_maybe_confirm(a, b, method, blocked, names)
  PROVE  Decides
<1>1. KeepsPairs
  BY DEF propose_and_maybe_confirm, KeepsPairs
<1>2. ~has_existing_candidate(a, b)
  BY DEF propose_and_maybe_confirm
<1>3. CASE UNCHANGED merge_log
  BY <1>1, <1>3 DEF Decides, SameLog
<1>4. CASE /\ candidate' = candidate \cup {Row(a, b, method, "confirmed")}
           /\ apply_merge(a, b, "automatic", names)
  <2>1. PICK e \in LogRow : /\ merge_log' = Append(merge_log, e)
                            /\ e.a = a /\ e.b = b
    BY <1>4, MergeLogged
  <2>2. Row(a, b, method, "confirmed") \in candidate'
        /\ Row(a, b, method, "confirmed").a = a /\ Row(a, b, method, "confirmed").b = b
    BY <1>4 DEF Row
  <2>3. has_existing_candidate(e.a, e.b)'
    BY <2>1, <2>2 DEF has_existing_candidate
  <2>4. ~has_existing_candidate(e.a, e.b)
    BY <1>2, <2>1
  <2> QED  BY <1>1, <2>1, <2>3, <2>4 DEF Decides, NewRow
<1> QED  BY <1>3, <1>4 DEF propose_and_maybe_confirm

LEMMA QueueDecides ==
  ASSUME NEW a, NEW b, NEW method, Queue(a, b, method) \/ Skip(a, b)
  PROVE  Decides
BY DEF Queue, Skip, Decides, KeepsPairs, SameLog

\* A merge by hand or by a reviewer is none of the rules'.
LEMMA OtherMergeDecides ==
  ASSUME TypeOK, TypeOK', KeepsPairs, NEW a, NEW b, NEW decision,
         decision # "automatic", apply_merge(a, b, decision, display_name)
  PROVE  Decides
<1>1. PICK e \in LogRow : merge_log' = Append(merge_log, e) /\ e.decision = decision
  BY MergeLogged
<1> QED  BY <1>1 DEF Decides, NewRow

LEMMA UndoDecides ==
  ASSUME TypeOK, NEW k \in DOMAIN merge_log, undo_merge(k)
  PROVE  Decides
<1>1. merge_log' = [merge_log EXCEPT ![k].reversed = TRUE]
      /\ candidate' = Reopened(merge_log[k].a, merge_log[k].b)
  BY DEF undo_merge
<1>2. \A i \in DOMAIN merge_log : merge_log[i] \in LogRow
  BY ElementOfSeq, LenProperties DEF TypeOK
<1>3. SameLog
  BY <1>1, <1>2 DEF SameLog, LogRow
<1>4. KeepsPairs
  <2> SUFFICES ASSUME NEW c \in candidate
               PROVE  \E d \in candidate' : d.a = c.a /\ d.b = c.b
    BY DEF KeepsPairs
  <2> DEFINE status == IF c.method = RetiredMethod THEN "retired" ELSE "pending"
             d == IF c.a = merge_log[k].a /\ c.b = merge_log[k].b /\ c.status = "confirmed"
                  THEN [c EXCEPT !.status = status] ELSE c
  <2>1. d \in candidate'
    BY <1>1 DEF Reopened
  <2>2. c \in Candidate
    BY DEF TypeOK
  <2>3. d.a = c.a /\ d.b = c.b
    BY <2>2 DEF Candidate
  <2> QED  BY <2>1, <2>3
<1> QED  BY <1>3, <1>4 DEF Decides

\* A candidate whose status changes keeps its pair.
LEMMA StatusKeepsPairs ==
  ASSUME TypeOK, NEW c \in candidate, NEW status,
         candidate' = (candidate \ {c}) \cup {[c EXCEPT !.status = status]}
  PROVE  KeepsPairs
<1>1. [c EXCEPT !.status = status].a = c.a /\ [c EXCEPT !.status = status].b = c.b
  BY DEF TypeOK, Candidate
<1> QED  BY <1>1 DEF KeepsPairs

LEMMA ReviewDecides ==
  ASSUME TypeOK, TypeOK', Review
  PROVE  Decides
<1>1. ASSUME NEW c \in candidate, resolution_candidate_confirm(c)
      PROVE  Decides
  <2>1. KeepsPairs
    BY <1>1, StatusKeepsPairs DEF resolution_candidate_confirm
  <2> QED  BY <1>1, <2>1, OtherMergeDecides DEF resolution_candidate_confirm
<1>2. ASSUME NEW c \in candidate, resolution_candidate_reject(c)
      PROVE  Decides
  <2>1. KeepsPairs
    BY <1>2, StatusKeepsPairs DEF resolution_candidate_reject
  <2> QED  BY <1>2, <2>1 DEF resolution_candidate_reject, Decides, SameLog
<1>3. ASSUME NEW rep \in present, NEW other \in present, link_contact(rep, other)
      PROVE  Decides
  <2>1. KeepsPairs
    BY <1>3 DEF link_contact, KeepsPairs
  <2> QED  BY <1>3, <2>1, OtherMergeDecides DEF link_contact
<1>4. ASSUME NEW k \in DOMAIN merge_log, undo_merge(k)
      PROVE  Decides
  BY <1>4, UndoDecides
<1> QED  BY <1>1, <1>2, <1>3, <1>4 DEF Review

LEMMA ResolutionDecides ==
  ASSUME TypeOK, TypeOK', Resolution
  PROVE  Decides
<1>1. ASSUME NEW e \in EmailMatch, rule_exact_email_match(e[1], e[2])
      PROVE  Decides
  BY <1>1, ProposeDecides, QueueDecides DEF rule_exact_email_match
<1>2. ASSUME NEW e \in BridgeMatch, rule_contact_bridge(e[1], e[2])
      PROVE  Decides
  BY <1>2, ProposeDecides DEF rule_contact_bridge
<1>3. ASSUME NEW e \in PhoneMatch, rule_signature_phone(e[1], e[2])
      PROVE  Decides
  BY <1>3, QueueDecides DEF rule_signature_phone
<1>4. ASSUME NEW o1 \in Outlook \cap present, NEW o2 \in Outlook \cap present,
             rule_outlook_dedupe(o1, o2)
      PROVE  Decides
  BY <1>4, QueueDecides DEF rule_outlook_dedupe
<1>5. ASSUME NEW l \in LinkedIn, NEW i \in (Outlook \cup WhatsApp) \cap present,
             rule_linkedin_correlation(l, i)
      PROVE  Decides
  BY <1>5, QueueDecides DEF rule_linkedin_correlation
<1> QED  BY <1>1, <1>2, <1>3, <1>4, <1>5 DEF Resolution

\* All other steps leave both tables alone.
LEMMA OthersDecide ==
  ASSUME Panel \/ Inbox \/ Upsert \/ Briefs \/ UNCHANGED vars
  PROVE  Decides
<1>1. UNCHANGED <<merge_log, candidate>>
  BY DEF Panel, Inbox, Upsert, Briefs, vars, add_contact_handle, update_contact_name,
         hide_contact, unhide_contact, UpsertIdentity, person_keys_for_identities,
         BeginRefresh, StoreBrief, StorageFailed
<1> QED  BY <1>1 DEF Decides, KeepsPairs, SameLog

-----------------------------------------------------------------------------

LEMMA InitDInv == Init => DInv
<1>1. ASSUME InitFresh PROVE DInv
  BY <1>1 DEF InitFresh, DInv, PairMergedAutomaticallyOnce, AutomaticHasCandidate
<1>2. ASSUME NEW a, NEW b, NEW p, InitLegacy(a, b, p) PROVE DInv
  <2>1. DOMAIN merge_log = {1} /\ merge_log[1].decision = "review"
    BY <1>2 DEF InitLegacy
  <2> QED  BY <2>1 DEF DInv, PairMergedAutomaticallyOnce, AutomaticHasCandidate
<1> QED  BY <1>1, <1>2 DEF Init

\* However often the rules run, over whatever evidence, and whatever is
\* reviewed, undone or linked by hand between two runs: no pair is merged
\* automatically twice. (has_existing_candidate in _propose_and_maybe_confirm.)
THEOREM MergedAutomaticallyOnce == Spec => []PairMergedAutomaticallyOnce
<1>1. DInv /\ TypeOK /\ TypeOK' /\ [Next]_vars => DInv'
  BY DecidesKeepsInvariant, ReviewDecides, ResolutionDecides, OthersDecide DEF Next
<1>2. DInv => PairMergedAutomaticallyOnce
  BY DEF DInv
<1> QED  BY <1>1, <1>2, InitDInv, TypeCorrect, PTL DEF Spec

-----------------------------------------------------------------------------
(* What an automatic merge leaves. *)

\* What AutomaticMergeIsSafe asks of a step.
SafeMerges ==
  \A k \in DOMAIN merge_log' \ DOMAIN merge_log :
    LET e       == merge_log'[k]
        cluster == {i \in Identity : person_id'[i] = e.survivor}
    IN  e.decision = "automatic" =>
          /\ {e.a, e.b} \cap GenericRole = {}
          /\ Cardinality(cluster) <= MaxClusterSize
          /\ \A i \in Cluster(e.a), j \in Cluster(e.b) :
               ~names_contradict(display_name'[i], display_name'[j])

\* A merge joins the two contacts as they are, and nobody else: a person that the
\* survivor was before, or is made now, has no other identity.
LEMMA MergeJoinsClusters ==
  ASSUME IInv, NEW a \in Identity, NEW b \in Identity, NEW decision, NEW names,
         apply_merge(a, b, decision, names)
  PROVE  \E e : /\ merge_log' = Append(merge_log, e)
                /\ e.a = a /\ e.b = b /\ e.decision = decision
                /\ {i \in Identity : person_id'[i] = e.survivor} = Cluster(a) \cup Cluster(b)
<1>1. PICK survivor \in Survivors(a, b) : \E e :
        /\ person_id' = [i \in Identity |->
             IF i \in Members(survivor) \cup moved_identities(a, b, survivor) \cup {a, b}
             THEN survivor ELSE person_id[i]]
        /\ merge_log' = Append(merge_log, e)
        /\ e.a = a /\ e.b = b /\ e.decision = decision /\ e.survivor = survivor
  BY DEF apply_merge
<1>2. survivor \in Person /\ survivor # None /\ survivor \notin Identity
  BY KeyAssumption DEF Survivors, IInv, TypeOK, Key
<1>3. \A i \in Identity : person_id[i] \in Person \cup {None}
      /\ (ContactKey(i) = IF person_id[i] # None THEN person_id[i] ELSE i)
  BY DEF IInv, TypeOK, ContactKey
<1>4. \A i \in Identity : i \in Members(survivor) <=> person_id[i] = survivor
  BY <1>2, <1>3 DEF Members
<1>5. {i \in Identity : person_id'[i] = survivor}
        = Members(survivor) \cup moved_identities(a, b, survivor) \cup {a, b}
  <2>1. Members(survivor) \cup moved_identities(a, b, survivor) \cup {a, b} \subseteq Identity
    BY DEF Members, moved_identities
  <2> QED  BY <1>1, <1>4, <2>1
<1>6. \A x \in Identity : person_id[x] = None => Cluster(x) = {x}
  BY <1>3, KeyAssumption DEF Cluster, Members, Key
<1>7. \A x \in Identity : person_id[x] # None => Cluster(x) = Members(person_id[x])
                                                 /\ x \in Members(person_id[x])
  BY <1>3 DEF Cluster, Members
<1>8. CASE Folds(a, b)
  <2>1. survivor = person_id[a]
    BY <1>8 DEF Folds, Survivors
  <2> QED  BY <1>1, <1>5, <1>7, <1>8, <2>1 DEF Folds, moved_identities
<1>9. CASE ~Folds(a, b)
  <2>1. moved_identities(a, b, survivor) \subseteq {a, b}
    BY <1>9 DEF moved_identities
  <2>0. {i \in Identity : person_id'[i] = survivor} = Members(survivor) \cup {a, b}
    BY <1>5, <2>1
  <2>2. CASE person_id[a] # None
    <3>1. survivor = person_id[a] /\ (person_id[b] = None \/ person_id[b] = person_id[a])
      BY <1>9, <2>2 DEF Folds, Survivors
    <3>2. Cluster(a) = Members(survivor) /\ a \in Members(survivor)
      BY <1>7, <2>2, <3>1
    <3>3. \/ Cluster(b) = {b}
          \/ Cluster(b) = Members(survivor) /\ b \in Members(survivor)
      <4>1. person_id[b] = None => Cluster(b) = {b}
        BY <1>6
      <4>2. person_id[b] = survivor => Cluster(b) = Members(survivor) /\ b \in Members(survivor)
        BY <1>2, <1>7
      <4> QED  BY <3>1, <4>1, <4>2
    <3>4. Cluster(a) \cup Cluster(b) = Members(survivor) \cup {a, b}
      BY <3>2, <3>3
    <3> QED  BY <1>1, <2>0, <3>4
  <2>3. CASE person_id[a] = None /\ person_id[b] # None
    <3>1. survivor = person_id[b]
      BY <2>3 DEF Survivors
    <3>2. Cluster(a) = {a} /\ Cluster(b) = Members(survivor) /\ b \in Members(survivor)
      BY <1>6, <1>7, <2>3, <3>1
    <3> QED  BY <1>1, <1>5, <2>1, <3>2
  <2>4. CASE person_id[a] = None /\ person_id[b] = None
    <3>1. survivor \notin persons
      BY <2>4 DEF Survivors
    <3>2. Members(survivor) = {}
      <4>1. \A i \in Identity : person_id[i] # survivor
        BY <1>2, <3>1 DEF IInv, PersonsExist
      <4> QED  BY <1>4, <4>1 DEF Members
    <3>3. Cluster(a) = {a} /\ Cluster(b) = {b}
      BY <1>6, <2>4
    <3> QED  BY <1>1, <1>5, <2>1, <3>2, <3>3
  <2> QED  BY <2>2, <2>3, <2>4
<1> QED  BY <1>8, <1>9

\* The row that a merge adds is the only new one.
LEMMA NewRowOnly ==
  ASSUME TypeOK, NEW e, merge_log' = Append(merge_log, e)
  PROVE  \A k \in DOMAIN merge_log' \ DOMAIN merge_log : merge_log'[k] = e
<1>1. /\ DOMAIN merge_log = 1 .. Len(merge_log) /\ Len(merge_log) \in Nat
      /\ DOMAIN merge_log' = 1 .. Len(merge_log) + 1
      /\ merge_log'[Len(merge_log) + 1] = e
  BY LenProperties DEF TypeOK
<1> QED  BY <1>1

\* The rules look at the names and sizes that the merge will leave.
LEMMA ProposeSafe ==
  ASSUME IInv, NEW a \in Identity, NEW b \in Identity, NEW method, NEW blocked,
         propose_and_maybe_confirm(a, b, method, blocked, display_name'),
         {a, b} \cap GenericRole # {} => blocked
  PROVE  SafeMerges
<1>1. CASE UNCHANGED merge_log
  BY <1>1 DEF SafeMerges
<1>2. CASE /\ ~blocked /\ ~cluster_names_contradict(a, b, display_name')
           /\ ~(cluster_size_after_merge(a, b) > MaxClusterSize)
           /\ apply_merge(a, b, "automatic", display_name')
  <2>1. PICK e : /\ merge_log' = Append(merge_log, e)
                 /\ e.a = a /\ e.b = b /\ e.decision = "automatic"
                 /\ {i \in Identity : person_id'[i] = e.survivor} = Cluster(a) \cup Cluster(b)
    BY <1>2, MergeJoinsClusters
  <2>2. Cardinality(Cluster(a) \cup Cluster(b)) <= MaxClusterSize
    <3>1. Cluster(a) \cup Cluster(b) \subseteq Identity
      BY DEF Cluster, Members
    <3>2. Cardinality(Cluster(a) \cup Cluster(b)) \in Nat
      BY <3>1, ChannelAssumption, FS_Subset, FS_CardinalityType
    <3> QED  BY <1>2, <3>2, BoundAssumption DEF cluster_size_after_merge
  <2>3. \A i \in Cluster(a), j \in Cluster(b) :
          ~names_contradict(display_name'[i], display_name'[j])
    BY <1>2 DEF cluster_names_contradict
  <2>4. \A k \in DOMAIN merge_log' \ DOMAIN merge_log : merge_log'[k] = e
    BY <2>1, NewRowOnly DEF IInv
  <2> QED  BY <1>2, <2>1, <2>2, <2>3, <2>4 DEF SafeMerges
<1> QED  BY <1>1, <1>2 DEF propose_and_maybe_confirm

\* No step merges automatically but the two rules that may.
LEMMA StepSafe ==
  ASSUME IInv, [Next]_vars
  PROVE  SafeMerges
<1>1. ASSUME NEW e \in EmailMatch, rule_exact_email_match(e[1], e[2])
      PROVE  SafeMerges
  <2>1. e[1] \in Outlook /\ e[2] \in LinkedIn
    BY EvidenceAssumption
  <2>2. e[1] \in Identity /\ e[2] \in Identity /\ e[2] \notin GenericRole
    BY <2>1, ChannelAssumption DEF Identity
  <2>3. Skip(e[1], e[2]) => UNCHANGED merge_log
    BY DEF Skip
  <2>4. CASE propose_and_maybe_confirm(e[1], e[2], "exact_email", e[1] \in GenericRole,
                                       display_name')
    BY <2>2, <2>4, ProposeSafe
  <2> QED  BY <1>1, <2>3, <2>4 DEF rule_exact_email_match, SafeMerges
<1>2. ASSUME NEW e \in BridgeMatch, rule_contact_bridge(e[1], e[2])
      PROVE  SafeMerges
  <2>1. e[1] \in Outlook /\ e[2] \in WhatsApp
    BY EvidenceAssumption
  <2>2. e[1] \in Identity /\ e[2] \in Identity /\ e[2] \notin GenericRole
    BY <2>1, ChannelAssumption DEF Identity
  <2>3. propose_and_maybe_confirm(e[1], e[2], "contact_bridge", e[1] \in GenericRole,
                                  display_name')
    BY <1>2 DEF rule_contact_bridge
  <2> QED  BY <2>2, <2>3, ProposeSafe
<1>3. ASSUME NEW a \in Identity, NEW b \in Identity, NEW decision \in {"review", "manual"},
             apply_merge(a, b, decision, display_name)
      PROVE  SafeMerges
  <2>1. PICK e : merge_log' = Append(merge_log, e) /\ e.decision = decision
    BY <1>3, MergeJoinsClusters
  <2>2. \A k \in DOMAIN merge_log' \ DOMAIN merge_log : merge_log'[k] = e
    BY <2>1, NewRowOnly DEF IInv
  <2> QED  BY <2>1, <2>2 DEF SafeMerges
<1>4. CASE DOMAIN merge_log' = DOMAIN merge_log
  BY <1>4 DEF SafeMerges
<1>5. ASSUME NEW c \in candidate, resolution_candidate_confirm(c) PROVE SafeMerges
  BY <1>3, <1>5 DEF resolution_candidate_confirm, IInv, TypeOK, Candidate
<1>6. ASSUME NEW rep \in present, NEW other \in present, link_contact(rep, other)
      PROVE  SafeMerges
  BY <1>3, <1>6 DEF link_contact, IInv, TypeOK
<1>7. \/ \E e \in PhoneMatch : rule_signature_phone(e[1], e[2])
      \/ \E o1, o2 \in Outlook : rule_outlook_dedupe(o1, o2)
      \/ \E l \in LinkedIn, i \in Outlook \cup WhatsApp : rule_linkedin_correlation(l, i)
      \/ \E c \in candidate : resolution_candidate_reject(c)
      \/ \E k \in DOMAIN merge_log : undo_merge(k)
      => DOMAIN merge_log' = DOMAIN merge_log
  BY DEF rule_signature_phone, rule_outlook_dedupe, rule_linkedin_correlation, Queue, Skip,
         resolution_candidate_reject, undo_merge
<1>8. Panel \/ Inbox \/ Upsert \/ Briefs \/ UNCHANGED vars => UNCHANGED merge_log
  BY DEF Panel, Inbox, Upsert, Briefs, vars, add_contact_handle, update_contact_name,
         hide_contact, unhide_contact, UpsertIdentity, person_keys_for_identities,
         BeginRefresh, StoreBrief, StorageFailed
<1>9. Resolution => SafeMerges
  BY <1>1, <1>2, <1>4, <1>7 DEF Resolution
<1>10. Review => SafeMerges
  BY <1>4, <1>5, <1>6, <1>7 DEF Review
<1> QED  BY <1>4, <1>8, <1>9, <1>10 DEF Next

\* An automatic merge joins contacts of MaxClusterSize identities at most, with no
\* contradicting name between them and no role address, as they are when the
\* merge is made, identities of earlier merges included. (cluster_names_contradict
\* and cluster_size_after_merge of safety.py, _propose_and_maybe_confirm.)
THEOREM MergesAreSafe == Spec => AutomaticMergeIsSafe
<1>1. IInv /\ [Next]_vars => [SafeMerges]_vars
  BY StepSafe
<1> QED  BY <1>1, InitInvariant, NextInvariant, PTL DEF Spec, AutomaticMergeIsSafe, SafeMerges

-----------------------------------------------------------------------------
(* What a person has decided stays decided: a pair that a reviewer         *)
(* rejected stays out of the queue and apart, a confirmed one has a merge  *)
(* that stands, and a name that the operator typed is replaced by nobody   *)
(* else.                                                                   *)

\* A pair has one candidate, in either order. The rules see to it by looking
\* before they insert; the table has no constraint.
UniquePairs ==
  \A c, d \in candidate : {c.a, c.b} = {d.a, d.b} => c = d

\* The candidates of the retired rule are confirmed or, undone, retired.
RetiredNeverPending ==
  \A c \in candidate : c.method = RetiredMethod => c.status # "pending"

\* The inductive invariant, on top of the types.
QInv == UniquePairs /\ RetiredNeverPending

\* What ClosedPairsStayClosed asks of a step.
StaysClosed ==
  \A c \in candidate : c.status = "rejected" \/ c.method = RetiredMethod =>
    /\ \A d \in candidate' : {d.a, d.b} = {c.a, c.b} => d.status # "pending"
    /\ \A k \in DOMAIN merge_log' \ DOMAIN merge_log :
         {merge_log'[k].a, merge_log'[k].b} = {c.a, c.b} =>
           merge_log'[k].decision = "manual"

-----------------------------------------------------------------------------
(* The four things a step may do to the queue, and the merges it may add   *)
(* to the log with each.                                                   *)

MergesOnly(a, b) ==
  \A k \in DOMAIN merge_log' \ DOMAIN merge_log :
    merge_log'[k].a = a /\ merge_log'[k].b = b

Proposed ==
  \E c \in Candidate :
    /\ ~has_existing_candidate(c.a, c.b)
    /\ c.method # RetiredMethod
    /\ candidate' = candidate \cup {c}
    /\ MergesOnly(c.a, c.b)

Reviewed ==
  \E c \in candidate, status \in {"confirmed", "rejected"} :
    /\ c.status = "pending"
    /\ candidate' = (candidate \ {c}) \cup {[c EXCEPT !.status = status]}
    /\ MergesOnly(c.a, c.b)

Undone ==
  /\ \E a, b \in Identity : candidate' = Reopened(a, b)
  /\ DOMAIN merge_log' = DOMAIN merge_log

LeftAlone ==
  /\ candidate' = candidate
  /\ \A k \in DOMAIN merge_log' \ DOMAIN merge_log : merge_log'[k].decision = "manual"

LEMMA ProposedKeepsClosed ==
  ASSUME TypeOK, QInv, Proposed
  PROVE  QInv' /\ StaysClosed
<1>1. PICK c \in Candidate :
        /\ \A d \in candidate : {d.a, d.b} # {c.a, c.b}
        /\ c.method # RetiredMethod
        /\ candidate' = candidate \cup {c}
        /\ MergesOnly(c.a, c.b)
  BY DEF Proposed, has_existing_candidate
<1>2. UniquePairs'
  BY <1>1 DEF QInv, UniquePairs
<1>3. RetiredNeverPending'
  BY <1>1 DEF QInv, RetiredNeverPending
<1>4. StaysClosed
  <2> SUFFICES ASSUME NEW d \in candidate, d.status = "rejected" \/ d.method = RetiredMethod
               PROVE  /\ \A e \in candidate' : {e.a, e.b} = {d.a, d.b} => e.status # "pending"
                      /\ \A k \in DOMAIN merge_log' \ DOMAIN merge_log :
                           {merge_log'[k].a, merge_log'[k].b} # {d.a, d.b}
    BY DEF StaysClosed
  <2>1. \A e \in candidate' : {e.a, e.b} = {d.a, d.b} => e = d
    BY <1>1 DEF QInv, UniquePairs
  <2>2. d.status # "pending"
    BY DEF QInv, RetiredNeverPending
  <2>3. \A k \in DOMAIN merge_log' \ DOMAIN merge_log :
          {merge_log'[k].a, merge_log'[k].b} # {d.a, d.b}
    BY <1>1 DEF MergesOnly
  <2> QED  BY <2>1, <2>2, <2>3
<1> QED  BY <1>2, <1>3, <1>4 DEF QInv

LEMMA ReviewedKeepsClosed ==
  ASSUME TypeOK, QInv, Reviewed
  PROVE  QInv' /\ StaysClosed
<1>1. PICK c \in candidate, status \in {"confirmed", "rejected"} :
        /\ c.status = "pending"
        /\ candidate' = (candidate \ {c}) \cup {[c EXCEPT !.status = status]}
        /\ MergesOnly(c.a, c.b)
  BY DEF Reviewed
<1> DEFINE new == [c EXCEPT !.status = status]
<1>2. /\ c.method # RetiredMethod
      /\ new.a = c.a /\ new.b = c.b /\ new.method = c.method /\ new.status = status
  BY <1>1 DEF TypeOK, Candidate, QInv, RetiredNeverPending
<1> HIDE DEF new
<1>3. candidate' = (candidate \ {c}) \cup {new}
  BY <1>1 DEF new
<1>4. UniquePairs'
  BY <1>2, <1>3 DEF QInv, UniquePairs
<1>5. RetiredNeverPending'
  BY <1>2, <1>3 DEF QInv, RetiredNeverPending
<1>6. StaysClosed
  <2> SUFFICES ASSUME NEW d \in candidate, d.status = "rejected" \/ d.method = RetiredMethod
               PROVE  /\ \A e \in candidate' : {e.a, e.b} = {d.a, d.b} => e.status # "pending"
                      /\ \A k \in DOMAIN merge_log' \ DOMAIN merge_log :
                           {merge_log'[k].a, merge_log'[k].b} # {d.a, d.b}
    BY DEF StaysClosed
  <2>1. {c.a, c.b} # {d.a, d.b}
    BY <1>1, <1>2 DEF QInv, UniquePairs
  <2>2. \A e \in candidate' : {e.a, e.b} = {d.a, d.b} => e = d
    BY <1>2, <1>3, <2>1 DEF QInv, UniquePairs
  <2>3. d.status # "pending"
    BY DEF QInv, RetiredNeverPending
  <2>4. \A k \in DOMAIN merge_log' \ DOMAIN merge_log :
          {merge_log'[k].a, merge_log'[k].b} # {d.a, d.b}
    BY <1>1, <2>1 DEF MergesOnly
  <2> QED  BY <2>2, <2>3, <2>4
<1> QED  BY <1>4, <1>5, <1>6 DEF QInv

\* An undo touches confirmed candidates only, and a pair has no other.
LEMMA UndoneKeepsClosed ==
  ASSUME TypeOK, QInv, Undone
  PROVE  QInv' /\ StaysClosed
<1>1. PICK a \in Identity, b \in Identity : candidate' = Reopened(a, b)
  BY DEF Undone
<1> DEFINE new(c) == IF c.a = a /\ c.b = b /\ c.status = "confirmed"
                     THEN [c EXCEPT !.status = IF c.method = RetiredMethod
                                               THEN "retired" ELSE "pending"]
                     ELSE c
<1>2. \A d \in candidate' : \E c \in candidate : d = new(c)
  BY <1>1 DEF Reopened
<1>3. \A c \in candidate :
        /\ new(c).a = c.a /\ new(c).b = c.b /\ new(c).method = c.method
        /\ c.method = RetiredMethod => new(c).status \in {c.status, "retired"}
        /\ c.status = "rejected" => new(c) = c
  BY DEF TypeOK, Candidate
<1> HIDE DEF new
<1>4. UniquePairs'
  BY <1>2, <1>3 DEF QInv, UniquePairs
<1>5. RetiredNeverPending'
  BY <1>2, <1>3 DEF QInv, RetiredNeverPending
<1>6. StaysClosed
  <2> SUFFICES ASSUME NEW c \in candidate, c.status = "rejected" \/ c.method = RetiredMethod,
                      NEW d \in candidate', {d.a, d.b} = {c.a, c.b}
               PROVE  d.status # "pending"
    BY DEF StaysClosed, Undone
  <2>1. d = new(c)
    BY <1>2, <1>3 DEF QInv, UniquePairs
  <2> QED  BY <1>3, <2>1 DEF QInv, RetiredNeverPending
<1> QED  BY <1>4, <1>5, <1>6 DEF QInv

LEMMA LeftAloneKeepsClosed ==
  ASSUME QInv, LeftAlone
  PROVE  QInv' /\ StaysClosed
<1>1. \A c, d \in candidate : {c.a, c.b} = {d.a, d.b} => c = d
  BY DEF QInv, UniquePairs
<1> QED  BY <1>1 DEF QInv, LeftAlone, UniquePairs, RetiredNeverPending, StaysClosed

-----------------------------------------------------------------------------
(* Every step does one of the four. *)

\* The only row a merge adds to the log is that of its pair and decision.
LEMMA MergeLogsPair ==
  ASSUME TypeOK, NEW a, NEW b, NEW decision, NEW names,
         apply_merge(a, b, decision, names)
  PROVE  /\ MergesOnly(a, b)
         /\ \A k \in DOMAIN merge_log' \ DOMAIN merge_log :
              merge_log'[k].decision = decision
<1>1. PICK e : /\ merge_log' = Append(merge_log, e)
               /\ e.a = a /\ e.b = b /\ e.decision = decision
  BY DEF apply_merge
<1>2. /\ DOMAIN merge_log = 1 .. Len(merge_log) /\ Len(merge_log) \in Nat
      /\ DOMAIN merge_log' = 1 .. Len(merge_log) + 1
      /\ merge_log'[Len(merge_log) + 1] = e
  BY <1>1, LenProperties DEF TypeOK
<1>3. \A k \in DOMAIN merge_log' \ DOMAIN merge_log : k = Len(merge_log) + 1
  BY <1>2
<1> QED  BY <1>1, <1>2, <1>3 DEF MergesOnly

LEMMA RowIsCandidate ==
  ASSUME NEW a \in Identity, NEW b \in Identity, NEW method \in Method \ {RetiredMethod},
         NEW status \in {"pending", "confirmed"}
  PROVE  /\ Row(a, b, method, status) \in Candidate
         /\ Row(a, b, method, status).a = a
         /\ Row(a, b, method, status).b = b
         /\ Row(a, b, method, status).method # RetiredMethod
BY DEF Row, Candidate

LEMMA ProposesPair ==
  ASSUME TypeOK, NEW a \in Identity, NEW b \in Identity,
         NEW method \in Method \ {RetiredMethod}, NEW blocked, NEW names,
         propose_and_maybe_confirm(a, b, method, blocked, names)
  PROVE  Proposed
<1>1. CASE candidate' = candidate \cup {Row(a, b, method, "pending")} /\ UNCHANGED merge_log
  <2>1. MergesOnly(a, b)
    BY <1>1 DEF MergesOnly
  <2> QED  BY <1>1, <2>1, RowIsCandidate DEF Proposed, propose_and_maybe_confirm
<1>2. CASE /\ candidate' = candidate \cup {Row(a, b, method, "confirmed")}
           /\ apply_merge(a, b, "automatic", names)
  <2>1. MergesOnly(a, b)
    BY <1>2, MergeLogsPair
  <2> QED  BY <1>2, <2>1, RowIsCandidate DEF Proposed, propose_and_maybe_confirm
<1> QED  BY <1>1, <1>2 DEF propose_and_maybe_confirm

LEMMA QueuesPair ==
  ASSUME TypeOK, NEW a \in Identity, NEW b \in Identity,
         NEW method \in Method \ {RetiredMethod}, Queue(a, b, method)
  PROVE  Proposed
<1>1. MergesOnly(a, b)
  BY DEF Queue, MergesOnly
<1> QED  BY <1>1, RowIsCandidate DEF Queue, Proposed

LEMMA ResolutionProposes ==
  ASSUME TypeOK, Resolution
  PROVE  Proposed \/ LeftAlone
<1>0. {"exact_email", "contact_bridge", "email_signature_phone",
       "outlook_same_channel_dedupe", "linkedin_name_company"} = Method \ {RetiredMethod}
  BY DEF Method, AutomaticMethod, QueuedMethod, RetiredMethod
<1>1. ASSUME NEW e \in EmailMatch, rule_exact_email_match(e[1], e[2])
      PROVE  Proposed \/ LeftAlone
  <2>1. e[1] \in Identity /\ e[2] \in Identity
    BY EvidenceAssumption DEF Identity
  <2> QED  BY <1>0, <1>1, <2>1, ProposesPair DEF rule_exact_email_match, Skip, LeftAlone
<1>2. ASSUME NEW e \in BridgeMatch, rule_contact_bridge(e[1], e[2])
      PROVE  Proposed
  <2>1. e[1] \in Identity /\ e[2] \in Identity
    BY EvidenceAssumption DEF Identity
  <2> QED  BY <1>0, <1>2, <2>1, ProposesPair DEF rule_contact_bridge
<1>3. ASSUME NEW e \in PhoneMatch, rule_signature_phone(e[1], e[2])
      PROVE  Proposed
  <2>1. e[1] \in Identity /\ e[2] \in Identity
    BY EvidenceAssumption DEF Identity
  <2> QED  BY <1>0, <1>3, <2>1, QueuesPair DEF rule_signature_phone
<1>4. ASSUME NEW o1 \in Outlook \cap present, NEW o2 \in Outlook \cap present,
             rule_outlook_dedupe(o1, o2)
      PROVE  Proposed
  BY <1>0, <1>4, QueuesPair DEF rule_outlook_dedupe, Identity
<1>5. ASSUME NEW l \in LinkedIn, NEW i \in (Outlook \cup WhatsApp) \cap present,
             rule_linkedin_correlation(l, i)
      PROVE  Proposed \/ LeftAlone
  BY <1>0, <1>5, QueuesPair DEF rule_linkedin_correlation, Identity, Skip, LeftAlone
<1> QED  BY <1>1, <1>2, <1>3, <1>4, <1>5 DEF Resolution

LEMMA ReviewShapes ==
  ASSUME TypeOK, Review
  PROVE  Reviewed \/ Undone \/ LeftAlone
<1>1. ASSUME NEW c \in candidate, resolution_candidate_confirm(c)
      PROVE  Reviewed
  BY <1>1, MergeLogsPair DEF resolution_candidate_confirm, Reviewed
<1>2. ASSUME NEW c \in candidate, resolution_candidate_reject(c)
      PROVE  Reviewed
  BY <1>2 DEF resolution_candidate_reject, Reviewed, MergesOnly
<1>3. ASSUME NEW rep \in present, NEW other \in present, link_contact(rep, other)
      PROVE  LeftAlone
  <2>1. apply_merge(rep, other, "manual", display_name) /\ candidate' = candidate
    BY <1>3 DEF link_contact
  <2> QED  BY <2>1, MergeLogsPair DEF LeftAlone
<1>4. ASSUME NEW k \in DOMAIN merge_log, undo_merge(k)
      PROVE  Undone
  <2>1. merge_log[k].a \in Identity /\ merge_log[k].b \in Identity
    <3>1. merge_log[k] \in LogRow
      BY ElementOfSeq, LenProperties DEF TypeOK
    <3> QED  BY <3>1 DEF LogRow
  <2>2. DOMAIN merge_log' = DOMAIN merge_log
    BY <1>4 DEF undo_merge
  <2> QED  BY <1>4, <2>1, <2>2 DEF undo_merge, Undone
<1> QED  BY <1>1, <1>2, <1>3, <1>4 DEF Review

LEMMA OthersLeaveAlone ==
  ASSUME Panel \/ Inbox \/ Upsert \/ Briefs \/ UNCHANGED vars
  PROVE  LeftAlone
<1>1. UNCHANGED <<merge_log, candidate>>
  BY DEF Panel, Inbox, Upsert, Briefs, vars, add_contact_handle, update_contact_name,
         hide_contact, unhide_contact, UpsertIdentity, person_keys_for_identities,
         BeginRefresh, StoreBrief, StorageFailed
<1> QED  BY <1>1 DEF LeftAlone

LEMMA NextKeepsClosed == TypeOK /\ QInv /\ [Next]_vars => QInv' /\ StaysClosed
<1>1. ASSUME TypeOK, [Next]_vars
      PROVE  Proposed \/ Reviewed \/ Undone \/ LeftAlone
  BY <1>1, ResolutionProposes, ReviewShapes, OthersLeaveAlone DEF Next
<1> QED  BY <1>1, ProposedKeepsClosed, ReviewedKeepsClosed, UndoneKeepsClosed,
             LeftAloneKeepsClosed

LEMMA InitQInv == Init => QInv
<1>1. ASSUME InitFresh PROVE QInv
  BY <1>1 DEF InitFresh, QInv, UniquePairs, RetiredNeverPending
<1>2. ASSUME NEW a, NEW b, NEW p, InitLegacy(a, b, p) PROVE QInv
  BY <1>2 DEF InitLegacy, Row, QInv, UniquePairs, RetiredNeverPending
<1> QED  BY <1>1, <1>2 DEF Init

-----------------------------------------------------------------------------

\* A pair that a reviewer rejected, or that only the retired rule proposed, never
\* comes (back) to the review queue, in either order, and is merged by hand only.
\* (The review page's update of the status, has_existing_candidate, and the
\* reopening in undo_merge.)
THEOREM ClosedPairs == Spec => ClosedPairsStayClosed
<1>1. TypeOK /\ QInv /\ [Next]_vars => [StaysClosed]_vars
  BY NextKeepsClosed
<1>2. TypeOK /\ QInv /\ [Next]_vars => QInv'
  BY NextKeepsClosed
<1> QED  BY <1>1, <1>2, InitQInv, TypeCorrect, PTL DEF Spec, ClosedPairsStayClosed, StaysClosed

-----------------------------------------------------------------------------
(* Confirmed candidates.                                                   *)

PairStands(a, b) ==
  \E k \in Standing : merge_log[k].a = a /\ merge_log[k].b = b

\* No row of the log changes, and a candidate is confirmed only with the merge
\* of its pair.
ConfirmsByMerging ==
  /\ \A k \in DOMAIN merge_log : k \in DOMAIN merge_log' /\ merge_log'[k] = merge_log[k]
  /\ \A c \in candidate' : c.status = "confirmed" => c \in candidate \/ PairStands(c.a, c.b)'

LEMMA ConfirmingKeepsStanding ==
  ASSUME ConfirmedHasStandingMerge, ConfirmsByMerging
  PROVE  ConfirmedHasStandingMerge'
<1> SUFFICES ASSUME NEW c \in candidate', c.status = "confirmed"
             PROVE  PairStands(c.a, c.b)'
  BY DEF ConfirmedHasStandingMerge, PairStands
<1>1. CASE c \in candidate
  <2>1. PICK k \in DOMAIN merge_log :
          ~merge_log[k].reversed /\ merge_log[k].a = c.a /\ merge_log[k].b = c.b
    BY <1>1 DEF ConfirmedHasStandingMerge, Standing
  <2> QED  BY <2>1 DEF ConfirmsByMerging, PairStands, Standing
<1> QED  BY <1>1 DEF ConfirmsByMerging

\* A merge appends a row that stands.
LEMMA MergeStands ==
  ASSUME TypeOK, NEW a, NEW b, NEW decision, NEW names,
         apply_merge(a, b, decision, names)
  PROVE  /\ \A k \in DOMAIN merge_log : k \in DOMAIN merge_log' /\ merge_log'[k] = merge_log[k]
         /\ PairStands(a, b)'
<1>1. PICK e : /\ merge_log' = Append(merge_log, e)
               /\ e.a = a /\ e.b = b /\ e.reversed = FALSE
  BY DEF apply_merge
<1>2. /\ DOMAIN merge_log = 1 .. Len(merge_log) /\ Len(merge_log) \in Nat
      /\ DOMAIN merge_log' = 1 .. Len(merge_log) + 1
      /\ merge_log'[Len(merge_log) + 1] = e
      /\ \A k \in 1 .. Len(merge_log) : merge_log'[k] = merge_log[k]
  BY <1>1, LenProperties DEF TypeOK
<1>3. Len(merge_log) + 1 \in DOMAIN merge_log'
  BY <1>2
<1>4. PairStands(a, b)'
  BY <1>1, <1>2, <1>3 DEF PairStands, Standing
<1> QED  BY <1>2, <1>4

\* The rules queue pairs as pending, or confirm and merge them at once.
LEMMA ResolutionConfirmsByMerging ==
  ASSUME TypeOK, Resolution
  PROVE  ConfirmsByMerging
<1>1. ASSUME NEW a, NEW b, NEW method,
             candidate' = candidate \cup {Row(a, b, method, "pending")}, UNCHANGED merge_log
      PROVE  ConfirmsByMerging
  BY <1>1 DEF ConfirmsByMerging, Row
<1>2. ASSUME NEW a, NEW b, NEW method, NEW blocked, NEW names,
             propose_and_maybe_confirm(a, b, method, blocked, names)
      PROVE  ConfirmsByMerging
  <2>1. CASE /\ candidate' = candidate \cup {Row(a, b, method, "confirmed")}
             /\ apply_merge(a, b, "automatic", names)
    BY <2>1, MergeStands DEF ConfirmsByMerging, Row
  <2> QED  BY <1>1, <1>2, <2>1 DEF propose_and_maybe_confirm
<1>3. ASSUME NEW a, NEW b, NEW method, Queue(a, b, method)
      PROVE  ConfirmsByMerging
  BY <1>1, <1>3 DEF Queue
<1>4. ASSUME NEW a, NEW b, Skip(a, b)
      PROVE  ConfirmsByMerging
  BY <1>4 DEF Skip, ConfirmsByMerging
<1> QED  BY <1>2, <1>3, <1>4 DEF Resolution, rule_exact_email_match, rule_contact_bridge,
            rule_signature_phone, rule_outlook_dedupe, rule_linkedin_correlation

\* An undo reopens every confirmed candidate of the pair whose merge it reverses,
\* so that what stays confirmed has a row of another pair.
LEMMA UndoKeepsStanding ==
  ASSUME TypeOK, ConfirmedHasStandingMerge, NEW k \in DOMAIN merge_log, undo_merge(k)
  PROVE  ConfirmedHasStandingMerge'
<1> DEFINE e == merge_log[k]
<1>1. merge_log' = [merge_log EXCEPT ![k].reversed = TRUE] /\ candidate' = Reopened(e.a, e.b)
  BY DEF undo_merge
<1> SUFFICES ASSUME NEW d \in candidate', d.status = "confirmed"
             PROVE  PairStands(d.a, d.b)'
  BY DEF ConfirmedHasStandingMerge, PairStands
<1>2. PICK c \in candidate :
        d = IF c.a = e.a /\ c.b = e.b /\ c.status = "confirmed"
            THEN [c EXCEPT !.status = IF c.method = RetiredMethod THEN "retired" ELSE "pending"]
            ELSE c
  BY <1>1 DEF Reopened
<1>3. ~(c.a = e.a /\ c.b = e.b) /\ d = c
  <2>1. CASE c.a = e.a /\ c.b = e.b /\ c.status = "confirmed"
    BY <1>2, <2>1 DEF TypeOK, Candidate
  <2> QED  BY <1>2, <2>1
<1>4. PICK m \in DOMAIN merge_log :
        ~merge_log[m].reversed /\ merge_log[m].a = c.a /\ merge_log[m].b = c.b
  BY <1>3 DEF ConfirmedHasStandingMerge, Standing
<1>5. m # k
  BY <1>3, <1>4
<1>6. m \in DOMAIN merge_log' /\ merge_log'[m] = merge_log[m]
  BY <1>1, <1>4, <1>5
<1> QED  BY <1>3, <1>4, <1>6 DEF PairStands, Standing

LEMMA NextKeepsStanding ==
  TypeOK /\ ConfirmedHasStandingMerge /\ [Next]_vars => ConfirmedHasStandingMerge'
<1> SUFFICES ASSUME TypeOK, ConfirmedHasStandingMerge, [Next]_vars
             PROVE  ConfirmedHasStandingMerge'
  OBVIOUS
<1>1. CASE Resolution
  BY <1>1, ResolutionConfirmsByMerging, ConfirmingKeepsStanding
<1>2. ASSUME NEW c \in candidate, resolution_candidate_confirm(c)
      PROVE  ConfirmedHasStandingMerge'
  <2>1. /\ candidate' = (candidate \ {c}) \cup {[c EXCEPT !.status = "confirmed"]}
        /\ apply_merge(c.a, c.b, "review", display_name)
    BY <1>2 DEF resolution_candidate_confirm
  <2>2. \A d \in candidate' : d \in candidate \/ (d.a = c.a /\ d.b = c.b)
    BY <2>1 DEF TypeOK, Candidate
  <2>3. ConfirmsByMerging
    BY <2>1, <2>2, MergeStands DEF ConfirmsByMerging
  <2> QED  BY <2>3, ConfirmingKeepsStanding
<1>3. ASSUME NEW c \in candidate, resolution_candidate_reject(c)
      PROVE  ConfirmedHasStandingMerge'
  <2>1. /\ candidate' = (candidate \ {c}) \cup {[c EXCEPT !.status = "rejected"]}
        /\ UNCHANGED merge_log
    BY <1>3 DEF resolution_candidate_reject
  <2>2. \A d \in candidate' : d.status = "confirmed" => d \in candidate
    BY <2>1 DEF TypeOK, Candidate
  <2>3. ConfirmsByMerging
    BY <2>1, <2>2 DEF ConfirmsByMerging
  <2> QED  BY <2>3, ConfirmingKeepsStanding
<1>4. ASSUME NEW rep, NEW other, link_contact(rep, other)
      PROVE  ConfirmedHasStandingMerge'
  <2>1. apply_merge(rep, other, "manual", display_name) /\ UNCHANGED candidate
    BY <1>4 DEF link_contact
  <2>2. ConfirmsByMerging
    BY <2>1, MergeStands DEF ConfirmsByMerging
  <2> QED  BY <2>2, ConfirmingKeepsStanding
<1>5. ASSUME NEW k \in DOMAIN merge_log, undo_merge(k)
      PROVE  ConfirmedHasStandingMerge'
  BY <1>5, UndoKeepsStanding
<1>6. CASE UNCHANGED <<merge_log, candidate>>
  BY <1>6 DEF ConfirmedHasStandingMerge, Standing
<1>7. Panel \/ Inbox \/ Upsert \/ Briefs \/ UNCHANGED vars => UNCHANGED <<merge_log, candidate>>
  BY DEF Panel, Inbox, Upsert, Briefs, vars, add_contact_handle, update_contact_name,
         hide_contact, unhide_contact, UpsertIdentity, person_keys_for_identities,
         BeginRefresh, StoreBrief, StorageFailed
<1> QED  BY <1>1, <1>2, <1>3, <1>4, <1>5, <1>6, <1>7 DEF Next, Review

LEMMA InitStanding == Init => ConfirmedHasStandingMerge
<1>1. ASSUME InitFresh PROVE ConfirmedHasStandingMerge
  BY <1>1 DEF InitFresh, ConfirmedHasStandingMerge
<1>2. ASSUME NEW a, NEW b, NEW p, InitLegacy(a, b, p) PROVE ConfirmedHasStandingMerge
  <2>1. PICK e : merge_log = <<e>> /\ e.a = a /\ e.b = b /\ e.reversed = FALSE
    BY <1>2 DEF InitLegacy
  <2>2. candidate = {Row(a, b, RetiredMethod, "confirmed")}
    BY <1>2 DEF InitLegacy
  <2>3. 1 \in Standing /\ merge_log[1] = e
    BY <2>1 DEF Standing
  <2> QED  BY <2>1, <2>2, <2>3 DEF ConfirmedHasStandingMerge, Row
<1> QED  BY <1>1, <1>2 DEF Init

\* A candidate is confirmed only while a merge of its pair stands, whatever is
\* merged and undone in whatever order. (undo_merge reopens exactly the pair of
\* the row that it reverses, and the rules and the review page confirm a pair in
\* the transaction that merges it.)
THEOREM ConfirmedStands == Spec => []ConfirmedHasStandingMerge
BY InitStanding, NextKeepsStanding, TypeCorrect, PTL DEF Spec

-----------------------------------------------------------------------------
(* Names. *)

\* What NamesReplacedByOperatorOnly asks of a step.
NamesStay ==
  \A i \in Identity :
    display_name[i] # NoName /\ display_name'[i] # display_name[i] =>
      /\ display_name'[i] \in Typed
      /\ \A j \in Cluster(i) : display_name'[j] = display_name'[i]

\* A name is filled in where there is none.
LEMMA NamedKeepsNames ==
  ASSUME TypeOK, NEW i \in Identity, display_name' = Named(i)
  PROVE  NamesStay
BY DEF TypeOK, Named, NamesStay

\* The operator names all identities of a contact.
LEMMA CorrectionNamesCluster ==
  ASSUME TypeOK, NEW rep \in Identity, NEW n \in Typed, update_contact_name(rep, n)
  PROVE  NamesStay
<1>1. \A i \in Identity :
        display_name'[i] = IF i \in Cluster(rep) THEN n ELSE display_name[i]
  BY DEF update_contact_name
<1>2. \A i \in Cluster(rep) : Cluster(i) = Cluster(rep)
  BY DEF Cluster, Members
<1>3. \A i \in Cluster(rep) : i \in Identity
  BY DEF Cluster, Members
<1> QED  BY <1>1, <1>2, <1>3 DEF NamesStay

\* A name that an identity has is replaced by the operator only, who names every
\* identity of the contact: neither a later message nor the LinkedIn export
\* undoes a correction. (store_writer._get_or_create_identity and
\* rule_exact_email_match fill in, contact_editor.update_contact_name replaces.)
THEOREM CorrectionsSurvive == Spec => NamesReplacedByOperatorOnly
<1>1. ASSUME TypeOK, [Next]_vars PROVE NamesStay
  <2>1. CASE Resolution
    <3>1. ASSUME NEW l \in LinkedIn, display_name' = Named(l) PROVE NamesStay
      BY <1>1, <3>1, NamedKeepsNames DEF Identity
    <3>2. CASE UNCHANGED display_name
      BY <3>2 DEF NamesStay
    <3>3. \A e \in EmailMatch : e[2] \in LinkedIn
      BY EvidenceAssumption
    <3> QED  BY <2>1, <3>1, <3>2, <3>3
             DEF Resolution, rule_exact_email_match, rule_contact_bridge,
                 rule_signature_phone, rule_outlook_dedupe, rule_linkedin_correlation
  <2>2. CASE Upsert
    <3>1. PICK i \in present : UpsertIdentity(i)
      BY <2>2 DEF Upsert
    <3>2. i \in Identity
      BY <1>1 DEF TypeOK
    <3> QED  BY <1>1, <3>1, <3>2, NamedKeepsNames DEF UpsertIdentity
  <2>3. ASSUME NEW rep \in present, NEW n \in Typed, update_contact_name(rep, n)
        PROVE  NamesStay
    <3>1. rep \in Identity
      BY <1>1 DEF TypeOK
    <3> QED  BY <1>1, <2>3, <3>1, CorrectionNamesCluster
  <2>4. CASE UNCHANGED display_name
    BY <2>4 DEF NamesStay
  <2>5. Review \/ Inbox \/ Briefs \/ UNCHANGED vars => UNCHANGED display_name
    BY DEF Review, Inbox, Briefs, vars, identity_vars, resolution_candidate_confirm,
           resolution_candidate_reject, link_contact, undo_merge, hide_contact,
           unhide_contact, person_keys_for_identities, BeginRefresh, StoreBrief,
           StorageFailed
  <2>6. ASSUME NEW rep, NEW i, add_contact_handle(rep, i) PROVE UNCHANGED display_name
    BY <2>6 DEF add_contact_handle
  <2> QED  BY <1>1, <2>1, <2>2, <2>3, <2>4, <2>5, <2>6 DEF Next, Panel
<1>2. TypeOK /\ [Next]_vars => [NamesStay]_vars
  BY <1>1
<1> QED  BY <1>2, TypeCorrect, PTL DEF Spec, NamesReplacedByOperatorOnly, NamesStay

-----------------------------------------------------------------------------
(* One merge for each time that a candidate is up for review.              *)

PairRows(log, a, b) == {k \in DOMAIN log : log[k].a = a /\ log[k].b = b}

ReviewRows(log, a, b) == {k \in PairRows(log, a, b) : log[k].decision = "review"}

UndoneRows(log, a, b) == {k \in PairRows(log, a, b) : log[k].reversed}

\* What a reviewer merged was a candidate, and candidates are never deleted.
ReviewHasCandidate ==
  \A k \in DOMAIN merge_log : merge_log[k].decision = "review" =>
    \E c \in candidate : c.a = merge_log[k].a /\ c.b = merge_log[k].b

\* A candidate that is up for review has used up none of the undone merges of its
\* pair, another has used up at most one more.
ReviewsPaidFor ==
  \A c \in candidate :
    Cardinality(ReviewRows(merge_log, c.a, c.b))
      <= Cardinality(UndoneRows(merge_log, c.a, c.b)) + (IF c.status = "pending" THEN 0 ELSE 1)

\* The inductive invariant, on top of the types.
RInv ==
  /\ QInv
  /\ ReviewHasCandidate
  /\ undos # "repeated" => ReviewsPaidFor

LEMMA RowsFinite ==
  ASSUME NEW log \in Seq(LogRow), NEW a, NEW b
  PROVE  /\ IsFiniteSet(ReviewRows(log, a, b)) /\ Cardinality(ReviewRows(log, a, b)) \in Nat
         /\ IsFiniteSet(UndoneRows(log, a, b)) /\ Cardinality(UndoneRows(log, a, b)) \in Nat
<1>1. IsFiniteSet(DOMAIN log)
  BY LenProperties, FS_Interval
<1>2. ReviewRows(log, a, b) \subseteq DOMAIN log /\ UndoneRows(log, a, b) \subseteq DOMAIN log
  BY DEF ReviewRows, UndoneRows, PairRows
<1> QED  BY <1>1, <1>2, FS_Subset, FS_CardinalityType

\* The row of a merge is one more row of its pair, which stands.
LEMMA AppendedRows ==
  ASSUME NEW log \in Seq(LogRow), NEW e \in LogRow, ~e.reversed, NEW a, NEW b
  PROVE  /\ UndoneRows(Append(log, e), a, b) = UndoneRows(log, a, b)
         /\ ReviewRows(Append(log, e), a, b)
              = IF e.a = a /\ e.b = b /\ e.decision = "review"
                THEN ReviewRows(log, a, b) \cup {Len(log) + 1} ELSE ReviewRows(log, a, b)
         /\ Len(log) + 1 \notin ReviewRows(log, a, b)
<1> DEFINE log2 == Append(log, e)
<1>1. /\ Len(log) \in Nat /\ DOMAIN log = 1..Len(log) /\ DOMAIN log2 = 1..(Len(log) + 1)
      /\ log2[Len(log) + 1] = e /\ \A m \in DOMAIN log : log2[m] = log[m]
  BY LenProperties
<1>2. DOMAIN log2 = DOMAIN log \cup {Len(log) + 1} /\ Len(log) + 1 \notin DOMAIN log
  BY <1>1
<1> HIDE DEF log2
<1> QED  BY <1>1, <1>2 DEF ReviewRows, UndoneRows, PairRows, log2

\* A step that adds no review to the log, and after which no candidate is up for
\* review that was not before, unless its pair is new.
QuietReview ==
  /\ merge_log' \in Seq(LogRow) /\ undos' = undos
  /\ \A a, b : /\ ReviewRows(merge_log', a, b) = ReviewRows(merge_log, a, b)
               /\ UndoneRows(merge_log', a, b) = UndoneRows(merge_log, a, b)
  /\ \A c \in candidate : \E d \in candidate' : d.a = c.a /\ d.b = c.b
  /\ \A d \in candidate' :
       \/ ~has_existing_candidate(d.a, d.b)
       \/ \E c \in candidate : /\ d.a = c.a /\ d.b = c.b
                               /\ d.status = "pending" => c.status = "pending"

LEMMA QuietKeepsReviews ==
  ASSUME TypeOK, RInv, QuietReview
  PROVE  ReviewHasCandidate' /\ (undos' # "repeated" => ReviewsPaidFor')
<1>1. \A log, a, b : \A k : k \in ReviewRows(log, a, b)
                       <=> k \in DOMAIN log /\ log[k].a = a /\ log[k].b = b /\ log[k].decision = "review"
  BY DEF ReviewRows, PairRows
<1>2. ReviewHasCandidate'
  <2> SUFFICES ASSUME NEW k \in DOMAIN merge_log', merge_log'[k].decision = "review"
               PROVE  \E d \in candidate' : d.a = merge_log'[k].a /\ d.b = merge_log'[k].b
    BY DEF ReviewHasCandidate
  <2> DEFINE a == merge_log'[k].a
             b == merge_log'[k].b
  <2>1. k \in ReviewRows(merge_log', a, b)
    BY <1>1
  <2> HIDE DEF a, b
  <2>2. k \in ReviewRows(merge_log, a, b)
    BY <2>1 DEF QuietReview
  <2>3. \E c \in candidate : c.a = a /\ c.b = b
    BY <1>1, <2>2 DEF RInv, ReviewHasCandidate
  <2>4. \E d \in candidate' : d.a = a /\ d.b = b
    BY <2>3 DEF QuietReview
  <2> QED  BY <2>4 DEF a, b
<1>3. ASSUME undos' # "repeated", NEW d \in candidate'
      PROVE  Cardinality(ReviewRows(merge_log', d.a, d.b))
               <= Cardinality(UndoneRows(merge_log', d.a, d.b)) + (IF d.status = "pending" THEN 0 ELSE 1)
  <2>1. /\ ReviewRows(merge_log', d.a, d.b) = ReviewRows(merge_log, d.a, d.b)
        /\ UndoneRows(merge_log', d.a, d.b) = UndoneRows(merge_log, d.a, d.b)
    BY DEF QuietReview
  <2>2. /\ Cardinality(ReviewRows(merge_log, d.a, d.b)) \in Nat
        /\ Cardinality(UndoneRows(merge_log, d.a, d.b)) \in Nat
    BY RowsFinite DEF TypeOK
  <2>3. CASE ~has_existing_candidate(d.a, d.b)
    <3>1. ReviewRows(merge_log, d.a, d.b) = {}
      BY <1>1, <2>3 DEF RInv, ReviewHasCandidate, has_existing_candidate
    <3>2. Cardinality(ReviewRows(merge_log, d.a, d.b)) = 0
      BY <3>1, FS_EmptySet
    <3> QED  BY <2>1, <2>2, <3>2
  <2>4. ASSUME NEW c \in candidate, d.a = c.a, d.b = c.b, d.status = "pending" => c.status = "pending"
        PROVE  Cardinality(ReviewRows(merge_log', d.a, d.b))
                 <= Cardinality(UndoneRows(merge_log', d.a, d.b)) + (IF d.status = "pending" THEN 0 ELSE 1)
    <3>1. Cardinality(ReviewRows(merge_log, d.a, d.b))
            <= Cardinality(UndoneRows(merge_log, d.a, d.b)) + (IF c.status = "pending" THEN 0 ELSE 1)
      BY <1>3, <2>4 DEF QuietReview, RInv, ReviewsPaidFor
    <3> QED  BY <2>1, <2>2, <2>4, <3>1
  <2> QED  BY <2>3, <2>4 DEF QuietReview
<1> QED  BY <1>2, <1>3 DEF ReviewsPaidFor

\* A merge that is no review changes none of the counts.
LEMMA MergeQuiet ==
  ASSUME TypeOK, TypeOK', NEW a, NEW b, NEW decision, NEW names, decision # "review",
         apply_merge(a, b, decision, names), NEW x, NEW y
  PROVE  /\ ReviewRows(merge_log', x, y) = ReviewRows(merge_log, x, y)
         /\ UndoneRows(merge_log', x, y) = UndoneRows(merge_log, x, y)
<1>1. PICK e : merge_log' = Append(merge_log, e) /\ e.decision = decision /\ e.reversed = FALSE
  BY DEF apply_merge
<1>2. merge_log \in Seq(LogRow) /\ merge_log' \in Seq(LogRow)
  BY DEF TypeOK
<1>3. Len(merge_log') = Len(merge_log) + 1 /\ merge_log'[Len(merge_log) + 1] = e
  BY <1>1, <1>2
<1>4. e \in LogRow
  BY <1>2, <1>3, LenProperties, ElementOfSeq
<1> QED  BY <1>1, <1>2, <1>4, AppendedRows

LEMMA ResolutionQuiet ==
  ASSUME TypeOK, TypeOK', Resolution
  PROVE  QuietReview
<1> DEFINE Leaves == merge_log' = merge_log \/ \E a, b, names : apply_merge(a, b, "automatic", names)
<1>0. PICK a, b : \/ \E method, blocked, names :
                       propose_and_maybe_confirm(a, b, method, blocked, names)
                  \/ \E method : Queue(a, b, method)
                  \/ Skip(a, b)
  BY DEF Resolution, rule_exact_email_match, rule_contact_bridge, rule_signature_phone,
     rule_outlook_dedupe, rule_linkedin_correlation
<1>1. undos' = undos /\ Leaves
  <2>1. ASSUME NEW method, NEW blocked, NEW names,
               propose_and_maybe_confirm(a, b, method, blocked, names)
        PROVE  undos' = undos /\ Leaves
    <3>1. \/ undos' = undos /\ merge_log' = merge_log
          \/ apply_merge(a, b, "automatic", names)
      BY <2>1 DEF propose_and_maybe_confirm
    <3>2. apply_merge(a, b, "automatic", names) => undos' = undos
      BY DEF apply_merge
    <3> QED  BY <3>1, <3>2
  <2>2. ASSUME (\E method : Queue(a, b, method)) \/ Skip(a, b)
        PROVE  undos' = undos /\ Leaves
    BY <2>2 DEF Queue, Skip
  <2> QED  BY <1>0, <2>1, <2>2
<1>2. Leaves
  BY <1>1
<1>3. \A x, y : /\ ReviewRows(merge_log', x, y) = ReviewRows(merge_log, x, y)
                /\ UndoneRows(merge_log', x, y) = UndoneRows(merge_log, x, y)
  BY <1>2, MergeQuiet
<1>4. \/ candidate' = candidate
      \/ \E c : ~has_existing_candidate(c.a, c.b) /\ candidate' = candidate \cup {c}
  BY ResolutionProposes DEF Proposed, LeftAlone
<1> QED  BY <1>1, <1>3, <1>4 DEF QuietReview, TypeOK

\* A confirmation adds a review and closes its candidate, the pair's only one.
LEMMA ConfirmKeepsReviews ==
  ASSUME TypeOK, TypeOK', RInv, NEW c \in candidate, resolution_candidate_confirm(c)
  PROVE  ReviewHasCandidate' /\ (undos' # "repeated" => ReviewsPaidFor')
<1>1. PICK e : /\ merge_log' = Append(merge_log, e)
               /\ e.a = c.a /\ e.b = c.b /\ e.decision = "review" /\ e.reversed = FALSE
  BY DEF resolution_candidate_confirm, apply_merge
<1>2. merge_log \in Seq(LogRow) /\ merge_log' \in Seq(LogRow)
  BY DEF TypeOK
<1>3. /\ DOMAIN merge_log' = DOMAIN merge_log \cup {Len(merge_log) + 1}
      /\ merge_log'[Len(merge_log) + 1] = e
      /\ \A k \in DOMAIN merge_log : merge_log'[k] = merge_log[k]
  BY <1>1, <1>2, LenProperties
<1>4. e \in LogRow
  BY <1>2, <1>3, ElementOfSeq, LenProperties
<1> DEFINE new == [c EXCEPT !.status = "confirmed"]
<1>5. /\ new.a = c.a /\ new.b = c.b /\ new.status = "confirmed"
      /\ c.status = "pending" /\ undos' = undos
      /\ candidate' = (candidate \ {c}) \cup {new}
  BY DEF resolution_candidate_confirm, apply_merge, TypeOK, Candidate
<1> HIDE DEF new
<1>6. ReviewHasCandidate'
  BY <1>1, <1>3, <1>5 DEF RInv, ReviewHasCandidate
<1>7. ASSUME undos' # "repeated", NEW d \in candidate'
      PROVE  Cardinality(ReviewRows(merge_log', d.a, d.b))
               <= Cardinality(UndoneRows(merge_log', d.a, d.b)) + (IF d.status = "pending" THEN 0 ELSE 1)
  <2>0. ReviewsPaidFor
    BY <1>5, <1>7 DEF RInv
  <2>1. /\ Cardinality(ReviewRows(merge_log, d.a, d.b)) \in Nat
        /\ Cardinality(UndoneRows(merge_log, d.a, d.b)) \in Nat
        /\ IsFiniteSet(ReviewRows(merge_log, d.a, d.b))
    BY <1>2, RowsFinite
  <2>2. UndoneRows(merge_log', d.a, d.b) = UndoneRows(merge_log, d.a, d.b)
    BY <1>1, <1>2, <1>4, AppendedRows
  <2>3. CASE d = new
    <3>1. /\ ReviewRows(merge_log', d.a, d.b) = ReviewRows(merge_log, d.a, d.b) \cup {Len(merge_log) + 1}
          /\ Len(merge_log) + 1 \notin ReviewRows(merge_log, d.a, d.b)
      BY <1>1, <1>2, <1>4, <1>5, <2>3, AppendedRows
    <3>2. Cardinality(ReviewRows(merge_log', d.a, d.b)) = Cardinality(ReviewRows(merge_log, d.a, d.b)) + 1
      BY <2>1, <3>1, FS_AddElement
    <3>3. Cardinality(ReviewRows(merge_log, d.a, d.b)) <= Cardinality(UndoneRows(merge_log, d.a, d.b))
      BY <1>5, <2>0, <2>1, <2>3 DEF ReviewsPaidFor
    <3>4. d.status = "confirmed"
      BY <1>5, <2>3
    <3> QED  BY <2>1, <2>2, <3>2, <3>3, <3>4
  <2>4. CASE d # new
    <3>1. d \in candidate /\ d # c
      BY <1>5, <2>4
    <3>2. ~(d.a = c.a /\ d.b = c.b)
      BY <3>1 DEF RInv, QInv, UniquePairs
    <3>3. ReviewRows(merge_log', d.a, d.b) = ReviewRows(merge_log, d.a, d.b)
      BY <1>1, <1>2, <1>4, <3>2, AppendedRows
    <3> QED  BY <2>0, <2>2, <3>1, <3>3 DEF ReviewsPaidFor
  <2> QED  BY <2>3, <2>4
<1> QED  BY <1>6, <1>7 DEF ReviewsPaidFor

\* An undo pays for one more review of its pair.
LEMMA UndoKeepsReviews ==
  ASSUME TypeOK, RInv, NEW k \in DOMAIN merge_log, undo_merge(k)
  PROVE  ReviewHasCandidate' /\ (undos' # "repeated" => ReviewsPaidFor')
<1> DEFINE a == merge_log[k].a
           b == merge_log[k].b
<1>1. /\ merge_log \in Seq(LogRow)
      /\ IsUndone(merge_log, k, merge_log')
      /\ candidate' = Reopened(a, b)
      /\ undos' # "repeated" => ~merge_log[k].reversed /\ undos # "repeated"
  BY UndoneRow DEF undo_merge, TypeOK, Standing
<1>2. \A d \in candidate' : \E c \in candidate :
        /\ d.a = c.a /\ d.b = c.b
        /\ d = c \/ (c.a = a /\ c.b = b)
  BY <1>1 DEF Reopened, TypeOK, Candidate
<1>3. \A c \in candidate : \E d \in candidate' : d.a = c.a /\ d.b = c.b
  <2> SUFFICES ASSUME NEW c \in candidate
               PROVE  \E d \in candidate' : d.a = c.a /\ d.b = c.b
    OBVIOUS
  <2> DEFINE new == IF c.a = a /\ c.b = b /\ c.status = "confirmed"
                    THEN [c EXCEPT !.status = IF c.method = RetiredMethod THEN "retired" ELSE "pending"]
                    ELSE c
  <2>1. new \in candidate'
    BY <1>1 DEF Reopened
  <2>2. new.a = c.a /\ new.b = c.b
    BY DEF TypeOK, Candidate
  <2> QED  BY <2>1, <2>2
<1>4. \A x, y : /\ PairRows(merge_log', x, y) = PairRows(merge_log, x, y)
                /\ ReviewRows(merge_log', x, y) = ReviewRows(merge_log, x, y)
  BY <1>1 DEF IsUndone, PairRows, ReviewRows
<1>5. \A x, y : UndoneRows(merge_log', x, y)
                  = IF x = a /\ y = b THEN UndoneRows(merge_log, x, y) \cup {k}
                    ELSE UndoneRows(merge_log, x, y)
  BY <1>1, <1>4 DEF IsUndone, PairRows, UndoneRows
<1> HIDE DEF a, b
<1>6. ReviewHasCandidate'
  <2>1. \A m \in DOMAIN merge_log' :
          /\ m \in DOMAIN merge_log /\ merge_log'[m].a = merge_log[m].a
          /\ merge_log'[m].b = merge_log[m].b /\ merge_log'[m].decision = merge_log[m].decision
    BY <1>1 DEF IsUndone
  <2> QED  BY <1>3, <2>1 DEF RInv, ReviewHasCandidate
<1>7. ASSUME undos' # "repeated", NEW d \in candidate'
      PROVE  Cardinality(ReviewRows(merge_log', d.a, d.b))
               <= Cardinality(UndoneRows(merge_log', d.a, d.b)) + (IF d.status = "pending" THEN 0 ELSE 1)
  <2>0. ReviewsPaidFor /\ ~merge_log[k].reversed
    BY <1>1, <1>7 DEF RInv
  <2>1. /\ Cardinality(ReviewRows(merge_log, d.a, d.b)) \in Nat
        /\ Cardinality(UndoneRows(merge_log, d.a, d.b)) \in Nat
        /\ IsFiniteSet(UndoneRows(merge_log, d.a, d.b))
    BY <1>1, RowsFinite
  <2>2. PICK c \in candidate : d.a = c.a /\ d.b = c.b /\ (d = c \/ (c.a = a /\ c.b = b))
    BY <1>2
  <2>3. Cardinality(ReviewRows(merge_log, d.a, d.b))
          <= Cardinality(UndoneRows(merge_log, d.a, d.b)) + (IF c.status = "pending" THEN 0 ELSE 1)
    BY <2>0, <2>2 DEF ReviewsPaidFor
  <2>4. ReviewRows(merge_log', d.a, d.b) = ReviewRows(merge_log, d.a, d.b)
    BY <1>4
  <2>5. CASE d.a = a /\ d.b = b
    <3>1. k \notin UndoneRows(merge_log, d.a, d.b)
      BY <2>0 DEF UndoneRows
    <3>2. Cardinality(UndoneRows(merge_log', d.a, d.b)) = Cardinality(UndoneRows(merge_log, d.a, d.b)) + 1
      BY <1>5, <2>1, <2>5, <3>1, FS_AddElement
    <3> QED  BY <2>1, <2>3, <2>4, <3>2
  <2>6. CASE ~(d.a = a /\ d.b = b)
    <3>1. d = c /\ UndoneRows(merge_log', d.a, d.b) = UndoneRows(merge_log, d.a, d.b)
      BY <1>5, <2>2, <2>6
    <3> QED  BY <2>3, <2>4, <3>1
  <2> QED  BY <2>5, <2>6
<1> QED  BY <1>6, <1>7 DEF ReviewsPaidFor

LEMMA NextKeepsReviews ==
  ASSUME TypeOK, TypeOK', RInv, [Next]_vars
  PROVE  RInv'
<1>0. QInv'
  BY NextKeepsClosed DEF RInv
<1>1. CASE Resolution
  BY <1>0, <1>1, ResolutionQuiet, QuietKeepsReviews DEF RInv
<1>2. ASSUME NEW c \in candidate, resolution_candidate_confirm(c) PROVE RInv'
  BY <1>0, <1>2, ConfirmKeepsReviews DEF RInv
<1>3. ASSUME NEW c \in candidate, resolution_candidate_reject(c) PROVE RInv'
  <2>1. /\ candidate' = (candidate \ {c}) \cup {[c EXCEPT !.status = "rejected"]}
        /\ c.status = "pending" /\ UNCHANGED <<merge_log, undos>>
    BY <1>3 DEF resolution_candidate_reject
  <2>2. [c EXCEPT !.status = "rejected"].a = c.a /\ [c EXCEPT !.status = "rejected"].b = c.b
    BY DEF TypeOK, Candidate
  <2>3. QuietReview
    BY <2>1, <2>2 DEF QuietReview, TypeOK
  <2> QED  BY <1>0, <2>3, QuietKeepsReviews DEF RInv
<1>4. ASSUME NEW rep, NEW other, link_contact(rep, other) PROVE RInv'
  <2>1. /\ apply_merge(rep, other, "manual", display_name)
        /\ candidate' = candidate /\ undos' = undos
    BY <1>4 DEF link_contact, apply_merge
  <2>2. \A a, b : /\ ReviewRows(merge_log', a, b) = ReviewRows(merge_log, a, b)
                  /\ UndoneRows(merge_log', a, b) = UndoneRows(merge_log, a, b)
    BY <2>1, MergeQuiet
  <2>3. QuietReview
    BY <2>1, <2>2 DEF QuietReview, TypeOK
  <2> QED  BY <1>0, <2>3, QuietKeepsReviews DEF RInv
<1>5. ASSUME NEW k \in DOMAIN merge_log, undo_merge(k) PROVE RInv'
  BY <1>0, <1>5, UndoKeepsReviews DEF RInv
<1>6. CASE Panel \/ Inbox \/ Upsert \/ Briefs \/ UNCHANGED vars
  <2>1. UNCHANGED <<merge_log, candidate, undos>>
    BY <1>6 DEF Panel, Inbox, Upsert, Briefs, vars, add_contact_handle, update_contact_name,
           hide_contact, unhide_contact, UpsertIdentity, person_keys_for_identities,
           BeginRefresh, StoreBrief, StorageFailed
  <2>2. QuietReview
    BY <2>1 DEF QuietReview, TypeOK
  <2> QED  BY <1>0, <2>2, QuietKeepsReviews DEF RInv
<1> QED  BY <1>1, <1>2, <1>3, <1>4, <1>5, <1>6 DEF Next, Review

\* The legacy row was confirmed once.
LEMMA InitReviews == Init => RInv
<1>0. Cardinality({}) = 0 /\ Cardinality({1}) = 1
  BY FS_EmptySet, FS_Singleton
<1>1. ASSUME InitFresh PROVE RInv
  BY <1>1, InitQInv DEF InitFresh, Init, RInv, ReviewHasCandidate, ReviewsPaidFor
<1>2. ASSUME NEW a \in LinkedIn \cap Known, NEW b \in LinkedIn \cap Known, NEW p \in Person,
             a # b, Reported[a] = Reported[b], InitLegacy(a, b, p)
      PROVE  RInv
  <2>1. QInv
    BY <1>2, InitQInv DEF Init
  <2>2. PICK e : /\ merge_log = <<e>> /\ e.a = a /\ e.b = b /\ e.decision = "review"
                 /\ e.reversed = FALSE
    BY <1>2 DEF InitLegacy
  <2>3. candidate = {Row(a, b, RetiredMethod, "confirmed")}
    BY <1>2 DEF InitLegacy
  <2>4. ReviewRows(merge_log, a, b) = {1} /\ UndoneRows(merge_log, a, b) = {}
    BY <2>2 DEF ReviewRows, UndoneRows, PairRows
  <2>5. ReviewHasCandidate
    BY <2>2, <2>3 DEF ReviewHasCandidate, Row
  <2>6. ReviewsPaidFor
    BY <1>0, <2>3, <2>4 DEF ReviewsPaidFor, Row
  <2> QED  BY <2>1, <2>5, <2>6 DEF RInv
<1> QED  BY <1>1, <1>2 DEF Init

\* A candidate is merged by a reviewer once for each time it is up for review:
\* stale pages and repeated clicks included, one more only for each merge of its
\* pair that was undone, as long as no merge is undone twice. (The claim of the
\* row by the update of its status, and the reopening in undo_merge.)
THEOREM MergedOncePerReview == Spec => []OneMergePerConfirmation
<1>1. ASSUME TypeOK, RInv PROVE OneMergePerConfirmation
  <2> SUFFICES ASSUME undos # "repeated", NEW c \in candidate
               PROVE  LET merges == {k \in DOMAIN merge_log : merge_log[k].a = c.a /\ merge_log[k].b = c.b}
                      IN  Cardinality({k \in merges : merge_log[k].decision = "review"})
                            <= 1 + Cardinality(merges \ Standing)
    BY DEF OneMergePerConfirmation
  <2> DEFINE merges == {k \in DOMAIN merge_log : merge_log[k].a = c.a /\ merge_log[k].b = c.b}
  <2>1. /\ merges \ Standing = UndoneRows(merge_log, c.a, c.b)
        /\ {k \in merges : merge_log[k].decision = "review"} = ReviewRows(merge_log, c.a, c.b)
    BY DEF Standing, UndoneRows, ReviewRows, PairRows
  <2>2. /\ Cardinality(ReviewRows(merge_log, c.a, c.b)) \in Nat
        /\ Cardinality(UndoneRows(merge_log, c.a, c.b)) \in Nat
    BY <1>1, RowsFinite DEF TypeOK
  <2>3. Cardinality(ReviewRows(merge_log, c.a, c.b))
          <= Cardinality(UndoneRows(merge_log, c.a, c.b)) + (IF c.status = "pending" THEN 0 ELSE 1)
    BY <1>1 DEF RInv, ReviewsPaidFor
  <2>4. Cardinality(ReviewRows(merge_log, c.a, c.b)) <= 1 + Cardinality(UndoneRows(merge_log, c.a, c.b))
    BY <2>2, <2>3
  <2> QED  BY <2>1, <2>4
<1>2. TypeOK /\ TypeOK' /\ RInv /\ [Next]_vars => RInv'
  BY NextKeepsReviews
<1>3. TypeOK /\ RInv => OneMergePerConfirmation
  BY <1>1
<1> QED  BY <1>2, <1>3, InitReviews, TypeCorrect, PTL DEF Spec
=============================================================================
