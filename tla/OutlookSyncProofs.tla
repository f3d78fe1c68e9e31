------------------------- MODULE OutlookSyncProofs -------------------------
(***************************************************************************)
(* OutlookSync implements MessageStore, and a run that commits has stored  *)
(* what it set out to, for any number of overlapping runs, any mailbox and *)
(* every bound.                                                            *)
(***************************************************************************)
EXTENDS OutlookSync, TLAPS, SequenceTheorems

\* Where the runs are: what TypeOK says of the variables that decide which
\* entry a run handles next.
Places ==
  /\ changes \in [Folder -> Seq(Message)]
  /\ delta_link \in [Folder -> Nat \cup {None}]
  /\ legacy_link \in Nat \cup {None}
  /\ phase \in [Runner -> {"idle", "open", "delta", "plain", "commit"}]
  /\ folder \in [Runner -> 1..3]
  /\ at \in [Runner -> Nat]
  /\ \A f \in Folder : delta_link[f] # None => delta_link[f] <= Len(changes[f])
  /\ legacy_link # None => legacy_link <= Len(changes["inbox"])
  /\ \A r \in Runner :
       /\ phase[r] = "idle" => folder[r] = 1
       /\ phase[r] \in {"open", "delta", "plain"} => folder[r] \in {1, 2}
       /\ phase[r] \in {"delta", "plain"} => at[r] <= Len(changes[Current(r)])

\* What the unique constraint keeps true: a message has one row at most, and one
\* that an open transaction has inserted has no row, and is in no other open
\* transaction; both are messages of the mailbox.
OneRow ==
  /\ rows \in [Message -> {0, 1}]
  /\ written \in [Runner -> SUBSET Sent]
  /\ \A m \in Message : rows[m] = 1 => m \in Sent
  /\ \A r \in Runner : \A m \in written[r] : rows[m] = 0
  /\ \A r, s \in Runner : r # s => written[r] \cap written[s] = {}

\* The inductive invariant.
IInv == Places /\ OneRow

-----------------------------------------------------------------------------

\* The folders of _FOLDERS.
LEMMA FolderFacts ==
  /\ Len(_FOLDERS) = 2
  /\ _FOLDERS[1] \in Folder /\ _FOLDERS[2] \in Folder
  /\ "inbox" \in Folder
BY DEF _FOLDERS, Folder

LEMMA CurrentType ==
  ASSUME Places, NEW r \in Runner, phase[r] \in {"open", "delta", "plain"}
  PROVE  Current(r) \in Folder
BY FolderFacts DEF Places, Current

\* The initial states satisfy the invariant.
LEMMA InitInv == Init => IInv
<1> SUFFICES ASSUME Init PROVE IInv
  OBVIOUS
<1>1. PICK old \in {<<>>} \cup {<<m>> : m \in Message} :
        /\ changes = [f \in Folder |-> IF f = "inbox" THEN old ELSE <<>>]
        /\ legacy_link \in {None, Len(old)}
        /\ rows = [m \in Message |->
                     IF legacy_link # None /\ m \notin NoId
                        /\ \E i \in DOMAIN old : old[i] = m THEN 1 ELSE 0]
  BY DEF Init
<1>2. old \in Seq(Message)
  <2>1. CASE old = <<>>
    BY <2>1, EmptySeq
  <2>2. CASE \E m \in Message : old = <<m>>
    BY <2>2
  <2> QED  BY <2>1, <2>2
<1>3. changes \in [Folder -> Seq(Message)] /\ changes["inbox"] = old
  BY <1>1, <1>2 DEF Folder
<1>4. Places
  BY <1>1, <1>2, <1>3, SyncAssumption DEF Init, Places, Folder
<1>5. \A m \in Message : rows[m] = 1 => m \in Sent
  BY <1>1, <1>3, FolderFacts DEF Sent
<1>6. OneRow
  BY <1>1, <1>5 DEF Init, OneRow
<1> QED  BY <1>4, <1>6 DEF IInv

-----------------------------------------------------------------------------
(* Places. *)

\* A longer change log moves no run and no link out of it.
LEMMA ArrivePlaces ==
  ASSUME Places, NEW f \in Folder, NEW m \in Message, Arrive(f, m)
  PROVE  Places' /\ Sent \subseteq Sent' /\ Sent' \subseteq Sent \cup {m}
<1> USE DEF Arrive, file_vars, run_vars
<1>1. /\ changes' = [changes EXCEPT ![f] = Append(changes[f], m)]
      /\ Len(changes'[f]) = Len(changes[f]) + 1
      /\ changes' \in [Folder -> Seq(Message)]
  BY AppendProperties DEF Places
<1>2. \A g \in Folder : Len(changes[g]) <= Len(changes'[g])
  BY <1>1, LenProperties DEF Places
<1>3. \A r \in Runner : phase[r] \in {"delta", "plain"} =>
        at[r] <= Len(changes'[Current(r)])
  <2> TAKE r \in Runner
  <2> HAVE phase[r] \in {"delta", "plain"}
  <2>1. Current(r) \in Folder /\ at[r] <= Len(changes[Current(r)])
    BY CurrentType DEF Places
  <2>2. at[r] \in Nat /\ Len(changes[Current(r)]) \in Nat /\ Len(changes'[Current(r)]) \in Nat
    BY <1>1, <2>1, LenProperties DEF Places
  <2> QED  BY <1>2, <2>1, <2>2
<1>4. \A g \in Folder : delta_link[g] # None => delta_link[g] <= Len(changes'[g])
  <2> TAKE g \in Folder
  <2> HAVE delta_link[g] # None
  <2>1. delta_link[g] \in Nat /\ Len(changes[g]) \in Nat /\ Len(changes'[g]) \in Nat
    BY <1>1, LenProperties DEF Places
  <2> QED  BY <1>2, <2>1 DEF Places
<1>5. legacy_link # None => legacy_link <= Len(changes'["inbox"])
  <2> HAVE legacy_link # None
  <2>1. legacy_link \in Nat /\ Len(changes["inbox"]) \in Nat /\ Len(changes'["inbox"]) \in Nat
    BY <1>1, LenProperties, FolderFacts DEF Places
  <2> QED  BY <1>2, <2>1, FolderFacts DEF Places
<1>6. Places'
  BY <1>1, <1>3, <1>4, <1>5 DEF Places, Current
<1>7. \A g \in Folder : /\ DOMAIN changes[g] = 1 .. Len(changes[g])
                         /\ DOMAIN changes'[g] = 1 .. Len(changes'[g])
  BY <1>1, LenProperties DEF Places
<1>8. \A g \in Folder : \A i \in DOMAIN changes'[g] :
        changes'[g][i] = IF i \in DOMAIN changes[g] THEN changes[g][i] ELSE m
  <2> TAKE g \in Folder
  <2>1. CASE g = f
    BY <1>1, <1>7, <2>1, AppendProperties DEF Places
  <2>2. CASE g # f
    BY <1>1, <2>2 DEF Places
  <2> QED  BY <2>1, <2>2
<1>9. Sent \subseteq Sent'
  <2> SUFFICES ASSUME NEW x \in Sent PROVE x \in Sent'
    OBVIOUS
  <2>1. PICK g \in Folder : \E i \in DOMAIN changes[g] : changes[g][i] = x
    BY DEF Sent
  <2>2. PICK i \in DOMAIN changes[g] : changes[g][i] = x
    BY <2>1
  <2>3. i \in DOMAIN changes'[g]
    BY <1>1, <1>2, <1>7, LenProperties DEF Places
  <2> QED  BY <1>8, <2>2, <2>3 DEF Sent
<1>10. Sent' \subseteq Sent \cup {m}
  BY <1>8 DEF Sent
<1> QED  BY <1>6, <1>9, <1>10

\* No other step changes a folder, and each leaves its run within one.
LEMMA RunPlaces ==
  ASSUME Places, NEW r \in Runner, Step(r) \/ Fail(r) \/ Kill(r)
  PROVE  Places' /\ Sent' = Sent
<1> USE DEF file_vars, run_vars
<1>1. CASE Start(r)
  BY <1>1, FolderFacts DEF Start, Places, Current, Sent
<1>2. CASE OpenFolder(r)
  <2>1. Current(r) \in Folder /\ Listed(Current(r)) = Len(changes[Current(r)])
        /\ Len(changes[Current(r)]) \in Nat
    BY <1>2, CurrentType, LenProperties DEF OpenFolder, Listed, Places
  <2> QED  BY <1>2, <2>1 DEF OpenFolder, Places, Current, Sent
<1>3. CASE DeltaItem(r)
  <2>1. Current(r) \in Folder /\ Len(changes[Current(r)]) \in Nat
    BY <1>3, CurrentType, LenProperties DEF DeltaItem, Places
  <2> QED  BY <1>3, <2>1 DEF DeltaItem, Places, Current, Sent
<1>4. CASE PlainItem(r)
  <2>1. Current(r) \in Folder /\ Len(changes[Current(r)]) \in Nat
    BY <1>4, CurrentType, LenProperties DEF PlainItem, Places
  <2> QED  BY <1>4, <2>1 DEF PlainItem, Places, Current, Sent
<1>5. CASE FolderDone(r) /\ phase[r] \in {"delta", "plain"}
  <2>1. Current(r) \in Folder /\ Len(changes[Current(r)]) \in Nat
    BY <1>5, CurrentType, LenProperties DEF Places
  <2> QED  BY <1>5, <2>1, FolderFacts DEF FolderDone, SavedLink, Places, Current, Sent
<1>6. CASE Idle(r) /\ UNCHANGED <<changes, delta_link, legacy_link>>
  BY <1>6 DEF Idle, Places, Current, Sent
<1>7. DeltaEnd(r) \/ SeedDelta(r) => FolderDone(r) /\ phase[r] \in {"delta", "plain"}
  BY DEF DeltaEnd, SeedDelta
<1>8. Commit(r) \/ DeadlockDetected(r) \/ Fail(r) \/ Kill(r) =>
        Idle(r) /\ UNCHANGED <<changes, delta_link, legacy_link>>
  BY DEF Commit, DeadlockDetected, Fail, Kill, Rollback
<1> QED  BY <1>1, <1>2, <1>3, <1>4, <1>5, <1>6, <1>7, <1>8 DEF Step

-----------------------------------------------------------------------------
(* Rows. *)

\* upsert inserts only what has no row and what no open transaction holds.
LEMMA UpsertOneRow ==
  ASSUME OneRow, Sent' = Sent, UNCHANGED rows, NEW r \in Runner,
         NEW m \in Sent, upsert(r, m)
  PROVE  OneRow'
<1>1. CASE UNCHANGED written
  BY <1>1 DEF OneRow
<1>2. CASE /\ \A s \in Runner \ {r} : ~HeldBy(m, s)
           /\ rows[m] = 0
           /\ written' = [written EXCEPT ![r] = @ \cup {m}]
  <2>1. \A s \in Runner \ {r} : m \notin written[s]
    BY <1>2 DEF HeldBy
  <2> QED  BY <1>2, <2>1 DEF OneRow
<1> QED  BY <1>1, <1>2 DEF upsert, Insert

\* The entry that a run handles next is a message of the mailbox.
LEMMA ItemSent ==
  ASSUME Places, NEW r \in Runner, phase[r] \in {"delta", "plain"},
         NEW i \in 1 .. Len(changes[Current(r)])
  PROVE  changes[Current(r)][i] \in Sent
<1>1. Current(r) \in Folder
  BY CurrentType
<1>2. changes[Current(r)] \in Seq(Message)
  BY <1>1 DEF Places
<1>3. i \in DOMAIN changes[Current(r)] /\ changes[Current(r)][i] \in Message
  BY <1>2, ElementOfSeq, LenProperties
<1> QED  BY <1>1, <1>3 DEF Sent

\* A commit gives a row to what its transaction inserted.
LEMMA CommitOneRow ==
  ASSUME OneRow, Sent' = Sent, NEW r \in Runner, Commit(r)
  PROVE  /\ OneRow'
         /\ written[r] \in SUBSET {m \in Sent : rows[m] = 0}
         /\ rows' = [m \in Message |-> IF m \in written[r] THEN 1 ELSE rows[m]]
<1>1. rows' = [m \in Message |-> IF m \in written[r] THEN 1 ELSE rows[m]]
  BY DEF Commit, OneRow
<1>2. written' = [written EXCEPT ![r] = {}]
  BY DEF Commit
<1>3. rows' \in [Message -> {0, 1}] /\ \A m \in Message : rows'[m] = 1 => m \in Sent'
  BY <1>1 DEF OneRow
<1>4. \A s \in Runner : \A m \in written'[s] : m \in written[s] /\ s # r
  BY <1>2 DEF OneRow
<1>5. \A s \in Runner : \A m \in written'[s] : rows'[m] = 0
  BY <1>1, <1>4 DEF OneRow, Sent
<1>6. \A s, t \in Runner : s # t => written'[s] \cap written'[t] = {}
  BY <1>4 DEF OneRow
<1>7. written' \in [Runner -> SUBSET Sent']
  BY <1>2 DEF OneRow
<1>8. OneRow'
  BY <1>3, <1>5, <1>6, <1>7 DEF OneRow
<1> QED  BY <1>1, <1>8 DEF OneRow

LEMMA RunOneRow ==
  ASSUME IInv, NEW r \in Runner, Step(r) \/ Fail(r) \/ Kill(r)
  PROVE  OneRow'
<1> USE DEF IInv, store_vars
<1>0. Sent' = Sent
  BY RunPlaces
<1>1. CASE UNCHANGED <<rows, written>>
  BY <1>0, <1>1 DEF OneRow
<1>2. CASE DeltaItem(r)
  <2>1. at[r] + 1 \in 1 .. Len(changes[Current(r)])
    BY <1>2, CurrentType, LenProperties DEF DeltaItem, Places
  <2>2. changes[Current(r)][at[r] + 1] \in Sent
    BY <1>2, <2>1, ItemSent DEF DeltaItem
  <2> QED  BY <1>0, <1>2, <2>2, UpsertOneRow DEF DeltaItem
<1>3. CASE PlainItem(r)
  <2>1. at[r] \in 1 .. Len(changes[Current(r)])
    BY <1>3, CurrentType, LenProperties DEF PlainItem, Places
  <2>2. changes[Current(r)][at[r]] \in Sent
    BY <1>3, <2>1, ItemSent DEF PlainItem
  <2> QED  BY <1>0, <1>3, <2>2, UpsertOneRow DEF PlainItem
<1>4. CASE Commit(r)
  BY <1>0, <1>4, CommitOneRow
<1>5. CASE Rollback(r)
  <2>1. rows' = rows /\ written' = [written EXCEPT ![r] = {}]
    BY <1>5 DEF Rollback
  <2> QED  BY <1>0, <2>1 DEF OneRow
<1>6. Start(r) \/ OpenFolder(r) \/ DeltaEnd(r) \/ SeedDelta(r) => UNCHANGED <<rows, written>>
  BY DEF Start, OpenFolder, DeltaEnd, SeedDelta, FolderDone
<1>7. DeadlockDetected(r) \/ Fail(r) \/ Kill(r) => Rollback(r)
  BY DEF DeadlockDetected, Fail, Kill
<1> QED  BY <1>1, <1>2, <1>3, <1>4, <1>5, <1>6, <1>7 DEF Step

-----------------------------------------------------------------------------

\* The invariant is inductive.
LEMMA NextInv == IInv /\ [Next]_vars => IInv'
<1> SUFFICES ASSUME IInv, [Next]_vars PROVE IInv'
  OBVIOUS
<1>1. ASSUME NEW f \in Folder, NEW m \in Message, Arrive(f, m)
      PROVE  IInv'
  <2>1. Places' /\ Sent \subseteq Sent'
    BY <1>1, ArrivePlaces DEF IInv
  <2>2. UNCHANGED <<rows, written>>
    BY <1>1 DEF Arrive, store_vars
  <2> QED  BY <2>1, <2>2 DEF IInv, OneRow
<1>2. ASSUME NEW f \in Folder, DeleteLink(f)
      PROVE  IInv'
  <2>1. Sent' = Sent /\ UNCHANGED <<rows, written>>
    BY <1>2 DEF DeleteLink, Sent, store_vars
  <2>2. Places'
    BY <1>2 DEF IInv, DeleteLink, Places, Current, run_vars
  <2> QED  BY <2>1, <2>2 DEF IInv, OneRow
<1>3. ASSUME NEW r \in Runner, Step(r) \/ Fail(r) \/ Kill(r)
      PROVE  IInv'
  BY <1>3, RunPlaces, RunOneRow DEF IInv
<1>4. CASE UNCHANGED vars
  BY <1>4 DEF IInv, vars, store_vars, file_vars, run_vars, Places, OneRow, Current, Sent
<1> QED  BY <1>1, <1>2, <1>3, <1>4 DEF Next

\* Whatever runs overlap, fail, or are repeated with deleted cursors: every
\* message of the mailbox gets one row at most and keeps it, and nothing else
\* gets one. (store_writer.upsert's "on conflict do nothing".)
THEOREM StoreImplemented == Spec => StoreSpec
<1>1. Init => Store!Init
  <2> SUFFICES ASSUME Init PROVE Store!Init
    OBVIOUS
  <2>1. OneRow
    BY InitInv DEF IInv
  <2>2. Sent \in SUBSET Message
    BY DEF Sent
  <2> QED  BY <2>1, <2>2 DEF Store!Init, OneRow
<1>2. IInv /\ [Next]_vars => [Store!Next]_<<Sent, rows>>
  <2> SUFFICES ASSUME IInv, [Next]_vars PROVE [Store!Next]_<<Sent, rows>>
    OBVIOUS
  <2>1. ASSUME NEW f \in Folder, NEW m \in Message, Arrive(f, m)
        PROVE  Store!Send \/ UNCHANGED <<Sent, rows>>
    <3>1. Sent' = Sent \/ Sent' = Sent \cup {m}
      BY <2>1, ArrivePlaces DEF IInv
    <3>2. rows' = rows
      BY <2>1 DEF Arrive, store_vars
    <3> QED  BY <3>1, <3>2 DEF Store!Send
  <2>2. ASSUME NEW f \in Folder, DeleteLink(f)
        PROVE  UNCHANGED <<Sent, rows>>
    BY <2>2 DEF DeleteLink, Sent, store_vars
  <2>3. ASSUME NEW r \in Runner, Commit(r)
        PROVE  Store!Record
    <3>1. Sent' = Sent
      BY <2>3, RunPlaces DEF IInv, Step
    <3> QED  BY <2>3, <3>1, CommitOneRow DEF IInv, Store!Record
  <2>4. ASSUME NEW r \in Runner, Step(r) \/ Fail(r) \/ Kill(r), ~Commit(r)
        PROVE  UNCHANGED <<Sent, rows>>
    <3>1. Sent' = Sent
      BY <2>4, RunPlaces DEF IInv
    <3>2. rows' = rows
      BY <2>4 DEF Step, Start, OpenFolder, DeltaItem, PlainItem, DeltaEnd,
                  SeedDelta, FolderDone, DeadlockDetected, Fail, Kill, Rollback,
                  store_vars
    <3> QED  BY <3>1, <3>2
  <2>5. CASE UNCHANGED vars
    BY <2>5 DEF vars, store_vars, Sent
  <2> QED  BY <2>1, <2>2, <2>3, <2>4, <2>5 DEF Next, Store!Next
<1> QED  BY <1>1, <1>2, InitInv, NextInv, PTL DEF Spec, StoreSpec, Store!Spec

-----------------------------------------------------------------------------
(* What a run has gathered. *)

\* The run r needs to do nothing more about the message m.
Done(r, m) == m \in NoId \/ rows[m] = 1 \/ m \in written[r]

\* The window of a folder that a run has walked, or walks, is within its log.
Windows ==
  /\ covered \in [Runner -> [Folder -> Nat \X Nat]]
  /\ \A r \in Runner, f \in Folder : covered[r][f][2] <= Len(changes[f])
  /\ \A r \in Runner : phase[r] = "delta" => covered[r][Current(r)][2] = at[r]

\* A message in a window is done with, unless a plain listing is still before it.
Gathered ==
  \A r \in Runner, f \in Folder : \A i \in covered[r][f][1] + 1 .. covered[r][f][2] :
    \/ Done(r, changes[f][i])
    \/ phase[r] = "plain" /\ f = Current(r) /\ i <= at[r]

\* A deleted link is gone, unless the legacy link replaced it.
Deleted ==
  /\ deleted \in SUBSET Folder
  /\ \A f \in deleted : delta_link[f] # None => f = "inbox" /\ legacy_link # None

\* The kinds of the variables that decide nothing.
Rest ==
  /\ status \in {"none", "ok", "error"}
  /\ failures \in Nat /\ byhand \in Nat
  /\ skipped \in SUBSET Message

\* The inductive invariant of the theorems below.
WalkInv == IInv /\ Windows /\ Gathered /\ Deleted /\ Rest

-----------------------------------------------------------------------------

\* A log's length is a number, and what it holds are messages.
LEMMA LogFacts ==
  ASSUME Places, NEW f \in Folder
  PROVE  /\ Len(changes[f]) \in Nat
         /\ \A i \in 1 .. Len(changes[f]) : changes[f][i] \in Message
<1>1. changes[f] \in Seq(Message)
  BY DEF Places
<1> QED  BY <1>1, LenProperties, ElementOfSeq

\* The entries of a window are messages.
LEMMA EntriesType ==
  ASSUME Places, NEW f \in Folder, NEW i \in Nat, NEW j \in Nat, j <= Len(changes[f])
  PROVE  Entries(f, i, j) \in SUBSET Message
<1>1. \A k \in i + 1 .. j : k \in 1 .. Len(changes[f])
  BY LogFacts
<1> QED  BY <1>1, LogFacts DEF Entries

\* The initial states satisfy the invariant: no run has walked anything.
LEMMA InitWalk == Init => WalkInv
<1> SUFFICES ASSUME Init PROVE WalkInv
  OBVIOUS
<1>1. IInv
  BY InitInv
<1>2. \A f \in Folder : Len(changes[f]) \in Nat
  BY <1>1, LogFacts DEF IInv
<1>3. covered = [r \in Runner |-> Nothing]
  BY DEF Init
<1>4. \A r \in Runner, f \in Folder : covered[r][f][1] = 0 /\ covered[r][f][2] = 0
  BY <1>3 DEF Nothing
<1>5. covered \in [Runner -> [Folder -> Nat \X Nat]]
  BY <1>3 DEF Nothing
<1>6. \A r \in Runner : phase[r] = "idle"
  BY DEF Init
<1>7. Windows
  BY <1>2, <1>4, <1>5, <1>6 DEF Windows
<1>8. Gathered
  BY <1>4 DEF Gathered
<1>9. Deleted /\ Rest
  BY DEF Init, Deleted, Rest
<1> QED  BY <1>1, <1>7, <1>8, <1>9 DEF WalkInv

\* A longer log holds at its beginning what it held.
LEMMA ArriveKeepsWalk ==
  ASSUME WalkInv, NEW f \in Folder, NEW m \in Message, Arrive(f, m)
  PROVE  Windows' /\ Gathered' /\ Deleted' /\ Rest'
<1> USE DEF Arrive, store_vars, file_vars, run_vars, count_vars, history
<1>1. \A g \in Folder :
        /\ Len(changes[g]) \in Nat /\ Len(changes[g]) <= Len(changes'[g])
        /\ Len(changes'[g]) \in Nat
        /\ \A i \in 1 .. Len(changes[g]) : changes'[g][i] = changes[g][i]
  <2> SUFFICES ASSUME NEW g \in Folder
               PROVE  /\ Len(changes[g]) \in Nat /\ Len(changes[g]) <= Len(changes'[g])
                      /\ Len(changes'[g]) \in Nat
                      /\ \A i \in 1 .. Len(changes[g]) : changes'[g][i] = changes[g][i]
    OBVIOUS
  <2>1. changes[g] \in Seq(Message)
    BY DEF WalkInv, IInv, Places
  <2>2. changes'[g] = IF g = f THEN Append(changes[g], m) ELSE changes[g]
    BY DEF WalkInv, IInv, Places
  <2> QED  BY <2>1, <2>2, AppendProperties, LenProperties
<1>2. \A r \in Runner, g \in Folder :
        covered[r][g][1] \in Nat /\ covered[r][g][2] \in Nat
        /\ covered[r][g][2] <= Len(changes[g])
  BY DEF WalkInv, Windows
<1>3. Windows'
  <2>1. \A r \in Runner, g \in Folder : covered[r][g][2] <= Len(changes'[g])
    BY <1>1, <1>2
  <2> QED  BY <2>1 DEF WalkInv, Windows, Current
<1>4. Gathered'
  <2> SUFFICES ASSUME NEW r \in Runner, NEW g \in Folder,
                      NEW i \in covered[r][g][1] + 1 .. covered[r][g][2]
               PROVE  \/ Done(r, changes[g][i])'
                      \/ phase[r] = "plain" /\ g = Current(r) /\ i <= at[r]
    BY DEF Gathered, Current
  <2>1. i \in 1 .. Len(changes[g])
    BY <1>1, <1>2
  <2>2. changes'[g][i] = changes[g][i]
    BY <1>1, <2>1
  <2> QED  BY <2>2 DEF WalkInv, Gathered, Done
<1> QED  BY <1>3, <1>4 DEF WalkInv, Deleted, Rest

\* What a step of one run leaves as it was for the others.
LEMMA OthersKeepWalk ==
  ASSUME WalkInv, NEW r \in Runner, UNCHANGED changes,
         \A s \in Runner \ {r} : /\ phase'[s] = phase[s] /\ folder'[s] = folder[s]
                                 /\ at'[s] = at[s] /\ covered'[s] = covered[s]
                                 /\ \A m \in Message : Done(s, m) => Done(s, m)'
  PROVE  \A s \in Runner \ {r} :
           /\ covered'[s] \in [Folder -> Nat \X Nat]
           /\ \A f \in Folder : covered'[s][f][2] <= Len(changes'[f])
           /\ phase'[s] = "delta" => covered'[s][Current(s)'][2] = at'[s]
           /\ \A f \in Folder : \A i \in covered'[s][f][1] + 1 .. covered'[s][f][2] :
                \/ Done(s, changes[f][i])'
                \/ phase'[s] = "plain" /\ f = Current(s)' /\ i <= at'[s]
<1> SUFFICES ASSUME NEW s \in Runner \ {r}
             PROVE  /\ covered'[s] \in [Folder -> Nat \X Nat]
                    /\ \A f \in Folder : covered'[s][f][2] <= Len(changes'[f])
                    /\ phase'[s] = "delta" => covered'[s][Current(s)'][2] = at'[s]
                    /\ \A f \in Folder : \A i \in covered'[s][f][1] + 1 .. covered'[s][f][2] :
                         \/ Done(s, changes[f][i])'
                         \/ phase'[s] = "plain" /\ f = Current(s)' /\ i <= at'[s]
  OBVIOUS
<1>1. Current(s)' = Current(s)
  BY DEF Current
<1>2. ASSUME NEW f \in Folder, NEW i \in covered[s][f][1] + 1 .. covered[s][f][2]
      PROVE  changes[f][i] \in Message
  <2>1. covered[s][f][1] \in Nat /\ covered[s][f][2] \in Nat
        /\ covered[s][f][2] <= Len(changes[f]) /\ Len(changes[f]) \in Nat
    BY LogFacts DEF WalkInv, IInv, Windows
  <2>2. i \in 1 .. Len(changes[f])
    BY <2>1
  <2> QED  BY <2>2, LogFacts DEF WalkInv, IInv
<1>3. \A m : Done(s, m)' <=> m \in NoId \/ rows'[m] = 1 \/ m \in written'[s]
  BY DEF Done
<1>4. \A f \in Folder : \A i \in covered[s][f][1] + 1 .. covered[s][f][2] :
        \/ Done(s, changes[f][i])'
        \/ phase[s] = "plain" /\ f = Current(s) /\ i <= at[s]
  BY <1>2, <1>3 DEF WalkInv, Gathered, Done
<1> QED  BY <1>1, <1>4 DEF WalkInv, Windows

\* So it is enough to look at the run itself.
LEMMA OneKeepsWalk ==
  ASSUME WalkInv, NEW r \in Runner, UNCHANGED changes,
         \A s \in Runner \ {r} : /\ phase'[s] = phase[s] /\ folder'[s] = folder[s]
                                 /\ at'[s] = at[s] /\ covered'[s] = covered[s]
                                 /\ \A m \in Message : Done(s, m) => Done(s, m)',
         covered' \in [Runner -> [Folder -> Nat \X Nat]],
         \A f \in Folder : covered'[r][f][2] <= Len(changes[f]),
         phase'[r] = "delta" => covered'[r][Current(r)'][2] = at'[r],
         \A f \in Folder : \A i \in covered'[r][f][1] + 1 .. covered'[r][f][2] :
           \/ Done(r, changes[f][i])'
           \/ phase'[r] = "plain" /\ f = Current(r)' /\ i <= at'[r]
  PROVE  Windows' /\ Gathered'
<1>1. \A s \in Runner \ {r} :
        /\ covered'[s] \in [Folder -> Nat \X Nat]
        /\ \A f \in Folder : covered'[s][f][2] <= Len(changes'[f])
        /\ phase'[s] = "delta" => covered'[s][Current(s)'][2] = at'[s]
        /\ \A f \in Folder : \A i \in covered'[s][f][1] + 1 .. covered'[s][f][2] :
             \/ Done(s, changes[f][i])'
             \/ phase'[s] = "plain" /\ f = Current(s)' /\ i <= at'[s]
  BY OthersKeepWalk
<1>2. Windows'
  BY <1>1 DEF Windows
<1>3. Gathered'
  BY <1>1 DEF Gathered
<1> QED  BY <1>2, <1>3

\* A run that is over has walked nothing.
LEMMA IdleKeepsWalk ==
  ASSUME WalkInv, NEW r \in Runner, Idle(r), UNCHANGED changes,
         \A s \in Runner \ {r}, m \in Message : Done(s, m) => Done(s, m)'
  PROVE  Windows' /\ Gathered'
<1>1. /\ phase'[r] = "idle" /\ covered'[r] = Nothing
      /\ \A s \in Runner \ {r} : /\ phase'[s] = phase[s] /\ folder'[s] = folder[s]
                                 /\ at'[s] = at[s] /\ covered'[s] = covered[s]
  BY DEF Idle, WalkInv, IInv, Places, Windows
<1>2. Nothing \in [Folder -> Nat \X Nat]
      /\ \A f \in Folder : Nothing[f][1] = 0 /\ Nothing[f][2] = 0
  BY DEF Nothing
<1>3. covered' \in [Runner -> [Folder -> Nat \X Nat]]
  BY <1>2 DEF Idle, WalkInv, Windows
<1>4. \A f \in Folder : covered'[r][f][2] <= Len(changes[f])
  BY <1>1, <1>2, LogFacts DEF WalkInv, IInv
<1>5. \A f \in Folder : covered'[r][f][1] + 1 .. covered'[r][f][2] = {}
  BY <1>1, <1>2
<1> QED  BY <1>1, <1>3, <1>4, <1>5, OneKeepsWalk

-----------------------------------------------------------------------------

\* A folder is opened: its window begins, and nothing of the others' ends.
LEMMA OpenKeepsWalk ==
  ASSUME WalkInv, NEW r \in Runner, OpenFolder(r)
  PROVE  Windows' /\ Gathered'
<1> DEFINE f == Current(r)
           link == delta_link[f]
<1>1. /\ phase[r] = "open"
      /\ IF link = None
         THEN /\ phase' = [phase EXCEPT ![r] = "plain"]
              /\ at' = [at EXCEPT ![r] = Listed(f)]
              /\ covered' = [covered EXCEPT ![r][f] = <<0, Len(changes[f])>>]
         ELSE /\ phase' = [phase EXCEPT ![r] = "delta"]
              /\ at' = [at EXCEPT ![r] = link]
              /\ covered' = [covered EXCEPT ![r][f] = <<link, link>>]
      /\ UNCHANGED <<changes, rows, written, folder>>
  BY DEF OpenFolder, store_vars
<1>2. f \in Folder /\ Listed(f) = Len(changes[f])
  BY <1>1, CurrentType DEF WalkInv, IInv, Listed
<1>3. Len(changes[f]) \in Nat /\ (link # None => link \in Nat /\ link <= Len(changes[f]))
  BY <1>2, LogFacts DEF WalkInv, IInv, Places
<1>4. \A s \in Runner \ {r} : /\ phase'[s] = phase[s] /\ folder'[s] = folder[s]
                              /\ at'[s] = at[s] /\ covered'[s] = covered[s]
                              /\ \A m \in Message : Done(s, m) => Done(s, m)'
  BY <1>1 DEF WalkInv, IInv, Places, Windows, Done
<1>5. Current(r)' = f
  BY <1>1 DEF Current
<1>6. PICK n \in Nat : /\ n <= Len(changes[f])
                       /\ covered' = [covered EXCEPT ![r][f] =
                            IF link = None THEN <<0, n>> ELSE <<n, n>>]
                       /\ at' = [at EXCEPT ![r] = n]
                       /\ (link = None => n = Len(changes[f]))
  BY <1>1, <1>2, <1>3
<1>7. /\ covered' \in [Runner -> [Folder -> Nat \X Nat]]
      /\ covered'[r][f] = IF link = None THEN <<0, n>> ELSE <<n, n>>
      /\ at'[r] = n
      /\ \A g \in Folder \ {f} : covered'[r][g] = covered[r][g]
  BY <1>2, <1>6 DEF WalkInv, IInv, Places, Windows
<1>8. \A g \in Folder : covered'[r][g][2] <= Len(changes[g])
  BY <1>6, <1>7 DEF WalkInv, Windows
<1>9. phase'[r] = IF link = None THEN "plain" ELSE "delta"
  BY <1>1 DEF WalkInv, IInv, Places
<1>10. phase'[r] = "delta" => covered'[r][Current(r)'][2] = at'[r]
  BY <1>5, <1>7, <1>9
<1>11. ASSUME NEW g \in Folder, NEW i \in covered'[r][g][1] + 1 .. covered'[r][g][2]
       PROVE  \/ Done(r, changes[g][i])'
              \/ phase'[r] = "plain" /\ g = Current(r)' /\ i <= at'[r]
  <2>1. CASE g = f
    BY <2>1, <1>5, <1>7, <1>9, <1>11
  <2>2. CASE g # f
    <3>1. i \in covered[r][g][1] + 1 .. covered[r][g][2]
      BY <2>2, <1>7, <1>11
    <3>2. Done(r, changes[g][i])
      BY <3>1, <1>1 DEF WalkInv, Gathered
    <3> QED  BY <3>2, <1>1 DEF Done
  <2> QED  BY <2>1, <2>2
<1> QED  BY <1>1, <1>4, <1>7, <1>8, <1>10, <1>11, OneKeepsWalk

\* upsert leaves a message done with, and no message less done with than before.
LEMMA UpsertDone ==
  ASSUME IInv, NEW r \in Runner, NEW m \in Message, upsert(r, m), UNCHANGED rows
  PROVE  /\ m \in NoId \/ rows'[m] = 1 \/ m \in written'[r]
         /\ \A s \in Runner : \A x : Done(s, x) =>
              x \in NoId \/ rows'[x] = 1 \/ x \in written'[s]
BY DEF upsert, Insert, Done, IInv, OneRow

\* The next entry of a delta walk joins the window.
LEMMA DeltaKeepsWalk ==
  ASSUME WalkInv, NEW r \in Runner, DeltaItem(r)
  PROVE  Windows' /\ Gathered'
<1> DEFINE f == Current(r)
           n == at[r] + 1
           m == changes[f][n]
<1>1. /\ phase[r] = "delta" /\ at[r] < Len(changes[f])
      /\ upsert(r, m)
      /\ at' = [at EXCEPT ![r] = @ + 1]
      /\ covered' = [covered EXCEPT ![r][f][2] = @ + 1]
      /\ UNCHANGED <<changes, rows, phase, folder>>
  BY DEF DeltaItem
<1>2. f \in Folder /\ Len(changes[f]) \in Nat /\ at[r] \in Nat /\ covered[r][f][2] = at[r]
  BY <1>1, CurrentType, LogFacts DEF WalkInv, IInv, Windows, Places
<1>3. m \in Message
  BY <1>1, <1>2, LogFacts DEF WalkInv, IInv
<1>4. /\ m \in NoId \/ rows'[m] = 1 \/ m \in written'[r]
      /\ \A s \in Runner : \A x : Done(s, x) => x \in NoId \/ rows'[x] = 1 \/ x \in written'[s]
  BY <1>1, <1>3, UpsertDone DEF WalkInv
<1>5. /\ covered' \in [Runner -> [Folder -> Nat \X Nat]]
      /\ covered'[r][f] = <<covered[r][f][1], n>>
      /\ at'[r] = n
      /\ \A g \in Folder \ {f} : covered'[r][g] = covered[r][g]
      /\ \A s \in Runner \ {r} : covered'[s] = covered[s] /\ at'[s] = at[s]
  BY <1>1, <1>2 DEF WalkInv, IInv, Places, Windows
<1>6. \A s \in Runner \ {r} : /\ phase'[s] = phase[s] /\ folder'[s] = folder[s]
                              /\ at'[s] = at[s] /\ covered'[s] = covered[s]
                              /\ \A x \in Message : Done(s, x) => Done(s, x)'
  BY <1>1, <1>4, <1>5 DEF Done
<1>7. Current(r)' = f
  BY <1>1 DEF Current
<1>8. \A g \in Folder : covered'[r][g][2] <= Len(changes[g])
  BY <1>1, <1>2, <1>5 DEF WalkInv, Windows
<1>9. ASSUME NEW g \in Folder, NEW i \in covered'[r][g][1] + 1 .. covered'[r][g][2]
      PROVE  Done(r, changes[g][i])'
  <2>1. CASE g = f /\ i = n
    BY <2>1, <1>1, <1>4 DEF Done
  <2>2. CASE ~(g = f /\ i = n)
    <3>1. covered[r][g][1] \in Nat /\ covered[r][g][2] \in Nat
      BY DEF WalkInv, Windows
    <3>2. i \in covered[r][g][1] + 1 .. covered[r][g][2]
      <4>1. CASE g # f
        BY <4>1, <3>1, <1>5, <1>9
      <4>2. CASE g = f
        <5>1. i \in covered[r][f][1] + 1 .. n /\ i # n /\ n = covered[r][f][2] + 1
          BY <2>2, <4>2, <1>2, <1>5, <1>9
        <5> HIDE DEF n
        <5> QED  BY <4>2, <5>1, <3>1
      <4> QED  BY <4>1, <4>2
    <3>3. Done(r, changes[g][i])
      BY <3>2, <1>1 DEF WalkInv, Gathered
    <3>4. changes'[g][i] = changes[g][i]
      BY <1>1
    <3>5. LET x == changes[g][i] IN x \in NoId \/ rows'[x] = 1 \/ x \in written'[r]
      BY <3>3, <1>4
    <3> QED  BY <3>4, <3>5 DEF Done
  <2> QED  BY <2>1, <2>2
<1>10. covered'[r][Current(r)'][2] = at'[r]
  BY <1>5, <1>7
<1>11. UNCHANGED changes
  BY <1>1
<1>12. covered' \in [Runner -> [Folder -> Nat \X Nat]]
  BY <1>5
<1> HIDE DEF f, n, m
<1> QED  BY <1>6, <1>8, <1>9, <1>10, <1>11, <1>12, OneKeepsWalk

\* A plain listing goes down through its window.
LEMMA PlainKeepsWalk ==
  ASSUME WalkInv, NEW r \in Runner, PlainItem(r)
  PROVE  Windows' /\ Gathered'
<1> DEFINE f == Current(r)
           m == changes[f][at[r]]
<1>1. /\ phase[r] = "plain" /\ at[r] > 0
      /\ upsert(r, m)
      /\ at' = [at EXCEPT ![r] = @ - 1]
      /\ UNCHANGED <<changes, rows, phase, folder, covered>>
  BY DEF PlainItem
<1>2. f \in Folder /\ Len(changes[f]) \in Nat /\ at[r] \in Nat /\ at[r] <= Len(changes[f])
  BY <1>1, CurrentType, LogFacts DEF WalkInv, IInv, Places
<1>3. m \in Message
  BY <1>1, <1>2, LogFacts DEF WalkInv, IInv
<1>4. /\ m \in NoId \/ rows'[m] = 1 \/ m \in written'[r]
      /\ \A s \in Runner : \A x : Done(s, x) => x \in NoId \/ rows'[x] = 1 \/ x \in written'[s]
  BY <1>1, <1>3, UpsertDone DEF WalkInv
<1>5. at'[r] = at[r] - 1 /\ \A s \in Runner \ {r} : at'[s] = at[s]
  BY <1>1 DEF WalkInv, IInv, Places
<1>6. \A s \in Runner \ {r} : /\ phase'[s] = phase[s] /\ folder'[s] = folder[s]
                              /\ at'[s] = at[s] /\ covered'[s] = covered[s]
                              /\ \A x \in Message : Done(s, x) => Done(s, x)'
  BY <1>1, <1>4, <1>5 DEF Done
<1>7. Current(r)' = f
  BY <1>1 DEF Current
<1>8. covered' \in [Runner -> [Folder -> Nat \X Nat]]
      /\ \A g \in Folder : covered'[r][g][2] <= Len(changes[g])
  BY <1>1 DEF WalkInv, Windows
<1>9. ASSUME NEW g \in Folder, NEW i \in covered'[r][g][1] + 1 .. covered'[r][g][2]
      PROVE  \/ Done(r, changes[g][i])'
             \/ phase'[r] = "plain" /\ g = Current(r)' /\ i <= at'[r]
  <2>1. CASE g = f /\ i = at[r]
    BY <2>1, <1>1, <1>4 DEF Done
  <2>2. CASE ~(g = f /\ i = at[r])
    <3>1. covered[r][g][1] \in Nat /\ covered[r][g][2] \in Nat /\ i \in Int
      BY <1>1, <1>9 DEF WalkInv, Windows
    <3>2. \/ Done(r, changes[g][i])
          \/ g = f /\ i <= at[r]
      BY <1>1, <1>9 DEF WalkInv, Gathered
    <3> QED  BY <2>2, <3>1, <3>2, <1>1, <1>2, <1>4, <1>5, <1>7 DEF Done
  <2> QED  BY <2>1, <2>2
<1> QED  BY <1>1, <1>6, <1>8, <1>9, OneKeepsWalk

\* A folder is left only with all of its window done with.
LEMMA FolderDoneKeepsWalk ==
  ASSUME WalkInv, NEW r \in Runner, FolderDone(r),
         phase[r] \in {"delta", "plain"}, phase[r] = "plain" => at[r] = 0
  PROVE  Windows' /\ Gathered'
<1>1. /\ phase' = [phase EXCEPT ![r] = IF folder[r] = Len(_FOLDERS) THEN "commit" ELSE "open"]
      /\ folder' = [folder EXCEPT ![r] = @ + 1]
      /\ at' = [at EXCEPT ![r] = 0]
      /\ UNCHANGED <<changes, rows, written, covered>>
  BY DEF FolderDone, store_vars
<1>2. \A s \in Runner \ {r} : /\ phase'[s] = phase[s] /\ folder'[s] = folder[s]
                              /\ at'[s] = at[s] /\ covered'[s] = covered[s]
                              /\ \A m \in Message : Done(s, m) => Done(s, m)'
  BY <1>1 DEF WalkInv, IInv, Places, Done
<1>3. phase'[r] \in {"commit", "open"}
  BY <1>1 DEF WalkInv, IInv, Places
<1>4. covered' \in [Runner -> [Folder -> Nat \X Nat]]
      /\ \A f \in Folder : covered'[r][f][2] <= Len(changes[f])
  BY <1>1 DEF WalkInv, Windows
<1>5. ASSUME NEW f \in Folder, NEW i \in covered'[r][f][1] + 1 .. covered'[r][f][2]
      PROVE  Done(r, changes[f][i])'
  <2>1. covered[r][f][1] \in Nat /\ covered[r][f][2] \in Nat /\ i \in Int /\ 1 <= i
    BY <1>1, <1>5 DEF WalkInv, Windows
  <2>2. Done(r, changes[f][i])
    BY <2>1, <1>1, <1>5 DEF WalkInv, Gathered
  <2> QED  BY <2>2, <1>1 DEF Done
<1> QED  BY <1>1, <1>2, <1>3, <1>4, <1>5, OneKeepsWalk

\* A commit makes rows of one transaction's messages and takes none away.
LEMMA CommitKeepsWalk ==
  ASSUME WalkInv, NEW r \in Runner, Commit(r)
  PROVE  Windows' /\ Gathered'
<1>1. Idle(r) /\ changes' = changes /\ written' = [written EXCEPT ![r] = {}]
  BY DEF Commit
<1>2. rows' = [m \in Message |-> IF m \in written[r] THEN 1 ELSE rows[m]]
  BY DEF Commit, WalkInv, IInv, OneRow
<1>3. \A s \in Runner \ {r}, m \in Message : Done(s, m) => Done(s, m)'
  BY <1>1, <1>2 DEF WalkInv, IInv, OneRow, Done
<1> QED  BY <1>1, <1>3, IdleKeepsWalk

\* A rollback takes from its own run alone.
LEMMA RollbackKeepsWalk ==
  ASSUME WalkInv, NEW r \in Runner, Rollback(r)
  PROVE  Windows' /\ Gathered'
<1>1. Idle(r) /\ UNCHANGED <<changes, rows>> /\ written' = [written EXCEPT ![r] = {}]
  BY DEF Rollback
<1>2. \A s \in Runner \ {r}, m \in Message : Done(s, m) => Done(s, m)'
  BY <1>1 DEF WalkInv, IInv, OneRow, Done
<1> QED  BY <1>1, <1>2, IdleKeepsWalk

\* A run that starts has walked nothing.
LEMMA StartKeepsWalk ==
  ASSUME WalkInv, NEW r \in Runner, Start(r)
  PROVE  Windows' /\ Gathered'
<1>1. /\ phase[r] = "idle" /\ phase' = [phase EXCEPT ![r] = "open"]
      /\ UNCHANGED <<changes, rows, written, folder, at, covered>>
  BY DEF Start, store_vars
<1>2. /\ phase'[r] = "open"
      /\ \A s \in Runner \ {r} : /\ phase'[s] = phase[s] /\ folder'[s] = folder[s]
                                 /\ at'[s] = at[s] /\ covered'[s] = covered[s]
                                 /\ \A m \in Message : Done(s, m) => Done(s, m)'
  BY <1>1 DEF WalkInv, IInv, Places, Done
<1>3. covered' \in [Runner -> [Folder -> Nat \X Nat]]
      /\ \A f \in Folder : covered'[r][f][2] <= Len(changes[f])
  BY <1>1 DEF WalkInv, Windows
<1>4. \A f \in Folder : \A i \in covered'[r][f][1] + 1 .. covered'[r][f][2] :
        Done(r, changes[f][i])'
  BY <1>1 DEF WalkInv, Gathered, Done
<1> QED  BY <1>1, <1>2, <1>3, <1>4, OneKeepsWalk

\* What a rollback counts as skipped are messages.
LEMMA SkippedType ==
  ASSUME WalkInv, NEW r \in Runner
  PROVE  UNION {Entries(_FOLDERS[i], covered[r][_FOLDERS[i]][1],
                        covered[r][_FOLDERS[i]][2]) : i \in 1 .. folder[r] - 1}
           \in SUBSET Message
<1>1. folder[r] \in 1..3
  BY DEF WalkInv, IInv, Places
<1>2. ASSUME NEW i \in 1 .. folder[r] - 1
      PROVE  Entries(_FOLDERS[i], covered[r][_FOLDERS[i]][1], covered[r][_FOLDERS[i]][2])
               \in SUBSET Message
  <2>1. i = 1 \/ i = 2
    BY <1>1
  <2>2. _FOLDERS[i] \in Folder
    BY <2>1, FolderFacts
  <2>3. /\ covered[r][_FOLDERS[i]][1] \in Nat /\ covered[r][_FOLDERS[i]][2] \in Nat
        /\ covered[r][_FOLDERS[i]][2] <= Len(changes[_FOLDERS[i]])
    BY <2>2 DEF WalkInv, Windows
  <2> QED  BY <2>2, <2>3, EntriesType DEF WalkInv, IInv
<1> QED  BY <1>2

\* The rest of the invariant through a step of a run.
LEMMA RunKeepsRest ==
  ASSUME WalkInv, NEW r \in Runner, Step(r) \/ Fail(r) \/ Kill(r)
  PROVE  Deleted' /\ Rest'
<1>1. CASE Start(r)
  <2>1. Deleted'
    BY <1>1, FolderFacts DEF Start, WalkInv, IInv, Places, Deleted, history
  <2>2. Rest'
    BY <1>1 DEF Start, WalkInv, Rest, history
  <2> QED  BY <2>1, <2>2
<1>2. CASE OpenFolder(r) \/ DeltaItem(r) \/ PlainItem(r)
  <2>1. UNCHANGED <<file_vars, count_vars, history>>
    BY <1>2 DEF OpenFolder, DeltaItem, PlainItem
  <2> QED  BY <2>1 DEF WalkInv, Deleted, Rest, file_vars, count_vars, history
<1>3. CASE FolderDone(r) /\ phase[r] \in {"delta", "plain"} /\ skipped' \in SUBSET Message
  <2>1. Current(r) \in Folder
    BY <1>3, CurrentType DEF WalkInv, IInv
  <2>2. /\ delta_link' = [delta_link EXCEPT ![Current(r)] = Len(changes[Current(r)])]
        /\ deleted' = deleted \ {Current(r)}
        /\ UNCHANGED <<legacy_link, status, failures, byhand>>
    BY <1>3 DEF FolderDone, SavedLink, count_vars
  <2>3. \A f \in Folder \ {Current(r)} : delta_link'[f] = delta_link[f]
    BY <2>2 DEF WalkInv, IInv, Places
  <2> QED  BY <1>3, <2>1, <2>2, <2>3 DEF WalkInv, Deleted, Rest
<1>4. CASE Commit(r)
  BY <1>4 DEF Commit, WalkInv, Deleted, Rest, count_vars, history
<1>5. CASE DeadlockDetected(r) \/ Fail(r) \/ Kill(r)
  <2>1. /\ Rollback(r) /\ status' \in {"error", status}
        /\ failures' \in {failures, failures + 1}
    BY <1>5 DEF DeadlockDetected, Fail, Kill
  <2>2. skipped' \in SUBSET Message
    BY <2>1, SkippedType DEF Rollback, WalkInv, Rest
  <2> QED  BY <2>1, <2>2 DEF Rollback, WalkInv, Deleted, Rest
<1>6. DeltaEnd(r) => FolderDone(r) /\ phase[r] \in {"delta", "plain"}
                     /\ skipped' \in SUBSET Message
  BY DEF DeltaEnd, WalkInv, Rest
<1>7. SeedDelta(r) => FolderDone(r) /\ phase[r] \in {"delta", "plain"}
                      /\ skipped' \in SUBSET Message
  <2> SUFFICES ASSUME SeedDelta(r)
               PROVE  FolderDone(r) /\ phase[r] \in {"delta", "plain"}
                      /\ skipped' \in SUBSET Message
    OBVIOUS
  <2> DEFINE f == Current(r)
  <2>1. /\ phase[r] = "plain" /\ FolderDone(r)
        /\ skipped' = skipped \cup Entries(f, covered[r][f][2], Len(changes[f]))
    BY DEF SeedDelta
  <2>2. f \in Folder
    BY <2>1, CurrentType DEF WalkInv, IInv
  <2>3. covered[r][f][2] \in Nat /\ Len(changes[f]) \in Nat
    BY <2>2, LogFacts DEF WalkInv, IInv, Windows
  <2>4. Entries(f, covered[r][f][2], Len(changes[f])) \in SUBSET Message
    BY <2>2, <2>3, EntriesType DEF WalkInv, IInv
  <2> QED  BY <2>1, <2>4 DEF WalkInv, Rest
<1> QED  BY <1>1, <1>2, <1>3, <1>4, <1>5, <1>6, <1>7 DEF Step

\* The invariant is inductive.
LEMMA NextWalk == WalkInv /\ [Next]_vars => WalkInv'
<1> SUFFICES ASSUME WalkInv, [Next]_vars PROVE Windows' /\ Gathered' /\ Deleted' /\ Rest'
  BY NextInv DEF WalkInv
<1>1. ASSUME NEW f \in Folder, DeleteLink(f)
      PROVE  Windows' /\ Gathered' /\ Deleted' /\ Rest'
  <2>1. /\ UNCHANGED <<changes, rows, written, phase, folder, at, covered>>
        /\ UNCHANGED <<legacy_link, status, failures, byhand, skipped>>
        /\ delta_link' = [delta_link EXCEPT ![f] = None] /\ deleted' = deleted \cup {f}
    BY <1>1 DEF DeleteLink, store_vars, run_vars, count_vars
  <2>2. Windows' /\ Gathered'
    BY <2>1 DEF WalkInv, Windows, Gathered, Done, Current
  <2>3. Deleted' /\ Rest'
    BY <2>1 DEF WalkInv, IInv, Places, Deleted, Rest
  <2> QED  BY <2>2, <2>3
<1>2. CASE UNCHANGED vars
  BY <1>2 DEF vars, store_vars, file_vars, run_vars, count_vars, history, WalkInv,
              Windows, Gathered, Done, Current, Deleted, Rest
<1>3. ASSUME NEW r \in Runner, Step(r) \/ Fail(r) \/ Kill(r)
      PROVE  Windows' /\ Gathered'
  <2>1. CASE DeltaEnd(r)
    <3>1. FolderDone(r) /\ phase[r] \in {"delta", "plain"} /\ (phase[r] = "plain" => at[r] = 0)
      BY <2>1 DEF DeltaEnd
    <3> QED  BY <3>1, FolderDoneKeepsWalk
  <2>2. CASE SeedDelta(r)
    <3>1. FolderDone(r) /\ phase[r] \in {"delta", "plain"} /\ (phase[r] = "plain" => at[r] = 0)
      BY <2>2 DEF SeedDelta
    <3> QED  BY <3>1, FolderDoneKeepsWalk
  <2>3. CASE DeadlockDetected(r) \/ Fail(r) \/ Kill(r)
    BY <2>3, RollbackKeepsWalk DEF DeadlockDetected, Fail, Kill
  <2> QED  BY <1>3, <2>1, <2>2, <2>3, StartKeepsWalk, OpenKeepsWalk, DeltaKeepsWalk,
              PlainKeepsWalk, CommitKeepsWalk DEF Step
<1> QED  BY <1>1, <1>2, <1>3, ArriveKeepsWalk, RunKeepsRest DEF Next

-----------------------------------------------------------------------------

\* Every variable keeps its kind; links and runs stay within the change logs.
THEOREM TypeCorrect == Spec => []TypeOK
<1>1. WalkInv => TypeOK
  <2> SUFFICES ASSUME WalkInv PROVE TypeOK
    OBVIOUS
  <2>1. Sent \in SUBSET Message
    <3>1. \A f \in Folder : \A i \in DOMAIN changes[f] : changes[f][i] \in Message
      BY ElementOfSeq, LenProperties DEF WalkInv, IInv, Places
    <3> QED  BY <3>1 DEF Sent
  <2>2. written \in [Runner -> SUBSET Message] /\ rows \in [Message -> Nat]
    BY <2>1 DEF WalkInv, IInv, OneRow
  <2>3. DOMAIN _FOLDERS = {1, 2}
    BY DEF _FOLDERS
  <2> QED  BY <2>2, <2>3 DEF TypeOK, WalkInv, IInv, Places, Windows, Deleted, Rest
<1> QED  BY <1>1, InitWalk, NextWalk, PTL DEF Spec

\* A run commits only with a row for each message of what it set out to walk,
\* whatever other runs held, committed or lost meanwhile. (run() of sync.py, with
\* fetch_messages and store_writer.upsert.)
THEOREM CommitComplete == Spec => CommittedRunIsComplete
<1>1. WalkInv /\ [Next]_vars =>
        [\A r \in Runner : Commit(r) =>
           \A f \in Folder :
             \A m \in Entries(f, covered[r][f][1], covered[r][f][2]) \ NoId :
               rows'[m] = 1]_vars
  <2> SUFFICES ASSUME WalkInv, NEW r \in Runner, Commit(r), NEW f \in Folder,
                      NEW m \in Entries(f, covered[r][f][1], covered[r][f][2]) \ NoId
               PROVE  rows'[m] = 1
    OBVIOUS
  <2>1. PICK i \in covered[r][f][1] + 1 .. covered[r][f][2] : m = changes[f][i]
    BY DEF Entries
  <2>2. Done(r, m)
    BY <2>1 DEF WalkInv, Gathered, Commit
  <2>3. m \in Message
    <3>1. covered[r][f][1] \in Nat /\ covered[r][f][2] \in Nat
          /\ covered[r][f][2] <= Len(changes[f])
      BY DEF WalkInv, Windows
    <3> QED  BY <3>1, EntriesType DEF WalkInv, IInv
  <2>4. rows' = [x \in Message |-> IF x \in written[r] THEN 1 ELSE rows[x]]
    BY DEF Commit, WalkInv, IInv, OneRow
  <2> QED  BY <2>2, <2>3, <2>4 DEF Done
<1> QED  BY <1>1, InitWalk, NextWalk, PTL DEF Spec, CommittedRunIsComplete

\* After the operator deletes a folder's link the next run that comes to it lists
\* it in full; only the inbox of an old store gets its legacy link back. (run() of
\* sync.py; the runbook's full backfill.)
THEOREM BackfillFollows == Spec => DeletedLinkMeansBackfill
<1>1. WalkInv /\ [Next]_vars =>
        [\A r \in Runner :
           phase[r] = "open" /\ Current(r) \in deleted /\ phase'[r] = "delta" =>
             Current(r) = "inbox" /\ legacy_link # None]_vars
  <2> SUFFICES ASSUME WalkInv, Next, NEW r \in Runner, phase[r] = "open",
                      Current(r) \in deleted, phase'[r] = "delta"
               PROVE  Current(r) = "inbox" /\ legacy_link # None
    OBVIOUS
  <2>1. OpenFolder(r)
    <3>1. ASSUME NEW s \in Runner, s # r, Step(s) \/ Fail(s) \/ Kill(s)
          PROVE  phase'[r] = phase[r]
      BY <3>1 DEF Step, Start, OpenFolder, DeltaItem, PlainItem, DeltaEnd, SeedDelta,
                  FolderDone, Commit, DeadlockDetected, Fail, Kill, Rollback, Idle,
                  WalkInv, IInv, Places
    <3>2. (\E f \in Folder, m \in Message : Arrive(f, m)) \/ (\E f \in Folder : DeleteLink(f))
            => phase' = phase
      BY DEF Arrive, DeleteLink, run_vars
    <3>3. Start(r) \/ DeltaItem(r) \/ PlainItem(r) \/ DeltaEnd(r) \/ SeedDelta(r)
          \/ Commit(r) => phase[r] # "open"
      BY DEF Start, DeltaItem, PlainItem, DeltaEnd, SeedDelta, Commit
    <3>4. DeadlockDetected(r) \/ Fail(r) \/ Kill(r) => phase'[r] = "idle"
      BY DEF DeadlockDetected, Fail, Kill, Rollback, Idle, WalkInv, IInv, Places
    <3> QED  BY <3>1, <3>2, <3>3, <3>4 DEF Next, Step
  <2>2. delta_link[Current(r)] # None
    BY <2>1 DEF OpenFolder, WalkInv, IInv, Places
  <2> QED  BY <2>2 DEF WalkInv, Deleted
<1> QED  BY <1>1, InitWalk, NextWalk, PTL DEF Spec, DeletedLinkMeansBackfill
=============================================================================
