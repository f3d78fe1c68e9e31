---------------------------- MODULE OutlookSync ----------------------------
(***************************************************************************)
(* The Outlook adapter: adapters/outlook/sync.py and the paging of         *)
(* adapters/outlook/client.py, against a mailbox that keeps changing.      *)
(*                                                                         *)
(* A folder is its change log: what Graph's delta query walks through, a   *)
(* delta link being a position in it. A run walks the folders in turn, in  *)
(* one database transaction, and saves the delta link of a folder to a     *)
(* file as soon as it has walked it, before the transaction commits. Runs  *)
(* are started by a schedule and by hand, so two may overlap; any of them  *)
(* may fail (Graph, the database) or be killed at any point.               *)
(***************************************************************************)
EXTENDS Naturals, Sequences, FiniteSets

CONSTANTS
  Message,     \* the messages, by internetMessageId
  NoId,        \* entries that have none: drafts and removals
  Scheduled,   \* the process that the schedule runs, again and again
  ByHand,      \* processes that the operator starts
  None,        \* no file
  MaxChanges,  \* bound: entries of the change logs
  MaxFailures, \* bound: runs that fail or are killed
  MaxByHand    \* bound: runs started by hand

ASSUME SyncAssumption ==
  /\ NoId \subseteq Message
  /\ None \notin Nat
  /\ MaxChanges \in Nat
  /\ MaxFailures \in Nat
  /\ MaxByHand \in Nat

Runner == {Scheduled} \cup ByHand

_FOLDERS == <<"inbox", "sentitems">>
Folder   == {"inbox", "sentitems"}

VARIABLES
  changes,     \* the change log of each folder
  delta_link,  \* the file .delta_link.<folder>.txt
  legacy_link, \* the file .delta_link.txt of the time before sentitems
  rows,        \* committed rows of table message
  phase,       \* what each runner is doing
  folder,      \* the index in _FOLDERS of the folder it is in
  at,          \* entries of the change log it has behind it or, in a plain
               \* listing (newest first), still before it
  written,     \* the messages it inserted in its open transaction
  status,      \* .sync_status.json
  failures,    \* failed runs, for the bound
  byhand,      \* runs started by hand, for the bound
  covered,     \* history: the entries of each folder a runner set out to walk
  skipped,     \* history: messages that a saved delta link left behind: rolled
               \* back after it was saved, or discarded with the seed
  deleted      \* history: folders whose link the operator deleted, and no run
               \* has saved one since

store_vars == <<rows, written>>
file_vars  == <<delta_link, legacy_link, status>>
run_vars   == <<phase, folder, at, covered>>
count_vars == <<failures, byhand>>
history    == <<skipped, deleted>>
vars == <<changes, store_vars, file_vars, run_vars, count_vars, history>>

-----------------------------------------------------------------------------

Entries(f, from, upto) == {changes[f][i] : i \in from + 1 .. upto}

Sent == {m \in Message : \E f \in Folder : \E i \in DOMAIN changes[f] : changes[f][i] = m}

Nothing == [f \in Folder |-> <<0, 0>>]

Idle(r) ==
  /\ phase' = [phase EXCEPT ![r] = "idle"]
  /\ folder' = [folder EXCEPT ![r] = 1]
  /\ at' = [at EXCEPT ![r] = 0]
  /\ covered' = [covered EXCEPT ![r] = Nothing]

Current(r) == _FOLDERS[folder[r]]

\* Mail arrives in a folder, is moved into it, or changes (an entry again).
Arrive(f, m) ==
  /\ Len(changes["inbox"]) + Len(changes["sentitems"]) < MaxChanges
  /\ changes' = [changes EXCEPT ![f] = Append(@, m)]
  /\ UNCHANGED <<store_vars, file_vars, run_vars, count_vars, history>>

\* "Re-running a full backfill": the operator deletes a folder's cursor.
DeleteLink(f) ==
  /\ delta_link[f] # None
  /\ delta_link' = [delta_link EXCEPT ![f] = None]
  /\ UNCHANGED <<changes, store_vars, legacy_link, status, run_vars, count_vars,
                 skipped>>
  /\ deleted' = deleted \cup {f}

\* run() up to the loop over the folders.
Start(r) ==
  /\ phase[r] = "idle"
  /\ r \in ByHand => byhand < MaxByHand
  /\ byhand' = IF r \in ByHand THEN byhand + 1 ELSE byhand
  /\ delta_link' = IF legacy_link # None /\ delta_link["inbox"] = None
                   THEN [delta_link EXCEPT !["inbox"] = legacy_link]
                   ELSE delta_link
  /\ phase' = [phase EXCEPT ![r] = "open"]
  /\ UNCHANGED <<changes, store_vars, legacy_link, status, folder, at, covered,
                 failures, history>>

\* Mutation: a first run takes the items of the delta query, which stops early.
FirstPage(f) == IF Len(changes[f]) > 0 THEN 1 ELSE 0

\* The messages that the plain listing of a folder goes through.
Listed(f) == Len(changes[f])

\* The delta link of the next folder is read: with one, its walk goes on from
\* there; without, the folder is listed in full.
OpenFolder(r) ==
  LET f    == Current(r)
      link == delta_link[f]
      n    == Listed(f)
  IN  /\ phase[r] = "open"
      /\ IF link = None
         THEN /\ phase' = [phase EXCEPT ![r] = "plain"]
              /\ at' = [at EXCEPT ![r] = n]
              /\ covered' = [covered EXCEPT ![r][f] = <<0, Len(changes[f])>>]
         ELSE /\ phase' = [phase EXCEPT ![r] = "delta"]
              /\ at' = [at EXCEPT ![r] = link]
              /\ covered' = [covered EXCEPT ![r][f] = <<link, link>>]
      /\ UNCHANGED <<changes, store_vars, file_vars, folder, count_vars, history>>

\* Mutation: no unique constraint, which is what makes an insert wait.
NeverHeld(m, r) == FALSE

\* Another transaction has inserted m and is still open: "on conflict" waits.
HeldBy(m, r) == m \in written[r] /\ rows[m] = 0

\* Mutation: an insert does not look for the row.
InsertAlways(r, m) == written' = [written EXCEPT ![r] = @ \cup {m}]

\* store_writer.upsert: on conflict (channel, external_id) do nothing.
Insert(r, m) ==
  written' = IF rows[m] = 0 THEN [written EXCEPT ![r] = @ \cup {m}] ELSE written

\* Mutation: a message that another run holds is taken for stored.
UpsertWithoutWaiting(r, m) ==
  IF m \in NoId \/ \E s \in Runner \ {r} : HeldBy(m, s) THEN UNCHANGED written
  ELSE Insert(r, m)

upsert(r, m) ==
  IF m \in NoId THEN UNCHANGED written
  ELSE /\ \A s \in Runner \ {r} : ~HeldBy(m, s)
       /\ Insert(r, m)

DeltaItem(r) ==
  LET f == Current(r)
  IN  /\ phase[r] = "delta"
      /\ at[r] < Len(changes[f])
      /\ upsert(r, changes[f][at[r] + 1])
      /\ at' = [at EXCEPT ![r] = @ + 1]
      /\ covered' = [covered EXCEPT ![r][f][2] = @ + 1]
      /\ UNCHANGED <<changes, rows, file_vars, phase, folder, count_vars, history>>

PlainItem(r) ==
  /\ phase[r] = "plain"
  /\ at[r] > 0
  /\ upsert(r, changes[Current(r)][at[r]])
  /\ at' = [at EXCEPT ![r] = @ - 1]
  /\ UNCHANGED <<changes, rows, file_vars, phase, folder, covered, count_vars,
                 history>>

\* Mutation: one file for the cursors of all folders.
SharedLink(f, link) == [g \in Folder |-> link]

SavedLink(f, link) == [delta_link EXCEPT ![f] = link]

\* The generator is exhausted: its delta link is saved, and the next folder
\* comes.
FolderDone(r) ==
  /\ delta_link' = SavedLink(Current(r), Len(changes[Current(r)]))
  /\ phase' = [phase EXCEPT ![r] = IF folder[r] = Len(_FOLDERS) THEN "commit" ELSE "open"]
  /\ folder' = [folder EXCEPT ![r] = @ + 1]
  /\ at' = [at EXCEPT ![r] = 0]
  /\ deleted' = deleted \ {Current(r)}
  /\ UNCHANGED <<changes, store_vars, legacy_link, status, covered, count_vars>>

DeltaEnd(r) ==
  /\ phase[r] = "delta"
  /\ at[r] = Len(changes[Current(r)])
  /\ FolderDone(r)
  /\ UNCHANGED skipped

\* After a plain listing a delta query is walked for its link alone: what it
\* returns is discarded.
SeedDelta(r) ==
  LET f == Current(r)
  IN  /\ phase[r] = "plain"
      /\ at[r] = 0
      /\ FolderDone(r)
      /\ skipped' = skipped \cup Entries(f, covered[r][f][2], Len(changes[f]))

Commit(r) ==
  /\ phase[r] = "commit"
  /\ rows' = [m \in Message |-> IF m \in written[r] THEN rows[m] + 1 ELSE rows[m]]
  /\ written' = [written EXCEPT ![r] = {}]
  /\ status' = "ok"
  /\ Idle(r)
  /\ UNCHANGED <<changes, delta_link, legacy_link, count_vars, history>>

\* The transaction is rolled back; the delta links saved so far are not.
Rollback(r) ==
  /\ phase[r] # "idle"
  /\ written' = [written EXCEPT ![r] = {}]
  /\ skipped' = skipped \cup
       UNION {Entries(_FOLDERS[i], covered[r][_FOLDERS[i]][1],
                      covered[r][_FOLDERS[i]][2]) : i \in 1 .. folder[r] - 1}
  /\ Idle(r)
  /\ UNCHANGED <<changes, rows, delta_link, legacy_link, byhand, deleted>>

Fail(r) ==
  /\ failures < MaxFailures
  /\ failures' = failures + 1
  /\ status' = "error"
  /\ Rollback(r)

Kill(r) ==
  /\ failures < MaxFailures
  /\ failures' = failures + 1
  /\ UNCHANGED status
  /\ Rollback(r)

NextItem(r) ==
  CASE phase[r] = "delta" /\ at[r] < Len(changes[Current(r)]) ->
         {changes[Current(r)][at[r] + 1]}
    [] phase[r] = "plain" /\ at[r] > 0 -> {changes[Current(r)][at[r]]}
    [] OTHER -> {}

WaitsFor(r, s) == \E m \in NextItem(r) \ NoId : HeldBy(m, s)

\* Two runs each wait for a message of the other: the database fails one.
DeadlockDetected(r) ==
  /\ \E s \in Runner \ {r} : WaitsFor(r, s) /\ WaitsFor(s, r)
  /\ status' = "error"
  /\ Rollback(r)
  /\ UNCHANGED failures

-----------------------------------------------------------------------------

\* A store of the time before sentitems has an inbox link, and what it walked.
Init ==
  /\ \E old \in {<<>>} \cup {<<m>> : m \in Message} :
       /\ changes = [f \in Folder |-> IF f = "inbox" THEN old ELSE <<>>]
       /\ legacy_link \in {None, Len(old)}
       /\ rows = [m \in Message |->
                    IF legacy_link # None /\ m \notin NoId
                       /\ \E i \in DOMAIN old : old[i] = m THEN 1 ELSE 0]
  /\ delta_link = [f \in Folder |-> None]
  /\ phase = [r \in Runner |-> "idle"]
  /\ folder = [r \in Runner |-> 1]
  /\ at = [r \in Runner |-> 0]
  /\ written = [r \in Runner |-> {}]
  /\ status = "none"
  /\ failures = 0
  /\ byhand = 0
  /\ covered = [r \in Runner |-> Nothing]
  /\ skipped = {}
  /\ deleted = {}

Step(r) ==
  \/ Start(r) \/ OpenFolder(r) \/ DeltaItem(r) \/ PlainItem(r) \/ DeltaEnd(r)
  \/ SeedDelta(r) \/ Commit(r) \/ DeadlockDetected(r)

Next ==
  \/ \E f \in Folder, m \in Message : Arrive(f, m)
  \/ \E f \in Folder : DeleteLink(f)
  \/ \E r \in Runner : Step(r) \/ Fail(r) \/ Kill(r)

Spec == Init /\ [][Next]_vars

\* The schedule starts runs for ever, and a run that is not stopped goes on; the
\* database hands a lock to the transaction that waits for it.
FairSpec == /\ Spec
            /\ \A r \in Runner : WF_vars(Step(r))
            /\ \A r \in Runner : SF_vars(DeltaItem(r) \/ PlainItem(r))

-----------------------------------------------------------------------------

\* Every variable has a value of the kind it stands for; a delta link, and the
\* place of a run in a folder, lie within the folder's change log.
TypeOK ==
  /\ changes \in [Folder -> Seq(Message)]
  /\ delta_link \in [Folder -> Nat \cup {None}]
  /\ legacy_link \in Nat \cup {None}
  /\ rows \in [Message -> Nat]
  /\ phase \in [Runner -> {"idle", "open", "delta", "plain", "commit"}]
  /\ folder \in [Runner -> 1..3]
  /\ at \in [Runner -> Nat]
  /\ written \in [Runner -> SUBSET Message]
  /\ status \in {"none", "ok", "error"}
  /\ failures \in Nat
  /\ byhand \in Nat
  /\ covered \in [Runner -> [Folder -> Nat \X Nat]]
  /\ skipped \in SUBSET Message
  /\ deleted \in SUBSET Folder
  /\ \A f \in Folder : delta_link[f] # None => delta_link[f] <= Len(changes[f])
  /\ legacy_link # None => legacy_link <= Len(changes["inbox"])
  /\ \A r \in Runner :
       /\ phase[r] = "idle" => folder[r] = 1
       /\ phase[r] \in {"open", "delta", "plain"} => folder[r] \in DOMAIN _FOLDERS
       /\ phase[r] \in {"delta", "plain"} => at[r] <= Len(changes[Current(r)])

\* Overlapping, failing and repeated runs, with cursors deleted in between,
\* give every message one row at most and only messages of the mailbox a row.
Store == INSTANCE MessageStore WITH sent <- Sent
StoreSpec == Store!Spec

\* A run that commits leaves a row for every message of the part of each folder
\* it set out to walk: all of it without a delta link, and with one all that
\* came after it.
CommittedRunIsComplete ==
  [][\A r \in Runner : Commit(r) =>
       \A f \in Folder :
         \A m \in Entries(f, covered[r][f][1], covered[r][f][2]) \ NoId :
           rows'[m] = 1]_vars

\* Every message is stored in the end, but for those that a delta link saved
\* too early left behind.
StoredOrSkipped ==
  \A m \in Message \ NoId :
    m \in Sent ~> rows[m] = 1 \/ m \in skipped

\* The runbook, "Re-running a full backfill": delete the link of a folder and
\* run again.  The next run that comes to the folder lists it in full, though
\* runs save the links of other folders meanwhile.  The exception is the inbox
\* of an old store, whose legacy link comes back at the start of every run.
DeletedLinkMeansBackfill ==
  [][\A r \in Runner :
       phase[r] = "open" /\ Current(r) \in deleted /\ phase'[r] = "delta" =>
         Current(r) = "inbox" /\ legacy_link # None]_vars

-----------------------------------------------------------------------------
\* fetch_messages claims that the delta call after a plain listing yields
\* "nothing new - everything from it was already pulled".  It does not hold.
SeedYieldsNothingNew ==
  [][\A r \in Runner : phase[r] = "plain" /\ phase'[r] \in {"open", "commit"} =>
       \A m \in Sent' \ NoId :
         m \in Entries(Current(r), 0, Len(changes[Current(r)])) =>
           rows[m] = 1 \/ m \in written[r]]_vars
=============================================================================
