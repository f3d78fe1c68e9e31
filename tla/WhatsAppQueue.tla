--------------------------- MODULE WhatsAppQueue ---------------------------
(***************************************************************************)
(* The WhatsApp queue: adapters/whatsapp/node/ingest.js appends a line to  *)
(* queue.jsonl for every message; adapters/whatsapp/sync.py renames the    *)
(* file out of its way, stores it line by line, each line in a transaction *)
(* of its own, and deletes it.                                             *)
(*                                                                         *)
(* A file is more than its name: what has a file open goes on reading or   *)
(* writing it after it is renamed or deleted. Either program may die at    *)
(* any point.                                                              *)
(***************************************************************************)
EXTENDS Naturals, Sequences, FiniteSets

CONSTANTS
  Message,     \* lines, by the external id they have in the store
  Group,       \* those of group chats
  Malformed,   \* those that the store refuses
  Runner,      \* the processes that run sync.py
  None,        \* no file
  MaxFiles,    \* bound: files that exist at a time
  MaxLines,    \* bound: lines appended
  MaxSeconds,  \* bound: the seconds of the clock
  MaxCrashes   \* bound: crashes

File   == 1..MaxFiles
Second == 1..MaxSeconds

ASSUME QueueAssumption ==
  /\ Group \cup Malformed \subseteq Message
  /\ Group \cap Malformed = {}
  /\ None \notin File
  /\ MaxFiles \in Nat /\ MaxLines \in Nat /\ MaxCrashes \in Nat
  /\ MaxSeconds \in Nat \ {0}

VARIABLES
  received,   \* the messages WhatsApp has sent to ingest.js
  resolving,  \* those whose jid ingest.js is looking up
  appending,  \* the append in progress, [message, file], or None
  lines,      \* the lines of each file
  queue,      \* the file with the name queue.jsonl, or None
  claimed,    \* by second: the file named queue.processing.<second>.jsonl
  clock,      \* int(time.time())
  phase,      \* what each runner is doing
  name,       \* the second in the name of the file it claimed
  file,       \* the file it reads
  at,         \* the lines it has read
  rows,       \* committed rows of table message
  appended,   \* lines appended, for the bound
  crashes,    \* crashes, for the bound
  stranded    \* history: messages left in a file that nothing reads again

ingest_vars == <<received, resolving, appending, appended>>
file_vars   == <<lines, queue, claimed>>
sync_vars   == <<phase, name, file, at>>
rest_vars   == <<clock, rows, crashes, stranded>>
vars == <<ingest_vars, file_vars, sync_vars, rest_vars>>

-----------------------------------------------------------------------------
(* ingest.js *)

Pending == appended + Cardinality(resolving) + (IF appending = None THEN 0 ELSE 1)

\* Live, or again with the history after a new pairing.
messages_upsert(m) ==
  /\ m \notin resolving
  /\ Pending < MaxLines
  /\ received' = received \cup {m}
  /\ resolving' = resolving \cup {m}
  /\ UNCHANGED <<appending, appended, file_vars, sync_vars, rest_vars>>

\* Files that have no name and that nothing has open.
Unused == File \ ({queue} \cup {claimed[s] : s \in Second} \cup {file[r] : r \in Runner})

NewFile == CHOOSE f \in Unused : TRUE

\* appendFileSync opens the file that has the name now, a new one if none has...
OpenQueue(m) ==
  /\ m \in resolving /\ appending = None
  /\ resolving' = resolving \ {m}
  /\ IF queue # None
     THEN /\ appending' = [message |-> m, file |-> queue]
          /\ UNCHANGED <<lines, queue>>
     ELSE /\ Unused # {}
          /\ queue' = NewFile
          /\ appending' = [message |-> m, file |-> NewFile]
          /\ lines' = [lines EXCEPT ![NewFile] = <<>>]
  /\ UNCHANGED <<received, appended, claimed, sync_vars, rest_vars>>

\* Whether anything will read on in a file.
WillBeRead(f) ==
  \/ f = queue
  \/ \E r \in Runner : \/ phase[r] = "claimed" /\ claimed[name[r]] = f
                       \/ phase[r] = "reading" /\ file[r] = f

\* ... and writes the line to it.
WriteQueue ==
  /\ appending # None
  /\ lines' = [lines EXCEPT ![appending.file] = Append(@, appending.message)]
  /\ appending' = None
  /\ appended' = appended + 1
  /\ stranded' = IF WillBeRead(appending.file) THEN stranded
                 ELSE stranded \cup {appending.message}
  /\ UNCHANGED <<received, resolving, queue, claimed, sync_vars, clock, rows, crashes>>

\* What is not in the file yet is gone.
IngestDies ==
  /\ crashes < MaxCrashes
  /\ crashes' = crashes + 1
  /\ resolving' = {} /\ appending' = None
  /\ UNCHANGED <<received, appended, file_vars, sync_vars, clock, rows, stranded>>

-----------------------------------------------------------------------------
(* sync.py *)

LinesOf(f, from) == {lines[f][i] : i \in from + 1 .. Len(lines[f])}

\* Whether a runner other than r has the file f open, or will open it under one of
\* these names.
ReadByOther(f, r, names) ==
  \E s \in Runner \ {r} : \/ phase[s] = "claimed" /\ names[name[s]] = f
                          \/ phase[s] = "reading" /\ file[s] = f

Tick ==
  /\ clock < MaxSeconds
  /\ clock' = clock + 1
  /\ UNCHANGED <<ingest_vars, file_vars, sync_vars, rows, crashes, stranded>>

\* A rename onto a name that exists replaces it. (With no queue.jsonl the run
\* has nothing to do.)
claim_queue(r) ==
  LET replaced == claimed[clock]
  IN  /\ phase[r] = "idle" /\ queue # None
      /\ claimed' = [claimed EXCEPT ![clock] = queue]
      /\ queue' = None
      /\ phase' = [phase EXCEPT ![r] = "claimed"]
      /\ name' = [name EXCEPT ![r] = clock]
      /\ stranded' = IF replaced = None \/ ReadByOther(replaced, r, claimed') THEN stranded
                     ELSE stranded \cup LinesOf(replaced, 0)
      /\ UNCHANGED <<ingest_vars, lines, file, at, clock, rows, crashes>>

\* Mutation: the place in the file is kept for the next run.
StopKeepsPlace(r) ==
  /\ phase' = [phase EXCEPT ![r] = "idle"]
  /\ name' = [name EXCEPT ![r] = 1]
  /\ file' = [file EXCEPT ![r] = None]
  /\ UNCHANGED at

Stop(r) ==
  /\ phase' = [phase EXCEPT ![r] = "idle"]
  /\ name' = [name EXCEPT ![r] = 1]
  /\ file' = [file EXCEPT ![r] = None]
  /\ at' = [at EXCEPT ![r] = 0]

\* A run dies, of an exception or killed: nothing looks for the file again.
Left(r) ==
  LET f == IF phase[r] = "claimed" THEN claimed[name[r]] ELSE file[r]
  IN  /\ Stop(r)
      /\ stranded' = IF f = None \/ f = queue \/ ReadByOther(f, r, claimed) THEN stranded
                     ELSE stranded \cup LinesOf(f, at[r])

open_claimed(r) ==
  /\ phase[r] = "claimed"
  /\ IF claimed[name[r]] # None
     THEN /\ phase' = [phase EXCEPT ![r] = "reading"]
          /\ file' = [file EXCEPT ![r] = claimed[name[r]]]
          /\ UNCHANGED <<name, at, stranded>>
     ELSE Left(r)
  /\ UNCHANGED <<ingest_vars, file_vars, clock, rows, crashes>>

NextLine(r) == lines[file[r]][at[r] + 1]

\* Mutation: the row is not looked for.
InsertAlways(m) == rows' = [rows EXCEPT ![m] = @ + 1]

\* store_writer.upsert and commit
Insert(m) == rows' = [rows EXCEPT ![m] = IF @ = 0 THEN 1 ELSE @]

StoreLine(r) ==
  /\ phase[r] = "reading" /\ at[r] < Len(lines[file[r]])
  /\ NextLine(r) \notin Malformed
  /\ IF NextLine(r) \in Group THEN UNCHANGED rows ELSE Insert(NextLine(r))
  /\ at' = [at EXCEPT ![r] = @ + 1]
  /\ UNCHANGED <<ingest_vars, file_vars, phase, name, file, clock, crashes, stranded>>

\* Mutation: the whole file is one transaction.
LineFailsAll(r) ==
  /\ phase[r] = "reading" /\ at[r] < Len(lines[file[r]])
  /\ NextLine(r) \in Malformed
  /\ rows' = [m \in Message |->
               IF \E i \in 1..at[r] : lines[file[r]][i] = m THEN 0 ELSE rows[m]]
  /\ Left(r)
  /\ UNCHANGED <<ingest_vars, file_vars, clock, crashes>>

\* An exception ends the run; what it has stored stays.
LineFails(r) ==
  /\ phase[r] = "reading" /\ at[r] < Len(lines[file[r]])
  /\ NextLine(r) \in Malformed
  /\ Left(r)
  /\ UNCHANGED <<ingest_vars, file_vars, clock, rows, crashes>>

EndOfFile(r) ==
  /\ phase[r] = "reading" /\ at[r] = Len(lines[file[r]])
  /\ phase' = [phase EXCEPT ![r] = "done"]
  /\ UNCHANGED <<ingest_vars, file_vars, name, file, at, rest_vars>>

\* The name is deleted, whatever file has it now.
unlink(r) ==
  LET f == claimed[name[r]]
  IN  /\ phase[r] = "done"
      /\ claimed' = [claimed EXCEPT ![name[r]] = None]
      /\ Stop(r)
      /\ stranded' = IF f = None \/ ReadByOther(f, r, claimed') THEN stranded
                     ELSE stranded \cup LinesOf(f, IF f = file[r] THEN at[r] ELSE 0)
      /\ UNCHANGED <<ingest_vars, lines, queue, clock, rows, crashes>>

SyncDies(r) ==
  /\ phase[r] # "idle"
  /\ crashes < MaxCrashes
  /\ crashes' = crashes + 1
  /\ Left(r)
  /\ UNCHANGED <<ingest_vars, file_vars, clock, rows>>

-----------------------------------------------------------------------------

Init ==
  /\ received = {} /\ resolving = {} /\ appending = None /\ appended = 0
  /\ lines = [f \in File |-> <<>>]
  /\ queue = None
  /\ claimed = [s \in Second |-> None]
  /\ clock = 1
  /\ phase = [r \in Runner |-> "idle"]
  /\ name = [r \in Runner |-> 1]
  /\ file = [r \in Runner |-> None]
  /\ at = [r \in Runner |-> 0]
  /\ rows = [m \in Message |-> 0]
  /\ crashes = 0
  /\ stranded = {}

Sync(r) ==
  \/ claim_queue(r) \/ open_claimed(r) \/ StoreLine(r) \/ LineFails(r)
  \/ EndOfFile(r) \/ unlink(r)

Next ==
  \/ \E m \in Message : messages_upsert(m) \/ OpenQueue(m)
  \/ WriteQueue \/ IngestDies \/ Tick
  \/ \E r \in Runner : Sync(r) \/ SyncDies(r)

Spec == Init /\ [][Next]_vars

-----------------------------------------------------------------------------

\* Every variable has a value of the kind it stands for.
TypeOK ==
  /\ received \in SUBSET Message
  /\ resolving \in SUBSET received
  /\ appending \in [message : received, file : File] \cup {None}
  /\ lines \in [File -> Seq(received)]
  /\ queue \in File \cup {None}
  /\ claimed \in [Second -> File \cup {None}]
  /\ clock \in Second
  /\ phase \in [Runner -> {"idle", "claimed", "reading", "done"}]
  /\ name \in [Runner -> Second]
  /\ file \in [Runner -> File \cup {None}]
  /\ \A r \in Runner : phase[r] \in {"reading", "done"} => file[r] # None
  /\ \A r \in Runner : at[r] \in 0 .. (IF file[r] = None THEN 0 ELSE Len(lines[file[r]]))
  /\ rows \in [Message -> Nat]
  /\ appended \in Nat /\ crashes \in Nat
  /\ stranded \in SUBSET Message

\* Whatever is received twice, read twice by overlapping runs, or read again
\* after a crash gets one row, and only what was received gets one.
Store == INSTANCE MessageStore WITH sent <- received
StoreSpec == Store!Spec

\* Every line of a queue file is stored or still going to be read, unless the
\* run that had claimed the file died, a second run claimed one in the same
\* second, or the line was written after the end of the file had been read.
NoLineForgotten ==
  \A f \in File : \A i \in DOMAIN lines[f] :
    LET m == lines[f][i]
    IN  \/ m \in Group \cup Malformed \cup stranded
        \/ rows[m] = 1
        \/ f = queue
        \/ \E r \in Runner : \/ phase[r] = "claimed" /\ claimed[name[r]] = f
                             \/ phase[r] = "reading" /\ file[r] = f /\ at[r] < i

=============================================================================
