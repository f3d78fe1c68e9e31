------------------------ MODULE WhatsAppQueueProofs ------------------------
(***************************************************************************)
(* WhatsAppQueue implements MessageStore and forgets no line but those in  *)
(* "stranded", for any messages, any number of sync runs, files and        *)
(* seconds, and every bound on crashes.                                    *)
(***************************************************************************)
EXTENDS WhatsAppQueue, TLAPS, SequenceTheorems

\* Which file the programs have before them: nothing that they write to or read
\* from is anything but a file.
Files ==
  /\ queue \in File \cup {None}
  /\ claimed \in [Second -> File \cup {None}]
  /\ clock \in Second
  /\ phase \in [Runner -> {"idle", "claimed", "reading", "done"}]
  /\ name \in [Runner -> Second]
  /\ file \in [Runner -> File \cup {None}]
  /\ \A r \in Runner : phase[r] = "reading" => file[r] \in File
  /\ at \in [Runner -> Nat]

\* What is on its way into the store came from WhatsApp, and a message has one
\* row at most.
Received ==
  /\ received \in SUBSET Message
  /\ resolving \in SUBSET received
  /\ appending \in [message : received, file : File] \cup {None}
  /\ lines \in [File -> Seq(received)]
  /\ rows \in [Message -> {0, 1}]
  /\ \A m \in Message : rows[m] = 1 => m \in received

\* The inductive invariant.
IInv == Files /\ Received

-----------------------------------------------------------------------------

\* The initial states satisfy the invariant.
LEMMA InitInv == Init => IInv
<1> SUFFICES ASSUME Init PROVE IInv
  OBVIOUS
<1>1. Files
  BY QueueAssumption DEF Init, Files, Second
<1>2. <<>> \in Seq(received)
  BY EmptySeq
<1>3. Received
  BY <1>2 DEF Init, Received
<1> QED  BY <1>1, <1>3 DEF IInv

\* A file that nothing uses is a file.
LEMMA NewFileType ==
  ASSUME Unused # {}
  PROVE  NewFile \in File
BY DEF NewFile, Unused

\* A runner that stops has no file open any more.
LEMMA StopFiles ==
  ASSUME Files, NEW r \in Runner, Stop(r), UNCHANGED <<queue, clock>>,
         claimed' \in [Second -> File \cup {None}]
  PROVE  Files'
<1>1. 1 \in Second
  BY QueueAssumption DEF Second
<1> QED  BY <1>1 DEF Files, Stop

\* Messages come from WhatsApp, through ingest.js, into a file.
LEMMA IngestKeepsInvariant ==
  ASSUME IInv,
         \/ \E m \in Message : messages_upsert(m) \/ OpenQueue(m)
         \/ WriteQueue \/ IngestDies
  PROVE  IInv'
<1> USE DEF IInv
<1>1. ASSUME NEW m \in Message, messages_upsert(m) PROVE IInv'
  <2>1. Files'
    BY <1>1 DEF messages_upsert, Files, file_vars, sync_vars, rest_vars
  <2>2. received' = received \cup {m} /\ lines' = lines
    BY <1>1 DEF messages_upsert, file_vars
  <2>3. \A f \in File : lines[f] \in Seq(received')
    BY <2>2, SeqMonotonic DEF Received
  <2>4. lines' \in [File -> Seq(received')]
    BY <2>2, <2>3 DEF Received
  <2>5. Received'
    BY <1>1, <2>2, <2>4 DEF messages_upsert, Received, rest_vars
  <2> QED  BY <2>1, <2>5
<1>2. ASSUME NEW m \in Message, OpenQueue(m) PROVE IInv'
  <2>1. CASE queue # None
    BY <1>2, <2>1 DEF OpenQueue, Files, Received, sync_vars, rest_vars
  <2>2. CASE queue = None
    <3>1. NewFile \in File
      BY <1>2, <2>2, NewFileType DEF OpenQueue
    <3>2. <<>> \in Seq(received)
      BY EmptySeq
    <3>3. Files'
      BY <1>2, <2>2, <3>1 DEF OpenQueue, Files, sync_vars, rest_vars
    <3>4. lines' \in [File -> Seq(received)]
      BY <1>2, <2>2, <3>1, <3>2 DEF OpenQueue, Received
    <3>5. appending' \in [message : received, file : File]
      BY <1>2, <2>2, <3>1 DEF OpenQueue, Received
    <3>6. Received'
      BY <1>2, <3>4, <3>5 DEF OpenQueue, Received, rest_vars
    <3> QED  BY <3>3, <3>6
  <2> QED  BY <2>1, <2>2
<1>3. CASE WriteQueue
  <2>1. Append(lines[appending.file], appending.message) \in Seq(received)
    BY <1>3, AppendProperties DEF WriteQueue, Received
  <2> QED  BY <1>3, <2>1 DEF WriteQueue, Files, Received, sync_vars
<1>4. CASE IngestDies
  BY <1>4 DEF IngestDies, Files, Received, file_vars, sync_vars
<1> QED  BY <1>1, <1>2, <1>3, <1>4

\* The line that a runner reads next was received.
LEMMA NextLineReceived ==
  ASSUME IInv, NEW r \in Runner, phase[r] = "reading", at[r] < Len(lines[file[r]])
  PROVE  NextLine(r) \in received
<1>1. lines[file[r]] \in Seq(received) /\ at[r] \in Nat
  BY DEF IInv, Files, Received
<1>2. at[r] + 1 \in 1 .. Len(lines[file[r]])
  BY <1>1, LenProperties
<1> QED  BY <1>1, <1>2, ElementOfSeq DEF NextLine

\* A sync run, whatever becomes of it.
LEMMA SyncKeepsInvariant ==
  ASSUME IInv, NEW r \in Runner, Sync(r) \/ SyncDies(r)
  PROVE  IInv'
<1> USE DEF IInv
<1>1. CASE claim_queue(r)
  BY <1>1 DEF claim_queue, Files, Received, ingest_vars
<1>2. CASE open_claimed(r) /\ claimed[name[r]] # None
  BY <1>2 DEF open_claimed, Files, Received, ingest_vars, file_vars
<1>3. CASE Stop(r) /\ UNCHANGED <<ingest_vars, file_vars, clock, rows>>
  <2>1. Files'
    BY <1>3, StopFiles DEF Files, file_vars
  <2>2. Received'
    BY <1>3 DEF Received, ingest_vars, file_vars
  <2> QED  BY <2>1, <2>2
<1>4. CASE StoreLine(r)
  <2>1. NextLine(r) \in received
    BY <1>4, NextLineReceived DEF StoreLine
  <2>2. Files'
    BY <1>4 DEF StoreLine, Files, file_vars
  <2>3. Received'
    BY <1>4, <2>1 DEF StoreLine, Insert, Received, ingest_vars, file_vars
  <2> QED  BY <2>2, <2>3
<1>5. CASE EndOfFile(r)
  BY <1>5 DEF EndOfFile, Files, Received, ingest_vars, file_vars, rest_vars
<1>6. CASE unlink(r)
  <2>1. claimed' \in [Second -> File \cup {None}]
    BY <1>6 DEF unlink, Files
  <2>2. Files'
    BY <1>6, <2>1, StopFiles DEF unlink
  <2>3. Received'
    BY <1>6 DEF unlink, Received, ingest_vars
  <2> QED  BY <2>2, <2>3
<1>7. \/ open_claimed(r) /\ ~(claimed[name[r]] # None)
      \/ LineFails(r) \/ SyncDies(r)
      => Stop(r) /\ UNCHANGED <<ingest_vars, file_vars, clock, rows>>
  BY DEF open_claimed, LineFails, SyncDies, Left
<1> QED  BY <1>1, <1>2, <1>3, <1>4, <1>5, <1>6, <1>7 DEF Sync

\* The invariant is inductive.
LEMMA NextInv == IInv /\ [Next]_vars => IInv'
<1> SUFFICES ASSUME IInv, [Next]_vars PROVE IInv'
  OBVIOUS
<1>1. CASE Tick
  <2>1. clock' \in Second
    BY <1>1, QueueAssumption DEF Tick, IInv, Files, Second
  <2> QED  BY <1>1, <2>1 DEF Tick, IInv, Files, Received, ingest_vars, file_vars, sync_vars
<1>2. CASE UNCHANGED vars
  BY <1>2 DEF IInv, Files, Received, vars, ingest_vars, file_vars, sync_vars, rest_vars
<1> QED  BY <1>1, <1>2, IngestKeepsInvariant, SyncKeepsInvariant DEF Next

\* Whatever is received twice, read by two runs at once, or read again after a
\* crash or a malformed line: a message gets one row at most and keeps it, and
\* only what was received gets one. (sync.py's loop over store_writer.upsert.)
THEOREM StoreImplemented == Spec => StoreSpec
<1>1. Init => Store!Init
  BY InitInv DEF IInv, Received, Store!Init
<1>2. IInv /\ [Next]_vars => [Store!Next]_<<received, rows>>
  <2> SUFFICES ASSUME IInv, [Next]_vars PROVE [Store!Next]_<<received, rows>>
    OBVIOUS
  <2>1. ASSUME NEW m \in Message, messages_upsert(m)
        PROVE  Store!Send
    BY <2>1 DEF messages_upsert, rest_vars, Store!Send
  <2>2. ASSUME NEW r \in Runner, StoreLine(r)
        PROVE  Store!Record
    <3>1. received' = received /\ NextLine(r) \in received /\ received \subseteq Message
      BY <2>2, NextLineReceived DEF StoreLine, ingest_vars, IInv, Received
    <3>2. CASE rows' = rows
      <4>1. rows' = [m \in Message |-> IF m \in {} THEN 1 ELSE rows[m]]
        BY <3>2 DEF IInv, Received
      <4>2. {} \in SUBSET {m \in received : rows[m] = 0}
        OBVIOUS
      <4> QED  BY <3>1, <4>1, <4>2 DEF Store!Record
    <3>3. CASE Insert(NextLine(r)) /\ rows[NextLine(r)] = 0
      <4>1. rows' = [m \in Message |-> IF m \in {NextLine(r)} THEN 1 ELSE rows[m]]
        BY <3>1, <3>3 DEF Insert, IInv, Received
      <4>2. {NextLine(r)} \in SUBSET {m \in received : rows[m] = 0}
        BY <3>1, <3>3
      <4> QED  BY <3>1, <4>1, <4>2 DEF Store!Record
    <3>4. Insert(NextLine(r)) /\ rows[NextLine(r)] # 0 => rows' = rows
      BY <3>1 DEF Insert, IInv, Received
    <3> QED  BY <2>2, <3>2, <3>3, <3>4 DEF StoreLine
  <2>3. ASSUME NEW r \in Runner, Sync(r) \/ SyncDies(r), ~StoreLine(r)
        PROVE  UNCHANGED <<received, rows>>
    BY <2>3 DEF Sync, SyncDies, claim_queue, open_claimed, LineFails, EndOfFile,
                unlink, ingest_vars, rest_vars
  <2>4. ASSUME \/ \E m \in Message : OpenQueue(m)
               \/ WriteQueue \/ IngestDies \/ Tick \/ UNCHANGED vars
        PROVE  UNCHANGED <<received, rows>>
    BY <2>4 DEF OpenQueue, WriteQueue, IngestDies, Tick, vars, ingest_vars, rest_vars
  <2> QED  BY <2>1, <2>2, <2>3, <2>4 DEF Next, Store!Next
<1> QED  BY <1>1, <1>2, InitInv, NextInv, PTL DEF Spec, StoreSpec, Store!Spec

-----------------------------------------------------------------------------
(* Where the runs are in their files.                                       *)

\* A run has a file open from open_claimed to its end, and is inside it.
Places ==
  /\ \A r \in Runner : phase[r] \in {"idle", "claimed"} => file[r] = None /\ at[r] = 0
  /\ \A r \in Runner : phase[r] \in {"reading", "done"} =>
        file[r] \in File /\ at[r] <= Len(lines[file[r]])
  /\ appended \in Nat /\ crashes \in Nat
  /\ stranded \in SUBSET Message

\* Nothing more is to be done about a line of this message.
Handled(m) == m \in Group \cup Malformed \cup stranded \/ rows[m] = 1

\* Something will read on to line i of file f.
Awaited(f, i) ==
  \/ f = queue
  \/ \E r \in Runner : \/ phase[r] = "claimed" /\ claimed[name[r]] = f
                       \/ phase[r] = "reading" /\ file[r] = f /\ at[r] < i

\* What a run has gone past is dealt with.
ReadHandled ==
  \A r \in Runner : phase[r] \in {"reading", "done"} =>
    \A i \in 1 .. at[r] : Handled(lines[file[r]][i])

\* NoLineForgotten, in these words.
AllAwaited ==
  \A f \in File : \A i \in DOMAIN lines[f] : Handled(lines[f][i]) \/ Awaited(f, i)

\* The inductive invariant of what follows.
LineInv == IInv /\ Places /\ ReadHandled /\ AllAwaited

-----------------------------------------------------------------------------

\* The initial states satisfy it: nothing is in any file.
LEMMA InitLines == Init => LineInv
<1> SUFFICES ASSUME Init PROVE LineInv
  OBVIOUS
<1>1. Places
  BY DEF Init, Places
<1>2. ReadHandled /\ AllAwaited
  BY DEF Init, ReadHandled, AllAwaited
<1> QED  BY <1>1, <1>2, InitInv DEF LineInv

\* A line that was dealt with stays so.
LEMMA HandledStays ==
  ASSUME stranded \subseteq stranded', NEW m, Handled(m), rows[m] = 1 => rows'[m] = 1
  PROVE  Handled(m)'
BY DEF Handled

\* The connector's steps that leave the files alone.
LEMMA FilesAloneKeepLines ==
  ASSUME LineInv, UNCHANGED <<file_vars, sync_vars, rows, stranded>>,
         appended' \in Nat, crashes' \in Nat
  PROVE  Places' /\ ReadHandled' /\ AllAwaited'
BY DEF LineInv, Places, ReadHandled, AllAwaited, Handled, Awaited, file_vars, sync_vars

\* A file made anew is one that no run has open and no name leads to.
LEMMA OpenKeepsLines ==
  ASSUME LineInv, NEW m \in Message, OpenQueue(m)
  PROVE  Places' /\ ReadHandled' /\ AllAwaited'
<1>1. CASE queue # None
  <2>1. UNCHANGED <<file_vars, sync_vars, rows, stranded, appended, crashes>>
    BY <1>1 DEF OpenQueue, file_vars, sync_vars, rest_vars
  <2> QED  BY <2>1, FilesAloneKeepLines DEF LineInv, Places
<1>2. CASE queue = None
  <2>1. /\ queue' = NewFile /\ lines' = [lines EXCEPT ![NewFile] = <<>>]
        /\ UNCHANGED <<claimed, phase, name, file, at, rows, stranded, appended, crashes>>
    BY <1>2 DEF OpenQueue, sync_vars, rest_vars
  <2>2. NewFile \in Unused
    BY <1>2 DEF OpenQueue, NewFile
  <2>3. NewFile \in File /\ (\A r \in Runner : file[r] # NewFile)
    BY <2>2 DEF Unused
  <2>4. \A f \in File \ {NewFile} : lines'[f] = lines[f] /\ f # queue
    BY <2>1, <1>2, QueueAssumption DEF LineInv, IInv, Received
  <2>5. lines'[NewFile] = <<>>
    BY <2>1, <2>3 DEF LineInv, IInv, Received
  <2>6. Places'
    BY <2>1, <2>3, <2>4 DEF LineInv, Places
  <2>7. ReadHandled'
    BY <2>1, <2>3, <2>4 DEF LineInv, Places, ReadHandled, Handled
  <2>8. AllAwaited'
    <3> SUFFICES ASSUME NEW f \in File, NEW i \in DOMAIN lines'[f]
                 PROVE  Handled(lines[f][i])' \/ Awaited(f, i)'
      BY DEF AllAwaited
    <3>1. f # NewFile
      BY <2>5
    <3>2. Handled(lines[f][i]) \/ Awaited(f, i)
      BY <3>1, <2>4 DEF LineInv, AllAwaited
    <3> QED  BY <3>1, <3>2, <2>1, <2>4 DEF Handled, Awaited
  <2> QED  BY <2>6, <2>7, <2>8
<1> QED  BY <1>1, <1>2

\* A line is written to the end of a file: whoever reads on in it meets the line.
LEMMA WriteKeepsLines ==
  ASSUME LineInv, WriteQueue
  PROVE  Places' /\ ReadHandled' /\ AllAwaited'
<1> DEFINE g == appending.file
           x == appending.message
<1>1. g \in File /\ x \in Message
  BY DEF WriteQueue, LineInv, IInv, Received
<1>2. \A f \in File : lines[f] \in Seq(received)
  BY DEF LineInv, IInv, Received
<1>3. /\ lines' = [lines EXCEPT ![g] = Append(@, x)]
      /\ UNCHANGED <<queue, claimed, phase, name, file, at, rows, crashes>>
      /\ appended' = appended + 1
      /\ stranded' = IF WillBeRead(g) THEN stranded ELSE stranded \cup {x}
  BY DEF WriteQueue, sync_vars
<1>4. \A f \in File \ {g} : lines'[f] = lines[f]
  BY <1>3 DEF LineInv, IInv, Received
<1>5. lines'[g] = Append(lines[g], x)
  BY <1>1, <1>3 DEF LineInv, IInv, Received
<1>6. /\ Len(lines'[g]) = Len(lines[g]) + 1
      /\ \A i \in 1 .. Len(lines[g]) : lines'[g][i] = lines[g][i]
      /\ lines'[g][Len(lines[g]) + 1] = x
  <2>1. lines[g] \in Seq(received)
    BY <1>1, <1>2
  <2> QED  BY <1>5, <2>1
<1>7. \A f \in File : Len(lines[f]) \in Nat
  BY <1>2, LenProperties
<1>8. \A r \in Runner : at[r] \in Nat
  BY DEF LineInv, IInv, Files
<1>9. stranded \subseteq stranded'
  BY <1>3
<1>10. Places'
  <2>1. \A r \in Runner : phase[r] \in {"reading", "done"} => at[r] <= Len(lines'[file[r]])
    <3> SUFFICES ASSUME NEW r \in Runner, phase[r] \in {"reading", "done"}
                 PROVE  at[r] <= Len(lines'[file[r]])
      OBVIOUS
    <3>1. file[r] \in File /\ at[r] <= Len(lines[file[r]])
      BY DEF LineInv, Places
    <3>2. CASE file[r] = g
      BY <3>1, <3>2, <1>6, <1>7, <1>8
    <3>3. CASE file[r] # g
      BY <3>1, <3>3, <1>4
    <3> QED  BY <3>2, <3>3
  <2> QED  BY <2>1, <1>1, <1>3 DEF LineInv, Places
<1>11. ReadHandled'
  <2> SUFFICES ASSUME NEW r \in Runner, phase[r] \in {"reading", "done"},
                      NEW i \in 1 .. at[r]
               PROVE  Handled(lines[file[r]][i])'
    BY <1>3 DEF ReadHandled
  <2>1. file[r] \in File /\ at[r] <= Len(lines[file[r]])
    BY DEF LineInv, Places
  <2>2. i \in 1 .. Len(lines[file[r]])
    BY <2>1, <1>7, <1>8
  <2>3. lines'[file[r]][i] = lines[file[r]][i]
    BY <2>1, <2>2, <1>4, <1>6
  <2>4. Handled(lines[file[r]][i])
    BY DEF LineInv, ReadHandled
  <2> QED  BY <2>3, <2>4, <1>3, <1>9 DEF Handled
<1>12. AllAwaited'
  <2> SUFFICES ASSUME NEW f \in File, NEW i \in DOMAIN lines'[f]
               PROVE  Handled(lines[f][i])' \/ Awaited(f, i)'
    BY DEF AllAwaited
  <2>1. CASE f = g /\ i = Len(lines[g]) + 1
    <3>1. CASE WillBeRead(g)
      <4>1. \A r \in Runner : phase[r] = "reading" /\ file[r] = g => at[r] < i
        BY <2>1, <1>1, <1>7, <1>8 DEF LineInv, Places
      <4> QED  BY <3>1, <4>1, <2>1, <1>3 DEF WillBeRead, Awaited
    <3>2. CASE ~WillBeRead(g)
      BY <3>2, <2>1, <1>3, <1>6 DEF Handled
    <3> QED  BY <3>1, <3>2
  <2>2. CASE ~(f = g /\ i = Len(lines[g]) + 1)
    <3>1. DOMAIN lines[f] = 1 .. Len(lines[f]) /\ (f = g => DOMAIN lines'[f] = 1 .. Len(lines[g]) + 1)
      <4>1. lines[f] \in Seq(received)
        BY <1>2
      <4>2. lines[g] \in Seq(received) /\ x \in received
        BY <1>1, <1>2 DEF WriteQueue, LineInv, IInv, Received
      <4>3. Append(lines[g], x) \in Seq(received)
        BY <4>2, AppendProperties
      <4> QED  BY <4>1, <4>3, <1>5, <1>6, LenProperties
    <3>2. i \in DOMAIN lines[f] /\ lines'[f][i] = lines[f][i]
      BY <2>2, <3>1, <1>4, <1>6, <1>7
    <3>3. Handled(lines[f][i]) \/ Awaited(f, i)
      BY <3>2 DEF LineInv, AllAwaited
    <3> QED  BY <3>2, <3>3, <1>3, <1>9 DEF Handled, Awaited
  <2> QED  BY <2>1, <2>2
<1> QED  BY <1>10, <1>11, <1>12

-----------------------------------------------------------------------------

\* A line of a file that a run s goes on with has been dealt with, or s meets it.
LEMMA ReadOn ==
  ASSUME LineInv, NEW f \in File, NEW i \in DOMAIN lines[f], NEW s \in Runner,
         \/ phase[s] = "claimed" /\ claimed'[name[s]] = f
         \/ phase[s] = "reading" /\ file[s] = f,
         phase'[s] = phase[s], name'[s] = name[s], file'[s] = file[s], at'[s] = at[s]
  PROVE  Handled(lines[f][i]) \/ Awaited(f, i)'
<1>1. CASE phase[s] = "claimed" /\ claimed'[name[s]] = f
  BY <1>1 DEF Awaited
<1>2. CASE phase[s] = "reading" /\ file[s] = f /\ at[s] < i
  BY <1>2 DEF Awaited
<1>3. CASE phase[s] = "reading" /\ file[s] = f /\ ~(at[s] < i)
  <2>1. lines[f] \in Seq(received) /\ at[s] \in Nat
    BY DEF LineInv, IInv, Files, Received
  <2>2. i \in 1 .. Len(lines[f])
    BY <2>1, LenProperties
  <2>3. i \in 1 .. at[s]
    BY <1>3, <2>1, <2>2
  <2> QED  BY <1>3, <2>3 DEF LineInv, ReadHandled
<1> QED  BY <1>1, <1>2, <1>3

\* What a run r does to the others' lines: a line stays dealt with or awaited if
\* only r was to meet it and it is in "stranded" now, or no other goes on with
\* its file.
LEMMA OthersKeepLines ==
  ASSUME LineInv, NEW r \in Runner,
         stranded \subseteq stranded', UNCHANGED <<lines, rows>>,
         \A s \in Runner \ {r} : /\ phase'[s] = phase[s] /\ name'[s] = name[s]
                                 /\ file'[s] = file[s] /\ at'[s] = at[s],
         \A f \in File : \A i \in DOMAIN lines[f] :
           Awaited(f, i) => \/ Awaited(f, i)' \/ Handled(lines[f][i])'
                            \/ ReadByOther(f, r, claimed')
  PROVE  AllAwaited'
<1> SUFFICES ASSUME NEW f \in File, NEW i \in DOMAIN lines[f]
             PROVE  Handled(lines[f][i])' \/ Awaited(f, i)'
  BY DEF AllAwaited
<1>1. Handled(lines[f][i]) => Handled(lines[f][i])'
  BY DEF Handled
<1>2. CASE ReadByOther(f, r, claimed')
  <2>1. PICK s \in Runner \ {r} : \/ phase[s] = "claimed" /\ claimed'[name[s]] = f
                                  \/ phase[s] = "reading" /\ file[s] = f
    BY <1>2 DEF ReadByOther
  <2> QED  BY <2>1, <1>1, ReadOn
<1>3. Handled(lines[f][i]) \/ Awaited(f, i)
  BY DEF LineInv, AllAwaited
<1> QED  BY <1>1, <1>2, <1>3

\* A run that stops, and only r, is outside every file.
LEMMA StopKeepsPlaces ==
  ASSUME LineInv, NEW r \in Runner, Stop(r), UNCHANGED <<lines, rows>>,
         stranded \subseteq stranded', stranded' \in SUBSET Message,
         appended' \in Nat, crashes' \in Nat
  PROVE  /\ Places' /\ ReadHandled'
         /\ \A s \in Runner \ {r} : /\ phase'[s] = phase[s] /\ name'[s] = name[s]
                                    /\ file'[s] = file[s] /\ at'[s] = at[s]
<1>1. /\ phase'[r] = "idle" /\ file'[r] = None /\ at'[r] = 0
      /\ \A s \in Runner \ {r} : /\ phase'[s] = phase[s] /\ name'[s] = name[s]
                                 /\ file'[s] = file[s] /\ at'[s] = at[s]
  BY DEF Stop, LineInv, IInv, Files
<1>2. Places'
  BY <1>1 DEF LineInv, Places
<1>3. ReadHandled'
  BY <1>1 DEF LineInv, ReadHandled, Handled
<1> QED  BY <1>1, <1>2, <1>3

\* The lines of a file are messages.
LEMMA LinesAreMessages ==
  ASSUME LineInv, NEW f \in File, NEW n \in Nat
  PROVE  /\ LinesOf(f, n) \in SUBSET Message
         /\ \A i \in DOMAIN lines[f] : n < i => lines[f][i] \in LinesOf(f, n)
<1>1. lines[f] \in Seq(received) /\ received \subseteq Message
  BY DEF LineInv, IInv, Received
<1>2. DOMAIN lines[f] = 1 .. Len(lines[f]) /\ Len(lines[f]) \in Nat
  BY <1>1, LenProperties
<1>3. \A i \in n + 1 .. Len(lines[f]) : lines[f][i] \in Message
  <2> SUFFICES ASSUME NEW i \in n + 1 .. Len(lines[f]) PROVE lines[f][i] \in Message
    OBVIOUS
  <2>1. i \in 1 .. Len(lines[f])
    BY <1>2
  <2> QED  BY <1>1, <2>1, ElementOfSeq
<1> QED  BY <1>2, <1>3 DEF LinesOf

\* A run that dies leaves the rest of its file.
LEMMA LeftKeepsLines ==
  ASSUME LineInv, NEW r \in Runner, Left(r), phase[r] # "idle",
         UNCHANGED <<lines, queue, claimed, appended, rows>>, crashes' \in Nat
  PROVE  Places' /\ ReadHandled' /\ AllAwaited'
<1> DEFINE g == IF phase[r] = "claimed" THEN claimed[name[r]] ELSE file[r]
<1>1. /\ Stop(r)
      /\ stranded' = IF g = None \/ g = queue \/ ReadByOther(g, r, claimed) THEN stranded
                     ELSE stranded \cup LinesOf(g, at[r])
  BY DEF Left
<1>2. g \in File \cup {None} /\ at[r] \in Nat /\ (phase[r] = "claimed" => at[r] = 0)
  BY DEF LineInv, IInv, Files, Places
<1>3. stranded \subseteq stranded' /\ stranded' \in SUBSET Message
  BY <1>1, <1>2, LinesAreMessages DEF LineInv, Places
<1>4. appended' \in Nat
  BY DEF LineInv, Places
<1>5. /\ Places' /\ ReadHandled'
      /\ \A s \in Runner \ {r} : /\ phase'[s] = phase[s] /\ name'[s] = name[s]
                                 /\ file'[s] = file[s] /\ at'[s] = at[s]
  BY <1>1, <1>3, <1>4, StopKeepsPlaces
<1>6. ASSUME NEW f \in File, NEW i \in DOMAIN lines[f], Awaited(f, i)
      PROVE  \/ Awaited(f, i)' \/ Handled(lines[f][i])'
             \/ ReadByOther(f, r, claimed')
  <2>1. CASE f = queue
    BY <2>1 DEF Awaited
  <2>2. CASE \E s \in Runner \ {r} : \/ phase[s] = "claimed" /\ claimed[name[s]] = f
                                     \/ phase[s] = "reading" /\ file[s] = f /\ at[s] < i
    BY <2>2, <1>5 DEF Awaited
  <2>3. CASE /\ f # queue /\ f = g /\ at[r] < i
    <3>1. CASE ReadByOther(g, r, claimed)
      BY <3>1, <2>3
    <3>2. CASE ~ReadByOther(g, r, claimed)
      <4>1. lines[f][i] \in LinesOf(f, at[r])
        BY <2>3, <1>2, LinesAreMessages
      <4>2. g # None
        BY <2>3, QueueAssumption
      <4> QED  BY <4>1, <4>2, <3>2, <2>3, <1>1 DEF Handled
    <3> QED  BY <3>1, <3>2
  <2>4. phase[r] = "claimed" => at[r] < i
    <3>1. lines[f] \in Seq(received)
      BY DEF LineInv, IInv, Received
    <3>2. i \in 1 .. Len(lines[f])
      BY <3>1, LenProperties
    <3> QED  BY <3>2, <1>2
  <2> QED  BY <1>6, <2>1, <2>2, <2>3, <2>4 DEF Awaited
<1>7. AllAwaited'
  BY <1>3, <1>5, <1>6, OthersKeepLines
<1> QED  BY <1>5, <1>7

\* The claimed file keeps its reader; the one whose name it takes may lose its own.
LEMMA ClaimKeepsLines ==
  ASSUME LineInv, NEW r \in Runner, claim_queue(r)
  PROVE  Places' /\ ReadHandled' /\ AllAwaited'
<1> DEFINE g == claimed[clock]
<1>1. /\ phase[r] = "idle" /\ queue # None
      /\ claimed' = [claimed EXCEPT ![clock] = queue]
      /\ queue' = None
      /\ phase' = [phase EXCEPT ![r] = "claimed"]
      /\ name' = [name EXCEPT ![r] = clock]
      /\ stranded' = IF g = None \/ ReadByOther(g, r, claimed') THEN stranded
                     ELSE stranded \cup LinesOf(g, 0)
      /\ UNCHANGED <<appended, lines, file, at, rows, crashes>>
  BY DEF claim_queue, ingest_vars
<1>2. g \in File \cup {None} /\ clock \in Second /\ queue \in File
  BY <1>1 DEF LineInv, IInv, Files
<1>3. stranded \subseteq stranded' /\ stranded' \in SUBSET Message
  BY <1>1, <1>2, LinesAreMessages DEF LineInv, Places
<1>4. /\ phase'[r] = "claimed" /\ name'[r] = clock
      /\ \A s \in Runner \ {r} : /\ phase'[s] = phase[s] /\ name'[s] = name[s]
                                 /\ file'[s] = file[s] /\ at'[s] = at[s]
  BY <1>1 DEF LineInv, IInv, Files
<1>5. /\ claimed'[clock] = queue
      /\ \A c \in Second \ {clock} : claimed'[c] = claimed[c]
  BY <1>1, <1>2 DEF LineInv, IInv, Files
<1>6. Places'
  BY <1>1, <1>3, <1>4 DEF LineInv, Places
<1>7. ReadHandled'
  BY <1>1, <1>3, <1>4 DEF LineInv, ReadHandled, Handled
<1>8. ASSUME NEW f \in File, NEW i \in DOMAIN lines[f], Awaited(f, i)
      PROVE  \/ Awaited(f, i)' \/ Handled(lines[f][i])'
             \/ ReadByOther(f, r, claimed')
  <2>1. CASE f = queue
    BY <2>1, <1>4, <1>5 DEF Awaited
  <2>2. CASE \E s \in Runner : phase[s] = "reading" /\ file[s] = f /\ at[s] < i
    BY <2>2, <1>1, <1>4 DEF Awaited
  <2>3. CASE \E s \in Runner : phase[s] = "claimed" /\ claimed[name[s]] = f
    <3>1. PICK s \in Runner : phase[s] = "claimed" /\ claimed[name[s]] = f
      BY <2>3
    <3>2. s # r /\ name[s] \in Second
      BY <3>1, <1>1 DEF LineInv, IInv, Files
    <3>3. CASE name[s] # clock
      BY <3>1, <3>2, <3>3, <1>4, <1>5 DEF Awaited
    <3>4. CASE name[s] = clock
      <4>1. CASE ReadByOther(g, r, claimed')
        BY <4>1, <3>1, <3>4
      <4>2. CASE ~ReadByOther(g, r, claimed')
        <5>1. lines[f] \in Seq(received)
          BY DEF LineInv, IInv, Received
        <5>2. i \in 1 .. Len(lines[f])
          BY <5>1, LenProperties
        <5>3. lines[f][i] \in LinesOf(f, 0)
          BY <5>2, LinesAreMessages
        <5>4. g # None
          BY <3>1, <3>4, QueueAssumption
        <5> QED  BY <4>2, <5>3, <5>4, <3>1, <3>4, <1>1 DEF Handled
      <4> QED  BY <4>1, <4>2
    <3> QED  BY <3>3, <3>4
  <2> QED  BY <1>8, <2>1, <2>2, <2>3 DEF Awaited
<1>9. AllAwaited'
  BY <1>1, <1>3, <1>4, <1>8, OthersKeepLines
<1> QED  BY <1>6, <1>7, <1>9

\* The name is deleted: a file that it leads to now, of this run or of another, is
\* read on by those that have it open only.
LEMMA UnlinkKeepsLines ==
  ASSUME LineInv, NEW r \in Runner, unlink(r)
  PROVE  Places' /\ ReadHandled' /\ AllAwaited'
<1> DEFINE g == claimed[name[r]]
           n == IF g = file[r] THEN at[r] ELSE 0
<1>1. /\ phase[r] = "done" /\ Stop(r)
      /\ claimed' = [claimed EXCEPT ![name[r]] = None]
      /\ stranded' = IF g = None \/ ReadByOther(g, r, claimed') THEN stranded
                     ELSE stranded \cup LinesOf(g, n)
      /\ UNCHANGED <<appended, lines, queue, rows, crashes>>
  BY DEF unlink, ingest_vars
<1>2. g \in File \cup {None} /\ n \in Nat /\ name[r] \in Second
  BY DEF LineInv, IInv, Files
<1>3. stranded \subseteq stranded' /\ stranded' \in SUBSET Message
  BY <1>1, <1>2, LinesAreMessages DEF LineInv, Places
<1>4. appended' \in Nat /\ crashes' \in Nat
  BY <1>1 DEF LineInv, Places
<1>5. /\ Places' /\ ReadHandled'
      /\ \A s \in Runner \ {r} : /\ phase'[s] = phase[s] /\ name'[s] = name[s]
                                 /\ file'[s] = file[s] /\ at'[s] = at[s]
  BY <1>1, <1>3, <1>4, StopKeepsPlaces
<1>6. \A c \in Second \ {name[r]} : claimed'[c] = claimed[c]
  BY <1>1, <1>2 DEF LineInv, IInv, Files
<1>7. ASSUME NEW f \in File, NEW i \in DOMAIN lines[f], Awaited(f, i)
      PROVE  \/ Awaited(f, i)' \/ Handled(lines[f][i])'
             \/ ReadByOther(f, r, claimed')
  <2>1. CASE f = queue
    BY <2>1, <1>1 DEF Awaited
  <2>2. CASE \E s \in Runner : phase[s] = "reading" /\ file[s] = f /\ at[s] < i
    BY <2>2, <1>1, <1>5 DEF Awaited
  <2>3. CASE \E s \in Runner : phase[s] = "claimed" /\ claimed[name[s]] = f
    <3>1. PICK s \in Runner : phase[s] = "claimed" /\ claimed[name[s]] = f
      BY <2>3
    <3>2. s # r /\ name[s] \in Second
      BY <3>1, <1>1 DEF LineInv, IInv, Files
    <3>3. CASE name[s] # name[r]
      BY <3>1, <3>2, <3>3, <1>5, <1>6 DEF Awaited
    <3>4. CASE name[s] = name[r]
      <4>1. CASE ReadByOther(g, r, claimed')
        BY <4>1, <3>1, <3>4
      <4>2. CASE ~ReadByOther(g, r, claimed')
        <5>1. lines[f] \in Seq(received) /\ at[r] \in Nat
          BY DEF LineInv, IInv, Files, Received
        <5>2. i \in 1 .. Len(lines[f])
          BY <5>1, LenProperties
        <5>3. CASE f = file[r] /\ i <= at[r]
          <6>1. Handled(lines[f][i])
            BY <5>1, <5>2, <5>3, <1>1 DEF LineInv, ReadHandled
          <6> QED  BY <6>1, <1>1, <1>3 DEF Handled
        <5>4. CASE ~(f = file[r] /\ i <= at[r])
          <6>1. n < i /\ g = f
            BY <5>1, <5>2, <5>4, <3>1, <3>4
          <6>2. lines[f][i] \in LinesOf(f, n)
            BY <6>1, <1>2, LinesAreMessages
          <6>3. g # None
            BY <6>1, QueueAssumption
          <6> QED  BY <4>2, <6>1, <6>2, <6>3, <1>1 DEF Handled
        <5> QED  BY <5>3, <5>4
      <4> QED  BY <4>1, <4>2
    <3> QED  BY <3>3, <3>4
  <2> QED  BY <1>7, <2>1, <2>2, <2>3 DEF Awaited
<1>8. AllAwaited'
  BY <1>1, <1>3, <1>5, <1>7, OthersKeepLines
<1> QED  BY <1>5, <1>8

\* A run opens its file and awaits all of it.
LEMMA OpenClaimedKeepsLines ==
  ASSUME LineInv, NEW r \in Runner, open_claimed(r)
  PROVE  Places' /\ ReadHandled' /\ AllAwaited'
<1> DEFINE g == claimed[name[r]]
<1>1. phase[r] = "claimed" /\ UNCHANGED <<file_vars, clock, rows, appended, crashes>>
  BY DEF open_claimed, ingest_vars
<1>2. CASE g # None
  <2>1. /\ phase' = [phase EXCEPT ![r] = "reading"] /\ file' = [file EXCEPT ![r] = g]
        /\ UNCHANGED <<name, at, stranded>>
    BY <1>2 DEF open_claimed
  <2>2. g \in File /\ at[r] = 0
    BY <1>1, <1>2 DEF LineInv, IInv, Files, Places
  <2>3. /\ phase'[r] = "reading" /\ file'[r] = g /\ at'[r] = 0
        /\ \A s \in Runner \ {r} : /\ phase'[s] = phase[s] /\ name'[s] = name[s]
                                   /\ file'[s] = file[s] /\ at'[s] = at[s]
    BY <2>1, <2>2 DEF LineInv, IInv, Files
  <2>4. \A f \in File : Len(lines[f]) \in Nat
    BY LenProperties DEF LineInv, IInv, Received
  <2>5. Places'
    BY <1>1, <2>1, <2>2, <2>3, <2>4 DEF LineInv, Places, file_vars
  <2>6. ReadHandled'
    BY <1>1, <2>1, <2>3 DEF LineInv, ReadHandled, Handled, file_vars
  <2>7. ASSUME NEW f \in File, NEW i \in DOMAIN lines[f], Awaited(f, i)
        PROVE  Awaited(f, i)'
    <3>1. CASE f = queue
      BY <3>1, <1>1 DEF Awaited, file_vars
    <3>2. CASE \E s \in Runner \ {r} : \/ phase[s] = "claimed" /\ claimed[name[s]] = f
                                       \/ phase[s] = "reading" /\ file[s] = f /\ at[s] < i
      BY <3>2, <1>1, <2>3 DEF Awaited, file_vars
    <3>3. CASE g = f
      <4>1. lines[f] \in Seq(received)
        BY DEF LineInv, IInv, Received
      <4>2. i \in 1 .. Len(lines[f])
        BY <4>1, LenProperties
      <4>3. at'[r] < i
        BY <4>2, <2>3
      <4> QED  BY <3>3, <4>3, <2>3 DEF Awaited
    <3> QED  BY <2>7, <3>1, <3>2, <3>3, <1>1 DEF Awaited
  <2>8. AllAwaited'
    BY <1>1, <2>1, <2>3, <2>7, OthersKeepLines DEF file_vars
  <2> QED  BY <2>5, <2>6, <2>8
<1>3. CASE ~(g # None)
  <2>1. Left(r)
    BY <1>3 DEF open_claimed
  <2>2. crashes' \in Nat
    BY <1>1 DEF LineInv, Places
  <2> QED  BY <2>1, <2>2, <1>1, LeftKeepsLines DEF file_vars
<1> QED  BY <1>2, <1>3

\* The line that a run goes past has its row, or is a group's.
LEMMA StoreKeepsLines ==
  ASSUME LineInv, NEW r \in Runner, StoreLine(r)
  PROVE  Places' /\ ReadHandled' /\ AllAwaited'
<1> DEFINE x == NextLine(r)
<1>1. /\ phase[r] = "reading" /\ at[r] < Len(lines[file[r]])
      /\ at' = [at EXCEPT ![r] = @ + 1]
      /\ IF x \in Group THEN UNCHANGED rows ELSE Insert(x)
      /\ UNCHANGED <<queue, lines, claimed, appended, phase, name, file, crashes, stranded>>
  BY DEF StoreLine, ingest_vars, file_vars
<1>2. x \in Message
  BY <1>1, NextLineReceived DEF LineInv, IInv, Received
<1>3. \A m \in Message : rows[m] = 1 => rows'[m] = 1
  BY <1>1 DEF Insert, LineInv, IInv, Received
<1>4. x \in Group \/ rows'[x] = 1
  BY <1>1, <1>2 DEF Insert, LineInv, IInv, Received
<1>5. at[r] \in Nat /\ at'[r] = at[r] + 1 /\ (\A s \in Runner \ {r} : at'[s] = at[s])
  BY <1>1 DEF LineInv, IInv, Files
<1>6. \A f \in File : /\ DOMAIN lines[f] = 1 .. Len(lines[f]) /\ Len(lines[f]) \in Nat
                      /\ \A i \in DOMAIN lines[f] : lines[f][i] \in Message
  <2> SUFFICES ASSUME NEW f \in File
               PROVE  /\ DOMAIN lines[f] = 1 .. Len(lines[f]) /\ Len(lines[f]) \in Nat
                      /\ \A i \in DOMAIN lines[f] : lines[f][i] \in Message
    OBVIOUS
  <2>1. lines[f] \in Seq(received) /\ received \subseteq Message
    BY DEF LineInv, IInv, Received
  <2> QED  BY <2>1, LenProperties, ElementOfSeq
<1>7. \A f \in File : \A i \in DOMAIN lines[f] : Handled(lines[f][i]) => Handled(lines[f][i])'
  BY <1>1, <1>3, <1>6 DEF Handled
<1>8. x = lines[file[r]][at[r] + 1]
  BY DEF NextLine
<1>9. Places'
  <2>1. file[r] \in File /\ at'[r] <= Len(lines[file[r]])
    BY <1>1, <1>5, <1>6 DEF LineInv, Places
  <2> QED  BY <2>1, <1>1, <1>5 DEF LineInv, Places
<1>10. ReadHandled'
  <2> SUFFICES ASSUME NEW s \in Runner, phase[s] \in {"reading", "done"},
                      NEW i \in 1 .. at'[s]
               PROVE  Handled(lines[file[s]][i])'
    BY <1>1 DEF ReadHandled
  <2>1. CASE s = r /\ i = at[r] + 1
    BY <2>1, <1>1, <1>4, <1>8 DEF Handled
  <2>2. CASE ~(s = r /\ i = at[r] + 1)
    <3>1. i \in 1 .. at[s] /\ at[s] \in Nat
      BY <2>2, <1>5 DEF LineInv, IInv, Files
    <3>2. Handled(lines[file[s]][i]) /\ file[s] \in File /\ at[s] <= Len(lines[file[s]])
      BY <3>1 DEF LineInv, ReadHandled, Places
    <3>3. i \in DOMAIN lines[file[s]]
      BY <3>1, <3>2, <1>6
    <3> QED  BY <3>2, <3>3, <1>1, <1>7
  <2> QED  BY <2>1, <2>2
<1>11. AllAwaited'
  <2> SUFFICES ASSUME NEW f \in File, NEW i \in DOMAIN lines[f]
               PROVE  Handled(lines[f][i])' \/ Awaited(f, i)'
    BY <1>1 DEF AllAwaited
  <2>1. CASE f = file[r] /\ i = at[r] + 1
    BY <2>1, <1>1, <1>4, <1>8 DEF Handled
  <2>2. CASE ~(f = file[r] /\ i = at[r] + 1)
    <3>1. i \in Nat
      BY <1>6
    <3>2. Awaited(f, i) => Awaited(f, i)'
      BY <2>2, <3>1, <1>1, <1>5 DEF Awaited
    <3> QED  BY <3>2, <1>7 DEF LineInv, AllAwaited
  <2> QED  BY <2>1, <2>2
<1> QED  BY <1>9, <1>10, <1>11

\* At the end of the file there is no line that the run was still to meet.
LEMMA EndKeepsLines ==
  ASSUME LineInv, NEW r \in Runner, EndOfFile(r)
  PROVE  Places' /\ ReadHandled' /\ AllAwaited'
<1>1. /\ phase[r] = "reading" /\ at[r] = Len(lines[file[r]])
      /\ phase' = [phase EXCEPT ![r] = "done"]
      /\ UNCHANGED <<lines, queue, claimed, name, file, at, rows, stranded, appended, crashes>>
  BY DEF EndOfFile, ingest_vars, file_vars, rest_vars
<1>2. /\ phase'[r] = "done" /\ file[r] \in File
      /\ \A s \in Runner \ {r} : phase'[s] = phase[s]
  BY <1>1 DEF LineInv, IInv, Files
<1>3. Places' /\ ReadHandled'
  BY <1>1, <1>2 DEF LineInv, Places, ReadHandled, Handled
<1>4. ASSUME NEW f \in File, NEW i \in DOMAIN lines[f], Awaited(f, i)
      PROVE  Awaited(f, i)'
  <2>1. lines[f] \in Seq(received)
    BY DEF LineInv, IInv, Received
  <2>2. i \in 1 .. Len(lines[f])
    BY <2>1, LenProperties
  <2>3. ~(phase[r] = "reading" /\ file[r] = f /\ at[r] < i)
    BY <2>2, <1>1
  <2> QED  BY <2>3, <1>1, <1>2, <1>4 DEF Awaited
<1>5. AllAwaited'
  BY <1>1, <1>2, <1>4, OthersKeepLines
<1> QED  BY <1>3, <1>5

\* The invariant is inductive.
LEMMA NextLines == LineInv /\ [Next]_vars => LineInv'
<1> SUFFICES ASSUME LineInv, [Next]_vars PROVE Places' /\ ReadHandled' /\ AllAwaited'
  BY NextInv DEF LineInv
<1>1. ASSUME NEW m \in Message, messages_upsert(m)
      PROVE  Places' /\ ReadHandled' /\ AllAwaited'
  <2>1. UNCHANGED <<file_vars, sync_vars, rows, stranded, appended, crashes>>
    BY <1>1 DEF messages_upsert, rest_vars
  <2> QED  BY <2>1, FilesAloneKeepLines DEF LineInv, Places
<1>2. CASE IngestDies
  <2>1. UNCHANGED <<file_vars, sync_vars, rows, stranded, appended>> /\ crashes' = crashes + 1
    BY <1>2 DEF IngestDies
  <2>2. appended' \in Nat /\ crashes' \in Nat
    BY <2>1 DEF LineInv, Places
  <2> QED  BY <2>1, <2>2, FilesAloneKeepLines
<1>3. CASE Tick \/ UNCHANGED vars
  <2>1. UNCHANGED <<file_vars, sync_vars, rows, stranded, appended, crashes>>
    BY <1>3 DEF Tick, vars, ingest_vars, rest_vars
  <2> QED  BY <2>1, FilesAloneKeepLines DEF LineInv, Places
<1>4. ASSUME NEW r \in Runner, LineFails(r)
      PROVE  Places' /\ ReadHandled' /\ AllAwaited'
  <2>1. /\ phase[r] # "idle" /\ Left(r)
        /\ UNCHANGED <<lines, queue, claimed, appended, rows, crashes>>
    BY <1>4 DEF LineFails, ingest_vars, file_vars
  <2>2. crashes' \in Nat
    BY <2>1 DEF LineInv, Places
  <2> QED  BY <2>1, <2>2, LeftKeepsLines
<1>5. ASSUME NEW r \in Runner, SyncDies(r)
      PROVE  Places' /\ ReadHandled' /\ AllAwaited'
  <2>1. /\ phase[r] # "idle" /\ Left(r) /\ crashes' = crashes + 1
        /\ UNCHANGED <<lines, queue, claimed, appended, rows>>
    BY <1>5 DEF SyncDies, ingest_vars, file_vars
  <2>2. crashes' \in Nat
    BY <2>1 DEF LineInv, Places
  <2> QED  BY <2>1, <2>2, LeftKeepsLines
<1> QED  BY <1>1, <1>2, <1>3, <1>4, <1>5, OpenKeepsLines, WriteKeepsLines, ClaimKeepsLines,
            OpenClaimedKeepsLines, StoreKeepsLines, EndKeepsLines, UnlinkKeepsLines
         DEF Next, Sync

-----------------------------------------------------------------------------

\* Every variable keeps its kind, a runner's place in its file included.
THEOREM TypeCorrect == Spec => []TypeOK
<1>1. LineInv => TypeOK
  <2> SUFFICES ASSUME LineInv PROVE TypeOK
    OBVIOUS
  <2>1. \A r \in Runner : phase[r] \in {"idle", "claimed", "reading", "done"}
    BY DEF LineInv, IInv, Files
  <2>2. \A r \in Runner : phase[r] \in {"reading", "done"} => file[r] # None
    BY QueueAssumption DEF LineInv, Places
  <2>3. \A r \in Runner : at[r] \in 0 .. (IF file[r] = None THEN 0 ELSE Len(lines[file[r]]))
    <3> SUFFICES ASSUME NEW r \in Runner
                 PROVE  at[r] \in 0 .. (IF file[r] = None THEN 0 ELSE Len(lines[file[r]]))
      OBVIOUS
    <3>1. CASE phase[r] \in {"idle", "claimed"}
      BY <3>1 DEF LineInv, Places
    <3>2. CASE phase[r] \in {"reading", "done"}
      <4>1. file[r] \in File /\ at[r] \in Nat /\ at[r] <= Len(lines[file[r]])
        BY <3>2 DEF LineInv, IInv, Files, Places
      <4>2. Len(lines[file[r]]) \in Nat
        BY <4>1, LenProperties DEF LineInv, IInv, Received
      <4> QED  BY <4>1, <4>2, <2>2, <3>2
    <3> QED  BY <2>1, <3>1, <3>2
  <2>4. rows \in [Message -> Nat]
    BY DEF LineInv, IInv, Received
  <2> QED  BY <2>2, <2>3, <2>4 DEF TypeOK, LineInv, IInv, Files, Received, Places
<1> QED  BY <1>1, InitLines, NextLines, PTL DEF Spec

\* Every line of a queue file is stored, or something will still read on to it, or
\* it is in "stranded": whatever the interleaving of appends, renames, readers,
\* deletions and deaths. (_claim_queue and the loop of sync.py, append of ingest.js.)
THEOREM NothingElseForgotten == Spec => []NoLineForgotten
<1>1. LineInv => NoLineForgotten
  BY DEF LineInv, AllAwaited, Handled, Awaited, NoLineForgotten
<1> QED  BY <1>1, InitLines, NextLines, PTL DEF Spec
=============================================================================
