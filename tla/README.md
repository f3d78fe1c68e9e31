# Verification of the sales and marketing platform

TLA+ models of this repository's program, the TLC configurations that check them
on small instances, and proofs for every instance. File names below are relative
to the repository; every definition of a module carries its source lines in the
`map` of `PROJECT.json`.

    tlc -config MCClusters.cfg MCIdentityMerge     # any .cfg with its MC module
    tlapm IdentityMergeProofs.tla                  # any *Proofs module

## 1. The system

Three adapters bring messages of Outlook, WhatsApp and LinkedIn into one
PostgreSQL store, as *identities* (a handle on a channel), *threads* and
*messages*. After every sync, resolution rules propose that two identities are the
same *person*, and merge some of them at once; a dashboard lets the operator review
the rest, link, correct and hide contacts. Briefs of contacts are generated by a
language model after a sync. A monitor watches the adapters and restarts one.

| component | state it keeps | operations | talks to | what is hard | what makes it correct |
|---|---|---|---|---|---|
| merge and undo (`adapters/resolution/merge.py`) | `identity.person_id`, `person`, `merge_log` | `apply_merge`, `undo_merge` | called by rules, review page, panel; moves rows of tables keyed by contact | chains of folds, undo in any order, repeated undo | clusters follow the standing merges; nobody is left at an absorbed person; undo restores what the merge found |
| rules and safety (`rules.py`, `linkedin_correlation.py`, `safety.py`, `run.py`) | `link_candidate` | five rules, one transaction each | read identities and imported evidence, call `apply_merge` | rerun after every sync of every channel, concurrently | a pair is decided once; an automatic merge is safe for the whole cluster |
| review page, contact panel, inbox (`onboarding/app.py`, `contact_editor.py`, `inbox_query.py`) | candidate status, display names, `contact_hidden`, `thread.last_read_at` | confirm, reject, link, undo, add handle, rename, hide, unhide, mark read | merge, store | requests from pages loaded before another merge, double clicks | a decision is applied once and stays; corrections survive; hiding follows the contact |
| briefs (`ai_brief.py`) | `ai_brief`, `ai_brief_status` | refresh after a sync | language model, store | a slow call between reading the contact's key and writing the result | what is shown is the newest attempt, also after a merge |
| store writer (`store_writer.py`) | `identity`, `thread`, `message` | `upsert` | called by all adapters, in their transaction | several processes insert the same rows | one row per external id; a name is filled in, never replaced |
| Outlook sync (`outlook/sync.py`, `client.py`) | `.delta_link.*.txt`, `.sync_status.json` | `run` | Graph, store writer | files and transaction do not commit together; mail arrives during a run; runs overlap | no message is lost or stored twice |
| Outlook address book (`outlook/contacts_sync.py`) | `graph_contact` | insert or update every contact, one commit | Graph; evidence of a rule | none of its own | the table is that of before or of after |
| WhatsApp queue (`whatsapp/sync.py`, `node/ingest.js`) | `queue.jsonl`, `queue.processing.*` | append, claim by rename, store line by line | Baileys, store writer | two processes on one file, crashes | every line is stored once or can still be |
| WhatsApp connector (`node/ingest.js`, `encrypted_auth_state.js`) | `.auth_state`, `.pid`, `.heartbeat.txt`, `.status.json` | pair, connect, reconnect, log out | WhatsApp, dashboard, monitor | two processes on one `.auth_state`; killed, hung or logged out with files that say otherwise | one process at a time; a dead or hung one is noticed |
| LinkedIn live sync (`linkedin/sync.py`, `client.py`, `session_limit.py`) | `.session_count.json`, the browser session | start a session under the daily cap, open conversations, store what the page received | browser, store writer | rows clicked by position in a list that moves, late responses, kills half way | everything gets stored in the end; once per message |
| LinkedIn export (`export_sync.py`, `request_export.py`) | imported connections and messages | request, upload, import | store writer | ids of its own | one transaction |
| monitor (`scripts/monitor.py`) | `.monitor_alert_state.json`, restarts | classify, repair, alert with cooldown | status files, connector | files that outlive a process; alerts remembered at the end of a run only | no alert storm; nothing stays broken in silence |
| onboarding flows (`onboarding/app.py`) | flow state in memory under a lock, upload tokens | device-code login, connect WhatsApp, upload | Outlook client, connector | a second click before the first process has written its number | one login, one connector, a token used once |
| structured facts (`structured_facts.py`, `organizations.py`) | `fact`, `organization` | insert the facts that are missing | store | two runs at once | a fact once |
| quality gate (`quality.py`) | none | verdict on an attestation | nothing | thresholds | a bad measurement never passes |

Pure text work (noise parsing, HTML stripping), SQL views, templates and one-off
scripts keep no state and have no module.

## 2. The modules

**IdentityMerge** is the core. An action is one database transaction of a caller of
`merge.py`, taken whole: the two rule transactions that merge, the three that only
queue, confirm and reject of the review page, linking, adding a handle and renaming
in the panel, hide and unhide, undo, names filled in by the store writer, and the
steps of a brief refresh. Its variables are the columns these write
(`person_id`, `merged_into`, `merge_log`, `link_candidate` as `candidate`, the three
tables keyed by contact), in sets and functions over identities and person ids.
`apply_merge` has the three cases of the code (new person, join, fold), computes
the names over the whole cluster and relocates briefs, status and hidden rows
(newest wins). `undo_merge` is the code's: its refusal, its restoration from the log
row alone, its reopening of candidates with the exception for the rule retired in
migration 0012. Evidence (which addresses, phone numbers and contact records match)
is a constant set of pairs, available to the rules at any time: which pairs match is
data, when the rules act on them is control. Names are members of a small set, with
length and word tokens as constants, because `select_names` and
`names_contradict` look at nothing else. `is_self` is left out: the rules' queries
drop the operator's own identities, so they are simply not in the evidence.
A brief refresh is three steps (key looked up, transaction begun with its `now()`,
written), so merges interleave with it.

**MessageStore** is what the store promises of messages: a message that a channel has
gets a row at most once and keeps it; nothing else gets one.

**OutlookSync** is a run of `outlook/sync.py` against a mailbox that changes. A folder
is its change log and a delta link a position in it. A run opens each folder, walks
the plain listing (newest first) or the changes since its link, one message at a
time, saves the link to its file and goes on; it commits once, after the last
folder. A step may fail (exception) or the process be killed anywhere; the
transaction is rolled back and the files stay. `upsert` waits while another open
transaction holds the same key and a cycle of two waits is broken by a rollback, as
PostgreSQL does. The operator may delete a link as the runbook says; a store may
still have the link file of the time before there were two folders.
Graph itself, `Arrive`, the change log and the database's lock handling are external.

**WhatsAppQueue** is the file between `ingest.js` and `whatsapp/sync.py`. A file is an
object apart from its name: a process that has it open goes on with it when it
is renamed or deleted. An append is an open and a write; a claim is a rename
to a name with the current second; a line is stored in a transaction of its own;
the claimed name is deleted at the end. Either program dies anywhere, a malformed
line raises. Two sync processes run.

OutlookSync, WhatsAppQueue and LinkedInInbox each implement MessageStore
(`Store == INSTANCE MessageStore WITH ...`, checked as a property and proved); the last
for the syncs of two channels that write one store.

**ConnectorSupervision** is the connector's process, its four files, and those who
start and watch it. A process is spawned, writes `.pid`, connects or shows a code,
is open, loses the connection, is logged out, crashes, hangs or is killed; the
dashboard's Connect takes its lock, looks at `.pid` and at the start it remembers;
the operator or a logon task may start one as well. A run of the monitor is its
checks in one step, the repair (kill, start, thirty seconds of polling) in several,
the alerts, and the saving of its file; the dashboard may restart in the middle of
it. Ages are compared with a limit only, so a heartbeat is none, fresh or stale,
and a cooldown is running or over. The processes of the operating system and the
hanging of node are external.

**LinkedInSync** is a browser session: counted against the day's cap when it starts,
rows counted once and clicked by position while messages move the conversations,
scrolling that stops early, a response of an earlier conversation that lands
late, one commit per message, a kill anywhere. **TriageInbox** is the list with
each of its filters, the conversation a contact opens, and `mark_read`, over rows that
anybody writes. The text of a message is some, none, spaces alone, which the
LinkedIn client stores and the inbox takes for none, or blank: nothing but line breaks, which
SQL's `trim` takes for text and Python's `strip` does not. **LinkedInInbox** composes the two over one store and
adds the sync of another channel (`Inbox == INSTANCE TriageInbox WITH now <- Len(sent)`).
Time in these is the number of messages sent.

**ResolutionRace** takes the rules of two resolution processes statement by statement
under READ COMMITTED: what a statement sees (own writes and what was committed when
it began), row locks (the exact-email rule takes one when it upserts the LinkedIn
identity), and the re-check of an UPDATE that waited. IdentityMerge is
the same program with the transaction of a pair as a step; what one process
does alone is checked and proved there, and this module asks what is left of it for two.

**MCIdentityMerge, MCOutlook, MCWhatsApp, MCLinkedIn, MCRace** give the instances
for TLC; ConnectorSupervision needs none.

## 3. What the runs check

| run (cfg) | question | bounds |
|---|---|---|
| clusters (MCClusters) | do persons, forwarding and clusters follow the log through links, reviews and undos, also over a merge of the retired rule? | 4 identities, 3 persons, 4 merges: a fold of two merged pairs takes 3 merges, the fourth redoes one the other way round; 1.8 million states |
| decisions (MCDecisions) | does what was decided stay decided; is an automatic merge safe? | 4 identities, evidence of all five rules that overlaps in both orders, clusters limited to 2 so that the limit bites, 2 merges |
| names (MCNames) | do corrections survive; are whole clusters compared? | names of three kinds, one contradicting, a handle added by hand, cluster limit 3 |
| contacts (MCContacts) | does what a contact shows follow its merge? | hide and refresh on 4 identities, 1 merge after handles were added by hand (a fold included), 2 timestamps: older and newer |
| undo_later (MCUndoLater) | does an undo leave later merges alone? | a counterexample, see section 4 |
| outlook (MCOutlook) | is a committed run complete; does a deleted link mean a backfill; is everything stored in the end? | 2 messages and a draft, 2 entries in both logs together, 2 failures: one before and one after a link was saved, 1 link deleted by hand |
| outlook_overlap (MCOutlookOverlap) | do two runs store a message twice or skip one? | 2 runs, one failure; 2 messages are the least that deadlock |
| outlook_seed (MCOutlookSeed) | is the seed query's answer really nothing new? | a counterexample, see section 4 |
| whatsapp_queue (MCWhatsApp) | is a message stored twice, or a line lost in an unknown way? | 2 sync runs, 3 files, 3 lines of 4 kinds, 2 seconds, 1 crash: the name collision needs 2 claims in one second with a third file being written |
| supervision (MCSupervision) | two connectors at once? alert storms? a connector dead or hung that nobody hears of? | 2 starts (a second connector beside a first, or after it), 1 restart of the dashboard, one scheduled sync beside the connector; 851 thousand states |
| linkedin (MCLinkedIn) | is everything a contact wrote shown in the end; what does reading mark as read? | 3 messages of 7 kinds, one without text, one of spaces, one of line breaks, 2 conversations, a mail thread, 1 session a day, 1 kill or late or missing response: two conversations are the least that reorder, the third message moves them during a session; 855 thousand states |
| merge_race (MCRace) | does a merge of two processes strand an identity? | 2 processes, 5 identities, 3 persons; a counterexample, see section 4 |

The properties, with the code each is about:

* `NoIdentityAtMergedPerson`, `MergedPersonForwardsToContact`,
  `ClustersMatchStandingMerges`, `LatestUndoIsExact`: `merge.py` and its log. The
  second claims that forwarding never cycles after any undos whatever, repeated ones too
  (`undo_merge` does not look at `reversed_at`), and that it ends at a contact as long as undos
  go newest first: in another order it does not (section 4, number 5). The third is stated for
  undos newest first; that standing merges connect the whole of a cluster, for stores without
  hand-added handles, which no log row describes.
* `PairMergedAutomaticallyOnce`, `ConfirmedHasStandingMerge`,
  `OneMergePerConfirmation`, `ClosedPairsStayClosed`: the rules look for a candidate
  in both orders before they insert; the review page claims a row by its status;
  undo reopens exactly the right ones.
* `AutomaticMergeIsSafe`: the checks of `safety.py` on what the merge really leaves.
* `NamesReplacedByOperatorOnly`: fill-in in `store_writer` and in the LinkedIn rule
  against the panel's corrections.
* `MergeOrphansNothing`, `MergedContactShowsNewest`: the relocation of every table
  keyed by contact.
* `StoreSpec`: one row per message (all three adapters).
* `CommittedRunIsComplete`: a run that commits has stored its part of every folder.
* `DeletedLinkMeansBackfill`: the runbook's backfill, while other folders save their
  links; the exception, the link file of an old store, is in section 4.
* `StoredOrSkipped`: every message is stored in the end *except* those in
  `skipped`. That set holds what a link left behind that was saved before the commit
  that failed (sync.py:360 against 361), or with the discarded seed
  (client.py:259). Both are real losses; the property says there is no third one.
* `NoLineForgotten`: every line of a queue file is stored or still going to be read,
  except in `stranded`: the file of a run that died (nothing opens a
  `queue.processing` file again), a file replaced by a rename in the same second, and
  a line written after its file had been read to the end.
* `OneDashboardConnector`: `_whatsapp_connect_lock` and the start that is remembered, against
  clicks before `.pid` is written. It is stated for connectors of the dashboard alone: the
  monitor does not take the lock (section 4).
* `AlertsAreSpaced`: the cooldown across runs, recoveries and restarts. The exception it
  names is a run that ended between its alert and the saving of its file.
* `DeadConnectorIsNoticed`, `HungConnectorIsKilled`: the order in which
  `_check_whatsapp_liveness` believes status, `.pid` and heartbeat.
* `EventuallyShown`: what a contact writes on LinkedIn is in its conversation in the end,
  through both components; with as many conversations as a session visits.
* `ListedHasText`, `ArrivalHidesOnlyAutomated`: the filters of the list against the
  conversation (but for blank messages, section 4), and against messages still to come.
* `ReadMeansShown`: nothing stops being unread that was not on the screen, with four
  exceptions that the property names because the code has them.

Every property of a passing run comes with a mutation of the code that breaks it
(`mutants`); the mutated operators stand before the ones they replace, marked
"Mutation".

SYMMETRY is used for persons, messages and sync runs in runs without liveness:
no definition distinguishes them. ClusterSpec and ContactSpec are parts
of Next: the first leaves out hiding and briefs, the second rules and
names; neither part reads what only the other writes. The theorems are about the whole
of Next. CHECK_DEADLOCK is off where the bounds end the behaviours or a sync
has nothing to do.

## 4. What does not hold

With a run that finds the counterexample, and an entry in `findings`:

1. **Undo takes a later merge apart** (undo_later, `UndoSparesLaterMerges`). `undo_merge`
   looks for later merges with the same survivor only; a later fold of that survivor into
   another person is not seen.
2. **Mail that arrives during the first listing is lost** (outlook_seed,
   `SeedYieldsNothingNew`): the seed query that returns it is discarded.
3. **Two resolutions strand an identity** (merge_race, `NoIdentityStranded`): while one
   process folds a person into another, the second brings a new identity to the
   absorbed person; the fold's UPDATE does not see it. The comment at merge.py:56 names
   this as what the fold is there to avoid.

Seen while modelling. The models have the behaviour; where a property would fail on
it, the property names the exception:

4. Undoing the newer of two merges into a person makes the older one impossible to undo:
   reversed rows count as later merges (merge.py:209). The design note
   (2026-09-03-identity-resolution-design.md) promises the opposite.
5. Merges undone in another order than newest first may leave `merged_into` leading to a person
   without identities: `undo_merge` refuses only merges with a later one into the *same*
   person, so the merge that gave the survivor of a fold its identities can be undone
   under the fold. The counterexample takes six merges, two of them folds, and three undos, more
   than the instance of the clusters run: the proof of `MergedPersonForwardsToContact` asked for
   what no run had refuted, and TLC with 6 identities and 4 persons found it.
6. An undo does not restore `contact_hidden`, nor anything else in the tables keyed by
   contact (merge.py:125).
7. On a store that has the old `.delta_link.txt`, a deleted inbox link comes back
   (outlook/sync.py:303), and the runbook's backfill is an incremental run.
8. The monitor starts a connector without the dashboard's lock (monitor.py:328), and
   the operator's task without any: two can be alive, which the comment at app.py:122
   gives the lock for.
9. `ingest.js` may write to the file being read, against the comment of `_claim_queue`: an
   append that opened the file before the rename writes to it after.
10. The brief refresh that began first may be stored last and replace a newer one
    (ai_brief.py:166).
11. `mark_read` marks whole threads up to the time of the request, so a message sent before
    it and stored after it is never unread (inbox_query.py:352).
12. A message of the operator in a LinkedIn conversation of which no inbound message was
    captured with it gets no recipient, and keeps none: its row is never rewritten
    (client.py:286).
13. A contact whose only text is line breaks or tabs is listed and opens empty: the list's filter
    (inbox_query.py:141) trims spaces alone, `get_detail` (line 288) strips all white space.
    The comment above the filter wants the same check. LinkedIn and WhatsApp messages
    are stored with their white space.

Seen in the code and outside the models:

14. A `.monitor_alert_state.json` or `.session_count.json` that was cut off while written makes
    every later run raise (monitor.py:346, session_limit.py:43); two monitors, or two
    sessions, at once read and write these files over each other.
15. The monitor kills whatever has the number in `.pid` (monitor.py:319).
16. A connector that hangs while its status says `qr_pending` is left to a human, and one that
    was logged out and lives on keeps the heartbeat fresh and Connect refused.
17. The LinkedIn export gives messages and people other ids than the live sync, so a
    conversation can be in the store twice.
18. Two resolutions at once can insert a fact twice (structured_facts.py:77): the facts
    there are were read first, and `fact` has no unique key.

## 5. Fairness

* Outlook sync. `WF(Step(r))`: the schedule starts the sync again and again, and a run
  that is neither killed nor failing proceeds. `SF(DeltaItem \/ PlainItem)`: the database
  grants a lock to a waiting transaction once it is free; with the single runner of that
  run it adds nothing stronger than progress. Nothing is assumed of arrivals, deletions,
  failures or kills; failures are bounded by MaxFailures, which is the assumption that
  the mailbox and the database are reachable long enough for one whole run at some
  time: with a failure in every run nothing is ever committed. Two overlapping runs could
  in principle abort each other for ever, so liveness is not claimed for them.
* Supervision. `WF(MonitorStep)`: the dashboard's thread runs the monitor for ever and its
  polling ends. `WF(HeartbeatExpires)`: time passes, so a heartbeat that nobody renews
  gets old. Nothing is assumed of the connector, the dashboard's user, the phone or the
  other starters; starts and restarts of the dashboard are bounded.
* LinkedIn. `WF(Sync)`: the schedule starts sessions while the cap allows, and a session
  proceeds. `WF(Midnight)`: days end, so that a spent cap is renewed. Kills and late or
  missing responses are bounded by MaxGlitches; nothing is assumed of who writes, of
  the other sync or of the operator.

The other modules claim safety only.

## 6. What is proved

All for every value of the constants, under the named assumptions of the modules:
`KeyAssumption` (disjoint kinds of ids), `PersonAssumption` (finitely many person ids),
`EvidenceAssumption` (evidence between the channels a rule reads), `ChannelAssumption` (finitely
many identities, an identity has one channel, role addresses are mail addresses), `NameAssumption`, `ContactAssumption` and
`KindAssumption` (what a message is), and bounds that are numbers.

* `IdentityMergeProofs`: `TypeCorrect`; `NoIdentityStranded`
  (Spec => []NoIdentityAtMergedPerson). The latter is not inductive: a merge makes a
  person out of an unused id, and only because every id in use, in
  `merged_into` and in `absorbed` of the log too, belongs to a person row
  (`PersonsExist`) is nothing forwarding from it; undo sets `person_id` back to an
  `absorbed` person whose forwarding it clears in the same step.
  `IInv == TypeOK /\ PersonsExist /\ NoIdentityAtMergedPerson` is.
  `LatestUndo` (Spec => LatestUndoIsExact) adds `LatestRowTells`: the newest row of the log
  says what its merge found. For a fold this needs IInv: the forwarding that undo clears
  was null before, since the folded person had identities.
* `DecisionProofs`: `MergedAutomaticallyOnce`. The rules ask for candidates and the
  property speaks of merges; `AutomaticHasCandidate` connects them, and no step
  takes away a pair's candidate. `MergesAreSafe` (Spec => AutomaticMergeIsSafe): the rule
  checks the two clusters as they are and the property speaks of what is there after.
  `MergeJoinsClusters` says that these are the same; it needs `PersonsExist`, as a
  person made for the pair must not have other identities.
  `ClosedPairs` (Spec => ClosedPairsStayClosed), from `UniquePairs` (one
  candidate for a pair, in either order, which no constraint of the table enforces)
  and `RetiredNeverPending`, with four shapes a step can have; `ConfirmedStands`
  (Spec => []ConfirmedHasStandingMerge), inductive on top of the types: an undo reopens all
  confirmed candidates of its pair, so what stays confirmed has a row of another pair;
  `CorrectionsSurvive` (Spec => NamesReplacedByOperatorOnly). `MergedOncePerReview`
  (Spec => []OneMergePerConfirmation) counts: by `ReviewsPaidFor` the merges by review of a
  pair are at most its undone merges, plus one unless the candidate is pending. A confirmation
  uses up the one; an undo adds one to the other side, and only then is the candidate
  pending again. `ReviewHasCandidate` (the candidate of a merge by review is still there)
  makes a new candidate start from none.
* `ClusterProofs`: `ForwardsToContact` (Spec => []MergedPersonForwardsToContact) and
  `ClustersFollowLog` (Spec => []ClustersMatchStandingMerges), from one invariant, `LInv`.
  * `Acyclic`: there is a rank of persons that grows along `merged_into`. A fold of a person that
    forwards nowhere into another such person gets one by lifting the survivor above it;
    an undo only cuts. `Follow` takes as many steps as there are persons, and `FollowArrives`
    shows that a climbing path of finitely many persons ends within them.
  * As long as undos go newest first, the log can be read backwards from the present:
    `PersonAt(log, now, l, i)` is the person that identity i had when row l was the last one that
    stood, namely what the next standing row that moved it took it from. At every such level,
    `LogTogether`: the pair of each standing row up to it is together; `LogConnects` (without hand-added
    handles): no cluster falls into two parts that no standing row up to it connects. A merge adds
    a level, an undo of the newest standing row goes back to the level below it
    (`MergeAddsLevel`, `UndoGoesBack`), which is why the statement about the present alone
    is not inductive. `LogForwards`: the persons that forward are those absorbed by standing folds, each
    by one, and they forward to its survivor; the first identity of the
    row was at the survivor then (`LogOrigin`), and had a standing fold taken it away since, the
    survivor would forward. So where forwarding ends there is somebody: the second half of the
    first theorem.
  * An induction over the log or along a path is written as a smallest counterexample
    (`SmallestOf`), as the library's induction theorems take an operator.
* `ContactProofs`: `NothingOrphaned` (Spec => MergeOrphansNothing) and `NewestIsShown`
  (Spec => MergedContactShowsNewest). `MergeMoves` reduces a merge of any shape to three
  keys: whoever has one of them has the survivor's after, nobody else's changes, and the rows
  of the other two are relocated. The second theorem needs that a key with rows
  is an identity that exists or a person that exists (`RowsHaveKeys`), also the key a slow
  refresh holds: a person just made, or an identity just inserted by a rule, then
  brings no row of its own.
* `OutlookSyncProofs`: `StoreImplemented` (Spec => StoreSpec), for any number
  of overlapping runs. `Places` keeps every run inside its folder; `OneRow` says
  that the sets inserted by open transactions are disjoint, and disjoint from the
  committed rows: this is what "on conflict" with its waiting provides. `TypeCorrect`,
  `CommitComplete` (Spec => CommittedRunIsComplete) and `BackfillFollows`
  (Spec => DeletedLinkMeansBackfill) from `WalkInv`: a window a run has walked is done
  with message by message (`Gathered`: in a committed row or written by the run itself;
  the listing's part newest first), and a deleted link is absent until a run saves one
  (`Deleted`).
* `WhatsAppQueueProofs`: `StoreImplemented`; `TypeCorrect`; `NothingElseForgotten`
  (Spec => []NoLineForgotten). Its invariant `LineInv` says of every line of every file
  that it is handled or something will read on to it (`AllAwaited`), and of every reader that
  what is behind it is handled (`ReadHandled`): two readers may share a file, and one of
  them may be past a line that the other still waits for.
* `SupervisionProofs`: `TypeCorrect`; `DashboardStartsOne` (Spec => []OneDashboardConnector),
  from `StartersKnown` and `OnlyOne`: a connector that has not written `.pid` is covered by
  the remembered start, one that has by `.pid`; `AlertsSpaced`
  (Spec => AlertsAreSpaced), from `Remembered`: whoever was alerted about is in the file or in the
  copy that the run will save.
* `LinkedInProofs`: `TypeCorrect`; `ReadWasShown` (System => ReadMeansShown), from `OnScreen`: of
  what was stored when the conversation was read, everything the contact took part in is on
  the screen. `ArrivalsKeepListed` (System => ArrivalHidesOnlyAutomated): the store only
  grows, and every filter but that of the newest message lets through what it let through
  before; `ListedCanBeOpened`. `StoreImplemented` (System => StoreSpec): a message that is sent
  has one row if it is stored, which two syncs that look first (`CopiesCount`) keep.

The identity theorems take a transaction of the rules as a step, that is, one resolution at a
time; for two the first of them is false (section 4, number 3).

Every safety and action property of the passing runs is a theorem. Only model-checked are the
liveness properties (`StoredOrSkipped`, `DeadConnectorIsNoticed`, `HungConnectorIsKilled`,
`EventuallyShown`), as fairness and ENABLED are beyond the prover.

## 7. Not modelled

* The Outlook address book and LinkedIn's export: one transaction each, whose work is to
  parse; their rows are the constants EmailMatch, BridgeMatch and Reported of
  IdentityMerge, available at any time.
* Structured facts: nothing modelled reads them. The quality gate: a pure function over
  reals, without state. Noise parsing, envelopes, HTML and graph views: text and
  derived data. Maintenance scripts: run by hand, once.
* Onboarding: the device-code dialogue and the upload tokens. Each is a critical section
  under one lock; the interesting part is Microsoft's server or the file's content.
* The rows of threads and participants in the mail and WhatsApp syncs, and locks on
  identity rows there: `upsert` is reduced to message rows and names. LinkedInSync has
  the participants.
* Graph paging inside a listing, expired delta links, request retries: a failing
  request is Fail. LinkedIn: conversations longer than scrolling reaches, and more
  conversations than a session visits (EventuallyShown excludes them).
* The encrypted files of the WhatsApp session, and `contacts.jsonl` and `chats.jsonl`, which
  change names only. Several monitors at once; process numbers used again.
* Matching of addresses, phone numbers and names as text; ranking and labels of the
  inbox; prompts and answers of the language model.
* A WhatsApp message whose jid is its lid at one time and its phone number at
  another has two external ids; the model identifies a message with its external id.

## 8. What is left

1. A resolution with locks: ResolutionRace with `select ... for update` on the two persons
   shows whether that closes finding 3; it waits for a change of the code.
2. What IdentityMerge takes for a step as a theorem: the statements of ResolutionRace, run by one
   process, implement the merge of a pair.
3. Two monitors, and the upload tokens, should either get more state than they have.
