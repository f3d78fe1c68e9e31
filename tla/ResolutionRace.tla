--------------------------- MODULE ResolutionRace ---------------------------
(***************************************************************************)
(* Identity resolution when two sync processes run it at once.  Every      *)
(* channel's sync ends with run_best_effort(), the syncs are started by    *)
(* separate schedulers, and nothing (no advisory lock, no SELECT ... FOR   *)
(* UPDATE, no unique index on link_candidate) keeps their resolutions      *)
(* apart.  IdentityMerge takes one merge as one step; this module takes    *)
(* it statement by statement, under PostgreSQL's READ COMMITTED: a         *)
(* statement sees what is committed when it starts and what its own        *)
(* transaction wrote; an UPDATE waits for the transaction that wrote a row *)
(* it wants, and then checks its WHERE against the row's new version; a    *)
(* row that began to satisfy the WHERE meanwhile is not found.             *)
(*                                                                         *)
(* A rule is one transaction (run.py).  Names and the side tables keyed by *)
(* contact are left out: they are in IdentityMerge.                        *)
(***************************************************************************)
EXTENDS Naturals, FiniteSets, TLC

CONSTANTS
    Procs,          \* processes that run the rules
    Identities,
    Persons,        \* the ids new person rows get
    Rules,          \* the automatic rules
    Upserting,      \* those that upsert b's row: rule_exact_email_match
    Matches,        \* records [rule, a, b]: what the rules' queries can find
    Settled,        \* function: disjoint matches merged earlier -> their person
    None

VARIABLES
    evidence,   \* the matches the stored data supports now
    table,      \* committed: identity.person_id, and person.merged_into
    inserted,   \* person ids taken (an id is never given twice)
    cands,      \* committed link_candidate rows: <<match, process>>
    pc,         \* the statement each process is about to execute
    todo,       \* rows its rule has fetched and not yet handled
    pair,       \* the match it is handling
    at,         \* [a, b: the persons it read, moved: rows its fold found]
    dirty,      \* rows its transaction wrote (and has locked)
    dirtyCands  \* candidates its transaction inserted

vars == <<evidence, table, inserted, cands, pc, todo, pair, at, dirty, dirtyCands>>
local == <<todo, pair, at>>

Rows == Identities \cup Persons
NowhereRead == [a |-> None, b |-> None, moved |-> {}]

\* The store as earlier resolutions, one at a time, left it.
Init ==
    /\ evidence = DOMAIN Settled
    /\ table = [r \in Rows |->
          IF \E m \in DOMAIN Settled : r \in {m.a, m.b}
            THEN Settled[CHOOSE m \in DOMAIN Settled : r \in {m.a, m.b}]
            ELSE None]
    /\ inserted = {Settled[m] : m \in DOMAIN Settled}
    /\ cands = {<<m, "earlier">> : m \in DOMAIN Settled}
    /\ pc = [p \in Procs |-> "idle"]
    /\ todo = [p \in Procs |-> {}]
    /\ pair = [p \in Procs |-> None]
    /\ at = [p \in Procs |-> NowhereRead]
    /\ dirty = [p \in Procs |-> <<>>]
    /\ dirtyCands = [p \in Procs |-> {}]

\* What a statement of p's transaction sees.
View(p) == dirty[p] @@ table

\* Someone else's open transaction has written the row.
Locked(p, r) == \E q \in Procs \ {p} : r \in DOMAIN dirty[q]

Goto(p, label) == pc' = [pc EXCEPT ![p] = label]

\* UPDATE of the rows of f, each to its value in f: all of them must be free.
Update(p, f) ==
    /\ \A r \in DOMAIN f : ~Locked(p, r)
    /\ dirty' = [dirty EXCEPT ![p] = f @@ @]

\* A sync stores data that makes a rule's query find one more pair.
Arrive ==
    /\ \E m \in Matches \ evidence : evidence' = evidence \cup {m}
    /\ UNCHANGED <<table, inserted, cands, pc, local, dirty, dirtyCands>>

\* A rule runs its query and fetches every row.
FetchRows(p) ==
    /\ pc[p] = "idle"
    /\ \E rule \in Rules :
         LET found == {m \in evidence : m.rule = rule}
         IN  found # {} /\ todo' = [todo EXCEPT ![p] = found]
    /\ Goto(p, "next")
    /\ UNCHANGED <<evidence, table, inserted, cands, pair, at, dirty, dirtyCands>>

\* The pair is in a candidate this transaction can see, either way round.
has_existing_candidate(p, m) ==
    \E c \in cands \cup dirtyCands[p] : {c[1].a, c[1].b} = {m.a, m.b}

\* The next fetched row.  The exact-email rule creates the LinkedIn identity
\* of the connection or writes it as it is, so has its row from here on; then
\* the pair is skipped when it has a candidate.
NextMatch(p) ==
    /\ pc[p] = "next"
    /\ \E m \in todo[p] :
         /\ todo' = [todo EXCEPT ![p] = @ \ {m}]
         /\ IF m.rule \in Upserting
              THEN Update(p, m.b :> View(p)[m.b])
              ELSE UNCHANGED dirty
         /\ IF has_existing_candidate(p, m)
              THEN UNCHANGED <<pc, pair>>
              ELSE Goto(p, "insert") /\ pair' = [pair EXCEPT ![p] = m]
    /\ UNCHANGED <<evidence, table, inserted, cands, at, dirtyCands>>

\* The candidate is inserted: "pending" when a safety check objects (which
\* of the checks does is left open), otherwise "confirmed" and merged.
InsertCandidate(p) ==
    /\ pc[p] = "insert"
    /\ dirtyCands' = [dirtyCands EXCEPT ![p] = @ \cup {<<pair[p], p>>}]
    /\ \E status \in {"pending", "confirmed"} :
         Goto(p, IF status = "confirmed" THEN "read" ELSE "next")
    /\ UNCHANGED <<evidence, table, inserted, cands, local, dirty>>

\* apply_merge reads both identities' person.  Two different persons are to
\* be folded into one, and the UPDATE that does it starts: moved is what its
\* snapshot finds.  Otherwise the pair moves to the one person, or a new one.
ReadPersons(p) ==
    LET a == View(p)[pair[p].a]
        b == View(p)[pair[p].b]
    IN  /\ pc[p] = "read"
        /\ \/ /\ a # None /\ b # None /\ a # b
              /\ at' = [at EXCEPT ![p] = [a |-> a, b |-> b, moved |->
                           {i \in Identities : View(p)[i] = b}]]
              /\ Goto(p, "fold")
              /\ UNCHANGED inserted
           \/ /\ a # None \/ b # None
              /\ a = None \/ b = None \/ a = b
              /\ at' = [at EXCEPT ![p] = [NowhereRead EXCEPT !.a = IF a # None THEN a ELSE b]]
              /\ Goto(p, "move")
              /\ UNCHANGED inserted
           \/ /\ a = None /\ b = None
              /\ \E new \in Persons \ inserted :
                   /\ inserted' = inserted \cup {new}
                   /\ at' = [at EXCEPT ![p] = [NowhereRead EXCEPT !.a = new]]
              /\ Goto(p, "move")
        /\ UNCHANGED <<evidence, table, cands, todo, pair, dirty, dirtyCands>>

\* "update identity set person_id = a where person_id = b", and merged_into:
\* of the rows found at its start, those still at b when they are free.
FoldPersons(p) ==
    /\ pc[p] = "fold"
    /\ \A i \in at[p].moved : ~Locked(p, i)
    /\ LET still == {i \in at[p].moved : View(p)[i] = at[p].b}
       IN  Update(p, [r \in still \cup {at[p].b} |-> at[p].a])
    /\ Goto(p, "move")
    /\ UNCHANGED <<evidence, table, inserted, cands, local, dirtyCands>>

\* "update identity set person_id = ... where id in (a, b)".
MovePair(p) ==
    /\ pc[p] = "move"
    /\ Update(p, [i \in {pair[p].a, pair[p].b} |-> at[p].a])
    /\ Goto(p, "name")
    /\ UNCHANGED <<evidence, table, inserted, cands, local, dirtyCands>>

\* The survivor's names are recomputed: its row is written, so locked.
NamePerson(p) ==
    /\ pc[p] = "name"
    /\ Update(p, at[p].a :> View(p)[at[p].a])
    /\ Goto(p, "next")
    /\ UNCHANGED <<evidence, table, inserted, cands, local, dirtyCands>>

EndTransaction(p) ==
    /\ Goto(p, "idle")
    /\ todo' = [todo EXCEPT ![p] = {}]
    /\ pair' = [pair EXCEPT ![p] = None]
    /\ at' = [at EXCEPT ![p] = NowhereRead]
    /\ dirty' = [dirty EXCEPT ![p] = <<>>]
    /\ dirtyCands' = [dirtyCands EXCEPT ![p] = {}]
    /\ UNCHANGED <<evidence, inserted>>

\* Every row handled: run() commits the rule.
CommitRule(p) ==
    /\ pc[p] = "next"
    /\ todo[p] = {}
    /\ table' = View(p)
    /\ cands' = cands \cup dirtyCands[p]
    /\ EndTransaction(p)

\* The rule raises (a deadlock, a lost connection): run() rolls it back.
RollBackRule(p) ==
    /\ pc[p] # "idle"
    /\ EndTransaction(p)
    /\ UNCHANGED <<table, cands>>

Step(p) ==
    \/ FetchRows(p)
    \/ NextMatch(p)
    \/ InsertCandidate(p)
    \/ ReadPersons(p)
    \/ FoldPersons(p)
    \/ MovePair(p)
    \/ NamePerson(p)
    \/ CommitRule(p)
    \/ RollBackRule(p)

Next == Arrive \/ \E p \in Procs : Step(p)

Spec == Init /\ [][Next]_vars

-----------------------------------------------------------------------------
(***************************************************************************)
(* "move every identity in person_b's cluster over to person_a's, rather   *)
(* than ... silently stranding the rest of person_b's cluster under a      *)
(* now-orphaned, stale-named person row" (merge.py:52-58): no identity is  *)
(* left at a person that has been merged into another.  The theorem of the *)
(* same name in IdentityMergeProofs proves it of merges that are atomic;   *)
(* two of these transactions side by side break it, whichever of them gets *)
(* the absorbed person's rows first.                                       *)
(***************************************************************************)
NoIdentityStranded ==
    \A i \in Identities : table[i] \in Persons => table[table[i]] = None
=============================================================================
