---------------------------- MODULE ClusterProofs ----------------------------
(***************************************************************************)
(* The log of merges and what it has done, in every store: the clusters    *)
(* are what the standing rows of the log say as long as merges are undone  *)
(* newest first, and a person that was merged into another leads to one    *)
(* that has not been, whatever was undone in whatever order.               *)
(***************************************************************************)
EXTENDS ContactProofs, FiniteSetTheorems, WellFoundedInduction

-----------------------------------------------------------------------------
(* Following merged_into.                                                  *)

\* What is used in place of induction: a set of numbers has a smallest.
LEMMA SmallestOf ==
  ASSUME NEW T \in SUBSET Nat, T # {}
  PROVE  \E m \in T : \A n \in T : m <= n
<1> DEFINE Less == {ss \in Nat \X Nat : ss[1] < ss[2]}
<1>1. IsWellFoundedOn(Less, Nat)
  BY NatLessThanWellFounded DEF OpToRel
<1>2. \E m \in T : \A n \in T : ~(<<n, m>> \in Less)
  <2> HIDE DEF Less
  <2>1. T \subseteq Nat
    OBVIOUS
  <2> QED  BY <1>1, <2>1, WFMin
<1>3. \A m, n \in T : ~(<<n, m>> \in Less) => m <= n
  OBVIOUS
<1> QED  BY <1>2, <1>3

\* The recursion that defines Forwarded has a solution.
LEMMA ForwardedExists ==
  ASSUME NEW N \in Nat, NEW f \in [Person -> Person]
  PROVE  \E F : F = [n \in 0..N |-> IF n = 0 THEN [p \in Person |-> p]
                                    ELSE [p \in Person |-> f[F[n - 1][p]]]]
<1> DEFINE Solves(F, M) == F = [n \in 0..M |-> IF n = 0 THEN [p \in Person |-> p]
                                    ELSE [p \in Person |-> f[F[n - 1][p]]]]
           T == {M \in Nat : \A F : ~Solves(F, M)}
<1> SUFFICES ASSUME T # {} PROVE FALSE
  OBVIOUS
<1>1. PICK M \in T : \A n \in T : M <= n
  <2> HIDE DEF T
  <2> T \in SUBSET Nat BY DEF T
  <2> QED  BY SmallestOf
<1>2. M # 0
  <2>1. Solves([n \in 0..0 |-> [p \in Person |-> p]], 0)
    OBVIOUS
  <2> QED  BY <2>1
<1>3. PICK F : Solves(F, M - 1)
  <2> HIDE DEF Solves
  <2>1. M - 1 \in Nat /\ ~(M <= M - 1)
    BY <1>2
  <2> QED  BY <1>1, <2>1
<1> DEFINE G == [n \in 0..M |-> IF n = M THEN [p \in Person |-> f[F[M - 1][p]]] ELSE F[n]]
<1>4. ASSUME NEW n \in 0..M
      PROVE  G[n] = IF n = 0 THEN [p \in Person |-> p]
                    ELSE [p \in Person |-> f[G[n - 1][p]]]
  <2>1. CASE n = M
    BY <1>2, <2>1
  <2>2. CASE n # M
    <3>1. n \in 0..(M - 1) /\ (n # 0 => n - 1 \in 0..(M - 1) /\ n - 1 \in 0..M /\ n - 1 # M)
      BY <1>2, <2>2
    <3>2. G[n] = F[n] /\ (n # 0 => G[n - 1] = F[n - 1])
      BY <3>1, <2>2
    <3>3. F[n] = IF n = 0 THEN [p \in Person |-> p]
                 ELSE [p \in Person |-> f[F[n - 1][p]]]
      BY <1>3, <3>1
    <3> HIDE DEF G
    <3> QED  BY <3>2, <3>3
  <2> QED  BY <2>1, <2>2
<1>5. Solves(G, M)
  BY <1>4
<1> QED  BY <1>5

\* So Forwarded[n] takes a person n steps along merged_into.
LEMMA ForwardedUnfolds ==
  ASSUME TypeOK
  PROVE  /\ Cardinality(Person) \in Nat
         /\ Forwarded[0] = [p \in Person |-> p]
         /\ \A n \in 1..Cardinality(Person) :
              Forwarded[n] = [p \in Person |-> Forward[Forwarded[n - 1][p]]]
         /\ Forward \in [Person -> Person]
<1>1. Cardinality(Person) \in Nat
  BY PersonAssumption, FS_CardinalityType
<1>2. Forward \in [Person -> Person]
  BY DEF TypeOK, Forward
<1> DEFINE Is(F) == F = [n \in 0..Cardinality(Person) |->
                           IF n = 0 THEN [p \in Person |-> p]
                           ELSE [p \in Person |-> Forward[F[n - 1][p]]]]
<1>3. \E F : Is(F)
  <2> HIDE DEF Forward
  <2> QED  BY <1>1, <1>2, ForwardedExists
<1>4. Is(Forwarded)
  <2> Forwarded = CHOOSE F : Is(F)
    BY DEF Forwarded
  <2> HIDE DEF Is
  <2> QED  BY <1>3
<1>5. /\ 0 \in 0..Cardinality(Person)
      /\ \A n \in 1..Cardinality(Person) : n \in 0..Cardinality(Person) /\ n # 0
  BY <1>1
<1>6. \A n \in 0..Cardinality(Person) :
        Forwarded[n] = IF n = 0 THEN [p \in Person |-> p]
                       ELSE [p \in Person |-> Forward[Forwarded[n - 1][p]]]
  BY <1>4
<1> QED  BY <1>1, <1>2, <1>5, <1>6

\* Some order of the persons in which every merge goes up: merged_into has no cycle.
Acyclic ==
  \E rank \in [Person -> Nat] :
    \A p \in Person : merged_into[p] # None => rank[p] < rank[merged_into[p]]

\* As long as the path from p has not ended, it has been going up.
LEMMA PathClimbs ==
  ASSUME TypeOK, NEW rank \in [Person -> Nat], NEW p \in Person,
         \A q \in Person : merged_into[q] # None => rank[q] < rank[merged_into[q]]
  PROVE  \A n \in 0..Cardinality(Person) :
           /\ Forwarded[n][p] \in Person
           /\ merged_into[Forwarded[n][p]] # None =>
                \A m \in 0..n :
                  merged_into[Forwarded[m][p]] # None
                  /\ (m # n => rank[Forwarded[m][p]] < rank[Forwarded[n][p]])
<1> DEFINE N == Cardinality(Person)
           at(n) == Forwarded[n][p]
           Good(n) == /\ at(n) \in Person
                      /\ merged_into[at(n)] # None =>
                           \A m \in 0..n : merged_into[at(m)] # None /\ (m # n => rank[at(m)] < rank[at(n)])
           T == {n \in 0..N : ~Good(n)}
<1>1. /\ N \in Nat
      /\ at(0) = p
      /\ \A n \in 1..N : at(n - 1) \in Person => at(n) = Forward[at(n - 1)]
  <2>1. \A n \in 1..N : Forwarded[n] = [q \in Person |-> Forward[Forwarded[n - 1][q]]]
    BY ForwardedUnfolds
  <2>2. Forwarded[0] = [q \in Person |-> q]
    BY ForwardedUnfolds
  <2>3. N \in Nat
    BY ForwardedUnfolds
  <2>4. at(0) = p
    BY <2>2
  <2>5. ASSUME NEW n \in 1..N, at(n - 1) \in Person
        PROVE  at(n) = Forward[at(n - 1)]
    <3>1. Forwarded[n] = [q \in Person |-> Forward[Forwarded[n - 1][q]]]
      BY <2>1
    <3> DEFINE step == Forwarded[n - 1]
    <3>2. Forwarded[n] = [q \in Person |-> Forward[step[q]]]
      BY <3>1
    <3> HIDE DEF step
    <3>3. Forwarded[n][p] = Forward[step[p]]
      BY <3>2
    <3> QED  BY <3>3 DEF step
  <2> QED  BY <2>3, <2>4, <2>5
<1> HIDE DEF N, at
<1> SUFFICES ASSUME T # {} PROVE FALSE
  BY DEF N, at
<1>2. PICK n \in T : \A m \in T : n <= m
  <2>1. T \in SUBSET Nat
    BY <1>1
  <2> HIDE DEF T
  <2> QED  BY <2>1, SmallestOf
<1>3. n \in 0..N /\ ~Good(n)
  OBVIOUS
<1>4. n # 0
  <2>1. Good(0)
    BY <1>1
  <2> QED  BY <2>1, <1>3
<1>5. Good(n - 1)
  <2>1. n - 1 \in 0..N /\ ~(n <= n - 1)
    BY <1>1, <1>3, <1>4
  <2> QED  BY <2>1, <1>2
<1> DEFINE q == at(n - 1)
<1>6. q \in Person /\ at(n) = Forward[q]
  <2>1. n \in 1..N
    BY <1>1, <1>3, <1>4
  <2> QED  BY <1>1, <1>5, <2>1
<1>7. at(n) = IF merged_into[q] = None THEN q ELSE merged_into[q]
  <2> HIDE DEF q
  <2> QED  BY <1>6 DEF Forward
<1>8. at(n) \in Person
  BY <1>6, <1>7 DEF TypeOK
<1>9. ASSUME merged_into[at(n)] # None, NEW m \in 0..n
      PROVE  merged_into[at(m)] # None /\ (m # n => rank[at(m)] < rank[at(n)])
  <2>1. merged_into[q] # None /\ at(n) = merged_into[q]
    BY <1>7, <1>9
  <2>2. rank[q] < rank[at(n)] /\ rank[q] \in Nat /\ rank[at(n)] \in Nat
    BY <2>1, <1>6, <1>8
  <2>3. CASE m = n
    BY <2>3, <1>9
  <2>4. CASE m # n
    <3>1. m \in 0..n - 1
      BY <2>4, <1>1, <1>3
    <3>2. merged_into[at(m)] # None /\ (m # n - 1 => rank[at(m)] < rank[q])
      <4>1. \A j \in 0..n - 1 : merged_into[at(j)] # None /\ (j # n - 1 => rank[at(j)] < rank[at(n - 1)])
        <5> HIDE DEF T
        <5> QED  BY <2>1, <1>5
      <4> HIDE DEF T, Good
      <4>2. /\ merged_into[at(m)] # None
            /\ m # n - 1 => rank[at(m)] < rank[at(n - 1)]
        BY <3>1, <4>1
      <4> QED  BY <4>2
    <3>3. at(m) \in Person
      <4>1. m \in 0..N /\ ~(n <= m)
        BY <3>1, <1>1, <1>3
      <4> QED  BY <4>1, <1>2
    <3>4. rank[at(m)] \in Nat
      BY <3>3
    <3> HIDE DEF q
    <3>5. m = n - 1 => rank[at(m)] < rank[at(n)]
      BY <2>2 DEF q
    <3> QED  BY <3>2, <3>4, <3>5, <2>2
  <2> QED  BY <2>3, <2>4
<1> QED  BY <1>3, <1>8, <1>9

\* It ends within as many steps as there are persons.
LEMMA FollowEnds ==
  ASSUME TypeOK, Acyclic, NEW p \in Person
  PROVE  Follow[p] \in Person /\ merged_into[Follow[p]] = None
<1> DEFINE N == Cardinality(Person)
           f == [n \in 0..N |-> Forwarded[n][p]]
<1>1. PICK rank \in [Person -> Nat] :
        \A q \in Person : merged_into[q] # None => rank[q] < rank[merged_into[q]]
  BY DEF Acyclic
<1>2. N \in Nat
  BY ForwardedUnfolds
<1>3. \A n \in 0..N :
        /\ Forwarded[n][p] \in Person
        /\ merged_into[Forwarded[n][p]] # None =>
             \A m \in 0..n :
               merged_into[Forwarded[m][p]] # None
               /\ (m # n => rank[Forwarded[m][p]] < rank[Forwarded[n][p]])
  BY <1>1, PathClimbs
<1> SUFFICES ASSUME merged_into[Follow[p]] # None PROVE FALSE
  BY <1>2, <1>3 DEF Follow
<1>4. \A n \in 0..N : merged_into[f[n]] # None
  <2>1. N \in 0..N /\ merged_into[Forwarded[N][p]] # None
    BY <1>2 DEF Follow
  <2>2. \A n \in 0..N : merged_into[Forwarded[n][p]] # None
    <3>1. \A m \in 0..N :
            merged_into[Forwarded[m][p]] # None
            /\ (m # N => rank[Forwarded[m][p]] < rank[Forwarded[N][p]])
      <4> HIDE DEF N
      <4> QED  BY <1>2, <1>3, <2>1
    <3> QED  BY <3>1
  <2> QED  BY <2>2
<1>5. f \in [0..N -> Person]
  BY <1>3
<1>6. IsFiniteSet(0..N) /\ Cardinality(0..N) = N + 1
  BY <1>2, FS_Interval
<1>7. PICK m, n \in 0..N : m # n /\ f[m] = f[n]
  <2>1. Cardinality(Person) < Cardinality(0..N)
    BY <1>2, <1>6
  <2> HIDE DEF f, N
  <2> QED  BY <2>1, <1>5, <1>6, PersonAssumption, FS_PigeonHole
<1>8. \A k \in 0..N : rank[f[k]] \in Nat
  BY <1>5
<1>9. m < n => rank[f[m]] < rank[f[n]]
  BY <1>2, <1>3, <1>4
<1>10. n < m => rank[f[n]] < rank[f[m]]
  BY <1>2, <1>3, <1>4
<1> HIDE DEF f
<1> QED  BY <1>2, <1>7, <1>8, <1>9, <1>10

\* The last step of a path that is not empty is a merge into its end.
LEMMA FollowArrives ==
  ASSUME TypeOK, Acyclic, NEW p \in Person, merged_into[p] # None
  PROVE  \E q \in Person : merged_into[q] = Follow[p]
<1> DEFINE N == Cardinality(Person)
           T == {n \in 0..N : Forwarded[n][p] = Follow[p]}
<1>1. N \in Nat /\ Forward \in [Person -> Person]
  BY ForwardedUnfolds
<1>2. Forwarded[0][p] = p /\ p # Follow[p]
  BY ForwardedUnfolds, FollowEnds
<1>3. PICK n \in T : \A m \in T : n <= m
  <2>1. N \in T
    BY <1>1 DEF Follow
  <2>2. T \in SUBSET Nat
    BY <1>1
  <2> HIDE DEF T
  <2> QED  BY <2>1, <2>2, SmallestOf
<1>4. n \in 1..N /\ Forwarded[n][p] = Follow[p]
  BY <1>1, <1>2
<1> DEFINE q == Forwarded[n - 1][p]
<1>5. q # Follow[p]
  <2>1. n - 1 \in 0..N /\ ~(n <= n - 1)
    BY <1>1, <1>4
  <2> QED  BY <2>1, <1>3
<1>6. q \in Person
  <2>1. n - 1 \in 0..N
    BY <1>1, <1>4
  <2> QED  BY <2>1, PathClimbs DEF Acyclic
<1>7. Follow[p] = Forward[q]
  <2> DEFINE before == Forwarded[n - 1]
  <2>1. Forwarded[n] = [x \in Person |-> Forward[before[x]]]
    BY <1>4, ForwardedUnfolds
  <2> HIDE DEF before
  <2>2. Forwarded[n][p] = Forward[before[p]]
    BY <2>1
  <2> QED  BY <2>2, <1>4 DEF before
<1>8. Follow[p] = IF merged_into[q] = None THEN q ELSE merged_into[q]
  <2> HIDE DEF q
  <2> QED  BY <1>6, <1>7 DEF Forward
<1> QED  BY <1>5, <1>6, <1>8

-----------------------------------------------------------------------------
(* The persons that the standing rows of the log lead back to. *)

\* The standing rows after row l that moved identity i.
LaterMoves(log, l, i) == {m \in DOMAIN log : m > l /\ ~log[m].reversed /\ i \in log[m].moved}

\* The person of i when row l was the newest: the first later row that moved i
\* has noted whom it took i from; without one, i is where it was.
PersonAt(log, now, l, i) ==
  IF LaterMoves(log, l, i) = {} THEN now[i]
  ELSE log[CHOOSE m \in LaterMoves(log, l, i) : \A n \in LaterMoves(log, l, i) : m <= n].absorbed

LEMMA FirstLaterMove ==
  ASSUME NEW log \in Seq(LogRow), NEW now, NEW l \in Nat, NEW i,
         LaterMoves(log, l, i) # {}
  PROVE  \E m \in LaterMoves(log, l, i) :
           /\ \A n \in LaterMoves(log, l, i) : m <= n
           /\ PersonAt(log, now, l, i) = log[m].absorbed
<1> DEFINE T == LaterMoves(log, l, i)
<1>1. T \in SUBSET Nat
  BY DEF LaterMoves
<1>2. \E m \in T : \A n \in T : m <= n
  <2>1. T # {}
    OBVIOUS
  <2> HIDE DEF T
  <2> QED  BY <1>1, <2>1, SmallestOf
<1>3. \E m \in T : /\ \A n \in T : m <= n
                   /\ PersonAt(log, now, l, i) = log[m].absorbed
  <2> DEFINE first == CHOOSE m \in T : \A n \in T : m <= n
  <2>1. first \in T /\ \A n \in T : first <= n
    <3> HIDE DEF T
    <3> QED  BY <1>2
  <2>2. PersonAt(log, now, l, i) = log[first].absorbed
    BY DEF PersonAt
  <2> HIDE DEF first
  <2> QED  BY <2>1, <2>2
<1> QED  BY <1>3

\* Two logs whose later moves begin with the same row agree on whom i was taken from.
LEMMA SameFirstMove ==
  ASSUME NEW log \in Seq(LogRow), NEW now, NEW l \in Nat, NEW i,
         NEW m \in LaterMoves(log, l, i), \A n \in LaterMoves(log, l, i) : m <= n
  PROVE  PersonAt(log, now, l, i) = log[m].absorbed
<1>1. PICK k \in LaterMoves(log, l, i) :
        /\ \A n \in LaterMoves(log, l, i) : k <= n
        /\ PersonAt(log, now, l, i) = log[k].absorbed
  BY FirstLaterMove
<1>2. k <= m /\ m <= k /\ k \in Nat /\ m \in Nat
  BY <1>1 DEF LaterMoves
<1> QED  BY <1>1, <1>2

\* A merge adds a level on top and changes none below.
LEMMA AppendKeepsLevels ==
  ASSUME NEW log \in Seq(LogRow), NEW e \in LogRow, ~e.reversed, NEW old, NEW new,
         \A i \in Identity : IF i \in e.moved THEN old[i] = e.absorbed ELSE new[i] = old[i],
         NEW i \in Identity
  PROVE  /\ \A l \in 0..Len(log) :
              PersonAt(Append(log, e), new, l, i) = PersonAt(log, old, l, i)
         /\ PersonAt(Append(log, e), new, Len(log) + 1, i) = new[i]
<1> DEFINE log2 == Append(log, e)
           n == Len(log) + 1
<1>1. /\ Len(log) \in Nat /\ log2 \in Seq(LogRow)
      /\ DOMAIN log = 1..Len(log) /\ DOMAIN log2 = 1..n
      /\ log2[n] = e /\ \A m \in DOMAIN log : log2[m] = log[m]
  BY LenProperties
<1> HIDE DEF log2
<1>2. LaterMoves(log2, n, i) = {}
  BY <1>1 DEF LaterMoves
<1>3. ASSUME NEW l \in 0..Len(log)
      PROVE  PersonAt(log2, new, l, i) = PersonAt(log, old, l, i)
  <2>1. LaterMoves(log2, l, i) = LaterMoves(log, l, i) \cup (IF i \in e.moved THEN {n} ELSE {})
    BY <1>1 DEF LaterMoves
  <2>2. \A m \in LaterMoves(log, l, i) : m \in DOMAIN log /\ m <= n
    BY <1>1 DEF LaterMoves
  <2>3. CASE LaterMoves(log, l, i) # {}
    <3>1. PICK m \in LaterMoves(log, l, i) :
            /\ \A k \in LaterMoves(log, l, i) : m <= k
            /\ PersonAt(log, old, l, i) = log[m].absorbed
      BY <2>3, FirstLaterMove
    <3>2. m \in LaterMoves(log2, l, i) /\ \A k \in LaterMoves(log2, l, i) : m <= k
      BY <2>1, <2>2, <3>1
    <3>3. PersonAt(log2, new, l, i) = log2[m].absorbed
      BY <1>1, <3>2, SameFirstMove
    <3> QED  BY <1>1, <2>2, <3>1, <3>3
  <2>4. CASE LaterMoves(log, l, i) = {} /\ i \in e.moved
    <3>1. n \in LaterMoves(log2, l, i) /\ \A k \in LaterMoves(log2, l, i) : n <= k
      BY <1>1, <2>1, <2>4
    <3>2. PersonAt(log2, new, l, i) = e.absorbed
      BY <1>1, <3>1, SameFirstMove
    <3> QED  BY <2>4, <3>2 DEF PersonAt
  <2>5. CASE LaterMoves(log, l, i) = {} /\ i \notin e.moved
    BY <2>1, <2>5 DEF PersonAt
  <2> QED  BY <2>3, <2>4, <2>5
<1> QED  BY <1>2, <1>3 DEF PersonAt, log2

\* Undoing the newest standing row goes back to the level below it.
LEMMA UndoGoesBack ==
  ASSUME NEW log \in Seq(LogRow), NEW k \in DOMAIN log, ~log[k].reversed,
         \A m \in DOMAIN log : m > k => log[m].reversed,
         NEW log2, IsUndone(log, k, log2),
         NEW old, NEW new,
         \A i \in Identity : new[i] = IF i \in log[k].moved THEN log[k].absorbed ELSE old[i],
         NEW i \in Identity
  PROVE  /\ \A l \in 0..k - 1 : PersonAt(log2, new, l, i) = PersonAt(log, old, l, i)
         /\ \A l \in k..Len(log) : PersonAt(log2, new, l, i) = PersonAt(log, old, k - 1, i)
<1>1. /\ Len(log) \in Nat /\ DOMAIN log = 1..Len(log) /\ k \in 1..Len(log)
      /\ DOMAIN log2 = DOMAIN log /\ log2[k].reversed
      /\ \A m \in DOMAIN log : /\ log2[m].moved = log[m].moved
                               /\ log2[m].absorbed = log[m].absorbed
                               /\ m # k => log2[m] = log[m]
  BY LenProperties DEF IsUndone
<1>2. log2 \in Seq(LogRow)
  BY DEF IsUndone
<1>3. ASSUME NEW l \in 0..k - 1
      PROVE  PersonAt(log2, new, l, i) = PersonAt(log, old, l, i)
  <2>0. l \in Nat
    BY <1>1
  <2>1. LaterMoves(log, l, i) = LaterMoves(log2, l, i) \cup (IF i \in log[k].moved THEN {k} ELSE {})
    BY <1>1 DEF LaterMoves
  <2>2. \A m \in LaterMoves(log2, l, i) : m \in DOMAIN log /\ m <= k
    BY <1>1 DEF LaterMoves
  <2>3. CASE LaterMoves(log2, l, i) # {}
    <3>1. PICK m \in LaterMoves(log2, l, i) :
            /\ \A j \in LaterMoves(log2, l, i) : m <= j
            /\ PersonAt(log2, new, l, i) = log2[m].absorbed
      BY <1>2, <2>0, <2>3, FirstLaterMove
    <3>2. m \in LaterMoves(log, l, i) /\ \A j \in LaterMoves(log, l, i) : m <= j
      BY <2>1, <2>2, <3>1
    <3>3. PersonAt(log, old, l, i) = log[m].absorbed
      BY <2>0, <3>2, SameFirstMove
    <3>4. log2[m].absorbed = log[m].absorbed
      BY <1>1, <2>2, <3>1
    <3> QED  BY <3>1, <3>3, <3>4
  <2>4. CASE LaterMoves(log2, l, i) = {} /\ i \in log[k].moved
    <3>1. k \in LaterMoves(log, l, i) /\ \A j \in LaterMoves(log, l, i) : k <= j
      BY <1>1, <2>1, <2>4
    <3>2. PersonAt(log, old, l, i) = log[k].absorbed
      BY <2>0, <3>1, SameFirstMove
    <3> QED  BY <2>4, <3>2 DEF PersonAt
  <2>5. CASE LaterMoves(log2, l, i) = {} /\ i \notin log[k].moved
    BY <2>1, <2>5 DEF PersonAt
  <2> QED  BY <2>3, <2>4, <2>5
<1>4. ASSUME NEW l \in k..Len(log)
      PROVE  PersonAt(log2, new, l, i) = new[i]
  <2>1. LaterMoves(log2, l, i) = {}
    BY <1>1 DEF LaterMoves
  <2> QED  BY <2>1 DEF PersonAt
<1>5. PersonAt(log2, new, k - 1, i) = new[i]
  <2>1. LaterMoves(log2, k - 1, i) = {}
    BY <1>1 DEF LaterMoves
  <2> QED  BY <2>1 DEF PersonAt
<1>6. k - 1 \in 0..k - 1
  BY <1>1
<1> QED  BY <1>3, <1>4, <1>5, <1>6

-----------------------------------------------------------------------------
(* What the standing rows of a log say of the clusters, at every level.    *)

Stands(log) == {k \in DOMAIN log : ~log[k].reversed}

\* From the level of a standing merge on, its two identities have one person.
LogTogether(log, now) ==
  \A k \in Stands(log) : \A l \in k..Len(log) :
    /\ PersonAt(log, now, l, log[k].a) # None
    /\ PersonAt(log, now, l, log[k].a) = PersonAt(log, now, l, log[k].b)

\* A standing merge left its first identity at its survivor.
LogOrigin(log, now) ==
  \A k \in Stands(log) : PersonAt(log, now, k, log[k].a) = log[k].survivor

\* merged_into is what the standing folds have made it.
LogForwards(log, into) ==
  /\ \A p \in Person : into[p] # None => \E k \in Stands(log) : log[k].absorbed = p
  /\ \A k \in Stands(log) : log[k].absorbed # None => into[log[k].absorbed] = log[k].survivor
  /\ \A j, k \in Stands(log) : log[j].absorbed # None /\ log[j].absorbed = log[k].absorbed => j = k

\* The identities of person p at level l.
Cohort(log, now, l, p) == {i \in Identity : PersonAt(log, now, l, i) = p}

Crosses(e, S) == {e.a, e.b} \cap S # {} /\ ~({e.a, e.b} \subseteq S)

\* At no level does a cluster fall into two parts that no standing merge of that
\* level connects.
LogConnects(log, now) ==
  \A l \in 0..Len(log) : \A p \in Person : \A S \in SUBSET Cohort(log, now, l, p) :
    S # {} /\ S # Cohort(log, now, l, p) => \E k \in Stands(log) : k <= l /\ Crosses(log[k], S)

\* What a merge logged as e does to the persons of the identities and to merged_into.
MergedAs(e, now, now2, into, into2) ==
  /\ e \in LogRow /\ ~e.reversed
  /\ \A i \in Identity : IF i \in e.moved THEN now[i] = e.absorbed /\ now2[i] = e.survivor
                         ELSE now2[i] = now[i]
  /\ now2[e.a] = e.survivor /\ now2[e.b] = e.survivor
  /\ \A i \in Identity : now[i] = e.survivor => now[e.a] = e.survivor \/ now[e.b] = e.survivor
  /\ e.absorbed = None => e.moved \subseteq {e.a, e.b} /\ into2 = into
  /\ e.absorbed # None => /\ e.b \in e.moved
                          /\ \A i \in Identity : now[i] = e.absorbed => i \in e.moved
                          /\ into[e.absorbed] = None /\ into[e.survivor] = None
                          /\ e.absorbed # e.survivor
                          /\ into2 = [into EXCEPT ![e.absorbed] = e.survivor]

\* Every level below the new one is as it was, and the new one is where everybody is now.
LEMMA MergeAddsLevel ==
  ASSUME NEW log \in Seq(LogRow), NEW e, NEW now, NEW now2, NEW into, NEW into2,
         MergedAs(e, now, now2, into, into2)
  PROVE  LET log2 == Append(log, e)
         IN  /\ log2 \in Seq(LogRow) /\ Len(log2) = Len(log) + 1 /\ log2[Len(log) + 1] = e
             /\ \A m \in DOMAIN log : log2[m] = log[m]
             /\ Stands(log2) = Stands(log) \cup {Len(log) + 1}
             /\ \A i \in Identity, l \in 0..Len(log) :
                  PersonAt(log2, now2, l, i) = PersonAt(log, now, l, i)
             /\ \A i \in Identity : PersonAt(log2, now2, Len(log) + 1, i) = now2[i]
             /\ \A i \in Identity : PersonAt(log, now, Len(log), i) = now[i]
<1> DEFINE log2 == Append(log, e)
<1>1. e \in LogRow /\ ~e.reversed
  BY DEF MergedAs
<1>2. /\ log2 \in Seq(LogRow) /\ Len(log2) = Len(log) + 1 /\ log2[Len(log) + 1] = e
      /\ \A m \in DOMAIN log : log2[m] = log[m]
      /\ DOMAIN log = 1..Len(log) /\ DOMAIN log2 = 1..(Len(log) + 1) /\ Len(log) \in Nat
  BY <1>1, LenProperties
<1>3. Stands(log2) = Stands(log) \cup {Len(log) + 1}
  <2> HIDE DEF log2
  <2> QED  BY <1>1, <1>2 DEF Stands
<1>4. \A i \in Identity : IF i \in e.moved THEN now[i] = e.absorbed ELSE now2[i] = now[i]
  BY DEF MergedAs
<1>5. \A i \in Identity :
        /\ \A l \in 0..Len(log) : PersonAt(log2, now2, l, i) = PersonAt(log, now, l, i)
        /\ PersonAt(log2, now2, Len(log) + 1, i) = now2[i]
  BY <1>1, <1>4, AppendKeepsLevels
<1>6. \A i \in Identity : PersonAt(log, now, Len(log), i) = now[i]
  <2>1. \A i \in Identity : LaterMoves(log, Len(log), i) = {}
    BY <1>2 DEF LaterMoves
  <2> QED  BY <2>1 DEF PersonAt
<1> QED  BY <1>2, <1>3, <1>5, <1>6

\* A merge keeps whom it does not move, and moves a person's identities all at once.
LEMMA MergeKeepsPairs ==
  ASSUME NEW e, NEW now, NEW now2, NEW into, NEW into2, MergedAs(e, now, now2, into, into2),
         NEW i \in Identity, NEW j \in Identity, now[i] # None, now[i] = now[j]
  PROVE  now2[i] # None /\ now2[i] = now2[j]
<1>1. e.survivor # None
  BY KeyAssumption DEF MergedAs, LogRow, Key
<1>2. i \in e.moved <=> j \in e.moved
  BY DEF MergedAs
<1> QED  BY <1>1, <1>2 DEF MergedAs

LEMMA MergeKeepsTogether ==
  ASSUME NEW log \in Seq(LogRow), NEW e, NEW now, NEW now2, NEW into, NEW into2,
         MergedAs(e, now, now2, into, into2), LogTogether(log, now), LogOrigin(log, now)
  PROVE  LogTogether(Append(log, e), now2) /\ LogOrigin(Append(log, e), now2)
<1> DEFINE log2 == Append(log, e)
           n == Len(log) + 1
<1>1. /\ Len(log2) = n /\ log2[n] = e /\ \A m \in DOMAIN log : log2[m] = log[m]
      /\ Stands(log2) = Stands(log) \cup {n}
      /\ \A i \in Identity, l \in 0..Len(log) :
           PersonAt(log2, now2, l, i) = PersonAt(log, now, l, i)
      /\ \A i \in Identity : PersonAt(log2, now2, n, i) = now2[i]
      /\ \A i \in Identity : PersonAt(log, now, Len(log), i) = now[i]
  BY MergeAddsLevel
<1>2. /\ e.a \in Identity /\ e.b \in Identity
      /\ e.survivor # None /\ now2[e.a] = e.survivor /\ now2[e.b] = e.survivor
  BY KeyAssumption DEF MergedAs, LogRow, Key
<1>3. /\ Len(log) \in Nat
      /\ \A k \in Stands(log) : /\ k \in DOMAIN log /\ k \in 1..Len(log)
                                /\ log[k].a \in Identity /\ log[k].b \in Identity
  <2>1. \A k \in DOMAIN log : log[k] \in LogRow
    BY ElementOfSeq, LenProperties
  <2> QED  BY <2>1, LenProperties DEF Stands, LogRow
<1> HIDE DEF log2
<1>4. ASSUME NEW k \in Stands(log), NEW l \in k..n
      PROVE  /\ PersonAt(log2, now2, l, log2[k].a) # None
             /\ PersonAt(log2, now2, l, log2[k].a) = PersonAt(log2, now2, l, log2[k].b)
  <2> DEFINE i == log[k].a
             j == log[k].b
  <2>1. i \in Identity /\ j \in Identity /\ log2[k] = log[k]
    BY <1>1, <1>3
  <2>2. \A m \in k..Len(log) : PersonAt(log, now, m, i) # None
                               /\ PersonAt(log, now, m, i) = PersonAt(log, now, m, j)
    BY DEF LogTogether
  <2> HIDE DEF i, j
  <2>3. CASE l \in 0..Len(log)
    <3>1. l \in k..Len(log)
      BY <1>3, <2>3
    <3>2. PersonAt(log2, now2, l, i) # None /\ PersonAt(log2, now2, l, i) = PersonAt(log2, now2, l, j)
      BY <1>1, <2>1, <2>2, <2>3, <3>1
    <3> QED  BY <2>1, <3>2 DEF i, j
  <2>4. CASE l = n
    <3>1. Len(log) \in k..Len(log)
      BY <1>3
    <3>2. now[i] # None /\ now[i] = now[j]
      BY <1>1, <2>1, <2>2, <3>1
    <3>3. now2[i] # None /\ now2[i] = now2[j]
      BY <2>1, <3>2, MergeKeepsPairs
    <3>4. PersonAt(log2, now2, l, i) # None /\ PersonAt(log2, now2, l, i) = PersonAt(log2, now2, l, j)
      BY <1>1, <2>1, <2>4, <3>3
    <3> QED  BY <2>1, <3>4 DEF i, j
  <2> QED  BY <1>3, <2>3, <2>4
<1>5. PersonAt(log2, now2, n, log2[n].a) = e.survivor /\ PersonAt(log2, now2, n, log2[n].b) = e.survivor
  BY <1>1, <1>2
<1>6. LogTogether(log2, now2)
  <2>1. n..n = {n}
    BY <1>3
  <2> QED  BY <1>1, <1>2, <1>4, <1>5, <2>1 DEF LogTogether
<1>7. ASSUME NEW k \in Stands(log)
      PROVE  PersonAt(log2, now2, k, log2[k].a) = log2[k].survivor
  BY <1>1, <1>3 DEF LogOrigin
<1>8. LogOrigin(log2, now2)
  BY <1>1, <1>5, <1>7 DEF LogOrigin
<1> QED  BY <1>6, <1>8 DEF log2

\* A fold absorbs a person that no standing merge has absorbed.
LEMMA MergeKeepsForwards ==
  ASSUME NEW log \in Seq(LogRow), NEW e, NEW now, NEW now2, NEW into2,
         NEW into \in [Person -> Person \cup {None}],
         MergedAs(e, now, now2, into, into2), LogForwards(log, into)
  PROVE  LogForwards(Append(log, e), into2)
<1> DEFINE log2 == Append(log, e)
           n == Len(log) + 1
<1>1. /\ log2[n] = e /\ \A m \in DOMAIN log : log2[m] = log[m]
      /\ Stands(log2) = Stands(log) \cup {n}
  BY MergeAddsLevel
<1>2. \A k \in Stands(log) : /\ k \in DOMAIN log /\ log[k].survivor \in Person
                             /\ log[k].absorbed \in Person \cup {None}
  <2>1. \A k \in DOMAIN log : log[k] \in LogRow
    BY ElementOfSeq, LenProperties
  <2> QED  BY <2>1 DEF Stands, LogRow
<1>3. None \notin Person /\ e.survivor \in Person /\ e.absorbed \in Person \cup {None}
  BY KeyAssumption DEF MergedAs, LogRow, Key
<1> HIDE DEF log2, n
<1>4. CASE e.absorbed = None
  <2>1. into2 = into
    BY <1>4 DEF MergedAs
  <2>2. \A p \in Person : into2[p] # None => \E k \in Stands(log2) : log2[k].absorbed = p
    BY <1>1, <1>2, <2>1 DEF LogForwards
  <2>3. \A k \in Stands(log2) : log2[k].absorbed # None => into2[log2[k].absorbed] = log2[k].survivor
    BY <1>1, <1>2, <1>4, <2>1 DEF LogForwards
  <2>4. \A j, k \in Stands(log2) :
          log2[j].absorbed # None /\ log2[j].absorbed = log2[k].absorbed => j = k
    BY <1>1, <1>2, <1>4 DEF LogForwards
  <2> QED  BY <2>2, <2>3, <2>4 DEF LogForwards, log2
<1>5. CASE e.absorbed # None
  <2>1. into[e.absorbed] = None /\ into2 = [into EXCEPT ![e.absorbed] = e.survivor]
    BY <1>5 DEF MergedAs
  <2>2. \A k \in Stands(log) : log[k].absorbed # e.absorbed
    BY <1>2, <1>3, <1>5, <2>1 DEF LogForwards
  <2>3. /\ into2[e.absorbed] = e.survivor
        /\ \A p \in Person : p # e.absorbed => into2[p] = into[p]
    BY <1>3, <1>5, <2>1
  <2>4. \A p \in Person : into2[p] # None => \E k \in Stands(log2) : log2[k].absorbed = p
    BY <1>1, <1>2, <2>3 DEF LogForwards
  <2>5. \A k \in Stands(log2) : log2[k].absorbed # None => into2[log2[k].absorbed] = log2[k].survivor
    BY <1>1, <1>2, <2>2, <2>3 DEF LogForwards
  <2>6. \A j, k \in Stands(log2) :
          log2[j].absorbed # None /\ log2[j].absorbed = log2[k].absorbed => j = k
    BY <1>1, <1>2, <2>2 DEF LogForwards
  <2> QED  BY <2>4, <2>5, <2>6 DEF LogForwards, log2
<1> QED  BY <1>4, <1>5

\* A merge connects what it puts together.
LEMMA MergeKeepsConnects ==
  ASSUME NEW log \in Seq(LogRow), NEW e, NEW now, NEW now2, NEW into, NEW into2,
         MergedAs(e, now, now2, into, into2), LogTogether(log, now), LogConnects(log, now)
  PROVE  LogConnects(Append(log, e), now2)
<1> DEFINE log2 == Append(log, e)
           n == Len(log) + 1
           C(p) == {i \in Identity : now[i] = p}
<1>1. /\ Len(log2) = n /\ log2[n] = e /\ \A m \in DOMAIN log : log2[m] = log[m]
      /\ Stands(log2) = Stands(log) \cup {n}
      /\ \A i \in Identity, l \in 0..Len(log) :
           PersonAt(log2, now2, l, i) = PersonAt(log, now, l, i)
      /\ \A i \in Identity : PersonAt(log2, now2, n, i) = now2[i]
      /\ \A i \in Identity : PersonAt(log, now, Len(log), i) = now[i]
  BY MergeAddsLevel
<1>2. /\ e.a \in Identity /\ e.b \in Identity /\ e.survivor \in Person
      /\ now2[e.a] = e.survivor /\ now2[e.b] = e.survivor
      /\ e.absorbed \in Person \cup {None} /\ None \notin Person
      /\ e.moved \subseteq Identity
  BY KeyAssumption DEF MergedAs, LogRow, Key
<1>3. /\ Len(log) \in Nat
      /\ \A k \in Stands(log) : /\ k \in DOMAIN log /\ k \in 1..Len(log)
                                /\ log[k].a \in Identity /\ log[k].b \in Identity
  <2>1. \A k \in DOMAIN log : log[k] \in LogRow
    BY ElementOfSeq, LenProperties
  <2> QED  BY <2>1, LenProperties DEF Stands, LogRow
<1> HIDE DEF log2
<1>4. \A p \in Person : /\ Cohort(log, now, Len(log), p) = C(p)
                        /\ Cohort(log2, now2, n, p) = {i \in Identity : now2[i] = p}
  BY <1>1 DEF Cohort
<1>5. ASSUME NEW p \in Person, NEW S \in SUBSET Identity, S \cap C(p) # {}, S \cap C(p) # C(p)
      PROVE  \E k \in Stands(log2) : k <= n /\ Crosses(log2[k], S)
  <2>1. PICK k \in Stands(log) : k <= Len(log) /\ Crosses(log[k], S \cap C(p))
    <3>1. Len(log) \in 0..Len(log) /\ Cohort(log, now, Len(log), p) = C(p)
      BY <1>3, <1>4
    <3> HIDE DEF C
    <3> QED  BY <1>5, <3>1 DEF LogConnects
  <2>2. Len(log) \in k..Len(log)
    BY <1>3, <2>1
  <2>3. now[log[k].a] = now[log[k].b]
    BY <1>1, <1>3, <2>2 DEF LogTogether
  <2>4. Crosses(log[k], S)
    <3>1. log[k].a \in C(p) <=> log[k].b \in C(p)
      BY <1>3, <2>3
    <3> HIDE DEF C
    <3> QED  BY <2>1, <3>1 DEF Crosses
  <2> QED  BY <1>1, <1>3, <2>1, <2>4
<1>6. ASSUME NEW p \in Person, NEW S \in SUBSET Cohort(log2, now2, n, p),
             S # {}, S # Cohort(log2, now2, n, p)
      PROVE  \E k \in Stands(log2) : k <= n /\ Crosses(log2[k], S)
  <2> DEFINE M2 == Cohort(log2, now2, n, p)
  <2>0. S \subseteq Identity /\ \A i \in Identity : i \in M2 <=> now2[i] = p
    BY <1>4
  <2>1. \A i \in Identity : IF i \in e.moved THEN now[i] = e.absorbed /\ now2[i] = e.survivor
                            ELSE now2[i] = now[i]
    BY DEF MergedAs
  <2> HIDE DEF M2
  <2>2. CASE p # e.survivor
    <3>1. \A i \in S : now[i] = p
      BY <1>2, <2>0, <2>1, <2>2, <1>6 DEF M2
    <3>2. M2 = C(p)
      <4>1. p # e.absorbed
        <5> SUFFICES ASSUME p = e.absorbed PROVE FALSE
          OBVIOUS
        <5>1. e.absorbed # None
          BY <1>2
        <5>2. \A i \in Identity : now[i] = e.absorbed => i \in e.moved
          BY <5>1 DEF MergedAs
        <5> QED  BY <2>0, <2>1, <2>2, <3>1, <5>2, <1>6 DEF M2
      <4>2. \A i \in Identity : now2[i] = p <=> now[i] = p
        BY <2>1, <2>2, <4>1
      <4> QED  BY <1>4, <4>2 DEF M2
    <3>3. S \cap C(p) = S
      BY <3>2, <1>6 DEF M2
    <3> QED  BY <1>5, <1>6, <2>0, <3>2, <3>3 DEF M2
  <2>3. CASE p = e.survivor
    <3> SUFFICES ASSUME ~Crosses(e, S), \A q \in Person : S \cap C(q) = {} \/ C(q) \subseteq S
                 PROVE  FALSE
      BY <1>1, <1>3, <1>5, <2>0
    <3>1. {e.a, e.b} \cap S = {} \/ {e.a, e.b} \subseteq S
      BY DEF Crosses
    <3>2. \A i \in M2 : i \in C(p) \/ i \in e.moved
      BY <2>0, <2>1, <2>3 DEF M2, Cohort
    <3>3. C(p) = {} \/ e.a \in C(p) \/ e.b \in C(p)
      <4>1. \A i \in Identity : now[i] = e.survivor => now[e.a] = e.survivor \/ now[e.b] = e.survivor
        BY DEF MergedAs
      <4> QED  BY <1>2, <1>4, <2>3, <4>1
    <3>4. C(p) \cap S = {} \/ C(p) \subseteq S
      OBVIOUS
    <3>5. (e.moved \subseteq {e.a, e.b}) \/ (e.b \in e.moved /\ (e.moved \cap S = {} \/ e.moved \subseteq S))
      <4>1. CASE e.absorbed = None
        BY <4>1 DEF MergedAs
      <4>2. CASE e.absorbed # None
        <5>1. e.b \in e.moved /\ \A i \in Identity : now[i] = e.absorbed => i \in e.moved
          BY <4>2 DEF MergedAs
        <5>2. e.moved = C(e.absorbed)
          BY <1>2, <1>4, <2>1, <5>1
        <5>3. e.absorbed \in Person
          BY <1>2, <4>2
        <5> HIDE DEF C
        <5> QED  BY <5>1, <5>2, <5>3
      <4> QED  BY <4>1, <4>2
    <3>6. M2 \subseteq S \/ S = {}
      <4> HIDE DEF C
      <4> QED  BY <1>6, <3>1, <3>2, <3>3, <3>4, <3>5 DEF M2
    <3> QED  BY <1>6, <3>6 DEF M2
  <2> QED  BY <2>2, <2>3
<1>7. ASSUME NEW l \in 0..Len(log), NEW p \in Person, NEW S \in SUBSET Cohort(log2, now2, l, p),
             S # {}, S # Cohort(log2, now2, l, p)
      PROVE  \E k \in Stands(log2) : k <= l /\ Crosses(log2[k], S)
  <2>1. Cohort(log2, now2, l, p) = Cohort(log, now, l, p)
    BY <1>1 DEF Cohort
  <2>2. \E k \in Stands(log) : k <= l /\ Crosses(log[k], S)
    BY <1>7, <2>1 DEF LogConnects
  <2> QED  BY <1>1, <1>3, <2>2
<1>8. \A l \in 0..n : l = n \/ l \in 0..Len(log)
  BY <1>3
<1>9. LogConnects(log2, now2)
  BY <1>1, <1>6, <1>7, <1>8 DEF LogConnects
<1> QED  BY <1>9 DEF log2

\* Undoing the newest standing merge takes its level away and leaves the others.
LEMMA UndoKeepsClusters ==
  ASSUME NEW log \in Seq(LogRow), NEW k \in Stands(log), \A m \in Stands(log) : m <= k,
         NEW log2, IsUndone(log, k, log2), NEW now, NEW now2,
         \A i \in Identity : now2[i] = IF i \in log[k].moved THEN log[k].absorbed ELSE now[i]
  PROVE  /\ LogTogether(log, now) => LogTogether(log2, now2)
         /\ LogOrigin(log, now) => LogOrigin(log2, now2)
         /\ LogConnects(log, now) => LogConnects(log2, now2)
<1>1. /\ DOMAIN log = 1..Len(log) /\ Len(log) \in Nat /\ k \in 1..Len(log)
      /\ k - 1 \in 0..Len(log)
  BY LenProperties DEF Stands
<1>2. /\ Len(log2) = Len(log) /\ DOMAIN log2 = DOMAIN log /\ log2[k].reversed
      /\ \A m \in DOMAIN log : m # k => log2[m] = log[m]
  BY DEF IsUndone
<1>3. Stands(log2) = Stands(log) \ {k} /\ \A j \in Stands(log2) : log2[j] = log[j]
  BY <1>2 DEF Stands
<1>4. \A j \in Stands(log2) : /\ j \in 1..k - 1 /\ j \in Stands(log)
                              /\ log[j].a \in Identity /\ log[j].b \in Identity
  <2>1. \A j \in DOMAIN log : log[j] \in LogRow
    BY ElementOfSeq, LenProperties
  <2> QED  BY <1>1, <1>3, <2>1 DEF Stands, LogRow
<1>5. \A i \in Identity :
        /\ \A l \in 0..k - 1 : PersonAt(log2, now2, l, i) = PersonAt(log, now, l, i)
        /\ \A l \in k..Len(log) : PersonAt(log2, now2, l, i) = PersonAt(log, now, k - 1, i)
  <2>1. \A m \in DOMAIN log : m > k => log[m].reversed
    BY <1>1 DEF Stands
  <2>2. k \in DOMAIN log /\ ~log[k].reversed
    BY DEF Stands
  <2> QED  BY <2>1, <2>2, UndoGoesBack
\* The level of the log before that a level of the log after shows.
<1> DEFINE down(l) == IF l < k THEN l ELSE k - 1
<1>6. \A l \in 0..Len(log) :
        /\ down(l) \in 0..Len(log) /\ down(l) <= l
        /\ \A j \in 1..k - 1 : j <= l => j <= down(l)
        /\ \A i \in Identity : PersonAt(log2, now2, l, i) = PersonAt(log, now, down(l), i)
  BY <1>1, <1>5
<1> HIDE DEF down
<1>7. LogTogether(log, now) => LogTogether(log2, now2)
  <2> SUFFICES ASSUME LogTogether(log, now), NEW j \in Stands(log2), NEW l \in j..Len(log2)
               PROVE  /\ PersonAt(log2, now2, l, log2[j].a) # None
                      /\ PersonAt(log2, now2, l, log2[j].a) = PersonAt(log2, now2, l, log2[j].b)
    BY DEF LogTogether
  <2>1. l \in 0..Len(log) /\ down(l) \in j..Len(log)
    BY <1>1, <1>2, <1>4, <1>6
  <2>2. /\ PersonAt(log, now, down(l), log[j].a) # None
        /\ PersonAt(log, now, down(l), log[j].a) = PersonAt(log, now, down(l), log[j].b)
    BY <1>4, <2>1 DEF LogTogether
  <2> QED  BY <1>3, <1>4, <1>6, <2>1, <2>2
<1>8. LogOrigin(log, now) => LogOrigin(log2, now2)
  <2> SUFFICES ASSUME LogOrigin(log, now), NEW j \in Stands(log2)
               PROVE  PersonAt(log2, now2, j, log2[j].a) = log2[j].survivor
    BY DEF LogOrigin
  <2>1. j \in 0..k - 1
    BY <1>4
  <2> QED  BY <1>3, <1>4, <1>5, <2>1 DEF LogOrigin
<1>9. LogConnects(log, now) => LogConnects(log2, now2)
  <2> SUFFICES ASSUME LogConnects(log, now), NEW l \in 0..Len(log2), NEW p \in Person,
                      NEW S \in SUBSET Cohort(log2, now2, l, p),
                      S # {}, S # Cohort(log2, now2, l, p)
               PROVE  \E j \in Stands(log2) : j <= l /\ Crosses(log2[j], S)
    BY DEF LogConnects
  <2>1. l \in 0..Len(log) /\ down(l) \in 0..Len(log)
    BY <1>2, <1>6
  <2>2. Cohort(log2, now2, l, p) = Cohort(log, now, down(l), p)
    BY <1>6, <2>1 DEF Cohort
  <2>3. PICK j \in Stands(log) : j <= down(l) /\ Crosses(log[j], S)
    BY <2>1, <2>2 DEF LogConnects
  <2>4. j # k /\ j <= l
    <3>1. ~(k <= down(l)) /\ down(l) <= l /\ down(l) \in 0..Len(log)
      BY <1>1, <1>6, <2>1 DEF down
    <3>2. j \in Nat /\ l \in Nat
      BY <1>1, <2>1 DEF Stands
    <3> QED  BY <2>3, <3>1, <3>2
  <2> QED  BY <1>3, <2>3, <2>4
<1> QED  BY <1>7, <1>8, <1>9

LEMMA UndoKeepsForwards ==
  ASSUME NEW log \in Seq(LogRow), NEW k \in Stands(log),
         NEW log2, IsUndone(log, k, log2), NEW into, NEW into2,
         \A p \in Person : into2[p] = IF p = log[k].absorbed THEN None ELSE into[p],
         LogForwards(log, into)
  PROVE  LogForwards(log2, into2)
<1> DEFINE gone == log[k].absorbed
<1>1. Stands(log2) = Stands(log) \ {k} /\ \A j \in Stands(log2) : log2[j] = log[j]
  BY DEF IsUndone, Stands
<1>2. /\ gone \in Person \cup {None}
      /\ \A j \in Stands(log) : log[j].absorbed \in Person \cup {None}
  <2>1. \A j \in DOMAIN log : log[j] \in LogRow
    BY ElementOfSeq, LenProperties
  <2> QED  BY <2>1 DEF Stands, LogRow
<1>3. \A p \in Person : into2[p] = IF p = gone THEN None ELSE into[p]
  OBVIOUS
<1>4. \A j \in Stands(log2) : log[j].absorbed # None => log[j].absorbed # gone
  BY <1>1 DEF LogForwards
<1> HIDE DEF gone
<1>5. \A p \in Person : into2[p] # None => \E j \in Stands(log2) : log2[j].absorbed = p
  BY <1>1, <1>3 DEF LogForwards, gone
<1>6. \A j \in Stands(log2) : log2[j].absorbed # None => into2[log2[j].absorbed] = log2[j].survivor
  BY <1>1, <1>2, <1>3, <1>4 DEF LogForwards
<1>7. \A i, j \in Stands(log2) :
        log2[i].absorbed # None /\ log2[i].absorbed = log2[j].absorbed => i = j
  BY <1>1 DEF LogForwards
<1> QED  BY <1>5, <1>6, <1>7 DEF LogForwards

\* A handle added by hand moves nobody whom a standing merge has put together.
LEMMA HandleKeepsTogether ==
  ASSUME NEW log \in Seq(LogRow), NEW now, NEW now2,
         \A k \in Stands(log) : /\ now[log[k].a] # None => now2[log[k].a] = now[log[k].a]
                                /\ now[log[k].b] # None => now2[log[k].b] = now[log[k].b]
  PROVE  /\ LogTogether(log, now) => LogTogether(log, now2)
         /\ LogTogether(log, now) /\ LogOrigin(log, now) => LogOrigin(log, now2)
<1>1. ASSUME NEW k \in Stands(log), NEW l, NEW i \in {log[k].a, log[k].b},
             PersonAt(log, now, l, i) # None
      PROVE  PersonAt(log, now2, l, i) = PersonAt(log, now, l, i)
  BY <1>1 DEF PersonAt
<1>2. LogTogether(log, now) => LogTogether(log, now2)
  <2> SUFFICES ASSUME LogTogether(log, now), NEW k \in Stands(log), NEW l \in k..Len(log)
               PROVE  /\ PersonAt(log, now2, l, log[k].a) # None
                      /\ PersonAt(log, now2, l, log[k].a) = PersonAt(log, now2, l, log[k].b)
    BY DEF LogTogether
  <2>1. /\ PersonAt(log, now, l, log[k].a) # None
        /\ PersonAt(log, now, l, log[k].a) = PersonAt(log, now, l, log[k].b)
    BY DEF LogTogether
  <2> QED  BY <1>1, <2>1
<1>3. LogTogether(log, now) /\ LogOrigin(log, now) => LogOrigin(log, now2)
  <2> SUFFICES ASSUME LogTogether(log, now), LogOrigin(log, now), NEW k \in Stands(log)
               PROVE  PersonAt(log, now2, k, log[k].a) = log[k].survivor
    BY DEF LogOrigin
  <2>1. k \in k..Len(log)
    BY LenProperties DEF Stands
  <2>2. /\ PersonAt(log, now, k, log[k].a) # None
        /\ PersonAt(log, now, k, log[k].a) = log[k].survivor
    BY <2>1 DEF LogTogether, LogOrigin
  <2> QED  BY <1>1, <2>2
<1> QED  BY <1>2, <1>3

-----------------------------------------------------------------------------
(* The invariant of the specification. *)

\* The identities of a row of the log have rows of their own.
RowsPresent ==
  \A k \in DOMAIN merge_log : merge_log[k].a \in present /\ merge_log[k].b \in present

ClustersFollow ==
  /\ LogTogether(merge_log, person_id)
  /\ LogOrigin(merge_log, person_id)
  /\ LogForwards(merge_log, merged_into)
  /\ HandAdded = {} => LogConnects(merge_log, person_id)

\* The inductive invariant.
LInv ==
  /\ KInv
  /\ RowsPresent
  /\ Acyclic
  /\ undos = "newest_first" => ClustersFollow

\* A step that touches neither persons nor the log.
Quiet ==
  /\ UNCHANGED <<person_id, merged_into, merge_log, undos>>
  /\ present \subseteq present'

LEMMA StepShapes ==
  ASSUME KInv, [Next]_vars
  PROVE  \/ Merges
         \/ \E k \in DOMAIN merge_log : undo_merge(k)
         \/ \E rep \in present, i \in (Outlook \cup WhatsApp) \ present : add_contact_handle(rep, i)
         \/ Quiet
<1>1. CASE Merging
  BY <1>1, MergingMerges DEF KInv, IInv, CInv
<1>2. ASSUME NEW a, NEW b, NEW decision, NEW names, apply_merge(a, b, decision, names)
      PROVE  Merging
  <2>1. \E e : merge_log' = Append(merge_log, e)
    BY <1>2 DEF apply_merge
  <2> QED  BY <2>1 DEF Merging, KInv, IInv, TypeOK
<1>3. ASSUME NEW a, NEW b, NEW method, NEW blocked, NEW names,
             propose_and_maybe_confirm(a, b, method, blocked, names), ~Merging
      PROVE  UNCHANGED <<person_id, merged_into, merge_log, undos>>
  BY <1>2, <1>3 DEF propose_and_maybe_confirm, person_vars
<1>4. CASE Resolution /\ ~Merging
  BY <1>3, <1>4 DEF Resolution, rule_exact_email_match, rule_contact_bridge,
     rule_signature_phone, rule_outlook_dedupe, rule_linkedin_correlation,
     Queue, Skip, person_vars, Quiet
<1>5. CASE Review /\ ~Merging
  BY <1>2, <1>5 DEF Review, resolution_candidate_confirm, resolution_candidate_reject,
     link_contact, identity_vars, person_vars, Quiet
<1>6. CASE Panel
  BY <1>6 DEF Panel, update_contact_name, person_vars, Quiet
<1>7. CASE Inbox \/ Upsert \/ Briefs \/ UNCHANGED vars
  BY <1>7 DEF Inbox, Upsert, Briefs, hide_contact, unhide_contact, UpsertIdentity,
     person_keys_for_identities, BeginRefresh, StoreBrief, StorageFailed, vars,
     identity_vars, person_vars, Quiet
<1> QED  BY <1>1, <1>4, <1>5, <1>6, <1>7 DEF Next

LEMMA MergesAsLogged ==
  ASSUME KInv, [Next]_vars, Merges
  PROVE  \E e : /\ merge_log' = Append(merge_log, e)
                /\ MergedAs(e, person_id, person_id', merged_into, merged_into')
                /\ e.a \in present /\ e.b \in present' /\ present \subseteq present'
                /\ undos' = undos
<1>1. PICK a \in Identity, b \in Identity, decision \in Decision,
           names \in [Identity -> AnyName] :
        /\ a \in present /\ b \in present' /\ present \subseteq present'
        /\ apply_merge(a, b, decision, names)
  BY DEF Merges
<1>2. PICK survivor \in Survivors(a, b) :
        LET moved == moved_identities(a, b, survivor)
            now   == Members(survivor) \cup moved \cup {a, b}
        IN  /\ person_id' = [i \in Identity |-> IF i \in now THEN survivor ELSE person_id[i]]
            /\ merged_into' = IF Folds(a, b)
                              THEN [merged_into EXCEPT ![person_id[b]] = survivor]
                              ELSE merged_into
            /\ merge_log' = Append(merge_log,
                 [a |-> a, b |-> b, survivor |-> survivor,
                  absorbed |-> IF Folds(a, b) THEN person_id[b] ELSE None,
                  moved |-> moved, prev_name |-> person_name[survivor],
                  decision |-> decision, reversed |-> FALSE])
            /\ undos' = undos
  BY <1>1 DEF apply_merge
<1> DEFINE moved == moved_identities(a, b, survivor)
           pa == person_id[a]
           pb == person_id[b]
           e == [a |-> a, b |-> b, survivor |-> survivor,
                 absorbed |-> IF Folds(a, b) THEN pb ELSE None,
                 moved |-> moved, prev_name |-> person_name[survivor],
                 decision |-> decision, reversed |-> FALSE]
<1>3. /\ person_id \in [Identity -> Person \cup {None}] /\ merge_log \in Seq(LogRow)
      /\ merged_into \in [Person -> Person \cup {None}]
      /\ survivor \in Person /\ None \notin Person /\ None \notin Identity
      /\ Identity \cap Person = {}
  BY KeyAssumption DEF KInv, IInv, TypeOK, Survivors, Key
<1>4. merge_log' = Append(merge_log, e)
  BY <1>2
<1>5. e \in LogRow
  <2>1. merge_log' \in Seq(LogRow)
    BY NextInvariant DEF KInv, IInv, TypeOK
  <2> HIDE DEF e
  <2>2. Len(merge_log) + 1 \in DOMAIN merge_log' /\ merge_log'[Len(merge_log) + 1] = e
    BY <1>3, <1>4
  <2> QED  BY <2>1, <2>2, ElementOfSeq, LenProperties
<1>6. /\ e.a = a /\ e.b = b /\ e.survivor = survivor /\ e.moved = moved /\ ~e.reversed
      /\ e.absorbed = IF Folds(a, b) THEN pb ELSE None
  OBVIOUS
<1> HIDE DEF e
<1>7. CASE Folds(a, b)
  <2>1. pa # None /\ pb # None /\ pa # pb /\ survivor = pa
    BY <1>2, <1>7 DEF Folds, Survivors
  <2>2. moved = {i \in Identity : person_id[i] = pb}
    BY <1>3, <1>7, <2>1 DEF moved_identities, Members, ContactKey
  <2>3. Members(survivor) = {i \in Identity : person_id[i] = pa}
    BY <1>3, <2>1 DEF Members, ContactKey
  <2>4. \A i \in Identity : person_id'[i] = IF person_id[i] \in {pa, pb} THEN pa ELSE person_id[i]
    BY <1>2, <2>1, <2>2, <2>3
  <2>5. merged_into[pa] = None /\ merged_into[pb] = None
    BY <2>1 DEF KInv, IInv, NoIdentityAtMergedPerson
  <2>6. merged_into' = [merged_into EXCEPT ![pb] = pa]
    BY <1>2, <1>7, <2>1
  <2> HIDE DEF moved, pa, pb
  <2>7. e.absorbed = pb /\ e.survivor = pa
    BY <1>6, <1>7, <2>1
  <2>8. pa = person_id[a] /\ pb = person_id[b]
    BY DEF pa, pb
  <2>9. MergedAs(e, person_id, person_id', merged_into, merged_into')
    BY <1>5, <1>6, <2>1, <2>2, <2>4, <2>5, <2>6, <2>7, <2>8 DEF MergedAs
  <2> QED  BY <1>1, <1>2, <1>4, <1>6, <2>9
<1>8. CASE ~Folds(a, b)
  <2>1. moved = {i \in {a, b} : person_id[i] # survivor}
    BY <1>8 DEF moved_identities
  <2>2. \A i \in {a, b} : person_id[i] \in {None, survivor}
    BY <1>2, <1>8 DEF Folds, Survivors
  <2>3. Members(survivor) = {i \in Identity : person_id[i] = survivor}
    BY <1>3 DEF Members, ContactKey
  <2>4. \A i \in Identity : person_id'[i] = IF i \in {a, b} THEN survivor ELSE person_id[i]
    BY <1>2, <2>1, <2>3
  <2>5. \A i \in Identity : person_id[i] = survivor => pa = survivor \/ pb = survivor
    BY <1>2, <1>3 DEF Survivors, KInv, IInv, PersonsExist
  <2>6. merged_into' = merged_into
    BY <1>2, <1>8
  <2> HIDE DEF moved
  <2>7. e.absorbed = None
    BY <1>6, <1>8
  <2>8. MergedAs(e, person_id, person_id', merged_into, merged_into')
    BY <1>5, <1>6, <2>1, <2>2, <2>4, <2>5, <2>6, <2>7 DEF MergedAs
  <2> QED  BY <1>1, <1>2, <1>4, <1>6, <2>8
<1> QED  BY <1>7, <1>8

LEMMA HandAddedGrows ==
  ASSUME present \subseteq present', HandAdded' = {}
  PROVE  HandAdded = {}
BY DEF HandAdded

\* Only a fold gives a person somewhere to go, and it goes where nothing goes on.
LEMMA FoldKeepsAcyclic ==
  ASSUME TypeOK, Acyclic, NEW pa \in Person, NEW pb \in Person, pa # pb,
         merged_into[pa] = None, merged_into' = [merged_into EXCEPT ![pb] = pa]
  PROVE  Acyclic'
<1>1. PICK rank \in [Person -> Nat] :
        \A p \in Person : merged_into[p] # None => rank[p] < rank[merged_into[p]]
  BY DEF Acyclic
<1> DEFINE rank2 == [p \in Person |-> IF p = pa THEN rank[pa] + rank[pb] + 1 ELSE rank[p]]
<1>2. /\ merged_into \in [Person -> Person \cup {None}] /\ None \notin Person
      /\ \A p \in Person : rank[p] \in Nat
  BY KeyAssumption DEF TypeOK, Key
<1>3. rank2 \in [Person -> Nat]
  BY <1>2
<1>4. /\ \A p \in Person : p # pb => merged_into'[p] = merged_into[p]
      /\ merged_into'[pb] = pa
  BY <1>2
<1>5. /\ rank2[pa] = rank[pa] + rank[pb] + 1
      /\ \A p \in Person : p # pa => rank2[p] = rank[p]
  OBVIOUS
<1> HIDE DEF rank2
<1>6. ASSUME NEW p \in Person, merged_into'[p] # None
      PROVE  rank2[p] < rank2[merged_into'[p]]
  <2>1. CASE p = pb
    BY <1>2, <1>4, <1>5, <2>1
  <2>2. CASE p # pb
    <3>1. p # pa /\ merged_into'[p] = merged_into[p] /\ merged_into[p] \in Person
      BY <1>2, <1>4, <1>6, <2>2
    <3>2. rank[p] < rank[merged_into[p]] /\ rank2[p] = rank[p]
      BY <1>1, <1>5, <1>6, <3>1
    <3>3. CASE merged_into[p] = pa
      <4>1. rank[p] < rank[pa] /\ rank2[pa] = rank[pa] + rank[pb] + 1
        BY <1>5, <3>2, <3>3
      <4>2. rank2[p] < rank2[pa]
        BY <1>2, <3>2, <4>1
      <4> QED  BY <3>1, <3>3, <4>2
    <3>4. CASE merged_into[p] # pa
      BY <1>5, <3>1, <3>2, <3>4
    <3> QED  BY <3>3, <3>4
  <2> QED  BY <2>1, <2>2
<1> QED  BY <1>3, <1>6 DEF Acyclic

LEMMA ClearingKeepsAcyclic ==
  ASSUME Acyclic, \A p \in Person : merged_into'[p] \in {None, merged_into[p]}
  PROVE  Acyclic'
<1>1. PICK rank \in [Person -> Nat] :
        \A p \in Person : merged_into[p] # None => rank[p] < rank[merged_into[p]]
  BY DEF Acyclic
<1>2. \A p \in Person : merged_into'[p] # None => rank[p] < rank[merged_into'[p]]
  BY <1>1
<1> QED  BY <1>2 DEF Acyclic

LEMMA MergeKeepsClusters ==
  ASSUME LInv, [Next]_vars, Merges
  PROVE  RowsPresent' /\ Acyclic' /\ (undos' = "newest_first" => ClustersFollow')
<1>1. PICK e : /\ merge_log' = Append(merge_log, e)
               /\ MergedAs(e, person_id, person_id', merged_into, merged_into')
               /\ e.a \in present /\ e.b \in present' /\ present \subseteq present'
               /\ undos' = undos
  BY MergesAsLogged DEF LInv
<1>2. merge_log \in Seq(LogRow) /\ merged_into \in [Person -> Person \cup {None}] /\ TypeOK
  BY DEF LInv, KInv, IInv, TypeOK
<1>3. RowsPresent'
  <2>1. \A k \in DOMAIN merge_log' :
          \/ merge_log'[k] = e
          \/ k \in DOMAIN merge_log /\ merge_log'[k] = merge_log[k]
    BY <1>1, <1>2
  <2> QED  BY <1>1, <2>1 DEF LInv, RowsPresent
<1>4. Acyclic'
  <2>1. CASE e.absorbed = None
    <3>1. merged_into' = merged_into
      BY <1>1, <2>1 DEF MergedAs
    <3> QED  BY <3>1, ClearingKeepsAcyclic DEF LInv
  <2>2. CASE e.absorbed # None
    <3>1. /\ merged_into[e.survivor] = None /\ e.absorbed # e.survivor
          /\ merged_into' = [merged_into EXCEPT ![e.absorbed] = e.survivor]
          /\ e.absorbed \in Person /\ e.survivor \in Person
      BY <1>1, <2>2 DEF MergedAs, LogRow
    <3> QED  BY <1>2, <3>1, FoldKeepsAcyclic DEF LInv
  <2> QED  BY <2>1, <2>2
<1>5. ASSUME undos' = "newest_first" PROVE ClustersFollow'
  <2>1. ClustersFollow
    BY <1>1, <1>5 DEF LInv
  <2>2. LogTogether(merge_log', person_id') /\ LogOrigin(merge_log', person_id')
    BY <1>1, <1>2, <2>1, MergeKeepsTogether DEF ClustersFollow
  <2>3. LogForwards(merge_log', merged_into')
    BY <1>1, <1>2, <2>1, MergeKeepsForwards DEF ClustersFollow
  <2>4. ASSUME HandAdded' = {} PROVE LogConnects(merge_log', person_id')
    <3>1. LogConnects(merge_log, person_id)
      BY <1>1, <2>1, <2>4, HandAddedGrows DEF ClustersFollow
    <3> QED  BY <1>1, <1>2, <2>1, <3>1, MergeKeepsConnects DEF ClustersFollow
  <2> QED  BY <2>2, <2>3, <2>4 DEF ClustersFollow
<1> QED  BY <1>3, <1>4, <1>5

LEMMA UndoKeepsFollowing ==
  ASSUME LInv, NEW k \in DOMAIN merge_log, undo_merge(k)
  PROVE  RowsPresent' /\ Acyclic' /\ (undos' = "newest_first" => ClustersFollow')
<1>1. /\ merge_log \in Seq(LogRow) /\ merged_into \in [Person -> Person \cup {None}]
      /\ person_id \in [Identity -> Person \cup {None}]
  BY DEF LInv, KInv, IInv, TypeOK
<1>2. /\ person_id' = MovedBack(merge_log[k])
      /\ merged_into' = Unforwarded(merge_log[k])
      /\ merge_log' = [merge_log EXCEPT ![k].reversed = TRUE]
      /\ present' = present
      /\ undos' = "newest_first" =>
           /\ undos = "newest_first" /\ k \in Standing
           /\ \A m \in Standing : ~(m > k)
  BY DEF undo_merge
<1>3. IsUndone(merge_log, k, merge_log')
  BY <1>1, <1>2, UndoneRow
<1>4. RowsPresent'
  BY <1>2, <1>3 DEF LInv, RowsPresent, IsUndone
<1>5. \A p \in Person :
        merged_into'[p] = IF p = merge_log[k].absorbed THEN None ELSE merged_into[p]
  <2>1. merge_log[k] \in LogRow
    BY <1>1, ElementOfSeq, LenProperties
  <2> QED  BY <1>1, <1>2, <2>1, KeyAssumption DEF Unforwarded, LogRow, Key
<1>6. Acyclic'
  BY <1>5, ClearingKeepsAcyclic DEF LInv
<1>7. ASSUME undos' = "newest_first" PROVE ClustersFollow'
  <2>1. ClustersFollow
    BY <1>2, <1>7 DEF LInv
  <2>2. k \in Stands(merge_log) /\ \A m \in Stands(merge_log) : m <= k
    BY <1>1, <1>2, <1>7, LenProperties DEF Standing, Stands
  <2>3. \A i \in Identity :
          person_id'[i] = IF i \in merge_log[k].moved THEN merge_log[k].absorbed ELSE person_id[i]
    BY <1>2 DEF MovedBack
  <2>4. /\ LogTogether(merge_log', person_id') /\ LogOrigin(merge_log', person_id')
        /\ LogConnects(merge_log, person_id) => LogConnects(merge_log', person_id')
    BY <1>1, <1>3, <2>1, <2>2, <2>3, UndoKeepsClusters DEF ClustersFollow
  <2>5. LogForwards(merge_log', merged_into')
    BY <1>1, <1>3, <1>5, <2>1, <2>2, UndoKeepsForwards DEF ClustersFollow
  <2>6. HandAdded' = {} => HandAdded = {}
    BY <1>2 DEF HandAdded
  <2> QED  BY <2>1, <2>4, <2>5, <2>6 DEF ClustersFollow
<1> QED  BY <1>4, <1>6, <1>7

LEMMA HandleKeepsFollowing ==
  ASSUME LInv, NEW rep \in present, NEW i \in (Outlook \cup WhatsApp) \ present,
         add_contact_handle(rep, i)
  PROVE  RowsPresent' /\ Acyclic' /\ (undos' = "newest_first" => ClustersFollow')
<1>1. /\ merge_log \in Seq(LogRow) /\ present \subseteq Identity
      /\ person_id \in [Identity -> Person \cup {None}] /\ i \in Identity
  BY DEF LInv, KInv, IInv, TypeOK, Identity
<1>2. /\ present' = present \cup {i}
      /\ UNCHANGED <<merged_into, merge_log, undos>>
      /\ \A j \in present : person_id[j] # None => person_id'[j] = person_id[j]
  BY <1>1 DEF add_contact_handle
<1>3. RowsPresent'
  BY <1>2 DEF LInv, RowsPresent
<1>4. Acyclic'
  BY <1>2, ClearingKeepsAcyclic DEF LInv
<1>5. ASSUME undos' = "newest_first" PROVE ClustersFollow'
  <2>1. ClustersFollow
    BY <1>2, <1>5 DEF LInv
  <2>2. \A k \in Stands(merge_log) : merge_log[k].a \in present /\ merge_log[k].b \in present
    BY DEF Stands, LInv, RowsPresent
  <2>3. LogTogether(merge_log, person_id') /\ LogOrigin(merge_log, person_id')
    BY <1>1, <1>2, <2>1, <2>2, HandleKeepsTogether DEF ClustersFollow
  <2>4. i \in HandAdded'
    BY <1>2, ChannelAssumption DEF HandAdded, LInv, KInv, ResolvedPresent
  <2> QED  BY <1>2, <2>1, <2>3, <2>4 DEF ClustersFollow
<1> QED  BY <1>3, <1>4, <1>5

LEMMA NextKeepsFollowing ==
  ASSUME LInv, [Next]_vars
  PROVE  RowsPresent' /\ Acyclic' /\ (undos' = "newest_first" => ClustersFollow')
<1>1. ASSUME Quiet PROVE RowsPresent' /\ Acyclic' /\ (undos' = "newest_first" => ClustersFollow')
  <2>1. Acyclic'
    BY <1>1, ClearingKeepsAcyclic DEF Quiet, LInv
  <2>2. RowsPresent' /\ (HandAdded' = {} => HandAdded = {})
    BY <1>1, HandAddedGrows DEF Quiet, LInv, RowsPresent
  <2> QED  BY <1>1, <2>1, <2>2 DEF Quiet, LInv, ClustersFollow
<1>2. CASE Merges
  BY <1>2, MergeKeepsClusters
<1>3. ASSUME NEW k \in DOMAIN merge_log, undo_merge(k)
      PROVE  RowsPresent' /\ Acyclic' /\ (undos' = "newest_first" => ClustersFollow')
  BY <1>3, UndoKeepsFollowing
<1>4. ASSUME NEW rep \in present, NEW i \in (Outlook \cup WhatsApp) \ present,
             add_contact_handle(rep, i)
      PROVE  RowsPresent' /\ Acyclic' /\ (undos' = "newest_first" => ClustersFollow')
  BY <1>4, HandleKeepsFollowing
<1>5. KInv
  BY DEF LInv
<1>6. \/ Merges
      \/ \E k \in DOMAIN merge_log : undo_merge(k)
      \/ \E rep \in present, i \in (Outlook \cup WhatsApp) \ present : add_contact_handle(rep, i)
      \/ Quiet
  BY <1>5, StepShapes
<1> QED  BY <1>1, <1>2, <1>3, <1>4, <1>6

\* In the initial states there is no log, or the one row of a merge of two
\* identities that had no person.
LEMMA InitFollows == Init => RowsPresent /\ Acyclic /\ ClustersFollow
<1> DEFINE nobody == [i \in Identity |-> None]
           nowhere == [p \in Person |-> None]
<1>1. /\ LogTogether(<<>>, nobody) /\ LogOrigin(<<>>, nobody)
      /\ LogForwards(<<>>, nowhere) /\ LogConnects(<<>>, nobody)
  <2>1. Stands(<<>>) = {} /\ \A l, i : LaterMoves(<<>>, l, i) = {}
    BY DEF Stands, LaterMoves
  <2>2. \A l, p : p \in Person => Cohort(<<>>, nobody, l, p) = {}
    BY <2>1, KeyAssumption DEF Cohort, PersonAt, Key
  <2> QED  BY <2>1, <2>2 DEF LogTogether, LogOrigin, LogForwards, LogConnects
<1>2. ASSUME merged_into = nowhere PROVE Acyclic
  <2>1. [p \in Person |-> 0] \in [Person -> Nat]
    OBVIOUS
  <2> QED  BY <1>2, <2>1 DEF Acyclic
<1>3. ASSUME InitFresh PROVE RowsPresent /\ Acyclic /\ ClustersFollow
  <2>1. merge_log = <<>> /\ person_id = nobody /\ merged_into = nowhere
    BY <1>3 DEF InitFresh, InitStore
  <2>2. RowsPresent
    BY <2>1 DEF RowsPresent
  <2> HIDE DEF nobody, nowhere
  <2> QED  BY <1>1, <1>2, <2>1, <2>2 DEF ClustersFollow
<1>4. ASSUME NEW a \in LinkedIn \cap Known, NEW b \in LinkedIn \cap Known, NEW p \in Person,
             InitLegacy(a, b, p)
      PROVE  RowsPresent /\ Acyclic /\ ClustersFollow
  <2> DEFINE e == [a |-> a, b |-> b, survivor |-> p, absorbed |-> None,
                   moved |-> {a, b}, prev_name |-> NewPerson,
                   decision |-> "review", reversed |-> FALSE]
  <2>1. /\ merge_log = <<e>> /\ merged_into = nowhere /\ present = Known
        /\ person_id = [i \in Identity |-> IF i \in {a, b} THEN p ELSE None]
    BY <1>4 DEF InitLegacy, InitStore
  <2>2. /\ e.a = a /\ e.b = b /\ e.survivor = p /\ e.absorbed = None
        /\ e.moved = {a, b} /\ ~e.reversed
    OBVIOUS
  <2>3. a \in Identity /\ b \in Identity /\ p # None /\ None \notin Person
    BY KeyAssumption DEF Key, Identity
  <2>4. e \in LogRow
    <3>1. NewPerson \in NameRow
      BY DEF NewPerson, Names, NameRow, AnyName
    <3> QED  BY <2>3, <3>1 DEF LogRow, Decision
  <2> HIDE DEF e
  <2>5. MergedAs(e, nobody, person_id, nowhere, merged_into)
    BY <2>1, <2>2, <2>3, <2>4 DEF MergedAs
  <2>6. merge_log = Append(<<>>, e) /\ <<>> \in Seq(LogRow)
    BY <2>1
  <2>7. nowhere \in [Person -> Person \cup {None}]
    OBVIOUS
  <2>8. RowsPresent
    BY <2>1, <2>2 DEF RowsPresent
  <2> HIDE DEF nobody, nowhere
  <2>9. LogTogether(merge_log, person_id) /\ LogOrigin(merge_log, person_id)
    BY <1>1, <2>5, <2>6, MergeKeepsTogether
  <2>10. LogForwards(merge_log, merged_into)
    BY <1>1, <2>5, <2>6, <2>7, MergeKeepsForwards
  <2>11. LogConnects(merge_log, person_id)
    BY <1>1, <2>5, <2>6, MergeKeepsConnects
  <2> QED  BY <1>2, <2>1, <2>8, <2>9, <2>10, <2>11 DEF ClustersFollow
<1> QED  BY <1>3, <1>4 DEF Init

LEMMA FollowingInvariant == Spec => []LInv
<1>1. Init => LInv
  BY InitInvariant, InitCandidatesPresent, InitKeys, InitFollows DEF LInv, KInv
<1>2. LInv /\ [Next]_vars => LInv'
  <2> SUFFICES ASSUME LInv, [Next]_vars PROVE LInv'
    OBVIOUS
  <2>1. KInv'
    BY NextInvariant, NextKeepsCandidatesPresent, NextKeepsKeys DEF LInv, KInv, IInv, CInv
  <2> QED  BY <2>1, NextKeepsFollowing DEF LInv
<1> QED  BY <1>1, <1>2, PTL DEF Spec

-----------------------------------------------------------------------------

\* The last person of a path of merges has identities: the fold that led to it
\* left its first identity there, and nothing that stands has moved it since.
LEMMA FollowedHasIdentities ==
  ASSUME LInv, undos = "newest_first", NEW p \in Person, merged_into[p] # None
  PROVE  \E i \in present : person_id[i] = Follow[p]
<1>1. TypeOK /\ Acyclic /\ ClustersFollow /\ RowsPresent
  BY DEF LInv, KInv, IInv
<1> DEFINE r == Follow[p]
<1>2. r \in Person /\ merged_into[r] = None
  BY <1>1, FollowEnds
<1>3. PICK q \in Person : merged_into[q] = r
  BY <1>1, FollowArrives
<1> HIDE DEF r
<1>4. None \notin Person /\ merge_log \in Seq(LogRow)
  BY <1>1, KeyAssumption DEF Key, TypeOK
<1>5. PICK k \in Stands(merge_log) : merge_log[k].absorbed = q /\ merge_log[k].survivor = r
  BY <1>1, <1>2, <1>3, <1>4 DEF ClustersFollow, LogForwards
<1> DEFINE i == merge_log[k].a
<1>6. i \in present /\ k \in Nat /\ PersonAt(merge_log, person_id, k, i) = r
  BY <1>1, <1>4, <1>5, LenProperties DEF Stands, RowsPresent, ClustersFollow, LogOrigin
<1> HIDE DEF i
<1>7. LaterMoves(merge_log, k, i) = {}
  <2> SUFFICES ASSUME LaterMoves(merge_log, k, i) # {} PROVE FALSE
    OBVIOUS
  <2>1. PICK m \in LaterMoves(merge_log, k, i) :
          PersonAt(merge_log, person_id, k, i) = merge_log[m].absorbed
    BY <1>4, <1>6, FirstLaterMove
  <2>2. m \in Stands(merge_log)
    BY DEF LaterMoves, Stands
  <2>3. merge_log[m] \in LogRow
    BY <1>4, <2>2, ElementOfSeq, LenProperties DEF Stands
  <2>4. merged_into[r] = merge_log[m].survivor /\ merge_log[m].survivor # None
    BY <1>1, <1>2, <1>4, <1>6, <2>1, <2>2, <2>3 DEF ClustersFollow, LogForwards, LogRow
  <2> QED  BY <1>2, <2>4
<1>8. person_id[i] = r
  BY <1>6, <1>7 DEF PersonAt
<1> QED  BY <1>6, <1>8 DEF r

\* merged_into never cycles, whatever is undone in whatever order, and leads to a
\* person that has identities as long as merges are undone newest first. (The
\* update of person.merged_into in apply_merge, and its reset in undo_merge.)
THEOREM ForwardsToContact == Spec => []MergedPersonForwardsToContact
<1>1. LInv => MergedPersonForwardsToContact
  <2> SUFFICES ASSUME LInv, NEW p \in Person, merged_into[p] # None
               PROVE  /\ merged_into[Follow[p]] = None
                      /\ undos = "newest_first" => \E i \in present : person_id[i] = Follow[p]
    BY DEF MergedPersonForwardsToContact
  <2>1. merged_into[Follow[p]] = None
    BY FollowEnds DEF LInv, KInv, IInv
  <2>2. undos = "newest_first" => \E i \in present : person_id[i] = Follow[p]
    BY FollowedHasIdentities
  <2> QED  BY <2>1, <2>2
<1> QED  BY <1>1, FollowingInvariant, PTL

\* The clusters are what the standing rows of merge_log say as long as merges are
\* undone newest first: nothing that a row put together comes apart before the
\* row is undone, and nothing else is together. (person_id as apply_merge and
\* undo_merge leave it, folds, rules and the legacy row included.)
THEOREM ClustersFollowLog == Spec => []ClustersMatchStandingMerges
<1>1. LInv => ClustersMatchStandingMerges
  <2> SUFFICES ASSUME LInv, undos = "newest_first" PROVE ClustersMatchStandingMerges
    BY DEF ClustersMatchStandingMerges
  <2>1. /\ ClustersFollow /\ merge_log \in Seq(LogRow) /\ persons \subseteq Person
        /\ Standing = Stands(merge_log)
    BY DEF LInv, KInv, IInv, TypeOK, Standing, Stands
  <2> DEFINE n == Len(merge_log)
  <2>2. n \in Nat /\ DOMAIN merge_log = 1..n
    BY <2>1, LenProperties
  <2>3. \A i : PersonAt(merge_log, person_id, n, i) = person_id[i]
    <3>1. \A i : LaterMoves(merge_log, n, i) = {}
      BY <2>2 DEF LaterMoves
    <3> QED  BY <3>1 DEF PersonAt
  <2> HIDE DEF n
  <2>4. \A k \in Standing : SamePerson(merge_log[k].a, merge_log[k].b)
    <3>1. \A k \in Stands(merge_log) : n \in k..n
      BY <2>2 DEF Stands
    <3> QED  BY <2>1, <2>3, <3>1 DEF ClustersFollow, LogTogether, SamePerson, n
  <2>5. ASSUME HandAdded = {}, NEW p \in persons, NEW S \in SUBSET Members(p),
               S # {}, S # Members(p)
        PROVE  \E k \in Standing : {merge_log[k].a, merge_log[k].b} \cap S # {}
                                   /\ ~({merge_log[k].a, merge_log[k].b} \subseteq S)
    <3>1. Members(p) = Cohort(merge_log, person_id, n, p)
      BY <2>1, <2>3, KeyAssumption DEF Members, ContactKey, Cohort, Key
    <3>2. p \in Person /\ n \in 0..Len(merge_log)
      BY <2>1, <2>2 DEF n
    <3>3. \E k \in Stands(merge_log) : Crosses(merge_log[k], S)
      BY <2>1, <2>5, <3>1, <3>2 DEF ClustersFollow, LogConnects
    <3> QED  BY <2>1, <3>3 DEF Crosses
  <2> QED  BY <2>4, <2>5 DEF ClustersMatchStandingMerges
<1> QED  BY <1>1, FollowingInvariant, PTL
=============================================================================
