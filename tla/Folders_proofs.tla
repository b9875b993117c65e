----------------------------- MODULE Folders_proofs -----------------------------
(* Theorems about the two modules that keep what is known of a folder in step *)
(* with its files while both change: Updater, for any installation, any names *)
(* of the files in the two folders of an update and any lists of the new and  *)
(* the current version; ResourceFolder, for any mods and any number of        *)
(* operations and changes from outside.                                       *)
EXTENDS Updater, ResourceFolder, FiniteSetTheorems, SequenceTheorems, WellFoundedInduction, TLAPS

-----------------------------------------------------------------------------
(* Updater.                                                                   *)

File == Content \union {NoFile}
PathOperation == [type : {"replace", "delete"}, path : Paths]

\* The types of what an update works on, and of the rest.
FilesTyped == /\ phase \in Phases /\ revertOK \in BOOLEAN
              /\ newVersion \subseteq Paths /\ current \subseteq Paths
              /\ sources \in [Paths -> Nat]
              /\ m_operations \in Seq(PathOperation) /\ next \in Nat \ {0}
              /\ Flat \in [Paths -> Names]
              /\ disk \in [Paths -> File] /\ before \in [Paths -> File]
              /\ tmp \in [Names -> File] /\ backup \in [Names -> File]
              /\ m_replace_backups \in Seq(Paths) /\ m_delete_backups \in Seq(Paths)
DeskTyped == /\ m_chanListLoaded \in BOOLEAN /\ m_chanListLoading \in BOOLEAN
             /\ m_checkUpdateWaiting \in BOOLEAN /\ m_updateChecking \in BOOLEAN
             /\ m_updateRunning \in BOOLEAN /\ m_mainWindow \in BOOLEAN
             /\ m_channels \in {"none", "foreign", "usable"}
             /\ controllers \subseteq Instances /\ windows \subseteq Instances
             /\ ended \in {"no", "idle", "updated", "left", "broken"}

\* Until the installation begins nothing was moved.
Early == {"idle", "offer", "none", "lists", "files", "hung", "begin"}
Untouched == phase \in Early => /\ before = disk /\ next = 1 /\ revertOK
                                /\ m_replace_backups = << >> /\ m_delete_backups = << >>

(* The operations.                                                           *)

OpsFit == \A i \in DOMAIN m_operations :
    LET p == m_operations[i].path
    IN  IF m_operations[i].type = "delete" THEN p \in current \ newVersion ELSE p \in newVersion

\* An operation that is still to come.
Pending(op) == \E i \in DOMAIN m_operations : i >= next /\ m_operations[i] = op

\* A copy to come that has no file to move can never be done, nor the update.
Doomed == \E i \in DOMAIN m_operations :
    /\ i >= next /\ m_operations[i].type = "replace"
    /\ tmp[Flat[m_operations[i].path]] = NoFile

\* What the operations to come still have to do.
Planned == /\ \A p \in newVersion : sources[p] > 0 => disk[p] = Fresh(p) \/ Pending(CopyOp(p))
           /\ \A p \in current \ newVersion : disk[p] = NoFile \/ Pending(DeleteOp(p))
PlannedOrDoomed == Doomed \/ Planned

\* A download is that of a copy whose name no earlier copy has used.
Fetched == \A n \in Names : tmp[n] # NoFile =>
    /\ \E q \in Wanted : Flat[q] = n /\ tmp[n] = Fresh(q)
    /\ \A i \in DOMAIN m_operations :
          i < next /\ m_operations[i].type = "replace" => Flat[m_operations[i].path] # n

InPlace == /\ \A p \in newVersion : sources[p] > 0 => disk[p] = Fresh(p)
           /\ \A p \in current \ newVersion : disk[p] = NoFile

Operating == /\ phase \in {"files", "hung", "begin", "operate"} => OpsFit
             /\ phase \in {"files", "hung"} => Planned
             /\ phase \in {"begin", "operate"} => PlannedOrDoomed /\ Fetched
             /\ phase = "start" => InPlace
             /\ ended = "updated" => phase = "start"

(* The backups.                                                              *)

Moved == ToSet(m_replace_backups) \union ToSet(m_delete_backups)

\* No two files that are still to be brought back share a name.
Apart(flat, s) == \A i, j \in DOMAIN s : i # j => flat[s[i]] # flat[s[j]]
NamesApart == /\ Apart(Flat, m_replace_backups) /\ Apart(Flat, m_delete_backups)
              /\ \A p \in ToSet(m_replace_backups), q \in ToSet(m_delete_backups) : Flat[p] # Flat[q]

\* A file of the old version is in its place or in the backup folder, under its own name.
Stored == \A p \in Paths :
    \/ before[p] \in {NoFile, disk[p]}
    \/ backup[Flat[p]] = before[p] /\ (p \in Moved \/ ~revertOK)

\* The backup of a file that is still to be brought back is its own.
Owned == \A p \in Moved :
    /\ backup[Flat[p]] # NoFile
    /\ before[p] # NoFile => backup[Flat[p]] = before[p]
    /\ \A q \in Paths \ {p} : Flat[q] = Flat[p] => before[q] \in {NoFile, disk[q]}

Working == {"operate", "start", "failed", "notStarted", "rollback"}
Recoverable == /\ phase \in Working => NamesApart /\ Stored /\ Owned
               /\ phase \in Working \ {"rollback"} => revertOK

Counting == IsFiniteSet(controllers) /\ IsFiniteSet(windows) /\ EndsWhenIdle

FilesInv == FilesTyped /\ Untouched /\ Operating /\ Recoverable /\ RollbackHonest
DeskInv == DeskTyped /\ OneUpdate /\ Counting
IInv == FilesInv /\ DeskInv

-----------------------------------------------------------------------------
(* Numbers and sequences.                                                    *)

\* A set of numbers that is not empty has a least one.
LEMMA LeastNumber ==
    ASSUME NEW T, T \subseteq Nat, T # {}
    PROVE  \E least \in T : \A i \in T : least <= i
<1> DEFINE R == OpToRel(<, Nat)
<1>1. IsWellFoundedOn(R, Nat)
  BY NatLessThanWellFounded
<1>2. PICK least \in T : \A i \in T : ~ (<<i, least>> \in R)
  <2> HIDE DEF R
  <2> QED BY <1>1, WFMin
<1>3. least \in Nat /\ \A i \in T : i \in Nat /\ ~ (i < least)
  BY <1>2 DEF OpToRel
<1>4. \A i \in T : least <= i
  BY <1>3
<1> QED BY <1>2, <1>4

\* What holds of 0 and passes from each number to the next holds up to any bound.
LEMMA UpTo ==
    ASSUME NEW N \in Nat, NEW T, 0 \in T, \A n \in 1..N : n - 1 \in T => n \in T
    PROVE  0..N \subseteq T
<1> SUFFICES ASSUME ~ (0..N \subseteq T) PROVE FALSE
  OBVIOUS
<1> DEFINE Missed == (0..N) \ T
<1>1. Missed \subseteq Nat /\ Missed # {}
  OBVIOUS
<1>2. PICK least \in Missed : \A i \in Missed : least <= i
  <2> HIDE DEF Missed
  <2> QED BY <1>1, LeastNumber
<1>3. least \in 1..N /\ least - 1 \in 0..N /\ ~ (least <= least - 1)
  BY <1>2
<1>4. least - 1 \in T
  BY <1>2, <1>3
<1> QED BY <1>2, <1>3, <1>4

\* The values that N steps lead through, the first one included.
Path(f, first, N, step) == f[0] = first /\ \A n \in 1..N : f[n] = step[n][f[n - 1]]

\* Steps that can each be taken from any value can be taken one after the other.
LEMMA StepsCompose ==
    ASSUME NEW S, NEW first \in S, NEW N \in Nat, NEW step \in [1..N -> [S -> S]]
    PROVE  \E f \in [0..N -> S] : Path(f, first, N, step)
<1> DEFINE Reaches(n) == \E f \in [0..n -> S] :
              f[0] = first /\ \A k \in 1..n : f[k] = step[k][f[k - 1]]
           T == {n \in 0..N : Reaches(n)}
<1>1. 0 \in T
  <2> DEFINE f == [n \in 0..0 |-> first]
  <2>1. f \in [0..0 -> S] /\ f[0] = first /\ 1..0 = {}
    OBVIOUS
  <2>2. Reaches(0)
    <3> HIDE DEF f
    <3> QED BY <2>1
  <2> QED BY <2>2
<1>2. ASSUME NEW n \in 1..N, n - 1 \in T PROVE n \in T
  <2>1. PICK f \in [0..(n - 1) -> S] :
            f[0] = first /\ \A k \in 1..(n - 1) : f[k] = step[k][f[k - 1]]
    BY <1>2
  <2> DEFINE g == [k \in 0..n |-> IF k < n THEN f[k] ELSE step[n][f[n - 1]]]
  <2>2. step[n][f[n - 1]] \in S
    BY <2>1
  <2>3. \A k \in 0..n : k < n => k \in 0..(n - 1)
    OBVIOUS
  <2>4. g \in [0..n -> S]
    BY <2>1, <2>2, <2>3
  <2>5. g[0] = first
    BY <2>1
  <2>6. ASSUME NEW k \in 1..n PROVE g[k] = step[k][g[k - 1]]
    <3>1. k - 1 \in 0..n /\ k - 1 < n /\ k \in 0..n /\ (k < n => k \in 1..(n - 1)) /\ (~ (k < n) => k = n)
      BY <2>6
    <3> QED BY <2>1, <3>1
  <2> HIDE DEF g
  <2> QED BY <2>4, <2>5, <2>6
<1>3. N \in T
  <2> HIDE DEF T
  <2>1. 0..N \subseteq T
    BY <1>1, <1>2, UpTo
  <2> QED BY <2>1
<1> QED BY <1>3 DEF Path

\* The elements of sequences that are put together, and of those that are appended to.
LEMMA ElementsOfJoin ==
    ASSUME NEW S, NEW s \in Seq(S), NEW t \in Seq(S)
    PROVE  s \o t \in Seq(S) /\ ToSet(s \o t) = ToSet(s) \union ToSet(t)
<1>1. /\ s \o t \in Seq(S) /\ Len(s \o t) = Len(s) + Len(t)
      /\ \A i \in 1..Len(s) : (s \o t)[i] = s[i]
      /\ \A i \in 1..Len(t) : (s \o t)[Len(s) + i] = t[i]
  OBVIOUS
<1>2. DOMAIN s = 1..Len(s) /\ DOMAIN t = 1..Len(t) /\ DOMAIN (s \o t) = 1..(Len(s) + Len(t))
      /\ Len(s) \in Nat /\ Len(t) \in Nat
  BY <1>1
<1>3. ASSUME NEW x \in ToSet(s \o t) PROVE x \in ToSet(s) \union ToSet(t)
  <2>1. PICK i \in 1..(Len(s) + Len(t)) : x = (s \o t)[i]
    BY <1>2 DEF ToSet
  <2>2. CASE i <= Len(s)
    BY <1>1, <1>2, <2>1, <2>2 DEF ToSet
  <2>3. CASE i > Len(s)
    <3>1. i - Len(s) \in 1..Len(t) /\ i = Len(s) + (i - Len(s))
      BY <1>2, <2>3
    <3>2. x = t[i - Len(s)]
      BY <1>1, <2>1, <3>1
    <3> QED BY <1>2, <3>1, <3>2 DEF ToSet
  <2> QED BY <1>2, <2>2, <2>3
<1>4. ASSUME NEW x \in ToSet(s) PROVE x \in ToSet(s \o t)
  <2>1. PICK i \in 1..Len(s) : x = s[i]
    BY <1>2 DEF ToSet
  <2>2. i \in DOMAIN (s \o t) /\ x = (s \o t)[i]
    BY <1>1, <1>2, <2>1
  <2> QED BY <2>2 DEF ToSet
<1>5. ASSUME NEW x \in ToSet(t) PROVE x \in ToSet(s \o t)
  <2>1. PICK i \in 1..Len(t) : x = t[i]
    BY <1>2 DEF ToSet
  <2>2. Len(s) + i \in DOMAIN (s \o t) /\ x = (s \o t)[Len(s) + i]
    BY <1>1, <1>2, <2>1
  <2> QED BY <2>2 DEF ToSet
<1> QED BY <1>1, <1>3, <1>4, <1>5

\* What FlattenSeq() makes of sequences: the elements of all of them.
LEMMA ElementsOfAll ==
    ASSUME NEW S, NEW seqs \in Seq(Seq(S))
    PROVE  /\ FlattenSeq(seqs) \in Seq(S)
           /\ ToSet(FlattenSeq(seqs)) = UNION {ToSet(seqs[i]) : i \in 1..Len(seqs)}
<1> DEFINE N == Len(seqs)
           Parts == Seq(S)
           All(n) == UNION {ToSet(seqs[i]) : i \in 1..n}
<1>1. N \in Nat /\ (\A i \in 1..N : seqs[i] \in Parts) /\ << >> \in Parts
  OBVIOUS
<1>2. CASE N = 0
  <2>1. FlattenSeq(seqs) = seqs /\ seqs = << >> /\ 1..N = {}
    BY <1>2 DEF FlattenSeq
  <2> QED BY <2>1 DEF ToSet
<1>3. CASE N # 0
  <2> DEFINE Then(g) == [i \in 1..N |-> IF i = 1 THEN seqs[i] ELSE g[i - 1] \o seqs[i]]
             flatten == CHOOSE g : g = Then(g)
             step == [n \in 1..N |-> [s \in Parts |-> s \o seqs[n]]]
  <2>1. FlattenSeq(seqs) = flatten[N]
    BY <1>3 DEF FlattenSeq
  <2>2. step \in [1..N -> [Parts -> Parts]]
    <3>1. \A n \in 1..N, s \in Parts : s \o seqs[n] \in Parts
      BY <1>1, ElementsOfJoin
    <3> HIDE DEF N, Parts
    <3> QED BY <3>1
  <2> HIDE DEF N, Parts
  <2>3. PICK f \in [0..N -> Parts] : Path(f, << >>, N, step)
    <3> HIDE DEF step, Then, flatten
    <3> QED BY <1>1, <2>2, StepsCompose
  <2>4. ASSUME NEW n \in 1..N PROVE f[n] = f[n - 1] \o seqs[n]
    <3>1. n - 1 \in 0..N /\ f[n - 1] \in Parts
      BY <1>1
    <3>2. f[n] = step[n][f[n - 1]]
      <4> HIDE DEF step
      <4> QED BY <2>3 DEF Path
    <3>3. step[n] = [s \in Parts |-> s \o seqs[n]]
      OBVIOUS
    <3> QED BY <3>1, <3>2, <3>3
  <2>5. f[0] = << >>
    BY <2>3 DEF Path
  <2> HIDE DEF step
  <2> DEFINE h == [n \in 1..N |-> f[n]]
  <2>6. h = Then(h)
    <3>1. ASSUME NEW n \in 1..N, n # 1 PROVE n - 1 \in 1..N
      BY <1>1, <3>1
    <3>2. 1 \in 1..N => f[1] = seqs[1]
      <4> SUFFICES ASSUME 1 \in 1..N PROVE f[1] = seqs[1]
        OBVIOUS
      <4>1. f[1] = f[1 - 1] \o seqs[1]
        BY <2>4
      <4>2. 1 - 1 = 0
        OBVIOUS
      <4>3. f[1] = << >> \o seqs[1]
        BY <2>5, <4>1, <4>2
      <4>4. seqs[1] \in Parts
        BY <1>1
      <4> QED BY <4>3, <4>4 DEF Parts
    <3> QED BY <2>4, <3>1, <3>2
  <2>7. flatten = Then(flatten)
    <3> HIDE DEF h, Then
    <3> QED BY <2>6
  <2>8. \A i \in 1..N : flatten[i] = IF i = 1 THEN seqs[i] ELSE flatten[i - 1] \o seqs[i]
    <3> HIDE DEF flatten
    <3> QED BY <2>7
  <2> HIDE DEF flatten
  <2> DEFINE T == {n \in 0..N : n # 0 => flatten[n] \in Parts /\ ToSet(flatten[n]) = All(n)}
  <2>9. 0 \in T
    BY <1>1
  <2>10. ASSUME NEW n \in 1..N, n - 1 \in T PROVE n \in T
    <3>1. All(n) = All(n - 1) \union ToSet(seqs[n])
      <4>1. 1..n = (1..(n - 1)) \union {n}
        BY <1>1
      <4> QED BY <4>1
    <3>2. CASE n = 1
      <4>1. flatten[n] = seqs[n] /\ 1..(n - 1) = {}
        BY <2>8, <3>2
      <4> QED BY <1>1, <3>1, <4>1
    <3>3. CASE n # 1
      <4>1. flatten[n] = flatten[n - 1] \o seqs[n]
        BY <2>8, <3>3
      <4>2. n - 1 # 0
        BY <1>1, <3>3
      <4>3. flatten[n - 1] \in Parts /\ ToSet(flatten[n - 1]) = All(n - 1) /\ seqs[n] \in Parts
        BY <1>1, <2>10, <4>2
      <4> HIDE DEF All
      <4>4. flatten[n] \in Parts /\ ToSet(flatten[n]) = All(n)
        BY <3>1, <4>1, <4>3, ElementsOfJoin DEF Parts
      <4> QED BY <1>1, <4>4
    <3> QED BY <3>2, <3>3
  <2>11. 0..N \subseteq T
    <3> HIDE DEF T
    <3> QED BY <1>1, <2>9, <2>10, UpTo
  <2>12. N \in T
    <3> HIDE DEF T
    <3>1. N \in 0..N
      BY <1>1
    <3> QED BY <2>11, <3>1
  <2> QED BY <1>3, <2>1, <2>12 DEF N, Parts
<1> QED BY <1>2, <1>3

\* SetToSeqs() of a finite set has all its elements.
LEMMA ElementsOfOrder ==
    ASSUME NEW S, IsFiniteSet(S), NEW s \in SetToSeqs(S)
    PROVE  s \in Seq(S) /\ ToSet(s) = S
<1> DEFINE D == 1..Cardinality(S)
<1>1. Cardinality(S) \in Nat
  BY FS_CardinalityType
<1>2. s \in [D -> S] /\ \A i, j \in D : i # j => s[i] # s[j]
  BY DEF SetToSeqs
<1>3. s \in Seq(S) /\ DOMAIN s = D
  BY <1>1, <1>2
<1>4. IsFiniteSet(D) /\ Cardinality(D) = Cardinality(S)
  BY <1>1, FS_Interval
<1>5. s \in Injection(D, S)
  BY <1>2 DEF Injection, IsInjective
<1>6. s \in Surjection(D, S)
  BY <1>4, <1>5, FS_Injection
<1> QED BY <1>3, <1>6 DEF ToSet, Surjection

\* Appending an element, and taking the first one away.
LEMMA ElementsOfAppend ==
    ASSUME NEW S, NEW s \in Seq(S), NEW x \in S
    PROVE  /\ Append(s, x) \in Seq(S)
           /\ ToSet(Append(s, x)) = ToSet(s) \union {x}
<1>1. /\ Append(s, x) \in Seq(S) /\ Len(s) \in Nat
      /\ DOMAIN s = 1..Len(s) /\ DOMAIN Append(s, x) = 1..(Len(s) + 1)
      /\ \A i \in 1..Len(s) : Append(s, x)[i] = s[i]
      /\ Append(s, x)[Len(s) + 1] = x
  OBVIOUS
<1>2. 1..(Len(s) + 1) = (1..Len(s)) \union {Len(s) + 1}
  BY <1>1
<1> QED BY <1>1, <1>2 DEF ToSet

LEMMA ElementsOfTail ==
    ASSUME NEW S, NEW s \in Seq(S), s # << >>
    PROVE  /\ Head(s) \in S /\ Tail(s) \in Seq(S)
           /\ ToSet(s) = {Head(s)} \union ToSet(Tail(s))
           /\ DOMAIN s = 1..Len(s) /\ Len(s) \in Nat \ {0}
           /\ DOMAIN Tail(s) = 1..(Len(s) - 1)
           /\ Head(s) = s[1] /\ \A i \in 1..(Len(s) - 1) : Tail(s)[i] = s[i + 1]
<1>1. /\ Head(s) \in S /\ Tail(s) \in Seq(S)
      /\ DOMAIN s = 1..Len(s) /\ Len(s) \in Nat \ {0}
      /\ DOMAIN Tail(s) = 1..(Len(s) - 1)
      /\ Head(s) = s[1] /\ \A i \in 1..(Len(s) - 1) : Tail(s)[i] = s[i + 1]
  OBVIOUS
<1>2. ASSUME NEW i \in 1..Len(s), i # 1 PROVE i - 1 \in 1..(Len(s) - 1) /\ i = (i - 1) + 1
  BY <1>1, <1>2
<1>3. \A i \in 1..(Len(s) - 1) : i + 1 \in 1..Len(s)
  BY <1>1
<1>4. 1 \in 1..Len(s)
  BY <1>1
<1>5. ASSUME NEW i \in 1..Len(s) PROVE s[i] \in {Head(s)} \union ToSet(Tail(s))
  <2>1. CASE i = 1
    BY <1>1, <2>1
  <2>2. CASE i # 1
    <3>1. i - 1 \in DOMAIN Tail(s) /\ Tail(s)[i - 1] = s[i]
      BY <1>1, <1>2, <2>2
    <3> QED BY <3>1 DEF ToSet
  <2> QED BY <2>1, <2>2
<1>6. {Head(s)} \union ToSet(Tail(s)) \subseteq ToSet(s)
  BY <1>1, <1>3, <1>4 DEF ToSet
<1>7. ToSet(s) \subseteq {Head(s)} \union ToSet(Tail(s))
  BY <1>1, <1>5 DEF ToSet
<1> QED BY <1>1, <1>6, <1>7

-----------------------------------------------------------------------------
(* The list of operations.                                                   *)

\* A deletion for each path of a set, and copies of those that have a source.
LEMMA DeletionsListed ==
    ASSUME NEW G \in SUBSET Paths, NEW d \in SetToSeqs(G)
    PROVE  LET deletions == [i \in DOMAIN d |-> DeleteOp(d[i])]
           IN  deletions \in Seq(PathOperation) /\ ToSet(deletions) = {DeleteOp(p) : p \in G}
<1> DEFINE deletions == [i \in DOMAIN d |-> DeleteOp(d[i])]
<1>1. IsFiniteSet(G)
  BY FilesAssumption, FS_Subset
<1>2. d \in Seq(G) /\ ToSet(d) = G
  BY <1>1, ElementsOfOrder
<1>3. DOMAIN d = 1..Len(d) /\ Len(d) \in Nat /\ \A i \in DOMAIN d : d[i] \in G
  BY <1>2
<1>4. \A p \in Paths : DeleteOp(p) \in PathOperation
  BY DEF DeleteOp, PathOperation
<1>5. deletions \in [1..Len(d) -> PathOperation]
  BY <1>3, <1>4
<1>6. \A p \in G : \E i \in DOMAIN d : d[i] = p
  BY <1>2 DEF ToSet
<1> QED BY <1>3, <1>5, <1>6 DEF ToSet

Copies(p, src) == [j \in 1..src[p] |-> CopyOp(p)]

LEMMA CopiesListed ==
    ASSUME NEW U \in SUBSET Paths, NEW src \in [Paths -> Nat], NEW u \in SetToSeqs(U)
    PROVE  LET copies == FlattenSeq([i \in DOMAIN u |-> Copies(u[i], src)])
           IN  /\ copies \in Seq(PathOperation)
               /\ ToSet(copies) = {CopyOp(p) : p \in {q \in U : src[q] > 0}}
<1> DEFINE all == [i \in DOMAIN u |-> Copies(u[i], src)]
           Wished == {CopyOp(p) : p \in {q \in U : src[q] > 0}}
<1>1. IsFiniteSet(U)
  BY FilesAssumption, FS_Subset
<1>2. u \in Seq(U) /\ ToSet(u) = U
  BY <1>1, ElementsOfOrder
<1>3. DOMAIN u = 1..Len(u) /\ Len(u) \in Nat /\ \A i \in DOMAIN u : u[i] \in U
  BY <1>2
<1>4. ASSUME NEW p \in Paths
      PROVE  /\ Copies(p, src) \in Seq(PathOperation)
             /\ ToSet(Copies(p, src)) = IF src[p] > 0 THEN {CopyOp(p)} ELSE {}
  <2>1. src[p] \in Nat /\ CopyOp(p) \in PathOperation
    BY DEF CopyOp, PathOperation
  <2>2. Copies(p, src) \in [1..src[p] -> PathOperation] /\ DOMAIN Copies(p, src) = 1..src[p]
        /\ \A j \in 1..src[p] : Copies(p, src)[j] = CopyOp(p)
    BY <2>1 DEF Copies
  <2>3. src[p] > 0 => 1 \in 1..src[p]
    BY <2>1
  <2>4. ~ (src[p] > 0) => 1..src[p] = {}
    BY <2>1
  <2>5. Copies(p, src) \in Seq(PathOperation)
    BY <2>1, <2>2
  <2>6. CASE src[p] > 0
    BY <2>2, <2>3, <2>5, <2>6 DEF ToSet
  <2>7. CASE ~ (src[p] > 0)
    BY <2>2, <2>4, <2>5, <2>7 DEF ToSet
  <2> QED BY <2>6, <2>7
<1>5. all \in Seq(Seq(PathOperation)) /\ Len(all) = Len(u) /\ \A i \in 1..Len(u) : all[i] = Copies(u[i], src)
  <2>1. \A i \in DOMAIN u : Copies(u[i], src) \in Seq(PathOperation)
    BY <1>3, <1>4
  <2>2. all \in [1..Len(u) -> Seq(PathOperation)] /\ Len(u) \in Nat
    BY <1>3, <2>1
  <2> QED BY <1>3, <2>2
<1>6. /\ FlattenSeq(all) \in Seq(PathOperation)
      /\ ToSet(FlattenSeq(all)) = UNION {ToSet(all[i]) : i \in 1..Len(u)}
  <2> HIDE DEF all
  <2> QED BY <1>5, ElementsOfAll
<1>7. \A i \in 1..Len(u) : ToSet(all[i]) = IF src[u[i]] > 0 THEN {CopyOp(u[i])} ELSE {}
  <2> HIDE DEF all
  <2> QED BY <1>3, <1>4, <1>5
<1> HIDE DEF all
<1>8. ASSUME NEW x \in ToSet(FlattenSeq(all)) PROVE x \in Wished
  <2>1. PICK i \in 1..Len(u) : x \in ToSet(all[i])
    BY <1>6
  <2>2. u[i] \in U
    BY <1>3
  <2>3. x \in IF src[u[i]] > 0 THEN {CopyOp(u[i])} ELSE {}
    BY <1>7, <2>1
  <2> QED BY <2>2, <2>3
<1>9. ASSUME NEW x \in Wished PROVE x \in ToSet(FlattenSeq(all))
  <2>1. PICK p \in U : src[p] > 0 /\ x = CopyOp(p)
    BY <1>9
  <2>2. PICK i \in 1..Len(u) : u[i] = p
    BY <1>2, <1>3 DEF ToSet
  <2>3. x \in ToSet(all[i])
    BY <1>7, <2>1, <2>2
  <2> QED BY <1>6, <2>3
<1>10. ToSet(FlattenSeq(all)) = Wished
  <2> HIDE DEF Wished
  <2> QED BY <1>8, <1>9
<1> USE DEF all
<1> QED BY <1>6, <1>10

Superfluous == {p \in current \ newVersion : disk[p] # NoFile}
ToCopy == {p \in newVersion : sources[p] > 0 /\ disk[p] # Fresh(p)}

\* What processFileLists() lists: a deletion of each path that is gone, and a copy of
\* each path that has a source and not the content of the new version.
LEMMA OperationsListed ==
    ASSUME newVersion' \subseteq Paths, current' \subseteq Paths, sources' \in [Paths -> Nat],
           ProcessFileLists, disk' = disk
    PROVE  /\ m_operations' \in Seq(PathOperation)
           /\ ToSet(m_operations') = {DeleteOp(p) : p \in Superfluous'} \union {CopyOp(p) : p \in ToCopy'}
<1> DEFINE needed == {p \in newVersion' : NeedsUpgrade(p)}
<1>1. PICK d \in SetToSeqs(Superfluous'), u \in SetToSeqs(needed) :
          m_operations' = [i \in DOMAIN d |-> DeleteOp(d[i])] \o
              FlattenSeq([i \in DOMAIN u |-> Copies(u[i], sources')])
  BY DEF ProcessFileLists, Copies, Superfluous
<1>2. Superfluous' \in SUBSET Paths /\ needed \in SUBSET Paths
  BY DEF Superfluous
<1>3. ToCopy' = {q \in needed : sources'[q] > 0}
  BY DEF ToCopy, NeedsUpgrade
<1> DEFINE deletions == [i \in DOMAIN d |-> DeleteOp(d[i])]
           copies == FlattenSeq([i \in DOMAIN u |-> Copies(u[i], sources')])
<1>4. deletions \in Seq(PathOperation) /\ ToSet(deletions) = {DeleteOp(p) : p \in Superfluous'}
  BY <1>2, DeletionsListed
<1> HIDE DEF needed
<1>5. copies \in Seq(PathOperation) /\ ToSet(copies) = {CopyOp(p) : p \in {q \in needed : sources'[q] > 0}}
  BY <1>2, CopiesListed
<1>6. m_operations' = deletions \o copies
  BY <1>1
<1> HIDE DEF deletions, copies
<1> QED BY <1>3, <1>4, <1>5, <1>6, ElementsOfJoin

\* The operations fit the lists, and do what has to be done.
LEMMA ListsPlan ==
    ASSUME newVersion' \subseteq Paths, current' \subseteq Paths, sources' \in [Paths -> Nat],
           ProcessFileLists, disk' = disk, next' = 1
    PROVE  m_operations' \in Seq(PathOperation) /\ OpsFit' /\ Planned'
<1>1. /\ m_operations' \in Seq(PathOperation)
      /\ ToSet(m_operations') = {DeleteOp(p) : p \in Superfluous'} \union {CopyOp(p) : p \in ToCopy'}
  BY OperationsListed
<1>2. DOMAIN m_operations' = 1..Len(m_operations') /\ Len(m_operations') \in Nat
  BY <1>1
<1>3. OpsFit'
  <2> SUFFICES ASSUME NEW i \in DOMAIN m_operations'
               PROVE  IF m_operations'[i].type = "delete"
                      THEN m_operations'[i].path \in current' \ newVersion'
                      ELSE m_operations'[i].path \in newVersion'
    BY DEF OpsFit
  <2>1. m_operations'[i] \in ToSet(m_operations')
    BY DEF ToSet
  <2>2. CASE \E p \in Superfluous' : m_operations'[i] = DeleteOp(p)
    BY <2>2 DEF Superfluous, DeleteOp
  <2>3. CASE \E p \in ToCopy' : m_operations'[i] = CopyOp(p)
    BY <2>3 DEF ToCopy, CopyOp
  <2> QED BY <1>1, <2>1, <2>2, <2>3
<1>4. ASSUME NEW op \in ToSet(m_operations') PROVE Pending(op)'
  <2>1. PICK i \in DOMAIN m_operations' : m_operations'[i] = op
    BY DEF ToSet
  <2>2. i >= next'
    BY <1>2, <2>1
  <2> QED BY <2>1, <2>2 DEF Pending
<1>5. Planned'
  <2>1. ASSUME NEW p \in newVersion', sources'[p] > 0 PROVE disk'[p] = Fresh(p) \/ Pending(CopyOp(p))'
    <3>1. CASE disk'[p] = Fresh(p)
      BY <3>1
    <3>2. CASE disk'[p] # Fresh(p)
      <4>1. CopyOp(p) \in ToSet(m_operations')
        BY <1>1, <2>1, <3>2 DEF ToCopy
      <4> QED BY <1>4, <4>1
    <3> QED BY <3>1, <3>2
  <2>2. ASSUME NEW p \in current' \ newVersion' PROVE disk'[p] = NoFile \/ Pending(DeleteOp(p))'
    <3>1. CASE disk'[p] # NoFile
      <4>1. DeleteOp(p) \in ToSet(m_operations')
        BY <1>1, <3>1 DEF Superfluous
      <4> QED BY <1>4, <4>1
    <3> QED BY <3>1
  <2> QED BY <2>1, <2>2 DEF Planned
<1> QED BY <1>1, <1>3, <1>5

-----------------------------------------------------------------------------
(* The files, while operations are done and undone.                          *)

Recovering == NamesApart /\ Stored /\ Owned
Contents == <<Flat, disk, tmp, backup, backups, before>>

\* A file of an installation is not the absence of one.
LEMMA FilesAreThere == \A p \in Paths : Kept(p) \in File /\ Fresh(p) \in File /\ Fresh(p) # NoFile
BY FilesAssumption DEF Kept, Fresh, File, Content

\* A backup can be appended to the list of the replaced or of the deleted files when no
\* file in the list has its name.
LEMMA AppendKeepsApart ==
    ASSUME NEW flat, NEW s \in Seq(Paths), NEW p \in Paths, Apart(flat, s),
           \A q \in ToSet(s) : flat[q] # flat[p]
    PROVE  Apart(flat, Append(s, p))
<1>1. /\ Len(s) \in Nat /\ DOMAIN s = 1..Len(s) /\ DOMAIN Append(s, p) = 1..(Len(s) + 1)
      /\ \A i \in 1..Len(s) : Append(s, p)[i] = s[i] /\ s[i] \in ToSet(s)
      /\ Append(s, p)[Len(s) + 1] = p
  BY DEF ToSet
<1>2. 1..(Len(s) + 1) = (1..Len(s)) \union {Len(s) + 1}
  BY <1>1
<1>3. \A i, j \in 1..Len(s) : i # j => flat[s[i]] # flat[s[j]]
  BY <1>1 DEF Apart
<1> SUFFICES ASSUME NEW i \in 1..(Len(s) + 1), NEW j \in 1..(Len(s) + 1), i # j
             PROVE  flat[Append(s, p)[i]] # flat[Append(s, p)[j]]
  BY <1>1 DEF Apart
<1>4. CASE i \in 1..Len(s) /\ j \in 1..Len(s)
  BY <1>1, <1>3, <1>4
<1>5. CASE i \in 1..Len(s) /\ j = Len(s) + 1
  BY <1>1, <1>5
<1>6. CASE i = Len(s) + 1 /\ j \in 1..Len(s)
  BY <1>1, <1>6
<1> QED BY <1>2, <1>4, <1>5, <1>6

\* Without its first file the list has no file of its name.
LEMMA TailKeepsApart ==
    ASSUME NEW flat, NEW s \in Seq(Paths), s # << >>, Apart(flat, s)
    PROVE  /\ Apart(flat, Tail(s))
           /\ \A q \in ToSet(Tail(s)) : flat[q] # flat[Head(s)]
<1>1. /\ DOMAIN s = 1..Len(s) /\ Len(s) \in Nat \ {0} /\ DOMAIN Tail(s) = 1..(Len(s) - 1)
      /\ Head(s) = s[1] /\ \A i \in 1..(Len(s) - 1) : Tail(s)[i] = s[i + 1]
  BY ElementsOfTail
<1>2. \A i \in 1..(Len(s) - 1) : i + 1 \in 1..Len(s) /\ i + 1 # 1
  BY <1>1
<1>3. 1 \in 1..Len(s)
  BY <1>1
<1>4. \A i, j \in 1..Len(s) : i # j => flat[s[i]] # flat[s[j]]
  BY <1>1 DEF Apart
<1>5. Apart(flat, Tail(s))
  <2> SUFFICES ASSUME NEW i \in 1..(Len(s) - 1), NEW j \in 1..(Len(s) - 1), i # j
               PROVE  flat[Tail(s)[i]] # flat[Tail(s)[j]]
    BY <1>1 DEF Apart
  <2>1. i + 1 # j + 1
    BY <1>1
  <2> QED BY <1>1, <1>2, <1>4, <2>1
<1>6. ASSUME NEW q \in ToSet(Tail(s)) PROVE flat[q] # flat[Head(s)]
  <2>1. PICK i \in 1..(Len(s) - 1) : q = Tail(s)[i]
    BY <1>1 DEF ToSet
  <2> QED BY <1>1, <1>2, <1>3, <1>4, <2>1
<1> QED BY <1>5, <1>6

\* A file is moved to the backup folder, whatever takes its place: each file of the
\* old version can still be found, and brought back from under its own name.
LEMMA MovedAway ==
    ASSUME FilesTyped, Recovering, revertOK, NEW p \in Paths, NEW x,
           disk[p] # NoFile, backup[Flat[p]] = NoFile,
           backup' = [backup EXCEPT ![Flat[p]] = disk[p]], disk' = [disk EXCEPT ![p] = x],
           UNCHANGED <<Flat, before, revertOK>>,
           \/ m_replace_backups' = Append(m_replace_backups, p) /\ UNCHANGED m_delete_backups
           \/ m_delete_backups' = Append(m_delete_backups, p) /\ UNCHANGED m_replace_backups
    PROVE  Recovering' /\ m_replace_backups' \in Seq(Paths) /\ m_delete_backups' \in Seq(Paths)
<1> DEFINE n == Flat[p]
<1>1. /\ Flat \in [Paths -> Names] /\ n \in Names
      /\ disk \in [Paths -> File] /\ backup \in [Names -> File]
      /\ m_replace_backups \in Seq(Paths) /\ m_delete_backups \in Seq(Paths)
  BY DEF FilesTyped
<1>2. /\ Moved' = Moved \union {p}
      /\ m_replace_backups' \in Seq(Paths) /\ m_delete_backups' \in Seq(Paths)
  <2>1. \A s \in Seq(Paths) : /\ Append(s, p) \in Seq(Paths)
                             /\ ToSet(Append(s, p)) = ToSet(s) \union {p}
    BY ElementsOfAppend
  <2> QED BY <1>1, <2>1 DEF Moved
<1>3. Moved \subseteq Paths
  BY <1>1 DEF Moved, ToSet
<1>4. \A q \in Moved : Flat[q] # n
  BY DEF Recovering, Owned
<1>5. NamesApart'
  <2>1. Apart(Flat, m_replace_backups) /\ Apart(Flat, m_delete_backups)
        /\ \A q \in ToSet(m_replace_backups), r \in ToSet(m_delete_backups) : Flat[q] # Flat[r]
    BY DEF Recovering, NamesApart
  <2>2. /\ \A q \in ToSet(m_replace_backups) : Flat[q] # n
        /\ \A q \in ToSet(m_delete_backups) : Flat[q] # n
    BY <1>4 DEF Moved
  <2>3. CASE m_replace_backups' = Append(m_replace_backups, p) /\ UNCHANGED m_delete_backups
    <3>1. Apart(Flat, Append(m_replace_backups, p))
      BY <1>1, <2>1, <2>2, AppendKeepsApart
    <3>2. ToSet(m_replace_backups') = ToSet(m_replace_backups) \union {p}
      BY <1>1, <2>3, ElementsOfAppend
    <3> QED BY <2>1, <2>2, <2>3, <3>1, <3>2 DEF NamesApart
  <2>4. CASE m_delete_backups' = Append(m_delete_backups, p) /\ UNCHANGED m_replace_backups
    <3>1. Apart(Flat, Append(m_delete_backups, p))
      BY <1>1, <2>1, <2>2, AppendKeepsApart
    <3>2. ToSet(m_delete_backups') = ToSet(m_delete_backups) \union {p}
      BY <1>1, <2>4, ElementsOfAppend
    <3> QED BY <2>1, <2>2, <2>4, <3>1, <3>2 DEF NamesApart
  <2> QED BY <2>3, <2>4
<1>6. /\ backup'[n] = disk[p]
      /\ \A q \in Paths : Flat[q] # n => backup'[Flat[q]] = backup[Flat[q]]
      /\ \A q \in Paths \ {p} : disk'[q] = disk[q]
  BY <1>1
<1>7. Stored'
  <2> SUFFICES ASSUME NEW q \in Paths, before[q] \notin {NoFile, disk'[q]}
               PROVE  backup'[Flat[q]] = before[q] /\ q \in Moved'
    BY DEF Stored
  <2>1. CASE before[q] = disk[q]
    <3>1. q = p
      BY <1>6, <2>1
    <3> QED BY <1>2, <1>6, <2>1, <3>1
  <2>2. CASE before[q] # disk[q]
    <3>1. backup[Flat[q]] = before[q] /\ q \in Moved
      BY <2>2 DEF Recovering, Stored
    <3> QED BY <1>2, <1>4, <1>6, <3>1
  <2> QED BY <2>1, <2>2
<1>8. Owned'
  <2>1. ASSUME NEW q \in Moved
        PROVE  /\ backup'[Flat[q]] # NoFile
               /\ before[q] # NoFile => backup'[Flat[q]] = before[q]
               /\ \A r \in Paths \ {q} : Flat[r] = Flat[q] => before[r] \in {NoFile, disk'[r]}
    BY <1>3, <1>4, <1>6 DEF Recovering, Owned
  <2>2. before[p] # NoFile => backup'[n] = before[p]
    BY <1>6 DEF Recovering, Stored
  <2>3. ASSUME NEW r \in Paths \ {p}, Flat[r] = n PROVE before[r] \in {NoFile, disk'[r]}
    BY <1>6, <2>3 DEF Recovering, Stored
  <2> QED BY <1>2, <1>6, <2>1, <2>2, <2>3 DEF Owned
<1> QED BY <1>2, <1>5, <1>7, <1>8 DEF Recovering

\* A file put where there was none.
LEMMA PutDown ==
    ASSUME FilesTyped, Recovering, NEW p \in Paths, disk[p] = NoFile, NEW x,
           disk' = [disk EXCEPT ![p] = x],
           UNCHANGED <<Flat, before, backup, backups, revertOK>>
    PROVE  Recovering'
<1>1. \A q \in Paths \ {p} : disk'[q] = disk[q]
  BY DEF FilesTyped
<1>2. Moved' = Moved /\ Moved \subseteq Paths /\ NamesApart'
  <2>1. Moved' = Moved /\ NamesApart'
    BY DEF Moved, backups, Recovering, NamesApart
  <2>2. Moved \subseteq Paths
    BY DEF FilesTyped, Moved, ToSet
  <2> QED BY <2>1, <2>2
<1>3. \A q \in Paths : before[q] \in {NoFile, disk[q]} => before[q] \in {NoFile, disk'[q]}
  BY <1>1
<1>4. Stored'
  BY <1>2, <1>3 DEF Recovering, Stored
<1>5. Owned'
  BY <1>2, <1>3 DEF Recovering, Owned
<1> QED BY <1>2, <1>4, <1>5 DEF Recovering

\* A copy that was done, by a file of its name that was downloaded for it or for another
\* path: in the second case the copy of that path can no longer be done.
LEMMA CopyDone ==
    ASSUME FilesTyped, OpsFit, PlannedOrDoomed, Fetched,
           next \in DOMAIN m_operations, Op.type = "replace", tmp[Flat[Op.path]] # NoFile,
           disk' = [disk EXCEPT ![Op.path] = tmp[Flat[Op.path]]],
           tmp' = [tmp EXCEPT ![Flat[Op.path]] = NoFile], next' = next + 1,
           UNCHANGED <<Flat, newVersion, current, sources, m_operations>>
    PROVE  PlannedOrDoomed' /\ Fetched'
<1> DEFINE p == Op.path
           n == Flat[p]
<1>1. /\ next \in Nat \ {0} /\ Op \in PathOperation /\ p \in Paths /\ n \in Names
      /\ DOMAIN m_operations \subseteq Nat
      /\ \A i \in DOMAIN m_operations : m_operations[i].path \in Paths
      /\ Flat \in [Paths -> Names] /\ disk \in [Paths -> File] /\ tmp \in [Names -> File]
  <2>1. m_operations \in Seq(PathOperation) /\ Flat \in [Paths -> Names]
    BY DEF FilesTyped
  <2>2. DOMAIN m_operations \subseteq Nat /\ \A i \in DOMAIN m_operations : m_operations[i] \in PathOperation
    BY <2>1
  <2>3. \A i \in DOMAIN m_operations : m_operations[i].path \in Paths
    BY <2>2 DEF PathOperation
  <2> QED BY <2>1, <2>2, <2>3 DEF FilesTyped, Op
<1>2. /\ disk'[p] = tmp[n] /\ tmp'[n] = NoFile
      /\ \A q \in Paths \ {p} : disk'[q] = disk[q]
      /\ \A m \in Names \ {n} : tmp'[m] = tmp[m]
  BY <1>1
<1>3. \A i \in DOMAIN m_operations : i >= next /\ i # next => i >= next'
  BY <1>1
<1>4. p \in newVersion
  BY DEF OpsFit, Op
<1>5. Fetched'
  <2>1. ASSUME NEW m \in Names, tmp'[m] # NoFile
        PROVE  /\ \E q \in Wanted : Flat[q] = m /\ tmp'[m] = Fresh(q)
               /\ \A i \in DOMAIN m_operations :
                     i < next' /\ m_operations[i].type = "replace" => Flat[m_operations[i].path] # m
    <3>1. m # n /\ tmp'[m] = tmp[m]
      BY <1>2, <2>1
    <3>2. \A i \in DOMAIN m_operations : i < next' => i < next \/ i = next
      BY <1>1
    <3>3. /\ \E q \in Wanted : Flat[q] = m /\ tmp[m] = Fresh(q)
          /\ \A i \in DOMAIN m_operations :
                i < next /\ m_operations[i].type = "replace" => Flat[m_operations[i].path] # m
      BY <2>1, <3>1 DEF Fetched
    <3> QED BY <3>1, <3>2, <3>3 DEF Op
  <2>2. Wanted' = Wanted
    BY DEF Wanted
  <2> QED BY <2>1, <2>2 DEF Fetched
<1>6. CASE Doomed
  <2>1. PICK i \in DOMAIN m_operations : /\ i >= next /\ m_operations[i].type = "replace"
                                         /\ tmp[Flat[m_operations[i].path]] = NoFile
    BY <1>6 DEF Doomed
  <2>2. i # next
    BY <2>1 DEF Op
  <2>3. Flat[m_operations[i].path] \in Names
    BY <1>1
  <2>4. tmp'[Flat[m_operations[i].path]] = NoFile
    BY <1>2, <2>1, <2>3
  <2>5. Doomed'
    BY <1>3, <2>1, <2>2, <2>4 DEF Doomed
  <2> QED BY <1>5, <2>5 DEF PlannedOrDoomed
<1>7. CASE Planned
  <2>1. PICK q \in Wanted : Flat[q] = n /\ tmp[n] = Fresh(q)
    BY <1>1 DEF Fetched
  <2>2. CASE q = p
    <3>1. ASSUME NEW r \in newVersion, sources[r] > 0 PROVE disk'[r] = Fresh(r) \/ Pending(CopyOp(r))'
      <4>1. CASE r = p
        BY <1>2, <2>1, <2>2, <4>1
      <4>2. CASE r # p /\ disk[r] = Fresh(r)
        BY <1>2, <4>2 DEF FilesTyped
      <4>3. CASE r # p /\ Pending(CopyOp(r))
        <5>1. PICK i \in DOMAIN m_operations : i >= next /\ m_operations[i] = CopyOp(r)
          BY <4>3 DEF Pending
        <5>2. i # next
          BY <4>3, <5>1 DEF Op, CopyOp
        <5> QED BY <1>3, <5>1, <5>2 DEF Pending
      <4> QED BY <1>7, <3>1, <4>1, <4>2, <4>3 DEF Planned
    <3>2. ASSUME NEW r \in current \ newVersion PROVE disk'[r] = NoFile \/ Pending(DeleteOp(r))'
      <4>1. CASE disk[r] = NoFile
        BY <1>2, <1>4, <4>1 DEF FilesTyped
      <4>2. CASE Pending(DeleteOp(r))
        <5>1. PICK i \in DOMAIN m_operations : i >= next /\ m_operations[i] = DeleteOp(r)
          BY <4>2 DEF Pending
        <5>2. i # next
          BY <5>1 DEF Op, DeleteOp
        <5> QED BY <1>3, <5>1, <5>2 DEF Pending
      <4> QED BY <1>7, <4>1, <4>2 DEF Planned
    <3>3. Planned'
      BY <3>1, <3>2 DEF Planned
    <3> QED BY <1>5, <3>3 DEF PlannedOrDoomed
  <2>3. CASE q # p
    <3>1. PICK i \in DOMAIN m_operations : m_operations[i].type = "replace" /\ m_operations[i].path = q
      BY DEF Wanted
    <3>2. ~ (i < next) /\ i # next
      BY <1>1, <2>1, <2>3, <3>1 DEF Fetched, Op
    <3>3. i >= next'
      BY <1>1, <3>2
    <3>4. Doomed'
      BY <1>2, <2>1, <3>1, <3>3 DEF Doomed
    <3> QED BY <1>5, <3>4 DEF PlannedOrDoomed
  <2> QED BY <2>2, <2>3
<1> QED BY <1>6, <1>7 DEF PlannedOrDoomed

\* A deletion that was done, or that had nothing to do.
LEMMA DeletionDone ==
    ASSUME FilesTyped, OpsFit, PlannedOrDoomed, Fetched,
           next \in DOMAIN m_operations, Op.type = "delete",
           disk' = [disk EXCEPT ![Op.path] = NoFile], next' = next + 1,
           UNCHANGED <<Flat, tmp, newVersion, current, sources, m_operations>>
    PROVE  PlannedOrDoomed' /\ Fetched'
<1> DEFINE p == Op.path
<1>1. /\ next \in Nat \ {0} /\ p \in Paths /\ p \notin newVersion
      /\ DOMAIN m_operations \subseteq Nat
  BY DEF FilesTyped, Op, PathOperation, OpsFit
<1>2. disk'[p] = NoFile /\ \A q \in Paths \ {p} : disk'[q] = disk[q]
  BY <1>1 DEF FilesTyped
<1>3. \A i \in DOMAIN m_operations : i >= next /\ i # next => i >= next'
  BY <1>1
<1>4. Fetched'
  <2>1. \A i \in DOMAIN m_operations : i < next' => i < next \/ i = next
    BY <1>1
  <2> QED BY <2>1 DEF Fetched, Wanted, Op
<1>5. CASE Doomed
  <2>1. PICK i \in DOMAIN m_operations : /\ i >= next /\ m_operations[i].type = "replace"
                                         /\ tmp[Flat[m_operations[i].path]] = NoFile
    BY <1>5 DEF Doomed
  <2>2. i # next
    BY <2>1 DEF Op
  <2>3. Doomed'
    BY <1>3, <2>1, <2>2 DEF Doomed
  <2> QED BY <1>4, <2>3 DEF PlannedOrDoomed
<1>6. CASE Planned
  <2>1. ASSUME NEW r \in newVersion, sources[r] > 0 PROVE disk'[r] = Fresh(r) \/ Pending(CopyOp(r))'
    <3>1. CASE disk[r] = Fresh(r)
      BY <1>1, <1>2, <3>1 DEF FilesTyped
    <3>2. CASE Pending(CopyOp(r))
      <4>1. PICK i \in DOMAIN m_operations : i >= next /\ m_operations[i] = CopyOp(r)
        BY <3>2 DEF Pending
      <4>2. i # next
        BY <4>1 DEF Op, CopyOp
      <4> QED BY <1>3, <4>1, <4>2 DEF Pending
    <3> QED BY <1>6, <2>1, <3>1, <3>2 DEF Planned
  <2>2. ASSUME NEW r \in current \ newVersion PROVE disk'[r] = NoFile \/ Pending(DeleteOp(r))'
    <3>1. CASE disk[r] = NoFile
      BY <1>2, <3>1 DEF FilesTyped
    <3>2. CASE Pending(DeleteOp(r))
      <4>1. PICK i \in DOMAIN m_operations : i >= next /\ m_operations[i] = DeleteOp(r)
        BY <3>2 DEF Pending
      <4>2. CASE i = next
        BY <1>2, <4>1, <4>2 DEF Op, DeleteOp
      <4>3. CASE i # next
        BY <1>3, <4>1, <4>3 DEF Pending
      <4> QED BY <4>2, <4>3
    <3> QED BY <1>6, <3>1, <3>2 DEF Planned
  <2>3. Planned'
    BY <2>1, <2>2 DEF Planned
  <2> QED BY <1>4, <2>3 DEF PlannedOrDoomed
<1> QED BY <1>5, <1>6 DEF PlannedOrDoomed

\* When every operation was done, everything is in place.
LEMMA AllDone ==
    ASSUME FilesTyped, PlannedOrDoomed, next > Len(m_operations)
    PROVE  InPlace
<1>1. \A i \in DOMAIN m_operations : ~ (i >= next)
  BY DEF FilesTyped
<1>2. \A op : ~ Pending(op)
  BY <1>1 DEF Pending
<1>3. ~ Doomed
  BY <1>1 DEF Doomed
<1> QED BY <1>2, <1>3 DEF PlannedOrDoomed, Planned, InPlace

\* What rollback() does with one file. Its name was that of the first file in its list,
\* which is no longer there.
LEMMA Forgotten ==
    ASSUME FilesTyped, Recovering, NEW p \in Paths,
           \/ /\ m_replace_backups # << >> /\ p = Head(m_replace_backups)
              /\ m_replace_backups' = Tail(m_replace_backups) /\ UNCHANGED m_delete_backups
           \/ /\ m_delete_backups # << >> /\ p = Head(m_delete_backups)
              /\ m_delete_backups' = Tail(m_delete_backups) /\ UNCHANGED m_replace_backups,
           UNCHANGED Flat
    PROVE  /\ m_replace_backups' \in Seq(Paths) /\ m_delete_backups' \in Seq(Paths)
           /\ NamesApart'
           /\ Moved = Moved' \union {p} /\ \A q \in Moved' : Flat[q] # Flat[p]
<1>1. m_replace_backups \in Seq(Paths) /\ m_delete_backups \in Seq(Paths)
  BY DEF FilesTyped
<1>2. Apart(Flat, m_replace_backups) /\ Apart(Flat, m_delete_backups)
      /\ \A q \in ToSet(m_replace_backups), r \in ToSet(m_delete_backups) : Flat[q] # Flat[r]
  BY DEF Recovering, NamesApart
<1>3. ASSUME NEW s \in Seq(Paths), s # << >>, Apart(Flat, s)
      PROVE  /\ Tail(s) \in Seq(Paths) /\ ToSet(s) = {Head(s)} \union ToSet(Tail(s))
             /\ Apart(Flat, Tail(s)) /\ \A q \in ToSet(Tail(s)) : Flat[q] # Flat[Head(s)]
  BY <1>3, ElementsOfTail, TailKeepsApart
<1>4. CASE /\ m_replace_backups # << >> /\ p = Head(m_replace_backups)
           /\ m_replace_backups' = Tail(m_replace_backups) /\ UNCHANGED m_delete_backups
  BY <1>1, <1>2, <1>3, <1>4 DEF NamesApart, Moved
<1>5. CASE /\ m_delete_backups # << >> /\ p = Head(m_delete_backups)
           /\ m_delete_backups' = Tail(m_delete_backups) /\ UNCHANGED m_replace_backups
  BY <1>1, <1>2, <1>3, <1>5 DEF NamesApart, Moved
<1> QED BY <1>4, <1>5

\* A rollback either gives up on the file, leaving its backup where it is, or brings it back.
LEMMA BroughtBack ==
    ASSUME FilesTyped, Recovering, NEW p \in Moved,
           UNCHANGED <<Flat, before>>, NamesApart', Moved = Moved' \union {p},
           \A q \in Moved' : Flat[q] # Flat[p],
           \/ /\ ~ revertOK'
              /\ disk' = [disk EXCEPT ![p] = disk'[p]] /\ disk'[p] \in {NoFile, disk[p]}
              /\ UNCHANGED backup
           \/ /\ disk' = [disk EXCEPT ![p] = backup[Flat[p]]]
              /\ backup' = [backup EXCEPT ![Flat[p]] = NoFile]
              /\ UNCHANGED revertOK
    PROVE  Recovering'
<1> DEFINE n == Flat[p]
<1>1. /\ Moved \subseteq Paths /\ p \in Paths /\ n \in Names
      /\ Flat \in [Paths -> Names] /\ disk \in [Paths -> File] /\ backup \in [Names -> File]
  BY DEF FilesTyped, Moved, ToSet
<1>2. /\ backup[n] # NoFile
      /\ before[p] # NoFile => backup[n] = before[p]
      /\ \A q \in Paths \ {p} : Flat[q] = n => before[q] \in {NoFile, disk[q]}
  BY DEF Recovering, Owned
<1>3. \A q \in Paths \ {p} : disk'[q] = disk[q]
  BY <1>1
<1>4. \A q \in Paths : Flat[q] # n => backup'[Flat[q]] = backup[Flat[q]]
  BY <1>1
<1>5. Owned'
  <2> SUFFICES ASSUME NEW q \in Moved'
               PROVE  /\ backup'[Flat[q]] # NoFile
                      /\ before[q] # NoFile => backup'[Flat[q]] = before[q]
                      /\ \A r \in Paths \ {q} : Flat[r] = Flat[q] => before[r] \in {NoFile, disk'[r]}
    BY DEF Owned
  <2>1. q \in Moved /\ Flat[q] # n
    OBVIOUS
  <2> QED BY <1>1, <1>3, <1>4, <2>1 DEF Recovering, Owned
<1>6. Stored'
  <2> SUFFICES ASSUME NEW q \in Paths, before[q] \notin {NoFile, disk'[q]}
               PROVE  backup'[Flat[q]] = before[q] /\ (q \in Moved' \/ ~ revertOK')
    BY DEF Stored
  <2>1. CASE ~ revertOK' /\ UNCHANGED backup
    <3>1. backup[Flat[q]] = before[q]
      BY <1>2, <1>3 DEF Recovering, Stored
    <3> QED BY <2>1, <3>1
  <2>2. CASE disk' = [disk EXCEPT ![p] = backup[n]] /\ backup' = [backup EXCEPT ![n] = NoFile]
             /\ UNCHANGED revertOK
    <3>1. q # p
      BY <1>1, <1>2, <2>2
    <3>2. backup[Flat[q]] = before[q] /\ (q \in Moved \/ ~ revertOK)
      BY <1>3, <3>1 DEF Recovering, Stored
    <3>3. Flat[q] # n
      BY <1>2, <1>3, <3>1
    <3> QED BY <1>4, <2>2, <3>1, <3>2, <3>3
  <2> QED BY <2>1, <2>2
<1> QED BY <1>5, <1>6 DEF Recovering

-----------------------------------------------------------------------------
(* The steps and the files.                                                  *)

\* Steps that leave the files, the installation and its phase alone.
LEMMA FilesAlone ==
    ASSUME FilesInv, UNCHANGED <<Flat, phase, install>>, ended' = "updated" => ended = "updated"
    PROVE  FilesInv'
<1>1. FilesTyped' /\ Untouched' /\ RollbackHonest'
  BY DEF FilesInv, install, lists, backups, FilesTyped, Untouched, RollbackHonest
<1>2. UNCHANGED <<OpsFit, Planned, Doomed, Fetched, InPlace, Recovering>>
  BY DEF install, lists, backups, OpsFit, Planned, Pending, Doomed, Fetched, Wanted, InPlace,
         Recovering, NamesApart, Stored, Owned, Moved
<1>3. Operating'
  BY <1>2 DEF FilesInv, install, Operating, PlannedOrDoomed
<1>4. Recoverable'
  BY <1>2 DEF FilesInv, install, Recoverable, Recovering
<1> QED BY <1>1, <1>3, <1>4 DEF FilesInv

\* Steps from a phase to another that finds all it needs.
LEMMA PhaseMoves ==
    ASSUME FilesInv, UNCHANGED <<Flat, install>>, ended' # "updated",
           \/ phase = "idle" /\ phase' \in {"offer", "none"}
           \/ phase = "offer" /\ phase' = "lists"
           \/ phase = "files" /\ phase' = "hung"
           \/ phase = "start" /\ phase' = "notStarted"
           \/ phase \in {"failed", "notStarted"} /\ phase' = "rollback"
    PROVE  FilesInv'
<1>1. FilesTyped' /\ Untouched' /\ RollbackHonest'
  BY DEF FilesInv, install, lists, backups, FilesTyped, Untouched, Early, RollbackHonest,
         Phases, Dialogs, Downloads, Busy
<1>2. UNCHANGED <<OpsFit, Planned, Recovering, revertOK>>
  BY DEF install, lists, backups, OpsFit, Planned, Pending,
         Recovering, NamesApart, Stored, Owned, Moved
<1>3. Operating'
  BY <1>2 DEF FilesInv, Operating
<1>4. Recoverable'
  BY <1>2 DEF FilesInv, Recoverable, Recovering, Working
<1> QED BY <1>1, <1>3, <1>4 DEF FilesInv

\* A slot that returns leaves nothing behind it.
LEMMA ReturnKeeps ==
    ASSUME FilesTyped, Return, UNCHANGED <<Flat, disk, backup>>, ended' # "updated"
    PROVE  FilesInv'
<1>1. FilesTyped'
  BY DEF FilesTyped, Return, Phases, File
<1>2. Untouched' /\ Operating' /\ Recoverable' /\ RollbackHonest'
  BY DEF Return, Untouched, Operating, Recoverable, Working, RollbackHonest
<1> QED BY <1>1, <1>2 DEF FilesInv

LEMMA ListsKeep == ASSUME FilesInv, UNCHANGED Flat, ListsArrive PROVE FilesInv'
<1>1. CASE Return
  BY <1>1, ReturnKeeps DEF ListsArrive, FilesInv, Alive
<1>2. CASE ~ Return
  <2>1. /\ newVersion' \subseteq Paths /\ current' \subseteq Paths
        /\ sources' \in [Paths -> UNION {Mirrors[p] : p \in Paths}]
        /\ ProcessFileLists /\ phase = "lists" /\ phase' = "files" /\ Alive
        /\ UNCHANGED <<next, tmp, backups, revertOK, before, disk, backup, ended>>
    BY <1>2 DEF ListsArrive
  <2>2. sources' \in [Paths -> Nat]
    BY <2>1, MirrorsAssumption
  <2>3. FilesTyped /\ before = disk /\ next = 1 /\ revertOK
        /\ m_replace_backups = << >> /\ m_delete_backups = << >>
    BY <2>1 DEF FilesInv, Untouched, Early
  <2>4. m_operations' \in Seq(PathOperation) /\ OpsFit' /\ Planned'
    BY <2>1, <2>2, <2>3, ListsPlan
  <2>5. FilesTyped'
    BY <2>1, <2>2, <2>3, <2>4 DEF FilesTyped, backups, Phases, Downloads
  <2>6. Untouched' /\ Operating' /\ Recoverable' /\ RollbackHonest'
    BY <2>1, <2>3, <2>4 DEF Untouched, backups, Operating, Recoverable, Working, RollbackHonest, Alive
  <2> QED BY <2>5, <2>6 DEF FilesInv
<1> QED BY <1>1, <1>2

LEMMA FilesKeep == ASSUME FilesInv, UNCHANGED Flat, FilesArrive PROVE FilesInv'
<1>1. PICK arrived \in SUBSET Wanted :
          /\ tmp' \in [Names -> {Fresh(p) : p \in arrived} \union {NoFile}]
          /\ \A n \in Names :
                IF \E p \in arrived : Flat[p] = n
                THEN \E p \in arrived : Flat[p] = n /\ tmp'[n] = Fresh(p)
                ELSE tmp'[n] = NoFile
  BY DEF FilesArrive
<1>2. /\ phase = "files" /\ phase' = "begin" /\ Alive
      /\ UNCHANGED <<newVersion, current, sources, m_operations, next, disk, backup,
                     m_replace_backups, m_delete_backups, revertOK, before, ended>>
  BY DEF FilesArrive, lists, backups
<1>3. FilesTyped /\ before = disk /\ next = 1 /\ revertOK /\ OpsFit /\ Planned
      /\ m_replace_backups = << >> /\ m_delete_backups = << >>
  BY <1>2 DEF FilesInv, Untouched, Early, Operating
<1>4. Wanted \subseteq Paths
  <2>1. \A i \in DOMAIN m_operations : m_operations[i] \in PathOperation
    BY <1>3 DEF FilesTyped
  <2> QED BY <2>1 DEF Wanted, PathOperation
<1>5. tmp' \in [Names -> File]
  <2>1. {Fresh(p) : p \in arrived} \union {NoFile} \subseteq File
    BY <1>4, FilesAreThere DEF File
  <2> QED BY <1>1, <2>1
<1>6. FilesTyped'
  BY <1>2, <1>3, <1>5 DEF FilesTyped, Phases, Busy
<1>7. OpsFit' /\ Planned' /\ Wanted' = Wanted
  BY <1>2, <1>3 DEF OpsFit, Planned, Pending, Wanted
<1>8. Fetched'
  <2>1. \A i \in DOMAIN m_operations : ~ (i < next)
    BY <1>3 DEF FilesTyped
  <2>2. ASSUME NEW n \in Names, tmp'[n] # NoFile PROVE \E q \in Wanted : Flat[q] = n /\ tmp'[n] = Fresh(q)
    BY <1>1, <2>2
  <2> QED BY <1>2, <1>7, <2>1, <2>2 DEF Fetched
<1>9. Untouched' /\ Operating' /\ Recoverable' /\ RollbackHonest'
  BY <1>2, <1>3, <1>7, <1>8
     DEF Untouched, Operating, PlannedOrDoomed, Recoverable, Working, RollbackHonest, Alive
<1> QED BY <1>6, <1>9 DEF FilesInv

LEMMA BeginKeeps == ASSUME FilesInv, UNCHANGED Flat, Begin PROVE FilesInv'
<1>1. /\ phase = "begin" /\ phase' \in {"operate", "returned"} /\ Alive /\ before' = disk
      /\ UNCHANGED <<newVersion, current, sources, m_operations, next, disk, tmp,
                     m_replace_backups, m_delete_backups, revertOK, ended>>
  BY DEF Begin, lists, backups
<1>2. FilesTyped /\ revertOK /\ OpsFit /\ PlannedOrDoomed /\ Fetched
      /\ m_replace_backups = << >> /\ m_delete_backups = << >>
  BY <1>1 DEF FilesInv, Untouched, Early, Operating
<1>3. backup' \in [Names -> File]
  BY <1>2 DEF Begin, FilesTyped, File
<1>4. FilesTyped'
  BY <1>1, <1>2, <1>3 DEF FilesTyped, Phases, Busy
<1>5. OpsFit' /\ PlannedOrDoomed' /\ Fetched'
  BY <1>1, <1>2 DEF OpsFit, PlannedOrDoomed, Doomed, Planned, Pending, Fetched, Wanted
<1>6. NamesApart' /\ Stored' /\ Owned'
  <2>1. Moved' = {}
    BY <1>1, <1>2 DEF Moved, ToSet
  <2>2. NamesApart'
    BY <1>1, <1>2 DEF NamesApart, Apart, ToSet
  <2> QED BY <1>1, <2>1, <2>2 DEF Stored, Owned
<1>7. Untouched' /\ Operating' /\ Recoverable' /\ RollbackHonest'
  BY <1>1, <1>2, <1>5, <1>6
     DEF Untouched, Early, Operating, Recoverable, RollbackHonest, Alive
<1> QED BY <1>4, <1>7 DEF FilesInv

\* The new launcher has shown that it lives.
LEMMA NewStarted ==
    ASSUME FilesInv, phase = "start", UNCHANGED <<Flat, phase, install>>
    PROVE  FilesInv'
<1>1. FilesTyped' /\ Untouched' /\ RollbackHonest'
  BY DEF FilesInv, install, lists, backups, FilesTyped, Untouched, RollbackHonest
<1>2. UNCHANGED <<InPlace, Recovering, revertOK>>
  BY DEF install, lists, backups, InPlace, Recovering, NamesApart, Stored, Owned, Moved
<1>3. Operating' /\ Recoverable'
  BY <1>2 DEF FilesInv, Operating, Recoverable, Recovering
<1> QED BY <1>1, <1>3 DEF FilesInv

\* While operations are done or a failure is shown: what a step has to keep.
LEMMA OperatingOn ==
    ASSUME FilesTyped', Recovering', revertOK', ended' = "no",
           \/ phase' = "failed"
           \/ phase' = "operate" /\ OpsFit' /\ PlannedOrDoomed' /\ Fetched'
           \/ phase' = "start" /\ InPlace'
    PROVE  FilesInv'
BY DEF FilesInv, Untouched, Early, Operating, Recoverable, Working, Recovering, RollbackHonest

LEMMA ReplaceKeeps ==
    ASSUME FilesInv, phase = "operate", next <= Len(m_operations), Replace,
           ended = "no", UNCHANGED <<Flat, lists, revertOK, before, ended>>
    PROVE  FilesInv'
<1> DEFINE p == Op.path
           n == Flat[p]
<1>1. /\ FilesTyped /\ OpsFit /\ PlannedOrDoomed /\ Fetched /\ Recovering /\ revertOK
      /\ UNCHANGED <<newVersion, current, sources, m_operations, m_delete_backups>>
  BY DEF FilesInv, Operating, Recoverable, Recovering, Working, Replace, lists
<1>2. /\ next \in DOMAIN m_operations /\ Op.type = "replace" /\ Op \in PathOperation
      /\ p \in Paths /\ n \in Names /\ next + 1 \in Nat \ {0}
      /\ disk[p] \in File /\ tmp[n] \in File
  <2>1. next \in DOMAIN m_operations
    BY <1>1 DEF FilesTyped
  <2>2. Op \in PathOperation /\ Flat \in [Paths -> Names]
    BY <1>1, <2>1 DEF FilesTyped, Op
  <2>3. p \in Paths
    BY <2>2 DEF PathOperation
  <2> QED BY <1>1, <2>1, <2>2, <2>3 DEF FilesTyped, Replace
<1>3. NoFile \in File
  BY DEF File
<1>4. CASE phase' = "failed" /\ UNCHANGED <<next, disk, tmp, backup, m_replace_backups>>
  <2>1. FilesTyped' /\ Recovering'
    BY <1>1, <1>4 DEF FilesTyped, Phases, Dialogs, Recovering, NamesApart, Stored, Owned, Moved
  <2> QED BY <1>1, <1>4, <2>1, OperatingOn
<1>5. CASE /\ phase' = "failed" /\ UNCHANGED <<next, tmp>>
           /\ CanMove(disk[p], backup[n])
           /\ backup' = [backup EXCEPT ![n] = disk[p]]
           /\ m_replace_backups' = Append(m_replace_backups, p)
           /\ disk' = [disk EXCEPT ![p] = NoFile]
  <2>1. Recovering' /\ m_replace_backups' \in Seq(Paths) /\ m_delete_backups' \in Seq(Paths)
    <3> HIDE DEF p
    <3> QED BY <1>1, <1>2, <1>5, MovedAway DEF CanMove
  <2>2. FilesTyped'
    <3> HIDE DEF p
    <3> QED BY <1>1, <1>2, <1>3, <1>5, <2>1 DEF FilesTyped, Phases, Dialogs
  <2> QED BY <1>1, <1>5, <2>1, <2>2, OperatingOn
<1>6. CASE /\ tmp[n] # NoFile /\ disk' = [disk EXCEPT ![p] = tmp[n]]
           /\ tmp' = [tmp EXCEPT ![n] = NoFile] /\ Done
           /\ \/ /\ CanMove(disk[p], backup[n])
                 /\ backup' = [backup EXCEPT ![n] = disk[p]]
                 /\ m_replace_backups' = Append(m_replace_backups, p)
              \/ disk[p] = NoFile /\ UNCHANGED <<backup, m_replace_backups>>
  <2>1. PlannedOrDoomed' /\ Fetched'
    BY <1>1, <1>2, <1>6, CopyDone DEF Done
  <2>2. Recovering' /\ m_replace_backups' \in Seq(Paths) /\ m_delete_backups' \in Seq(Paths)
        /\ backup' \in [Names -> File]
    <3> HIDE DEF p
    <3>1. CASE CanMove(disk[p], backup[n]) /\ backup' = [backup EXCEPT ![n] = disk[p]]
               /\ m_replace_backups' = Append(m_replace_backups, p)
      <4>1. backup' \in [Names -> File]
        BY <1>1, <1>2, <3>1 DEF FilesTyped
      <4> QED BY <1>1, <1>2, <1>6, <3>1, <4>1, MovedAway DEF CanMove
    <3>2. CASE disk[p] = NoFile /\ UNCHANGED <<backup, m_replace_backups>>
      <4>1. Recovering'
        BY <1>1, <1>2, <1>6, <3>2, PutDown DEF backups
      <4> QED BY <1>1, <3>2, <4>1 DEF FilesTyped
    <3> QED BY <1>6, <3>1, <3>2
  <2>3. FilesTyped'
    <3> HIDE DEF p
    <3> QED BY <1>1, <1>2, <1>3, <1>6, <2>2 DEF FilesTyped, Done
  <2>4. OpsFit' /\ phase' = "operate"
    BY <1>1, <1>6 DEF OpsFit, Done
  <2> QED BY <1>1, <2>1, <2>2, <2>3, <2>4, OperatingOn
<1>7. \/ phase' = "failed" /\ UNCHANGED <<next, disk, tmp, backup, m_replace_backups>>
      \/ /\ phase' = "failed" /\ UNCHANGED <<next, tmp>>
         /\ CanMove(disk[p], backup[n])
         /\ backup' = [backup EXCEPT ![n] = disk[p]]
         /\ m_replace_backups' = Append(m_replace_backups, p)
         /\ disk' = [disk EXCEPT ![p] = NoFile]
      \/ /\ tmp[n] # NoFile /\ disk' = [disk EXCEPT ![p] = tmp[n]]
         /\ tmp' = [tmp EXCEPT ![n] = NoFile] /\ Done
         /\ \/ /\ CanMove(disk[p], backup[n])
               /\ backup' = [backup EXCEPT ![n] = disk[p]]
               /\ m_replace_backups' = Append(m_replace_backups, p)
            \/ disk[p] = NoFile /\ UNCHANGED <<backup, m_replace_backups>>
  <2> HIDE DEF p
  <2> QED BY DEF Replace, Fail, CanMove, p
<1> HIDE DEF p
<1> QED BY <1>4, <1>5, <1>6, <1>7

LEMMA DeleteKeeps ==
    ASSUME FilesInv, phase = "operate", next <= Len(m_operations), Delete,
           ended = "no", UNCHANGED <<Flat, lists, revertOK, before, ended>>
    PROVE  FilesInv'
<1> DEFINE p == Op.path
           n == Flat[p]
<1>1. /\ FilesTyped /\ OpsFit /\ PlannedOrDoomed /\ Fetched /\ Recovering /\ revertOK
      /\ UNCHANGED <<newVersion, current, sources, m_operations, tmp, m_replace_backups>>
  BY DEF FilesInv, Operating, Recoverable, Recovering, Working, Delete, lists
<1>2. /\ next \in DOMAIN m_operations /\ Op.type = "delete" /\ Op \in PathOperation
      /\ p \in Paths /\ n \in Names /\ next + 1 \in Nat \ {0}
      /\ disk[p] \in File
  <2>1. next \in DOMAIN m_operations
    BY <1>1 DEF FilesTyped
  <2>2. Op \in PathOperation /\ Flat \in [Paths -> Names]
    BY <1>1, <2>1 DEF FilesTyped, Op
  <2>3. p \in Paths
    BY <2>2 DEF PathOperation
  <2> QED BY <1>1, <2>1, <2>2, <2>3 DEF FilesTyped, Delete
<1>3. NoFile \in File
  BY DEF File
<1>4. CASE phase' = "failed" /\ UNCHANGED <<next, disk, backup, m_delete_backups>>
  <2>1. FilesTyped' /\ Recovering'
    BY <1>1, <1>4 DEF FilesTyped, Phases, Dialogs, Recovering, NamesApart, Stored, Owned, Moved
  <2> QED BY <1>1, <1>4, <2>1, OperatingOn
<1>5. CASE disk[p] = NoFile /\ Done /\ UNCHANGED <<disk, backup, m_delete_backups>>
  <2>1. disk' = [disk EXCEPT ![p] = NoFile]
    <3> HIDE DEF p
    <3> QED BY <1>1, <1>5 DEF FilesTyped
  <2>2. PlannedOrDoomed' /\ Fetched'
    BY <1>1, <1>2, <1>5, <2>1, DeletionDone DEF Done
  <2>3. FilesTyped' /\ Recovering' /\ OpsFit' /\ phase' = "operate"
    BY <1>1, <1>2, <1>5
       DEF FilesTyped, Done, OpsFit, Recovering, NamesApart, Stored, Owned, Moved
  <2> QED BY <1>1, <2>2, <2>3, OperatingOn
<1>6. CASE /\ CanMove(disk[p], backup[n])
           /\ backup' = [backup EXCEPT ![n] = disk[p]]
           /\ disk' = [disk EXCEPT ![p] = NoFile]
           /\ m_delete_backups' = Append(m_delete_backups, p)
           /\ Done
  <2>1. PlannedOrDoomed' /\ Fetched'
    BY <1>1, <1>2, <1>6, DeletionDone DEF Done
  <2>2. Recovering' /\ m_replace_backups' \in Seq(Paths) /\ m_delete_backups' \in Seq(Paths)
    <3> HIDE DEF p
    <3> QED BY <1>1, <1>2, <1>6, MovedAway DEF CanMove
  <2>3. FilesTyped'
    <3> HIDE DEF p
    <3> QED BY <1>1, <1>2, <1>3, <1>6, <2>2 DEF FilesTyped, Done
  <2>4. OpsFit' /\ phase' = "operate"
    BY <1>1, <1>6 DEF OpsFit, Done
  <2> QED BY <1>1, <2>1, <2>2, <2>3, <2>4, OperatingOn
<1> QED BY <1>4, <1>5, <1>6 DEF Delete, Fail

LEMMA OperateKeeps == ASSUME FilesInv, UNCHANGED Flat, Operate PROVE FilesInv'
<1>1. phase = "operate" /\ ended = "no" /\ UNCHANGED <<lists, revertOK, before, ended>>
  BY DEF Operate, Alive
<1>2. CASE next <= Len(m_operations) /\ Replace
  BY <1>1, <1>2, ReplaceKeeps
<1>3. CASE next <= Len(m_operations) /\ Delete
  BY <1>1, <1>3, DeleteKeeps
<1>4. CASE next > Len(m_operations) /\ phase' = "start"
           /\ UNCHANGED <<next, disk, tmp, backup, backups>>
  <2>1. FilesTyped /\ PlannedOrDoomed /\ Recovering /\ revertOK
    BY <1>1 DEF FilesInv, Operating, Recoverable, Recovering, Working
  <2>2. InPlace'
    <3>1. InPlace
      BY <1>4, <2>1, AllDone
    <3> QED BY <1>1, <1>4, <3>1 DEF InPlace, lists
  <2>3. FilesTyped' /\ Recovering'
    BY <1>1, <1>4, <2>1
       DEF FilesTyped, lists, backups, Phases, Busy, Recovering, NamesApart, Stored, Owned, Moved
  <2> QED BY <1>1, <1>4, <2>1, <2>2, <2>3, OperatingOn
<1> QED BY <1>2, <1>3, <1>4 DEF Operate

LEMMA RollbackKeeps == ASSUME FilesInv, UNCHANGED Flat, Rollback PROVE FilesInv'
<1>1. /\ phase = "rollback" /\ ended = "no" /\ FilesTyped /\ Recovering
      /\ UNCHANGED <<newVersion, current, sources, m_operations, next, before>>
  BY DEF Rollback, Alive, FilesInv, Recoverable, Recovering, Working, lists
<1>2. ASSUME FilesTyped', Recovering', phase' = "rollback", ended' # "updated" PROVE FilesInv'
  BY <1>2 DEF FilesInv, Untouched, Early, Operating, Recoverable, Working, Recovering, RollbackHonest
<1>3. NoFile \in File
  BY DEF File
<1>4. CASE RestoreReplaced /\ UNCHANGED <<phase, ended>>
  <2> DEFINE p == Head(m_replace_backups)
             n == Flat[p]
  <2>1. m_replace_backups # << >> /\ m_replace_backups' = Tail(m_replace_backups)
        /\ UNCHANGED m_delete_backups
    BY <1>4 DEF RestoreReplaced
  <2>2. p \in Paths /\ p \in ToSet(m_replace_backups) /\ n \in Names
    BY <1>1, <2>1, ElementsOfTail DEF FilesTyped
  <2>3. p \in Moved /\ disk[p] \in File /\ backup[n] \in File
    BY <1>1, <2>2 DEF Moved, FilesTyped
  <2> HIDE DEF p
  <2>4. /\ m_replace_backups' \in Seq(Paths) /\ m_delete_backups' \in Seq(Paths)
        /\ NamesApart'
        /\ Moved = Moved' \union {p} /\ \A q \in Moved' : Flat[q] # n
    BY <1>1, <2>1, <2>2, Forgotten DEF p
  <2>5. \/ ~ revertOK' /\ UNCHANGED <<disk, tmp, backup>> /\ revertOK' \in BOOLEAN
        \/ /\ ~ revertOK' /\ disk' = [disk EXCEPT ![p] = NoFile] /\ UNCHANGED backup
           /\ tmp' = [tmp EXCEPT ![n] = disk[p]] /\ revertOK' \in BOOLEAN
        \/ /\ disk' = [disk EXCEPT ![p] = backup[n]] /\ backup' = [backup EXCEPT ![n] = NoFile]
           /\ tmp' = [tmp EXCEPT ![n] = disk[p]] /\ UNCHANGED revertOK
    BY <1>4 DEF RestoreReplaced, p
  <2>6. \/ /\ ~ revertOK'
           /\ disk' = [disk EXCEPT ![p] = disk'[p]] /\ disk'[p] \in {NoFile, disk[p]}
           /\ UNCHANGED backup
        \/ /\ disk' = [disk EXCEPT ![p] = backup[n]] /\ backup' = [backup EXCEPT ![n] = NoFile]
           /\ UNCHANGED revertOK
    BY <1>1, <2>2, <2>5 DEF FilesTyped
  <2>7. Recovering'
    BY <1>1, <2>3, <2>4, <2>6, BroughtBack
  <2>8. revertOK \in BOOLEAN /\ disk \in [Paths -> File] /\ tmp \in [Names -> File]
        /\ backup \in [Names -> File]
    BY <1>1 DEF FilesTyped
  <2>9. revertOK' \in BOOLEAN /\ disk' \in [Paths -> File] /\ tmp' \in [Names -> File]
        /\ backup' \in [Names -> File]
    BY <1>3, <2>2, <2>3, <2>5, <2>8
  <2>10. FilesTyped'
    BY <1>1, <1>4, <2>4, <2>9 DEF FilesTyped
  <2> QED BY <1>1, <1>2, <1>4, <2>7, <2>10
<1>5. CASE RestoreDeleted /\ UNCHANGED <<phase, ended>>
  <2> DEFINE p == Head(m_delete_backups)
             n == Flat[p]
  <2>1. m_delete_backups # << >> /\ m_delete_backups' = Tail(m_delete_backups)
        /\ UNCHANGED <<tmp, m_replace_backups>>
    BY <1>5 DEF RestoreDeleted
  <2>2. p \in Paths /\ p \in ToSet(m_delete_backups) /\ n \in Names
    BY <1>1, <2>1, ElementsOfTail DEF FilesTyped
  <2>3. p \in Moved /\ disk[p] \in File /\ backup[n] \in File
    BY <1>1, <2>2 DEF Moved, FilesTyped
  <2> HIDE DEF p
  <2>4. /\ m_replace_backups' \in Seq(Paths) /\ m_delete_backups' \in Seq(Paths)
        /\ NamesApart'
        /\ Moved = Moved' \union {p} /\ \A q \in Moved' : Flat[q] # n
    BY <1>1, <2>1, <2>2, Forgotten DEF p
  <2>5. \/ ~ revertOK' /\ UNCHANGED <<disk, backup>> /\ revertOK' \in BOOLEAN
        \/ /\ disk' = [disk EXCEPT ![p] = backup[n]] /\ backup' = [backup EXCEPT ![n] = NoFile]
           /\ UNCHANGED revertOK
    BY <1>5 DEF RestoreDeleted, p
  <2>6. \/ /\ ~ revertOK'
           /\ disk' = [disk EXCEPT ![p] = disk'[p]] /\ disk'[p] \in {NoFile, disk[p]}
           /\ UNCHANGED backup
        \/ /\ disk' = [disk EXCEPT ![p] = backup[n]] /\ backup' = [backup EXCEPT ![n] = NoFile]
           /\ UNCHANGED revertOK
    BY <1>1, <2>2, <2>5 DEF FilesTyped
  <2>7. Recovering'
    BY <1>1, <2>3, <2>4, <2>6, BroughtBack
  <2>8. revertOK \in BOOLEAN /\ disk \in [Paths -> File] /\ backup \in [Names -> File]
    BY <1>1 DEF FilesTyped
  <2>9. revertOK' \in BOOLEAN /\ disk' \in [Paths -> File] /\ backup' \in [Names -> File]
    BY <1>3, <2>2, <2>3, <2>5, <2>8
  <2>10. FilesTyped'
    BY <1>1, <1>5, <2>1, <2>4, <2>9 DEF FilesTyped
  <2> QED BY <1>1, <1>2, <1>5, <2>7, <2>10
<1>6. CASE /\ m_replace_backups = << >> /\ m_delete_backups = << >>
           /\ revertOK /\ phase' = "returned" /\ UNCHANGED ended
           /\ UNCHANGED <<disk, tmp, backup, backups, revertOK>>
  <2>1. Moved = {}
    BY <1>6 DEF Moved, ToSet
  <2>2. RollbackHonest'
    BY <1>1, <1>6, <2>1 DEF RollbackHonest, Recovering, Stored
  <2>3. FilesTyped'
    BY <1>1, <1>6 DEF FilesTyped, backups, Phases, Busy
  <2> QED BY <1>1, <1>6, <2>2, <2>3 DEF FilesInv, Untouched, Early, Operating, Recoverable, Working
<1>7. CASE ended' = "broken" /\ UNCHANGED <<phase, disk, tmp, backup, backups, revertOK>>
  <2>1. UNCHANGED install
    BY <1>1, <1>7 DEF install, lists
  <2> QED BY <1>7, <2>1, FilesAlone
<1> QED BY <1>4, <1>5, <1>6, <1>7 DEF Rollback

\* Every step keeps what is known of the files.
LEMMA NextKeepsFiles == ASSUME FilesInv, [Next]_vars PROVE FilesInv'
<1>1. CASE UNCHANGED vars
  <2>1. UNCHANGED <<Flat, phase, install, ended>>
    BY <1>1 DEF vars
  <2> QED BY <2>1, FilesAlone
<1> SUFFICES ASSUME Next PROVE FilesInv'
  BY <1>1
<1> USE DEF Alive
<1>2. UNCHANGED Flat /\ FilesTyped
  BY DEF Next, FilesInv
<1>3. CASE CheckForUpdates \/ OpenSettings \/ ChanListDownloadFinished
  BY <1>2, <1>3, FilesAlone DEF CheckForUpdates, OpenSettings, ChanListDownloadFinished
<1>4. CASE UpdateCheckFinished
  <2>1. CASE UNCHANGED phase
    BY <1>2, <1>4, <2>1, FilesAlone DEF UpdateCheckFinished
  <2>2. CASE phase' \in {"offer", "none"}
    BY <1>2, <1>4, <2>2, PhaseMoves DEF UpdateCheckFinished
  <2> QED BY <1>4, <2>1, <2>2 DEF UpdateCheckFinished
<1>5. CASE OfferAnswered
  <2>1. CASE phase' = "lists" /\ UNCHANGED install
    BY <1>2, <1>5, <2>1, PhaseMoves DEF OfferAnswered
  <2>2. CASE Return /\ UNCHANGED <<disk, backup>>
    BY <1>2, <1>5, <2>2, ReturnKeeps DEF OfferAnswered
  <2> QED BY <1>5, <2>1, <2>2 DEF OfferAnswered
<1>6. CASE NoneRead \/ Escape \/ Returned
  BY <1>2, <1>6, ReturnKeeps DEF NoneRead, Escape, Returned
<1>7. CASE ListsArrive
  BY <1>2, <1>7, ListsKeep
<1>8. CASE FilesArrive
  BY <1>2, <1>8, FilesKeep
<1>9. CASE FilesHang
  BY <1>2, <1>9, PhaseMoves DEF FilesHang
<1>10. CASE Begin
  BY <1>2, <1>10, BeginKeeps
<1>11. CASE Operate
  BY <1>2, <1>11, OperateKeeps
<1>12. CASE StartNew
  <2>1. CASE ended' = "updated" /\ UNCHANGED phase
    <3>1. FilesInv /\ phase = "start" /\ UNCHANGED <<Flat, phase, install>>
      BY <1>2, <1>12, <2>1 DEF StartNew
    <3> QED BY <2>1, <3>1, NewStarted
  <2>2. CASE phase' = "notStarted" /\ UNCHANGED ended
    BY <1>2, <1>12, <2>2, PhaseMoves DEF StartNew
  <2> QED BY <1>12, <2>1, <2>2 DEF StartNew
<1>13. CASE FailureRead
  <2>1. CASE phase \in {"failed", "notStarted"} /\ phase' = "rollback" /\ UNCHANGED ended
    BY <1>2, <1>13, <2>1, PhaseMoves DEF FailureRead
  <2>2. CASE ended' = "left" /\ UNCHANGED phase
    BY <1>2, <1>13, <2>2, FilesAlone DEF FailureRead
  <2> QED BY <1>13, <2>1, <2>2 DEF FailureRead
<1>14. CASE Rollback
  BY <1>2, <1>14, RollbackKeeps
<1>15. CASE (\E i \in Instances : Launch(i) \/ ShowInstanceWindow(i)) \/ ShowMainWindow
  BY <1>2, <1>15, FilesAlone DEF Launch, ShowInstanceWindow, ShowMainWindow
<1>16. CASE CloseWindow \/ \E i \in Instances : ControllerEnds(i)
  <2>1. ended' = "updated" => ended = "updated"
    BY <1>16 DEF CloseWindow, ControllerEnds, ExitIfIdle
  <2> QED BY <1>2, <1>16, <2>1, FilesAlone DEF CloseWindow, ControllerEnds
<1>17. CASE Restart
  BY <1>2, <1>17, ReturnKeeps DEF Restart
<1> QED BY <1>3, <1>4, <1>5, <1>6, <1>7, <1>8, <1>9, <1>10, <1>11, <1>12, <1>13, <1>14,
           <1>15, <1>16, <1>17 DEF Next

-----------------------------------------------------------------------------
(* The steps and the desk.                                                   *)

\* The count of a set goes up with what enters it and down with what leaves it.
LEMMA CountsFollow ==
    ASSUME NEW S, IsFiniteSet(S), NEW x
    PROVE  /\ IsFiniteSet(S \union {x}) /\ IsFiniteSet(S \ {x}) /\ Cardinality(S) \in Nat
           /\ x \notin S => Cardinality(S \union {x}) = Cardinality(S) + 1
           /\ x \in S => Cardinality(S \ {x}) = Cardinality(S) - 1
<1>1. Cardinality(S) \in Nat
  BY FS_CardinalityType
<1>2. /\ IsFiniteSet(S \union {x})
      /\ Cardinality(S \union {x}) = IF x \in S THEN Cardinality(S) ELSE Cardinality(S) + 1
  BY FS_AddElement
<1>3. /\ IsFiniteSet(S \ {x})
      /\ Cardinality(S \ {x}) = IF x \in S THEN Cardinality(S) - 1 ELSE Cardinality(S)
  BY FS_RemoveElement
<1> QED BY <1>1, <1>2, <1>3

\* When the counts are zero there is nothing left.
LEMMA NoneLeft ==
    ASSUME NEW S, IsFiniteSet(S), NEW T, IsFiniteSet(T), NEW main \in BOOLEAN,
           Cardinality(S) = 0, Cardinality(T) + (IF main THEN 1 ELSE 0) = 0
    PROVE  S = {} /\ T = {} /\ ~ main
<1>1. Cardinality(S) \in Nat /\ Cardinality(T) \in Nat
  BY FS_CardinalityType
<1>2. ~ main /\ Cardinality(T) = 0
  BY <1>1
<1> QED BY <1>2, FS_EmptySet

\* Steps that touch neither windows nor launches, nor end the process for want of them.
LEMMA DeskAlone ==
    ASSUME Counting, UNCHANGED desk, ended' = "idle" => ended = "idle"
    PROVE  Counting'
BY DEF Counting, EndsWhenIdle, desk

\* A check that begins leaves the others running.
LEMMA CheckTyped ==
    ASSUME DeskTyped, NEW loaded \in BOOLEAN, NEW loading \in BOOLEAN,
           NEW channels \in {"none", "foreign", "usable"}, CheckForUpdate(loaded, loading, channels)
    PROVE  /\ m_chanListLoaded' \in BOOLEAN /\ m_chanListLoading' \in BOOLEAN
           /\ m_checkUpdateWaiting' \in BOOLEAN /\ m_updateChecking' \in BOOLEAN
           /\ m_channels' \in {"none", "foreign", "usable"}
           /\ m_updateChecking => m_updateChecking'
BY DEF DeskTyped, CheckForUpdate

\* The channels and the flag of a check: what the steps of the process do with them.
Checker == /\ m_chanListLoaded \in BOOLEAN /\ m_chanListLoading \in BOOLEAN
           /\ m_checkUpdateWaiting \in BOOLEAN /\ m_updateChecking \in BOOLEAN
           /\ m_channels \in {"none", "foreign", "usable"}

LEMMA LaunchKeeps == ASSUME DeskInv, NEW i \in Instances, Launch(i) PROVE DeskInv'
<1>1. DeskTyped'
  BY DEF DeskInv, DeskTyped, Launch, checker
<1>2. OneUpdate'
  BY DEF DeskInv, OneUpdate, Launch, Alive
<1>3. Counting'
  <2>1. IsFiniteSet(controllers') /\ Cardinality(controllers') = Cardinality(controllers) + 1
    BY CountsFollow DEF DeskInv, Counting, Launch
  <2> QED BY <2>1 DEF DeskInv, Counting, EndsWhenIdle, Launch, Alive
<1> QED BY <1>1, <1>2, <1>3 DEF DeskInv

LEMMA WindowKeeps == ASSUME DeskInv, NEW i \in Instances, ShowInstanceWindow(i) PROVE DeskInv'
<1>1. DeskTyped'
  BY DEF DeskInv, DeskTyped, ShowInstanceWindow, checker
<1>2. OneUpdate'
  BY DEF DeskInv, OneUpdate, ShowInstanceWindow, Alive
<1>3. Counting'
  <2>1. /\ IsFiniteSet(windows') /\ Cardinality(windows') = Cardinality(windows) + 1
        /\ Cardinality(windows) \in Nat
    BY CountsFollow DEF DeskInv, Counting, ShowInstanceWindow
  <2> QED BY <2>1 DEF DeskInv, Counting, EndsWhenIdle, ShowInstanceWindow, Alive
<1> QED BY <1>1, <1>2, <1>3 DEF DeskInv

LEMMA MainWindowKeeps == ASSUME DeskInv, ShowMainWindow PROVE DeskInv'
<1>1. Checker' /\ (m_updateChecking => m_updateChecking')
  <2>1. CASE CheckForUpdate(m_chanListLoaded, m_chanListLoading, m_channels)
    BY <2>1, CheckTyped DEF DeskInv, DeskTyped, Checker
  <2>2. CASE UNCHANGED <<checker, m_updateChecking>>
    BY <2>2 DEF DeskInv, DeskTyped, Checker, checker
  <2> QED BY <2>1, <2>2 DEF ShowMainWindow
<1>2. DeskTyped'
  BY <1>1 DEF DeskInv, DeskTyped, Checker, ShowMainWindow
<1>3. OneUpdate'
  BY <1>1 DEF DeskInv, OneUpdate, ShowMainWindow, Alive
<1>4. Counting'
  <2>1. Cardinality(windows) \in Nat
    BY FS_CardinalityType DEF DeskInv, Counting
  <2> QED BY <2>1 DEF DeskInv, Counting, EndsWhenIdle, ShowMainWindow, Alive
<1> QED BY <1>2, <1>3, <1>4 DEF DeskInv

LEMMA CloseWindowKeeps == ASSUME DeskInv, CloseWindow PROVE DeskInv'
<1>1. /\ Counting /\ DeskTyped /\ ended = "no" /\ phase' = "idle" /\ Cardinality(windows) \in Nat
      /\ UNCHANGED <<m_runningInstances, controllers>>
  BY FS_CardinalityType DEF DeskInv, Counting, CloseWindow, Alive
<1>2. /\ IsFiniteSet(windows') /\ windows' \subseteq Instances /\ m_mainWindow' \in BOOLEAN
      /\ m_openWindows' = Cardinality(windows') + (IF m_mainWindow' THEN 1 ELSE 0)
  <2>1. m_openWindows' = m_openWindows - 1
        /\ m_openWindows = Cardinality(windows) + (IF m_mainWindow THEN 1 ELSE 0)
    BY <1>1 DEF CloseWindow, Counting, EndsWhenIdle
  <2>2. ASSUME NEW i \in windows, windows' = windows \ {i}, UNCHANGED m_mainWindow
        PROVE  /\ IsFiniteSet(windows') /\ Cardinality(windows') = Cardinality(windows) - 1
    BY <1>1, <2>2, CountsFollow DEF Counting
  <2>3. CASE \E i \in windows : windows' = windows \ {i} /\ UNCHANGED m_mainWindow
    <3>1. IsFiniteSet(windows') /\ Cardinality(windows') = Cardinality(windows) - 1
      BY <2>2, <2>3
    <3>2. windows' \subseteq Instances /\ UNCHANGED m_mainWindow /\ m_mainWindow \in BOOLEAN
      BY <1>1, <2>3 DEF DeskTyped
    <3> DEFINE main == IF m_mainWindow THEN 1 ELSE 0
    <3>3. main \in Int /\ main' = main
      BY <3>2
    <3>4. m_openWindows' = Cardinality(windows') + main
      <4> HIDE DEF main
      <4>1. m_openWindows = Cardinality(windows) + main
        BY <2>1 DEF main
      <4> QED BY <1>1, <2>1, <3>1, <3>3, <4>1
    <3> QED BY <3>1, <3>2, <3>4
  <2>4. CASE m_mainWindow /\ m_mainWindow' = FALSE /\ UNCHANGED windows
    <3>1. m_openWindows = Cardinality(windows) + 1
      BY <2>1, <2>4
    <3>2. m_openWindows' = Cardinality(windows') + 0
      BY <1>1, <2>1, <2>4, <3>1
    <3>3. IsFiniteSet(windows') /\ windows' \subseteq Instances /\ m_mainWindow' = FALSE
      BY <1>1, <2>4 DEF DeskTyped, Counting
    <3> QED BY <3>2, <3>3
  <2> QED BY <2>3, <2>4 DEF CloseWindow
<1>3. Counting'
  <2>1. m_runningInstances' = Cardinality(controllers') /\ IsFiniteSet(controllers')
    BY <1>1 DEF Counting, EndsWhenIdle
  <2>2. ended' = "idle" => controllers' = {} /\ windows' = {} /\ ~ m_mainWindow'
    <3>1. ended' = "idle" => m_openWindows' = 0 /\ m_runningInstances' = 0
      BY <1>1 DEF CloseWindow, ExitIfIdle
    <3> QED BY <1>2, <2>1, <3>1, NoneLeft
  <2> QED BY <1>2, <2>1, <2>2 DEF Counting, EndsWhenIdle
<1>4. DeskTyped' /\ OneUpdate'
  BY <1>1, <1>2 DEF DeskTyped, CloseWindow, ExitIfIdle, checker, OneUpdate
<1> QED BY <1>3, <1>4 DEF DeskInv

LEMMA ControllerKeeps == ASSUME DeskInv, NEW i \in Instances, ControllerEnds(i) PROVE DeskInv'
<1>1. /\ Counting /\ DeskTyped /\ OneUpdate /\ ended = "no" /\ Cardinality(windows) \in Nat
      /\ UNCHANGED <<phase, m_updateChecking, m_mainWindow>>
  BY FS_CardinalityType DEF DeskInv, Counting, ControllerEnds, Alive
<1>2. /\ IsFiniteSet(controllers') /\ controllers' \subseteq Instances
      /\ m_runningInstances' = Cardinality(controllers')
  BY <1>1, CountsFollow DEF DeskTyped, Counting, EndsWhenIdle, ControllerEnds
<1>3. /\ IsFiniteSet(windows') /\ windows' \subseteq Instances
      /\ m_openWindows' = Cardinality(windows') + (IF m_mainWindow' THEN 1 ELSE 0)
  <2>1. m_openWindows = Cardinality(windows) + (IF m_mainWindow THEN 1 ELSE 0)
    BY <1>1 DEF Counting, EndsWhenIdle
  <2>2. CASE UNCHANGED <<windows, m_openWindows>>
    BY <1>1, <2>1, <2>2 DEF DeskTyped, Counting
  <2>3. CASE i \in windows /\ windows' = windows \ {i} /\ m_openWindows' = m_openWindows - 1
    <3>1. IsFiniteSet(windows') /\ Cardinality(windows') = Cardinality(windows) - 1
      BY <1>1, <2>3, CountsFollow DEF Counting
    <3> QED BY <1>1, <2>1, <2>3, <3>1 DEF DeskTyped
  <2> QED BY <2>2, <2>3 DEF ControllerEnds
<1>4. Counting'
  <2>1. ended' = "idle" => controllers' = {} /\ windows' = {} /\ ~ m_mainWindow'
    <3>1. ended' = "idle" => m_openWindows' = 0 /\ m_runningInstances' = 0
      BY <1>1 DEF ControllerEnds, ExitIfIdle
    <3>2. m_mainWindow' \in BOOLEAN
      BY <1>1 DEF DeskTyped
    <3> QED BY <1>2, <1>3, <3>1, <3>2, NoneLeft
  <2> QED BY <1>2, <1>3, <2>1 DEF Counting, EndsWhenIdle
<1>5. DeskTyped'
  BY <1>1, <1>2, <1>3 DEF DeskTyped, ControllerEnds, ExitIfIdle, checker
<1>6. OneUpdate'
  BY <1>1 DEF OneUpdate, Alive
<1> QED BY <1>4, <1>5, <1>6 DEF DeskInv

\* Every step keeps what is known of the windows, the launches and the checks.
LEMMA NextKeepsDesk == ASSUME DeskInv, [Next]_vars PROVE DeskInv'
<1> USE DEF Alive
<1>1. CASE UNCHANGED vars
  <2>1. UNCHANGED <<checker, m_updateChecking, phase, m_updateRunning, desk, ended>>
    BY <1>1 DEF vars
  <2> QED BY <2>1, DeskAlone DEF DeskInv, DeskTyped, OneUpdate, checker, desk
<1> SUFFICES ASSUME Next PROVE DeskInv'
  BY <1>1
<1>2. DeskTyped /\ OneUpdate /\ Counting
  BY DEF DeskInv
<1>3. ASSUME UNCHANGED <<m_updateRunning, desk, ended>>, Checker',
             phase' # "idle" => m_updateChecking' /\ m_mainWindow
      PROVE  DeskInv'
  <2>1. Counting'
    BY <1>2, <1>3, DeskAlone
  <2> QED BY <1>2, <1>3, <2>1 DEF DeskInv, DeskTyped, OneUpdate, Checker, desk
<1>4. ASSUME UNCHANGED <<checker, desk>>, ended = "no", phase' = phase,
             m_updateChecking' = m_updateChecking, m_updateRunning' \in BOOLEAN,
             ended' \in {"no", "updated", "left", "broken"}, phase # "idle"
      PROVE  DeskInv'
  <2>1. Counting'
    BY <1>2, <1>4, DeskAlone
  <2> QED BY <1>2, <1>4, <2>1 DEF DeskInv, DeskTyped, OneUpdate, desk, checker
<1>5. ASSUME UNCHANGED <<checker, desk, ended>>, ended = "no", phase # "idle",
             m_updateChecking' = m_updateChecking, m_updateRunning' \in BOOLEAN
      PROVE  DeskInv'
  <2>1. Counting'
    BY <1>2, <1>5, DeskAlone
  <2> QED BY <1>2, <1>5, <2>1 DEF DeskInv, DeskTyped, OneUpdate, desk, checker
<1>6. ASSUME UNCHANGED <<checker, desk, ended>>, ended = "no", phase' = "idle",
             m_updateChecking' = FALSE, m_updateRunning' \in BOOLEAN
      PROVE  DeskInv'
  <2>1. Counting'
    BY <1>2, <1>6, DeskAlone
  <2> QED BY <1>2, <1>6, <2>1 DEF DeskInv, DeskTyped, OneUpdate, desk, checker
<1>7. m_updateRunning \in BOOLEAN
  BY <1>2 DEF DeskTyped
<1>8. CASE CheckForUpdates
  <2>1. Checker'
    BY <1>2, <1>8, CheckTyped DEF CheckForUpdates, Checker, DeskTyped
  <2> QED BY <1>3, <1>8, <2>1 DEF CheckForUpdates
<1>9. CASE OpenSettings
  <2>1. Checker'
    BY <1>2, <1>9 DEF OpenSettings, Checker, DeskTyped
  <2> QED BY <1>3, <1>9, <2>1 DEF OpenSettings
<1>10. CASE ChanListDownloadFinished
  <2>1. Checker' /\ (m_updateChecking => m_updateChecking')
    <3>1. CASE UNCHANGED <<m_chanListLoaded, m_checkUpdateWaiting, m_channels, m_updateChecking>>
               /\ m_chanListLoading' = FALSE
      BY <1>2, <3>1 DEF Checker, DeskTyped
    <3>2. ASSUME NEW found \in {"none", "foreign", "usable"}, CheckForUpdate(TRUE, FALSE, found)
          PROVE  Checker' /\ (m_updateChecking => m_updateChecking')
      BY <1>2, <3>2, CheckTyped DEF Checker
    <3>3. ASSUME NEW found \in {"none", "foreign", "usable"},
                 m_chanListLoading' = FALSE, m_chanListLoaded' = TRUE, m_channels' = found,
                 UNCHANGED <<m_checkUpdateWaiting, m_updateChecking>>
          PROVE  Checker' /\ (m_updateChecking => m_updateChecking')
      BY <1>2, <3>3 DEF Checker, DeskTyped
    <3> QED BY <1>10, <3>1, <3>2, <3>3 DEF ChanListDownloadFinished
  <2> QED BY <1>2, <1>3, <1>10, <2>1 DEF ChanListDownloadFinished, OneUpdate
<1>11. CASE UpdateCheckFinished
  <2>1. Checker'
    BY <1>2, <1>11 DEF UpdateCheckFinished, Checker, DeskTyped, checker
  <2> QED BY <1>3, <1>11, <2>1 DEF UpdateCheckFinished
<1>12. CASE OfferAnswered \/ ListsArrive
  <2>1. CASE Return
    BY <1>6, <1>7, <1>12, <2>1 DEF OfferAnswered, ListsArrive, Return
  <2>2. CASE ~ Return
    BY <1>5, <1>7, <1>12, <2>2 DEF OfferAnswered, ListsArrive
  <2> QED BY <2>1, <2>2
<1>13. CASE NoneRead \/ Escape \/ Returned
  BY <1>6, <1>7, <1>13 DEF NoneRead, Escape, Returned, Return, Downloads
<1>14. CASE FilesArrive \/ FilesHang \/ Begin \/ Operate
  BY <1>5, <1>7, <1>14 DEF FilesArrive, FilesHang, Begin, Operate
<1>15. CASE StartNew \/ FailureRead
  BY <1>4, <1>5, <1>7, <1>15 DEF StartNew, FailureRead
<1>16. CASE Rollback
  <2>1. CASE UNCHANGED ended
    BY <1>5, <1>7, <1>16, <2>1 DEF Rollback
  <2>2. CASE ended' = "broken" /\ UNCHANGED phase
    BY <1>4, <1>7, <1>16, <2>2 DEF Rollback
  <2> QED BY <1>16, <2>1, <2>2 DEF Rollback
<1>17. CASE \E i \in Instances : Launch(i)
  BY <1>17, LaunchKeeps
<1>18. CASE \E i \in Instances : ShowInstanceWindow(i)
  BY <1>18, WindowKeeps
<1>19. CASE ShowMainWindow
  BY <1>19, MainWindowKeeps
<1>20. CASE CloseWindow
  BY <1>20, CloseWindowKeeps
<1>21. CASE \E i \in Instances : ControllerEnds(i)
  BY <1>21, ControllerKeeps
<1>22. CASE Restart
  <2>1. Counting'
    BY <1>22, FS_EmptySet DEF Restart, Counting, EndsWhenIdle
  <2> QED BY <1>22, <2>1 DEF DeskInv, DeskTyped, OneUpdate, Restart, Return
<1> QED BY <1>8, <1>9, <1>10, <1>11, <1>12, <1>13, <1>14, <1>15, <1>16, <1>17, <1>18,
           <1>19, <1>20, <1>21, <1>22 DEF Next

-----------------------------------------------------------------------------
(* The theorem.                                                              *)

LEMMA InitHolds == Init => IInv
<1> SUFFICES ASSUME Init PROVE IInv
  OBVIOUS
<1>1. FilesTyped
  <2>1. Flat \in [Paths -> Names]
    BY FlatAssumption DEF Init
  <2>2. disk \in [Paths -> File] /\ before \in [Paths -> File]
    BY DEF Init, File
  <2> QED BY <2>1, <2>2 DEF Init, FilesTyped, File, Phases
<1>2. Untouched /\ Operating /\ Recoverable /\ RollbackHonest
  BY DEF Init, Untouched, Operating, Recoverable, Working, RollbackHonest
<1>3. Counting
  BY FS_EmptySet DEF Init, Counting, EndsWhenIdle
<1>4. DeskTyped /\ OneUpdate
  BY DEF Init, DeskTyped, OneUpdate
<1> QED BY <1>1, <1>2, <1>3, <1>4 DEF IInv, FilesInv, DeskInv

LEMMA InvariantSound == IInv => InstallSound
<1> SUFFICES ASSUME IInv PROVE InstallSound
  OBVIOUS
<1>1. FilesTyped /\ Untouched /\ Operating /\ Recoverable /\ RollbackHonest
      /\ DeskTyped /\ OneUpdate /\ EndsWhenIdle
  BY DEF IInv, FilesInv, DeskInv, Counting
<1>2. TypeOK
  BY <1>1 DEF FilesTyped, DeskTyped, TypeOK, PathOperation, File
<1>3. InstallComplete
  BY <1>1 DEF Operating, InPlace, InstallComplete
<1>4. NothingLost
  <2>1. CASE phase \in Early
    BY <1>1, <2>1 DEF Untouched, NothingLost
  <2>2. CASE phase \in Working
    <3>1. Stored /\ Flat \in [Paths -> Names]
      BY <1>1, <2>2 DEF Recoverable, FilesTyped
    <3> QED BY <3>1 DEF Stored, NothingLost
  <2>3. CASE phase = "returned"
    BY <1>1, <2>3 DEF RollbackHonest, NothingLost
  <2> QED BY <2>1, <2>2, <2>3 DEF NothingLost, Busy, Dialogs, Early, Working
<1> QED BY <1>1, <1>2, <1>3, <1>4 DEF InstallSound

\* An installation is whole or undone for any files and lists: a launcher that hands over
\* to its new version has every file of it in place, one that goes on after a failure has
\* every file it had, no file of the old version is lost on the way, there is one update
\* at a time, and the process ends by itself only when no launch and no window is left
\* (installUpdates(), rollback() and the counts of Application).
THEOREM InstallStaysSound == Spec => []InstallSound
<1>1. Init => IInv
  BY InitHolds
<1>2. IInv /\ [Next]_vars => IInv'
  BY NextKeepsFiles, NextKeepsDesk DEF IInv
<1>3. IInv => InstallSound
  BY InvariantSound
<1> QED BY <1>1, <1>2, <1>3, PTL DEF Spec

-----------------------------------------------------------------------------
(* The folder of mods: what holds of its list while updates and parsers run. *)

Entry == [file : Files, stamp : Nat, known : BOOLEAN, meta : BOOLEAN, details : Nat,
          m_is_resolving : BOOLEAN, m_resolution_ticket : Nat, doubtful : BOOLEAN]
Parser == [path : Files, known : BOOLEAN, res : Files,
           state : {"started", "succeeded", "finished"}, aborted : BOOLEAN, details : Nat,
           renamed : BOOLEAN, late : BOOLEAN]

\* No time stamp anywhere is later than the clock, so that a changed file has a new one.
FolderTyped == /\ folder \in [Files -> Nat] /\ index \subseteq Mods /\ clock \in Nat
               /\ \A f \in Files : folder[f] <= clock
EntriesTyped == /\ m_resources \in Seq(Entry)
                /\ \A r \in DOMAIN m_resources : m_resources[r].stamp <= clock
ParsersTyped == /\ m_next_resolution_ticket \in Nat
                /\ DOMAIN m_active_parse_tasks \subseteq 1..m_next_resolution_ticket
                /\ \A t \in DOMAIN m_active_parse_tasks : m_active_parse_tasks[t] \in Parser
TaskTyped ==
    /\ task = [state |-> task.state, clean |-> task.clean, meta |-> task.meta,
               result |-> task.result, orphans |-> task.orphans]
    /\ task.state = "indexed" => /\ DOMAIN task.meta \subseteq Files
                                 /\ \A f \in DOMAIN task.meta : task.meta[f] \in 0..clock
    /\ task.state \in {"read", "succeeded"} =>
          /\ Found \subseteq Files
          /\ \A f \in Found : task.result[f] \in [stamp : 0..clock, meta : BOOLEAN]

\* The index gives each row, and the row of each of its files.
RowsIndexed ==
    /\ \A r \in DOMAIN m_resources : /\ m_resources[r].file \in Current
                                     /\ At(m_resources[r].file) = r
    /\ \A f \in Current : At(f) \in DOMAIN m_resources /\ m_resources[At(f)].file = f

\* The ticket of a row is that of a parser, which no other row has; or it has none.
Tickets ==
    /\ \A r \in DOMAIN m_resources :
          m_resources[r].m_resolution_ticket \in DOMAIN m_active_parse_tasks \union {0}
    /\ \A r, s \in DOMAIN m_resources :
          m_resources[r].m_resolution_ticket = m_resources[s].m_resolution_ticket =>
              r = s \/ m_resources[r].m_resolution_ticket = 0

\* Details that were read of a file, and the stamp it is listed with, agree
\* unless the file has changed since, and is listed again.
Reads(stamps, f, stamp, details) == stamp = 0 \/ details = stamp \/ stamps[f] # stamp

\* A parser that will report comes late, or belongs to a row: it reads the file of
\* the row, unless the row was renamed.
Live(p) == ~p.aborted /\ p.state # "finished"
Fits(stamps, p, row) ==
    /\ p.res = row.file
    /\ p.renamed \/ /\ p.path = row.file /\ (row.stamp # 0 => p.known)
                    /\ p.state = "succeeded" => Reads(stamps, row.file, row.stamp, p.details)
ParsersFit == \A t \in DOMAIN m_active_parse_tasks :
    LET p == m_active_parse_tasks[t]
    IN  /\ p.aborted /\ p.state = "succeeded" => p.late
        /\ Live(p) /\ ~p.late =>
              \E r \in DOMAIN m_resources : m_resources[r].m_resolution_ticket = t
        /\ \A r \in DOMAIN m_resources : m_resources[r].m_resolution_ticket = t =>
              ~p.late /\ (Live(p) => Fits(folder, p, m_resources[r]))
\* A row waits for a parser that will report, or has the details of its file.
RowFits(stamps, parsers, row) ==
    /\ row.m_is_resolving => /\ row.m_resolution_ticket \in DOMAIN parsers
                             /\ Live(parsers[row.m_resolution_ticket])
    /\ row.m_is_resolving \/ row.doubtful \/ Reads(stamps, row.file, row.stamp, row.details)
EntriesFit == \A r \in DOMAIN m_resources : RowFits(folder, m_active_parse_tasks, m_resources[r])

\* What an update task that reads the disk now finds.
IndexNow == [f \in {Enabled(m) : m \in index} |-> folder[f]]
FilesShown == {f \in Files : (There(f) \/ (f[2] /\ f[1] \in index)) /\ ~Shadowed(f)}

\* Unless another update follows, the one under way has what is on the disk.
UpToDate == m_is_watching /\ ~noticed /\ ~m_scheduled_update =>
    /\ task.state = "indexed" => task.meta = IndexNow
    /\ task.state \in {"read", "succeeded"} =>
          Found = FilesShown /\ \A f \in Found : task.result[f].stamp = folder[f]
    /\ task.state \in {"none", "applied"} =>
          /\ Current = FilesShown
          /\ \A r \in DOMAIN m_resources : m_resources[r].stamp = folder[m_resources[r].file]
Scheduling == m_scheduled_update => task.state # "none"

FolderInv == /\ FolderTyped /\ EntriesTyped /\ ParsersTyped /\ TaskTyped
             /\ RowsIndexed /\ Tickets /\ ParsersFit /\ EntriesFit /\ UpToDate /\ Scheduling

-----------------------------------------------------------------------------
(* Numbers of rows.                                                          *)

\* The rank of a number in a set of numbers.
RankIn(S, r) == Cardinality({s \in S : s <= r})

\* The ranks in a set of row numbers are 1, 2, ... and each is that of one row.
LEMMA RanksEnumerate ==
    ASSUME NEW N \in Nat, NEW S, S \subseteq 1..N
    PROVE  /\ IsFiniteSet(S) /\ Cardinality(S) \in Nat
           /\ \A r \in S : RankIn(S, r) \in 1..Cardinality(S)
           /\ \A r, s \in S : RankIn(S, r) = RankIn(S, s) => r = s
           /\ \A k \in 1..Cardinality(S) : \E r \in S : RankIn(S, r) = k
<1>1. IsFiniteSet(S) /\ Cardinality(S) \in Nat
  <2>1. IsFiniteSet(1..N)
    BY FS_Interval
  <2> QED BY <2>1, FS_Subset, FS_CardinalityType
<1> DEFINE Upto(r) == {s \in S : s <= r}
<1>2. ASSUME NEW r \in S
      PROVE  /\ IsFiniteSet(Upto(r)) /\ Cardinality(Upto(r)) \in Nat
             /\ RankIn(S, r) \in 1..Cardinality(S)
  <2>1. Upto(r) \in SUBSET S /\ r \in Upto(r) /\ Upto(r) # {}
    OBVIOUS
  <2>2. /\ IsFiniteSet(Upto(r)) /\ Cardinality(Upto(r)) \in Nat
        /\ Cardinality(Upto(r)) <= Cardinality(S)
    <3> HIDE DEF Upto
    <3> QED BY <1>1, <2>1, FS_Subset, FS_CardinalityType
  <2>3. Cardinality(Upto(r)) # 0
    <3> HIDE DEF Upto
    <3> QED BY <2>1, <2>2, FS_EmptySet
  <2>4. RankIn(S, r) = Cardinality(Upto(r))
    BY DEF RankIn
  <2> HIDE DEF Upto
  <2> QED BY <1>1, <2>2, <2>3, <2>4
<1>3. ASSUME NEW r \in S, NEW s \in S, r < s
      PROVE  RankIn(S, r) # RankIn(S, s)
  <2>0. r \in Int /\ s \in Int /\ \A x \in S : x \in Int
    OBVIOUS
  <2>1. Upto(r) \in SUBSET Upto(s) /\ s \in Upto(s) /\ s \notin Upto(r)
    <3>1. \A x \in S : x <= r => x <= s
      BY <1>3, <2>0
    <3>2. s <= s /\ ~ (s <= r)
      BY <1>3, <2>0
    <3> QED BY <3>1, <3>2
  <2>2. Upto(r) \in SUBSET (Upto(s) \ {s})
    BY <2>1
  <2>3. RankIn(S, r) = Cardinality(Upto(r)) /\ RankIn(S, s) = Cardinality(Upto(s))
    BY DEF RankIn
  <2> HIDE DEF Upto
  <2>4. /\ IsFiniteSet(Upto(s) \ {s}) /\ Cardinality(Upto(s)) \in Nat
        /\ Cardinality(Upto(s) \ {s}) = Cardinality(Upto(s)) - 1
    BY <1>2, <2>1, FS_RemoveElement
  <2>5. Cardinality(Upto(r)) <= Cardinality(Upto(s)) - 1 /\ Cardinality(Upto(r)) \in Nat
    BY <1>2, <2>2, <2>4, FS_Subset
  <2> QED BY <2>3, <2>4, <2>5
<1>4. \A r, s \in S : RankIn(S, r) = RankIn(S, s) => r = s
  <2> SUFFICES ASSUME NEW r \in S, NEW s \in S, r # s PROVE RankIn(S, r) # RankIn(S, s)
    OBVIOUS
  <2>1. r \in Int /\ s \in Int /\ (r < s \/ s < r)
    OBVIOUS
  <2> QED BY <1>3, <2>1
<1>5. \A k \in 1..Cardinality(S) : \E r \in S : RankIn(S, r) = k
  <2> DEFINE D == 1..Cardinality(S)
             rank == [r \in S |-> RankIn(S, r)]
  <2>1. rank \in [S -> D] /\ \A r, s \in S : rank[r] = rank[s] => r = s
    BY <1>2, <1>4
  <2>2. rank \in Injection(S, D)
    <3> HIDE DEF D, rank
    <3> QED BY <2>1 DEF Injection, IsInjective
  <2>3. IsFiniteSet(D) /\ Cardinality(D) = Cardinality(S)
    BY <1>1, FS_Interval
  <2>4. rank \in Surjection(S, D)
    <3> HIDE DEF D, rank
    <3> QED BY <2>2, <2>3, FS_Injection
  <2> QED BY <2>4 DEF Surjection
<1> QED BY <1>1, <1>2, <1>4, <1>5

\* SetToSeq() of a finite set has each of its elements once.
LEMMA ElementsOnce ==
    ASSUME NEW S, IsFiniteSet(S)
    PROVE  /\ SetToSeq(S) \in Seq(S)
           /\ \A i, j \in DOMAIN SetToSeq(S) : SetToSeq(S)[i] = SetToSeq(S)[j] => i = j
           /\ \A x \in S : \E i \in DOMAIN SetToSeq(S) : SetToSeq(S)[i] = x
<1> DEFINE D == 1..Cardinality(S)
<1>1. Cardinality(S) \in Nat /\ ExistsBijection(D, S)
  BY FS_CardinalityType
<1>2. PICK f \in Bijection(D, S) : TRUE
  BY <1>1 DEF ExistsBijection
<1>3. f \in [D -> S] /\ IsInjective(f)
  BY <1>2 DEF Bijection, Injection, IsInjective
<1>4. SetToSeq(S) \in [D -> S] /\ IsInjective(SetToSeq(S))
  BY <1>3 DEF SetToSeq
<1> DEFINE s == SetToSeq(S)
<1>5. s \in Seq(S) /\ DOMAIN s = D
  <2> HIDE DEF s
  <2> QED BY <1>1, <1>4 DEF s
<1>6. IsFiniteSet(D) /\ Cardinality(D) = Cardinality(S)
  BY <1>1, FS_Interval
<1> HIDE DEF D, s
<1>7. s \in [D -> S] /\ IsInjective(s)
  BY <1>4 DEF s
<1>8. s \in Injection(D, S)
  BY <1>7 DEF Injection, IsInjective
<1>9. s \in Surjection(D, S)
  BY <1>6, <1>8, FS_Injection
<1>10. \A i, j \in DOMAIN s : s[i] = s[j] => i = j
  BY <1>5, <1>7 DEF IsInjective
<1>11. \A x \in S : \E i \in DOMAIN s : s[i] = x
  BY <1>5, <1>9 DEF Surjection
<1> QED BY <1>5, <1>10, <1>11 DEF s

-----------------------------------------------------------------------------
(* The rows that an update keeps.                                            *)

Keep == {r \in DOMAIN m_resources : m_resources[r].file \in Found}

LEMMA ErasedRows ==
    ASSUME RowsIndexed
    PROVE  /\ {At(f) : f \in Gone} = DOMAIN m_resources \ Keep
           /\ \A f, g \in Current : At(f) = At(g) => f = g
<1>1. ASSUME NEW f \in Gone PROVE At(f) \in DOMAIN m_resources \ Keep
  BY DEF RowsIndexed, Gone, Keep
<1>2. ASSUME NEW r \in DOMAIN m_resources \ Keep PROVE \E f \in Gone : At(f) = r
  <2>1. m_resources[r].file \in Gone /\ At(m_resources[r].file) = r
    BY DEF RowsIndexed, Gone, Keep
  <2> QED BY <2>1
<1>3. \A f, g \in Current : At(f) = At(g) => f = g
  BY DEF RowsIndexed
<1> QED BY <1>1, <1>2, <1>3

\* The rows that stay are those whose files were found, each once.
LEMMA RowsStay ==
    ASSUME EntriesTyped, RowsIndexed
    PROVE  /\ Cardinality(Keep) \in Nat /\ DOMAIN Staying = 1..Cardinality(Keep)
           /\ \A k \in DOMAIN Staying : Staying[k] \in Keep
           /\ \A j, k \in DOMAIN Staying : Staying[j] = Staying[k] => j = k
           /\ \A r \in Keep : \E k \in DOMAIN Staying : Staying[k] = r
<1> DEFINE D == DOMAIN m_resources
           G == {f \in Gone : At(f) = 1}
           ones == Cardinality(G)
           Place(r) == Cardinality({s \in NotErased : s <= r}) - ones
           stay == {r \in NotErased : Place(r) > 0}
<1>1. Len(m_resources) \in Nat /\ D = 1..Len(m_resources) /\ Keep \subseteq 1..Len(m_resources)
  BY DEF EntriesTyped, Keep
<1>2. /\ IsFiniteSet(Keep) /\ Cardinality(Keep) \in Nat
      /\ \A r \in Keep : RankIn(Keep, r) \in 1..Cardinality(Keep)
      /\ \A r, s \in Keep : RankIn(Keep, r) = RankIn(Keep, s) => r = s
      /\ \A k \in 1..Cardinality(Keep) : \E r \in Keep : RankIn(Keep, r) = k
  BY <1>1, RanksEnumerate
<1>3. NotErased = {r \in D : r = 1 \/ r \in Keep}
  BY ErasedRows DEF NotErased, Keep
<1>4. \A r \in NotErased : r \in Int /\ 1 <= r
  BY <1>1, <1>3
<1>5. /\ stay = Keep
      /\ \A r \in Keep : Place(r) = RankIn(Keep, r)
  <2>1. CASE 1 \in D \ Keep
    <3>1. PICK f \in Gone : At(f) = 1
      BY <2>1, ErasedRows
    <3>2. G = {f}
      BY <3>1, ErasedRows DEF Gone
    <3>3. ones = 1
      BY <3>2, FS_Singleton
    <3>4. ASSUME NEW r \in NotErased PROVE Place(r) = RankIn(Keep, r)
      <4> DEFINE U == {s \in Keep : s <= r}
                 V == {s \in NotErased : s <= r}
      <4>1. IsFiniteSet(U) /\ Cardinality(U) \in Nat /\ U \in SUBSET Keep
        <5>1. U \in SUBSET Keep
          OBVIOUS
        <5> HIDE DEF U
        <5> QED BY <1>2, <5>1, FS_Subset, FS_CardinalityType
      <4>2. V = U \union {1} /\ 1 \notin U
        <5>1. NotErased = Keep \union {1}
          BY <1>1, <1>3, <2>1
        <5> QED BY <1>4, <2>1, <5>1
      <4>3. Cardinality(V) = Cardinality(U) + 1
        <5> HIDE DEF U, V
        <5> QED BY <4>1, <4>2, FS_AddElement
      <4>4. Place(r) = Cardinality(V) - ones /\ RankIn(Keep, r) = Cardinality(U)
        BY DEF RankIn
      <4> HIDE DEF U, V, ones, Place
      <4> QED BY <3>3, <4>1, <4>3, <4>4
    <3>5. RankIn(Keep, 1) = 0
      <4>1. \A s \in Keep : s \in Int /\ s # 1 /\ 1 <= s
        BY <1>1, <2>1
      <4>2. {s \in Keep : s <= 1} = {}
        BY <4>1
      <4> QED BY <4>2, FS_EmptySet DEF RankIn
    <3>6. NotErased = Keep \union {1} /\ Keep \subseteq NotErased
      BY <1>1, <1>3, <2>1
    <3>7. \A r \in Keep : Place(r) = RankIn(Keep, r) /\ Place(r) > 0
      <4> HIDE DEF Place
      <4> QED BY <1>2, <3>4, <3>6
    <3>8. ~ (Place(1) > 0)
      <4> HIDE DEF Place
      <4> QED BY <3>4, <3>5, <3>6
    <3> HIDE DEF Place
    <3> QED BY <3>6, <3>7, <3>8
  <2>2. CASE ~ (1 \in D \ Keep)
    <3>1. NotErased = Keep
      BY <1>1, <1>3, <2>2 DEF Keep
    <3>2. G = {}
      BY <2>2, ErasedRows
    <3>3. ones = 0
      BY <3>2, FS_EmptySet
    <3>4. ASSUME NEW r \in Keep PROVE Place(r) = RankIn(Keep, r)
      <4>1. Place(r) = RankIn(Keep, r) - ones
        BY <3>1 DEF RankIn
      <4> HIDE DEF Place, ones
      <4> QED BY <1>2, <3>3, <4>1
    <3>5. \A r \in Keep : Place(r) > 0
      <4> HIDE DEF Place
      <4> QED BY <1>2, <3>4
    <3> HIDE DEF Place
    <3> QED BY <3>1, <3>4, <3>5
  <2> QED BY <2>1, <2>2
<1>6. Staying = [k \in 1..Cardinality(stay) |-> CHOOSE r \in stay : Place(r) = k]
  BY DEF Staying
<1> HIDE DEF stay, Place
<1>7. /\ DOMAIN Staying = 1..Cardinality(Keep)
      /\ \A k \in 1..Cardinality(Keep) : Staying[k] = CHOOSE r \in stay : Place(r) = k
  BY <1>5, <1>6
<1>8. \A k \in 1..Cardinality(Keep) : \E r \in stay : Place(r) = k
  BY <1>2, <1>5
<1>9. \A k \in 1..Cardinality(Keep) : Staying[k] \in stay /\ Place(Staying[k]) = k
  BY <1>7, <1>8
<1>10. \A k \in DOMAIN Staying : Staying[k] \in Keep /\ RankIn(Keep, Staying[k]) = k
  BY <1>5, <1>7, <1>9
<1>11. \A r \in Keep : \E k \in DOMAIN Staying : Staying[k] = r
  <2> SUFFICES ASSUME NEW r \in Keep PROVE \E k \in DOMAIN Staying : Staying[k] = r
    OBVIOUS
  <2>1. RankIn(Keep, r) \in DOMAIN Staying
    BY <1>2, <1>7
  <2>2. Staying[RankIn(Keep, r)] \in Keep
        /\ RankIn(Keep, Staying[RankIn(Keep, r)]) = RankIn(Keep, r)
    BY <1>10, <2>1
  <2> QED BY <1>2, <2>1, <2>2
<1> QED BY <1>2, <1>7, <1>10, <1>11

-----------------------------------------------------------------------------
(* Changes of the disk, and the requests for updates.                        *)

\* A list whose rows are what they were, but for what is known of their files.
SameRows == /\ DOMAIN m_resources' = DOMAIN m_resources
            /\ \A r \in DOMAIN m_resources :
                  /\ m_resources'[r].file = m_resources[r].file
                  /\ m_resources'[r].stamp = m_resources[r].stamp
                  /\ m_resources'[r].details = m_resources[r].details
                  /\ m_resources'[r].m_is_resolving = m_resources[r].m_is_resolving
                  /\ m_resources'[r].m_resolution_ticket = m_resources[r].m_resolution_ticket
                  /\ m_resources'[r].doubtful = m_resources[r].doubtful

\* A step of the disk: what changes is gone, or gets a time that nothing had.
DiskMoves == /\ folder' \in [Files -> Nat] /\ clock' \in Nat /\ clock <= clock'
             /\ \A f \in Files : \/ folder'[f] \in {folder[f], 0}
                                 \/ clock < folder'[f] /\ folder'[f] <= clock'

LEMMA RowTyped ==
    ASSUME EntriesTyped, NEW r \in DOMAIN m_resources
    PROVE  /\ m_resources[r] \in Entry
           /\ m_resources[r].file \in Files /\ m_resources[r].stamp \in Nat
           /\ m_resources[r].stamp <= clock
<1>1. m_resources[r] \in Entry /\ m_resources[r].stamp <= clock
  BY DEF EntriesTyped
<1> QED BY <1>1 DEF Entry

LEMMA DiskTyped == ASSUME FolderTyped, DiskMoves, index' \subseteq Mods PROVE FolderTyped'
<1>1. \A f \in Files : folder'[f] <= clock'
  <2> SUFFICES ASSUME NEW f \in Files PROVE folder'[f] <= clock'
    OBVIOUS
  <2>1. folder[f] \in Nat /\ folder[f] <= clock /\ clock \in Nat
    BY DEF FolderTyped
  <2> QED BY <2>1 DEF DiskMoves
<1> QED BY <1>1 DEF FolderTyped, DiskMoves

\* A row or a parser has a stamp of the past.
LEMMA ReadsStay ==
    ASSUME FolderTyped, DiskMoves, NEW f \in Files, NEW stamp \in Nat, stamp <= clock,
           NEW details, Reads(folder, f, stamp, details)
    PROVE  Reads(folder', f, stamp, details)
<1>1. folder[f] \in Nat /\ clock \in Nat /\ folder'[f] \in Nat
  BY DEF FolderTyped, DiskMoves
<1>2. CASE folder'[f] \in {folder[f], 0}
  BY <1>2 DEF Reads
<1>3. CASE clock < folder'[f]
  BY <1>1, <1>3 DEF Reads
<1> QED BY <1>2, <1>3 DEF DiskMoves

\* The list and its parsers stay as sound as they were when the disk changes.
LEMMA ListStays ==
    ASSUME FolderInv, DiskMoves, SameRows, m_resources' \in Seq(Entry),
           UNCHANGED <<m_resources_index, parseVars>>
    PROVE  EntriesTyped' /\ ParsersTyped' /\ RowsIndexed' /\ Tickets' /\ ParsersFit' /\ EntriesFit'
<1>1. EntriesTyped'
  <2>1. \A r \in DOMAIN m_resources' : m_resources'[r].stamp <= clock'
    <3> SUFFICES ASSUME NEW r \in DOMAIN m_resources PROVE m_resources[r].stamp <= clock'
      BY DEF SameRows
    <3>1. m_resources[r].stamp \in Nat /\ m_resources[r].stamp <= clock /\ clock \in Nat
      BY RowTyped DEF FolderInv, FolderTyped
    <3> QED BY <3>1 DEF DiskMoves
  <2> QED BY <2>1 DEF EntriesTyped
<1>2. ParsersTyped'
  BY DEF FolderInv, ParsersTyped, parseVars
<1>3. RowsIndexed'
  BY DEF FolderInv, RowsIndexed, SameRows, At, Current
<1>4. ASSUME NEW r \in DOMAIN m_resources,
             NEW details, Reads(folder, m_resources[r].file, m_resources[r].stamp, details)
      PROVE  Reads(folder', m_resources'[r].file, m_resources'[r].stamp, details)
  <2>1. m_resources[r].file \in Files /\ m_resources[r].stamp \in Nat
        /\ m_resources[r].stamp <= clock
    BY RowTyped DEF FolderInv
  <2>2. Reads(folder', m_resources[r].file, m_resources[r].stamp, details)
    BY <1>4, <2>1, ReadsStay DEF FolderInv
  <2> QED BY <2>2 DEF SameRows
<1>5. Tickets'
  BY DEF FolderInv, Tickets, SameRows, parseVars
<1>6. ParsersFit'
  <2>1. ASSUME NEW t \in DOMAIN m_active_parse_tasks, NEW r \in DOMAIN m_resources,
               m_resources'[r].m_resolution_ticket = t
        PROVE  LET p == m_active_parse_tasks[t]
               IN  ~p.late /\ (Live(p) => Fits(folder', p, m_resources'[r]))
    <3> DEFINE p == m_active_parse_tasks[t]
               d == p.details
    <3>1. ~p.late /\ (Live(p) => Fits(folder, p, m_resources[r]))
      BY <2>1 DEF FolderInv, ParsersFit, SameRows
    <3>2. m_resources'[r].file = m_resources[r].file /\ m_resources'[r].stamp = m_resources[r].stamp
      BY DEF SameRows
    <3> HIDE DEF d
    <3>3. Reads(folder, m_resources[r].file, m_resources[r].stamp, d) =>
             Reads(folder', m_resources'[r].file, m_resources'[r].stamp, d)
      BY <1>4
    <3>4. d = p.details
      BY DEF d
    <3>5. ~p.late /\ (Live(p) => Fits(folder', p, m_resources'[r]))
      <4> HIDE DEF p
      <4> QED BY <3>1, <3>2, <3>3, <3>4 DEF Fits
    <3> QED BY <3>5
  <2>2. \A t \in DOMAIN m_active_parse_tasks :
           LET p == m_active_parse_tasks[t]
           IN  /\ p.aborted /\ p.state = "succeeded" => p.late
               /\ Live(p) /\ ~p.late =>
                     \E r \in DOMAIN m_resources : m_resources'[r].m_resolution_ticket = t
    BY DEF FolderInv, ParsersFit, SameRows
  <2> QED BY <2>1, <2>2 DEF ParsersFit, SameRows, parseVars, Live, Fits, Reads
<1>7. EntriesFit'
  <2>1. ASSUME NEW r \in DOMAIN m_resources
        PROVE  RowFits(folder', m_active_parse_tasks, m_resources'[r])
    <3> DEFINE d == m_resources[r].details
    <3>1. RowFits(folder, m_active_parse_tasks, m_resources[r])
      BY DEF FolderInv, EntriesFit
    <3>2. Reads(folder, m_resources[r].file, m_resources[r].stamp, d) =>
             Reads(folder', m_resources'[r].file, m_resources'[r].stamp, d)
      <4> HIDE DEF d
      <4> QED BY <1>4
    <3> QED BY <3>1, <3>2 DEF SameRows, RowFits
  <2> QED BY <2>1 DEF EntriesFit, SameRows, parseVars, RowFits, Live, Reads
<1> QED BY <1>1, <1>2, <1>3, <1>5, <1>6, <1>7

\* A list that is out of date promises nothing until the next update has read the disk.
Behind == noticed \/ ~m_is_watching \/ m_scheduled_update \/ task.state = "started"

LEMMA UpdateAsked ==
    ASSUME TaskTyped, Scheduling, clock \in Nat, clock' \in Nat, clock <= clock', Update
    PROVE  TaskTyped' /\ Scheduling' /\ Behind'
<1>1. CASE task.state # "none"
  <2>1. task' = task /\ m_scheduled_update' = TRUE
    BY <1>1 DEF Update
  <2>2. 0..clock \subseteq 0..clock'
    OBVIOUS
  <2> QED BY <1>1, <2>1, <2>2 DEF TaskTyped, Scheduling, Behind, Found
<1>2. CASE task.state = "none"
  <2>1. task'.state = "started" /\ m_scheduled_update' = m_scheduled_update
    BY <1>2 DEF Update, NoTask
  <2>2. task' = [state |-> task'.state, clean |-> task'.clean, meta |-> task'.meta,
                 result |-> task'.result, orphans |-> task'.orphans]
    BY <1>2 DEF Update, NoTask
  <2> QED BY <2>1, <2>2 DEF TaskTyped, Scheduling, Behind
<1> QED BY <1>1, <1>2

LEMMA TaskStays ==
    ASSUME TaskTyped, clock \in Nat, clock' \in Nat, clock <= clock', UNCHANGED task
    PROVE  TaskTyped'
<1>1. 0..clock \subseteq 0..clock'
  OBVIOUS
<1> QED BY <1>1 DEF TaskTyped, Found

LEMMA BehindPromises == ASSUME Behind' PROVE UpToDate'
  BY DEF Behind, UpToDate

LEMMA NoticeFollows == ASSUME Notice, UNCHANGED m_is_watching PROVE Behind'
  BY DEF Notice, Behind

\* The changes that only touch the disk, the requests and what is known of a row.
LEMMA ChangeKeeps ==
    ASSUME FolderInv, DiskMoves, index' \subseteq Mods, SameRows, m_resources' \in Seq(Entry),
           UNCHANGED <<m_resources_index, parseVars>>,
           TaskTyped', Scheduling', UpToDate'
    PROVE  FolderInv'
<1>1. FolderTyped'
  BY DiskTyped DEF FolderInv
<1> QED BY <1>1, ListStays DEF FolderInv

LEMMA DiskStays == ASSUME FolderTyped, UNCHANGED <<folder, clock>> PROVE DiskMoves
  BY DEF FolderTyped, DiskMoves

LEMMA RowsAreSame ==
    ASSUME EntriesTyped, UNCHANGED m_resources
    PROVE  SameRows /\ m_resources' \in Seq(Entry)
  BY DEF EntriesTyped, SameRows

\* A file is put somewhere, or taken away.
LEMMA FileChanges ==
    ASSUME FolderTyped, NEW f \in Files,
           \/ clock' = clock + 1 /\ folder' = [folder EXCEPT ![f] = clock + 1]
           \/ clock' = clock /\ folder' = [folder EXCEPT ![f] = 0]
    PROVE  DiskMoves
<1>1. folder \in [Files -> Nat] /\ clock \in Nat
  BY DEF FolderTyped
<1>2. CASE clock' = clock + 1 /\ folder' = [folder EXCEPT ![f] = clock + 1]
  <2>1. clock + 1 \in Nat /\ clock < clock + 1 /\ clock <= clock' /\ clock + 1 <= clock'
    BY <1>1, <1>2
  <2>2. folder' \in [Files -> Nat] /\ folder'[f] = clock + 1
        /\ \A g \in Files \ {f} : folder'[g] = folder[g]
    BY <1>1, <1>2, <2>1
  <2>3. ASSUME NEW g \in Files
        PROVE  folder'[g] \in {folder[g], 0} \/ (clock < folder'[g] /\ folder'[g] <= clock')
    <3>1. CASE g = f
      BY <2>1, <2>2, <3>1
    <3>2. CASE g # f
      BY <2>2, <3>2
    <3> QED BY <3>1, <3>2
  <2> QED BY <1>2, <2>1, <2>2, <2>3 DEF DiskMoves
<1>3. CASE clock' = clock /\ folder' = [folder EXCEPT ![f] = 0]
  <2>1. clock <= clock'
    BY <1>1, <1>3
  <2>2. folder' \in [Files -> Nat] /\ \A g \in Files : folder'[g] \in {folder[g], 0}
    BY <1>1, <1>3
  <2> QED BY <1>1, <1>3, <2>1, <2>2 DEF DiskMoves
<1> QED BY <1>2, <1>3

\* What the inductive steps use of the invariant.
LEMMA InvParts ==
    ASSUME FolderInv
    PROVE  /\ FolderTyped /\ EntriesTyped /\ TaskTyped /\ Scheduling /\ UpToDate
           /\ folder \in [Files -> Nat] /\ index \subseteq Mods /\ clock \in Nat
  BY DEF FolderInv, FolderTyped

LEMMA ForeignKeeps == ASSUME FolderInv, NEW f \in Files, Foreign(f) PROVE FolderInv'
<1>1. DiskMoves
  BY InvParts, FileChanges DEF Foreign
<1>2. SameRows /\ m_resources' \in Seq(Entry)
  BY InvParts, RowsAreSame DEF Foreign, listVars
<1>3. UpToDate'
  BY NoticeFollows, BehindPromises DEF Foreign
<1>4. TaskTyped' /\ Scheduling'
  BY <1>1, InvParts, TaskStays DEF Foreign, updateVars, Scheduling, DiskMoves
<1> QED BY <1>1, <1>2, <1>3, <1>4, ChangeKeeps, InvParts DEF Foreign, listVars

LEMMA InstallKeeps == ASSUME FolderInv, NEW m \in Mods, Install(m) PROVE FolderInv'
<1>1. DiskMoves
  <2>1. Enabled(m) \in Files
    BY DEF Enabled, Files
  <2> QED BY <2>1, InvParts, FileChanges DEF Install
<1>2. SameRows /\ m_resources' \in Seq(Entry)
  BY InvParts, RowsAreSame DEF Install, listVars
<1>3. UpToDate'
  BY NoticeFollows, BehindPromises DEF Install
<1>4. TaskTyped' /\ Scheduling'
  <2>1. CASE UNCHANGED updateVars
    BY <1>1, <2>1, InvParts, TaskStays DEF updateVars, Scheduling, DiskMoves
  <2>2. CASE Update
    BY <1>1, <2>2, InvParts, UpdateAsked DEF DiskMoves
  <2> QED BY <2>1, <2>2 DEF Install
<1> QED BY <1>1, <1>2, <1>3, <1>4, ChangeKeeps, InvParts DEF Install, listVars

LEMMA DownloadKeeps == ASSUME FolderInv, NEW m \in Mods, Download(m) PROVE FolderInv'
<1>1. DiskMoves
  BY InvParts, DiskStays DEF Download
<1>2. SameRows /\ m_resources' \in Seq(Entry)
  BY InvParts, RowsAreSame DEF Download, listVars
<1>3. UpToDate'
  BY NoticeFollows, BehindPromises DEF Download
<1>4. TaskTyped' /\ Scheduling'
  BY <1>1, InvParts, TaskStays DEF Download, updateVars, Scheduling, DiskMoves
<1>5. index' \subseteq Mods
  BY InvParts DEF Download
<1> QED BY <1>1, <1>2, <1>3, <1>4, <1>5, ChangeKeeps DEF Download, listVars

LEMMA DownloadEndsKeeps == ASSUME FolderInv, DownloadEnds PROVE FolderInv'
<1>1. SameRows /\ m_resources' \in Seq(Entry)
  BY InvParts, RowsAreSame DEF DownloadEnds, listVars
<1>2. CASE UNCHANGED <<folder, clock, noticed>>
  <2>1. DiskMoves
    BY <1>2, InvParts, DiskStays
  <2>2. TaskTyped' /\ Scheduling'
    BY <2>1, InvParts, TaskStays DEF DownloadEnds, updateVars, Scheduling, DiskMoves
  <2>3. UpToDate'
    <3>1. UNCHANGED <<diskVars, listVars, m_is_watching, task, m_scheduled_update>>
      BY <1>2 DEF DownloadEnds, diskVars, updateVars
    <3> QED BY <3>1, InvParts DEF UpToDate, IndexNow, FilesShown, There, Shadowed, Current, Found,
                                 diskVars, listVars
  <2> QED BY <1>1, <2>1, <2>2, <2>3, ChangeKeeps, InvParts DEF DownloadEnds, listVars
<1>3. CASE /\ clock' = clock + 1
           /\ folder' = [f \in Files |-> IF f[2] /\ f[1] \in downloading THEN clock + 1 ELSE folder[f]]
           /\ Notice
  <2>1. DiskMoves
    <3>1. folder \in [Files -> Nat] /\ clock + 1 \in Nat /\ clock < clock + 1
          /\ clock + 1 <= clock' /\ clock <= clock' /\ clock' \in Nat
      BY <1>3, InvParts
    <3>2. \A f \in Files : folder'[f] = folder[f] \/ folder'[f] = clock + 1
      BY <1>3
    <3>3. folder' \in [Files -> Nat]
      BY <1>3, <3>1
    <3> QED BY <3>1, <3>2, <3>3 DEF DiskMoves
  <2>2. TaskTyped' /\ Scheduling'
    BY <2>1, InvParts, TaskStays DEF DownloadEnds, updateVars, Scheduling, DiskMoves
  <2>3. UpToDate'
    BY <1>3, NoticeFollows, BehindPromises DEF DownloadEnds
  <2> QED BY <1>1, <2>1, <2>2, <2>3, ChangeKeeps, InvParts DEF DownloadEnds, listVars
<1> QED BY <1>2, <1>3 DEF DownloadEnds

LEMMA ScanKeeps == ASSUME FolderInv, Scan PROVE FolderInv'
<1>1. DiskMoves
  BY InvParts, DiskStays DEF Scan, diskVars
<1>2. SameRows /\ m_resources' \in Seq(Entry)
  BY InvParts, RowsAreSame DEF Scan, listVars
<1>3. TaskTyped' /\ Scheduling' /\ UpToDate'
  BY <1>1, InvParts, UpdateAsked, BehindPromises DEF Scan, DiskMoves
<1> QED BY <1>1, <1>2, <1>3, ChangeKeeps, InvParts DEF Scan, listVars, diskVars

LEMMA OpenKeeps == ASSUME FolderInv, Open PROVE FolderInv'
<1>1. DiskMoves
  BY InvParts, DiskStays DEF Open, diskVars
<1>2. SameRows /\ m_resources' \in Seq(Entry)
  BY InvParts, RowsAreSame DEF Open, listVars
<1>3. CASE task.state # "none"
  <2>1. UNCHANGED task /\ m_scheduled_update' = TRUE
    BY <1>3 DEF Open
  <2>2. TaskTyped'
    BY <1>1, <2>1, InvParts, TaskStays DEF DiskMoves
  <2>3. Scheduling' /\ UpToDate'
    BY <1>3, <2>1, BehindPromises DEF Scheduling, Behind
  <2> QED BY <1>1, <1>2, <2>2, <2>3, ChangeKeeps, InvParts DEF Open, listVars, diskVars
<1>4. CASE task.state = "none"
  <2>1. task' = [NoTask EXCEPT !.state = "started", !.clean = TRUE]
    BY <1>4 DEF Open
  <2>2. task'.state = "started"
        /\ task' = [state |-> task'.state, clean |-> task'.clean, meta |-> task'.meta,
                    result |-> task'.result, orphans |-> task'.orphans]
    BY <2>1 DEF NoTask
  <2>3. TaskTyped' /\ Scheduling' /\ UpToDate'
    BY <2>2, BehindPromises DEF TaskTyped, Scheduling, Behind
  <2> QED BY <1>1, <1>2, <2>3, ChangeKeeps, InvParts DEF Open, listVars, diskVars
<1> QED BY <1>3, <1>4

LEMMA CloseKeeps == ASSUME FolderInv, Close PROVE FolderInv'
<1>1. DiskMoves
  BY InvParts, DiskStays DEF Close
<1>2. SameRows /\ m_resources' \in Seq(Entry)
  BY InvParts, RowsAreSame DEF Close, listVars
<1>3. TaskTyped' /\ Scheduling'
  BY <1>1, InvParts, TaskStays DEF Close, updateVars, Scheduling, DiskMoves
<1>4. UpToDate'
  BY BehindPromises DEF Close, Behind
<1> QED BY <1>1, <1>2, <1>3, <1>4, ChangeKeeps, InvParts DEF Close, listVars

LEMMA DeleteModKeeps ==
    ASSUME FolderInv, NEW r \in DOMAIN m_resources, DeleteMod(r) PROVE FolderInv'
<1>1. m_resources[r] \in Entry /\ m_resources[r].file \in Files
  BY InvParts, RowTyped
<1>2. DiskMoves
  BY <1>1, InvParts, FileChanges DEF DeleteMod
<1>3. SameRows /\ m_resources' \in Seq(Entry)
  <2> DEFINE row == [m_resources[r] EXCEPT !.known = FALSE]
  <2>1. m_resources' = [m_resources EXCEPT ![r] = row]
    BY DEF DeleteMod
  <2>2. /\ row \in Entry
        /\ row.file = m_resources[r].file /\ row.stamp = m_resources[r].stamp
        /\ row.details = m_resources[r].details
        /\ row.m_is_resolving = m_resources[r].m_is_resolving
        /\ row.m_resolution_ticket = m_resources[r].m_resolution_ticket
        /\ row.doubtful = m_resources[r].doubtful
    BY <1>1 DEF Entry
  <2> HIDE DEF row
  <2>3. m_resources \in Seq(Entry)
    BY InvParts DEF EntriesTyped
  <2> QED BY <2>1, <2>2, <2>3 DEF SameRows
<1>4. index' \subseteq Mods
  BY InvParts DEF DeleteMod
<1>5. TaskTyped' /\ Scheduling' /\ UpToDate'
  BY <1>2, InvParts, UpdateAsked, BehindPromises DEF DeleteMod, DiskMoves
<1> QED BY <1>2, <1>3, <1>4, <1>5, ChangeKeeps DEF DeleteMod

LEMMA DirectoryChangedKeeps == ASSUME FolderInv, DirectoryChanged PROVE FolderInv'
<1>1. DiskMoves
  BY InvParts, DiskStays DEF DirectoryChanged
<1>2. SameRows /\ m_resources' \in Seq(Entry)
  BY InvParts, RowsAreSame DEF DirectoryChanged, listVars
<1>3. TaskTyped' /\ Scheduling' /\ UpToDate'
  BY <1>1, InvParts, UpdateAsked, BehindPromises DEF DirectoryChanged, DiskMoves
<1> QED BY <1>1, <1>2, <1>3, ChangeKeeps, InvParts DEF DirectoryChanged, listVars

LEMMA UpdateFinishedKeeps == ASSUME FolderInv, UpdateFinished PROVE FolderInv'
<1>1. DiskMoves
  BY InvParts, DiskStays DEF UpdateFinished, diskVars
<1>2. SameRows /\ m_resources' \in Seq(Entry)
  BY InvParts, RowsAreSame DEF UpdateFinished, listVars
<1>3. CASE m_scheduled_update
  <2>1. task' = [NoTask EXCEPT !.state = "started", !.clean = m_first_folder_load]
        /\ m_scheduled_update' = FALSE
    BY <1>3 DEF UpdateFinished
  <2>2. task'.state = "started"
        /\ task' = [state |-> task'.state, clean |-> task'.clean, meta |-> task'.meta,
                    result |-> task'.result, orphans |-> task'.orphans]
    BY <2>1 DEF NoTask
  <2>3. TaskTyped' /\ Scheduling' /\ UpToDate'
    BY <2>1, <2>2, BehindPromises DEF TaskTyped, Scheduling, Behind
  <2> QED BY <1>1, <1>2, <2>3, ChangeKeeps, InvParts DEF UpdateFinished, listVars, diskVars
<1>4. CASE ~m_scheduled_update
  <2>1. task' = NoTask /\ m_scheduled_update' = m_scheduled_update /\ task.state = "applied"
    BY <1>4 DEF UpdateFinished
  <2>2. task'.state = "none"
        /\ task' = [state |-> task'.state, clean |-> task'.clean, meta |-> task'.meta,
                    result |-> task'.result, orphans |-> task'.orphans]
    BY <2>1 DEF NoTask
  <2>3. TaskTyped' /\ Scheduling'
    BY <1>4, <2>1, <2>2 DEF TaskTyped, Scheduling
  <2>4. UpToDate'
    <3>1. UNCHANGED <<diskVars, listVars, m_is_watching, m_scheduled_update>>
      BY <2>1 DEF UpdateFinished
    <3> QED BY <2>1, <2>2, <3>1, InvParts
            DEF UpToDate, FilesShown, There, Shadowed, Current, diskVars, listVars
  <2> QED BY <1>1, <1>2, <2>3, <2>4, ChangeKeeps, InvParts DEF UpdateFinished, listVars, diskVars
<1> QED BY <1>3, <1>4

-----------------------------------------------------------------------------
(* The update task reads the disk.                                           *)

LEMMA ReadIndexKeeps == ASSUME FolderInv, ReadIndex PROVE FolderInv'
<1>1. DiskMoves
  BY InvParts, DiskStays DEF ReadIndex, diskVars
<1>2. SameRows /\ m_resources' \in Seq(Entry)
  BY InvParts, RowsAreSame DEF ReadIndex, listVars
<1>3. task' = [task EXCEPT !.state = "indexed", !.meta = IndexNow]
  BY DEF ReadIndex, IndexNow
<1>4. task = [state |-> task.state, clean |-> task.clean, meta |-> task.meta,
              result |-> task.result, orphans |-> task.orphans]
  BY InvParts DEF TaskTyped
<1>5. /\ task'.state = "indexed" /\ task'.meta = IndexNow
      /\ task' = [state |-> task'.state, clean |-> task'.clean, meta |-> task'.meta,
                  result |-> task'.result, orphans |-> task'.orphans]
  BY <1>3, <1>4
<1>6. DOMAIN IndexNow \subseteq Files /\ \A f \in DOMAIN IndexNow : IndexNow[f] \in 0..clock
  <2>1. \A m \in index : Enabled(m) \in Files
    BY InvParts DEF Enabled, Files
  <2>2. \A f \in Files : folder[f] \in 0..clock
    <3>1. \A f \in Files : folder[f] \in Nat /\ folder[f] <= clock
      BY InvParts DEF FolderTyped
    <3> QED BY <3>1, InvParts
  <2> QED BY <2>1, <2>2 DEF IndexNow
<1>7. clock' = clock
  BY DEF ReadIndex, diskVars
<1>8. TaskTyped' /\ Scheduling'
  BY <1>5, <1>6, <1>7 DEF TaskTyped, Scheduling
<1>9. UpToDate'
  <2>1. IndexNow' = IndexNow
    BY DEF IndexNow, ReadIndex, diskVars
  <2> QED BY <1>5, <2>1 DEF UpToDate
<1> QED BY <1>1, <1>2, <1>8, <1>9, ChangeKeeps, InvParts DEF ReadIndex, listVars, diskVars

\* What is read of the folder has no later stamp, and is what is to be shown if
\* the index was read of the same disk.
LEMMA ResultFits ==
    ASSUME FolderTyped, NEW meta, DOMAIN meta \subseteq Files,
           \A f \in DOMAIN meta : meta[f] \in 0..clock
    PROVE  /\ DOMAIN Result(meta) \subseteq Files
           /\ \A f \in DOMAIN Result(meta) : Result(meta)[f] \in [stamp : 0..clock, meta : BOOLEAN]
           /\ meta = IndexNow => /\ DOMAIN Result(meta) = FilesShown
                                 /\ \A f \in FilesShown : Result(meta)[f].stamp = folder[f]
<1> DEFINE D == ({g \in Files : There(g)} \union DOMAIN meta) \ Taken(meta)
           stamp(f) == IF f \in DOMAIN meta THEN meta[f] ELSE folder[f]
           has(f) == f \in DOMAIN meta \/ Toggled(f) \in Taken(meta)
<1>1. Result(meta) = [f \in D |-> [stamp |-> stamp(f), meta |-> has(f)]]
  BY DEF Result
<1>2. D \subseteq Files
  OBVIOUS
<1>3. ASSUME NEW f \in D PROVE stamp(f) \in 0..clock /\ has(f) \in BOOLEAN
  <2>1. folder[f] \in 0..clock
    <3>1. folder[f] \in Nat /\ folder[f] <= clock /\ clock \in Nat
      BY <1>2, <1>3 DEF FolderTyped
    <3> QED BY <3>1
  <2> QED BY <2>1
<1>4. ASSUME meta = IndexNow PROVE D = FilesShown /\ \A f \in D : stamp(f) = folder[f]
  <2>1. \A f \in Files : f \in DOMAIN meta <=> f[2] /\ f[1] \in index
    <3>1. DOMAIN meta = {Enabled(m) : m \in index}
      BY <1>4 DEF IndexNow
    <3> SUFFICES ASSUME NEW f \in Files
                 PROVE  f \in {Enabled(m) : m \in index} <=> f[2] /\ f[1] \in index
      BY <3>1
    <3>2. PICK m \in Mods, b \in BOOLEAN : f = <<m, b>>
      BY DEF Files
    <3>3. CASE b = TRUE
      <4>1. f = Enabled(m) /\ f[1] = m /\ f[2]
        BY <3>2, <3>3 DEF Enabled
      <4>2. \A n : Enabled(n) = f => n = m
        BY <4>1 DEF Enabled
      <4> QED BY <4>1, <4>2
    <3>4. CASE b = FALSE
      <4>1. ~ f[2] /\ f = <<m, FALSE>>
        BY <3>2, <3>4
      <4>2. \A n : Enabled(n) # f
        BY <4>1 DEF Enabled
      <4> QED BY <4>1, <4>2
    <3> QED BY <3>3, <3>4
  <2>2. \A f \in DOMAIN meta : meta[f] = folder[f] /\ f \in Files
    BY <1>4 DEF IndexNow
  <2>3. \A f \in Files : f \in Taken(meta) <=> Shadowed(f)
    BY <2>1 DEF Taken, Shadowed
  <2>4. D = FilesShown
    BY <2>1, <2>2, <2>3 DEF FilesShown
  <2> QED BY <2>2, <2>4
<1> HIDE DEF D, stamp, has
<1>5. DOMAIN Result(meta) = D
      /\ \A f \in D : Result(meta)[f] = [stamp |-> stamp(f), meta |-> has(f)]
  BY <1>1
<1> QED BY <1>2, <1>3, <1>4, <1>5

LEMMA ReadFolderKeeps == ASSUME FolderInv, ReadFolder PROVE FolderInv'
<1>1. DiskMoves
  BY InvParts, DiskStays DEF ReadFolder, diskVars
<1>2. SameRows /\ m_resources' \in Seq(Entry)
  BY InvParts, RowsAreSame DEF ReadFolder, listVars
<1> DEFINE R == Result(task.meta)
<1>3. PICK orphans : task' = [NoTask EXCEPT !.state = "read", !.result = R, !.orphans = orphans]
  BY DEF ReadFolder
<1> HIDE DEF R
<1>5. /\ task'.state = "read" /\ task'.result = R
      /\ task' = [state |-> task'.state, clean |-> task'.clean, meta |-> task'.meta,
                  result |-> task'.result, orphans |-> task'.orphans]
  BY <1>3 DEF NoTask
<1>6. /\ DOMAIN R \subseteq Files
      /\ \A f \in DOMAIN R : R[f] \in [stamp : 0..clock, meta : BOOLEAN]
      /\ task.meta = IndexNow => /\ DOMAIN R = FilesShown
                                 /\ \A f \in FilesShown : R[f].stamp = folder[f]
  <2>1. task.state = "indexed"
    BY DEF ReadFolder
  <2>2. DOMAIN task.meta \subseteq Files /\ \A f \in DOMAIN task.meta : task.meta[f] \in 0..clock
    BY <2>1, InvParts DEF TaskTyped
  <2> QED BY <2>2, InvParts, ResultFits DEF R
<1>7. UNCHANGED <<diskVars, listVars, m_is_watching, m_scheduled_update>>
  BY DEF ReadFolder
<1>8. TaskTyped' /\ Scheduling'
  BY <1>5, <1>6, <1>7 DEF TaskTyped, Scheduling, Found, diskVars
<1>9. UpToDate'
  <2>1. m_is_watching /\ ~noticed /\ ~m_scheduled_update => task.meta = IndexNow
    BY InvParts DEF UpToDate, ReadFolder
  <2>2. FilesShown' = FilesShown
    BY <1>7 DEF FilesShown, There, Shadowed, diskVars
  <2> QED BY <1>5, <1>6, <1>7, <2>1, <2>2 DEF UpToDate, Found, diskVars
<1> QED BY <1>1, <1>2, <1>8, <1>9, ChangeKeeps, InvParts DEF ReadFolder, listVars, diskVars

LEMMA CleanOrphansKeeps == ASSUME FolderInv, CleanOrphans PROVE FolderInv'
<1>1. DiskMoves
  <2>1. folder' \in [Files -> Nat] /\ \A f \in Files : folder'[f] \in {folder[f], 0}
    BY InvParts DEF CleanOrphans
  <2> QED BY <2>1, InvParts DEF DiskMoves, CleanOrphans
<1>2. SameRows /\ m_resources' \in Seq(Entry)
  BY InvParts, RowsAreSame DEF CleanOrphans, listVars
<1>3. index' \subseteq Mods
  BY InvParts DEF CleanOrphans
<1> DEFINE R == [f \in Found \ task.orphans |-> task.result[f]]
<1>4. task' = [NoTask EXCEPT !.state = "succeeded", !.result = R] /\ task.state = "read"
  BY DEF CleanOrphans, Found
<1>5. /\ Found \subseteq Files
      /\ \A f \in Found : task.result[f] \in [stamp : 0..clock, meta : BOOLEAN]
  BY <1>4, InvParts DEF TaskTyped
<1>6. /\ DOMAIN R = Found \ task.orphans
      /\ \A f \in DOMAIN R : R[f] = task.result[f]
  OBVIOUS
<1> HIDE DEF R
<1>7. /\ task'.state = "succeeded" /\ task'.result = R
      /\ task' = [state |-> task'.state, clean |-> task'.clean, meta |-> task'.meta,
                  result |-> task'.result, orphans |-> task'.orphans]
  BY <1>4 DEF NoTask
<1>8. clock' = clock /\ UNCHANGED <<listVars, m_is_watching, m_scheduled_update>>
  BY DEF CleanOrphans
<1>9. TaskTyped' /\ Scheduling'
  BY <1>5, <1>6, <1>7, <1>8 DEF TaskTyped, Scheduling, Found
<1>10. UpToDate'
  <2>1. CASE task.orphans = {}
    <3>1. folder' = folder /\ index' = index /\ noticed' = noticed
      BY <2>1, InvParts DEF CleanOrphans
    <3>2. FilesShown' = FilesShown
      BY <3>1 DEF FilesShown, There, Shadowed
    <3>3. m_is_watching /\ ~noticed /\ ~m_scheduled_update =>
             Found = FilesShown /\ \A f \in Found : task.result[f].stamp = folder[f]
      BY <1>4, InvParts DEF UpToDate
    <3>4. Found' = Found /\ \A f \in Found : task'.result[f] = task.result[f]
      BY <1>6, <1>7, <2>1 DEF Found
    <3> QED BY <1>7, <1>8, <3>1, <3>2, <3>3, <3>4 DEF UpToDate
  <2>2. CASE task.orphans # {}
    BY <1>8, <2>2, NoticeFollows, BehindPromises DEF CleanOrphans
  <2> QED BY <2>1, <2>2
<1> QED BY <1>1, <1>2, <1>3, <1>8, <1>9, <1>10, ChangeKeeps DEF CleanOrphans, listVars

-----------------------------------------------------------------------------
(* The parsers.                                                              *)

\* A step of the parsers moves no row to another file.
SameFiles == /\ DOMAIN m_resources' = DOMAIN m_resources
             /\ \A r \in DOMAIN m_resources : /\ m_resources'[r].file = m_resources[r].file
                                              /\ m_resources'[r].stamp = m_resources[r].stamp
             /\ Current' = Current
             /\ \A f \in Current : At(f)' = At(f)

LEMMA UpToDateStays ==
    ASSUME UpToDate, SameFiles, UNCHANGED <<diskVars, m_is_watching, updateVars>>
    PROVE  UpToDate'
<1>1. FilesShown' = FilesShown /\ IndexNow' = IndexNow
  BY DEF FilesShown, IndexNow, There, Shadowed, diskVars
<1>2. task' = task /\ noticed' = noticed /\ folder' = folder
      /\ m_scheduled_update' = m_scheduled_update /\ m_is_watching' = m_is_watching
  BY DEF diskVars, updateVars
<1> QED BY <1>1, <1>2 DEF UpToDate, SameFiles, Found

\* What a step of the parsers has to show.
LEMMA ParserStep ==
    ASSUME FolderInv, UNCHANGED <<diskVars, m_is_watching, updateVars>>, SameFiles,
           m_resources' \in Seq(Entry), ParsersTyped', Tickets', ParsersFit', EntriesFit'
    PROVE  FolderInv'
<1>1. UNCHANGED <<folder, index, clock, task, m_scheduled_update>>
  BY DEF diskVars, updateVars
<1>2. UpToDate'
  BY UpToDateStays DEF FolderInv
<1>3. FolderTyped' /\ TaskTyped' /\ Scheduling'
  BY <1>1 DEF FolderInv, FolderTyped, TaskTyped, Scheduling, Found
<1>4. EntriesTyped'
  BY <1>1 DEF FolderInv, EntriesTyped, SameFiles
<1>5. RowsIndexed'
  BY DEF FolderInv, RowsIndexed, SameFiles
<1> QED BY <1>2, <1>3, <1>4, <1>5 DEF FolderInv

LEMMA SameStays == ASSUME UNCHANGED listVars PROVE SameFiles
  BY DEF SameFiles, Current, At, listVars

LEMMA ParseKeeps ==
    ASSUME FolderInv, NEW t \in DOMAIN m_active_parse_tasks, Parse(t) PROVE FolderInv'
<1> DEFINE p == m_active_parse_tasks[t]
           read == IF p.known THEN folder[p.path] ELSE 0
           q == IF p.aborted THEN [p EXCEPT !.state = "finished"]
                ELSE [p EXCEPT !.state = "succeeded", !.details = read]
<1>1. p \in Parser /\ p.state = "started"
  BY DEF FolderInv, ParsersTyped, Parse
<1>2. m_active_parse_tasks' = [m_active_parse_tasks EXCEPT ![t] = q]
  BY DEF Parse
<1>3. /\ q \in Parser /\ q.path = p.path /\ q.known = p.known /\ q.res = p.res
      /\ q.aborted = p.aborted /\ q.renamed = p.renamed /\ q.late = p.late
      /\ q.state = (IF p.aborted THEN "finished" ELSE "succeeded")
      /\ ~p.aborted => q.details = read
  <2>1. read \in Nat
    BY <1>1, InvParts DEF Parser
  <2> HIDE DEF p, read
  <2> QED BY <1>1, <2>1 DEF Parser
<1>4. UNCHANGED <<diskVars, listVars, m_is_watching, updateVars, m_next_resolution_ticket>>
  BY DEF Parse
<1> HIDE DEF q
<1>5. DOMAIN m_active_parse_tasks' = DOMAIN m_active_parse_tasks
      /\ m_active_parse_tasks'[t] = q
      /\ \A u \in DOMAIN m_active_parse_tasks : u # t =>
            m_active_parse_tasks'[u] = m_active_parse_tasks[u]
  BY <1>2
<1>6. ParsersTyped'
  BY <1>3, <1>4, <1>5 DEF FolderInv, ParsersTyped
<1>7. Live(q) <=> Live(p)
  BY <1>1, <1>3 DEF Live
<1>8. folder' = folder /\ m_resources' = m_resources /\ m_resources_index' = m_resources_index
  BY <1>4 DEF diskVars, listVars
<1>9. Tickets'
  BY <1>5, <1>8 DEF FolderInv, Tickets
<1>10. ParsersFit'
  <2>1. ASSUME NEW u \in DOMAIN m_active_parse_tasks PROVE
          LET x == m_active_parse_tasks'[u]
          IN  /\ x.aborted /\ x.state = "succeeded" => x.late
              /\ Live(x) /\ ~x.late =>
                    \E r \in DOMAIN m_resources : m_resources[r].m_resolution_ticket = u
    <3>1. CASE u = t
      <4>1. Live(p) /\ ~p.late =>
               \E r \in DOMAIN m_resources : m_resources[r].m_resolution_ticket = t
        BY DEF FolderInv, ParsersFit
      <4> HIDE DEF p
      <4> QED BY <1>3, <1>5, <1>7, <3>1, <4>1
    <3>2. CASE u # t
      BY <1>5, <3>2 DEF FolderInv, ParsersFit
    <3> QED BY <3>1, <3>2
  <2>2. ASSUME NEW u \in DOMAIN m_active_parse_tasks, NEW r \in DOMAIN m_resources,
               m_resources[r].m_resolution_ticket = u
        PROVE  LET x == m_active_parse_tasks'[u]
               IN  ~x.late /\ (Live(x) => Fits(folder, x, m_resources[r]))
    <3>1. CASE u = t
      <4>1. ~p.late /\ (Live(p) => Fits(folder, p, m_resources[r]))
        BY <2>2, <3>1 DEF FolderInv, ParsersFit
      <4>2. ASSUME Live(q) PROVE Fits(folder, q, m_resources[r])
        <5>1. Fits(folder, p, m_resources[r]) /\ q.details = read
          BY <1>3, <1>7, <4>1, <4>2 DEF Live
        <5>2. CASE p.renamed
          BY <1>3, <5>1, <5>2 DEF Fits
        <5>3. CASE ~p.renamed
          <6>1. p.res = m_resources[r].file /\ p.path = m_resources[r].file
                /\ (m_resources[r].stamp # 0 => p.known)
            BY <5>1, <5>3 DEF Fits
          <6>2. Reads(folder, m_resources[r].file, m_resources[r].stamp, q.details)
            BY <5>1, <6>1 DEF Reads
          <6> HIDE DEF p
          <6> QED BY <1>3, <6>1, <6>2 DEF Fits
        <5> QED BY <5>2, <5>3
      <4> HIDE DEF p
      <4> QED BY <1>3, <1>5, <3>1, <4>1, <4>2
    <3>2. CASE u # t
      BY <1>5, <2>2, <3>2 DEF FolderInv, ParsersFit
    <3> QED BY <3>1, <3>2
  <2> HIDE DEF p
  <2> QED BY <1>5, <1>8, <2>1, <2>2 DEF ParsersFit, Live, Fits, Reads
<1>11. EntriesFit'
  <2>1. ASSUME NEW r \in DOMAIN m_resources
        PROVE  RowFits(folder, m_active_parse_tasks', m_resources[r])
    <3>1. RowFits(folder, m_active_parse_tasks, m_resources[r])
      BY DEF FolderInv, EntriesFit
    <3>2. \A u \in DOMAIN m_active_parse_tasks :
             Live(m_active_parse_tasks[u]) => Live(m_active_parse_tasks'[u])
      <4> HIDE DEF p
      <4> QED BY <1>5, <1>7 DEF p
    <3> QED BY <1>5, <3>1, <3>2 DEF RowFits
  <2> QED BY <1>8, <2>1 DEF EntriesFit, RowFits, Live, Reads
<1>12. m_resources' \in Seq(Entry) /\ SameFiles
  BY <1>4, <1>8, InvParts, SameStays DEF EntriesTyped
<1> QED BY <1>4, <1>6, <1>9, <1>10, <1>11, <1>12, ParserStep

\* The end of a parser changes the row that has the name it is handled under, if that
\* has a row: the row is that of the parser, or it is doubtful from then on.
LEMMA ParseSucceededKeeps ==
    ASSUME FolderInv, NEW t \in DOMAIN m_active_parse_tasks, ParseSucceeded(t), ~misfiled'
    PROVE  FolderInv'
<1> DEFINE p == m_active_parse_tasks[t]
           q == [p EXCEPT !.state = "finished"]
<1>1. p \in Parser /\ p.state = "succeeded"
  BY DEF FolderInv, ParsersTyped, ParseSucceeded
<1>2. PICK id \in IF p.late THEN Files ELSE {p.res} :
         LET first == CHOOSE r \in RowsNamed(id) : \A s \in RowsNamed(id) : r <= s
         IN  /\ m_resources_index' = [f \in DOMAIN m_resources_index \union {id} |->
                     IF f \in DOMAIN m_resources_index THEN m_resources_index[f] ELSE 1]
             /\ misfiled' = (misfiled \/ (p.late /\ RowsNamed(id) = {}))
             /\ m_resources' = IF RowsNamed(id) = {} THEN m_resources
                               ELSE [m_resources EXCEPT ![first].details = p.details,
                                                        ![first].m_is_resolving = FALSE,
                                                        ![first].meta = FALSE,
                                                        ![first].doubtful = p.renamed \/ p.late]
  BY DEF ParseSucceeded
<1>3. /\ p.aborted => p.late
      /\ ~p.late => \E r \in DOMAIN m_resources : m_resources[r].m_resolution_ticket = t
      /\ \A r \in DOMAIN m_resources : m_resources[r].m_resolution_ticket = t =>
            ~p.late /\ (Live(p) => Fits(folder, p, m_resources[r]))
  BY <1>1 DEF FolderInv, ParsersFit, Live
<1>4. PICK r \in DOMAIN m_resources :
         /\ m_resources[r].file = id
         /\ ~p.late => m_resources[r].m_resolution_ticket = t /\ Fits(folder, p, m_resources[r])
  <2>1. CASE p.late
    <3>1. RowsNamed(id) # {}
      BY <1>2, <2>1
    <3> HIDE DEF p
    <3> QED BY <2>1, <3>1 DEF RowsNamed
  <2>2. CASE ~p.late
    <3>1. PICK r \in DOMAIN m_resources : m_resources[r].m_resolution_ticket = t
      BY <1>3, <2>2
    <3>2. Live(p)
      BY <1>1, <1>3, <2>2 DEF Live
    <3>3. Fits(folder, p, m_resources[r]) /\ id = p.res
      BY <1>2, <1>3, <2>2, <3>1, <3>2
    <3> QED BY <2>2, <3>1, <3>3 DEF Fits
  <2> QED BY <2>1, <2>2
<1>5. id \in Current /\ At(id) = r /\ m_resources[r] \in Entry /\ RowsNamed(id) = {r}
  <2>1. id \in Current /\ At(id) = r
    BY <1>4 DEF FolderInv, RowsIndexed
  <2>2. ASSUME NEW s \in DOMAIN m_resources, m_resources[s].file = id PROVE s = r
    BY <2>1, <2>2 DEF FolderInv, RowsIndexed
  <2>3. m_resources[r] \in Entry
    BY InvParts, RowTyped
  <2> HIDE DEF p
  <2> QED BY <1>4, <2>1, <2>2, <2>3 DEF RowsNamed
<1>6. UNCHANGED <<diskVars, m_is_watching, updateVars, m_next_resolution_ticket>>
  BY DEF ParseSucceeded
<1>7. /\ DOMAIN m_active_parse_tasks' = DOMAIN m_active_parse_tasks
      /\ m_active_parse_tasks'[t] = q
      /\ \A u \in DOMAIN m_active_parse_tasks : u # t =>
            m_active_parse_tasks'[u] = m_active_parse_tasks[u]
  <2>1. m_active_parse_tasks' = [m_active_parse_tasks EXCEPT ![t] = q]
    BY DEF ParseSucceeded
  <2> HIDE DEF q
  <2> QED BY <2>1
<1>8. q \in Parser /\ q.state = "finished" /\ ~ Live(q) /\ q.late = p.late
  <2> HIDE DEF p
  <2> QED BY <1>1 DEF Parser, Live
<1>9. DOMAIN m_resources_index' = Current
      /\ \A f \in Current : m_resources_index'[f] = m_resources_index[f]
  <2>1. Current \union {id} = Current
    BY <1>5
  <2>2. m_resources_index' = [f \in Current \union {id} |->
                                 IF f \in Current THEN m_resources_index[f] ELSE 1]
    BY <1>2 DEF Current
  <2> QED BY <2>1, <2>2
<1> DEFINE doubt == p.renamed \/ p.late
           row == [m_resources[r] EXCEPT !.details = p.details, !.m_is_resolving = FALSE,
                                         !.meta = FALSE, !.doubtful = doubt]
<1>10. m_resources' = [m_resources EXCEPT ![r] = row]
  <2> DEFINE first == CHOOSE x \in RowsNamed(id) : \A s \in RowsNamed(id) : x <= s
  <2>1. r \in Nat
    BY <1>4, InvParts DEF EntriesTyped
  <2>2. first = r
    <3>1. r \in {r} /\ \A s \in {r} : r <= s
      BY <2>1
    <3> QED BY <1>5, <3>1
  <2>3. m_resources' = [m_resources EXCEPT ![first].details = p.details,
                              ![first].m_is_resolving = FALSE, ![first].meta = FALSE,
                              ![first].doubtful = doubt]
    <3>1. RowsNamed(id) # {}
      BY <1>5
    <3> QED BY <1>2, <3>1
  <2> HIDE DEF first, p, doubt
  <2> QED BY <2>2, <2>3
<1>11. /\ row \in Entry /\ row.file = m_resources[r].file /\ row.stamp = m_resources[r].stamp
       /\ row.details = p.details /\ ~row.m_is_resolving /\ row.doubtful = doubt
       /\ row.m_resolution_ticket = m_resources[r].m_resolution_ticket
  <2>1. p.details \in Nat /\ doubt \in BOOLEAN
    BY <1>1 DEF Parser
  <2> HIDE DEF p, doubt
  <2> QED BY <1>5, <2>1 DEF Entry
<1> HIDE DEF q, row
<1>12. /\ m_resources' \in Seq(Entry) /\ DOMAIN m_resources' = DOMAIN m_resources
       /\ m_resources'[r] = row
       /\ \A s \in DOMAIN m_resources : s # r => m_resources'[s] = m_resources[s]
  <2>1. m_resources \in Seq(Entry)
    BY InvParts DEF EntriesTyped
  <2> HIDE DEF p
  <2> QED BY <1>4, <1>10, <1>11, <2>1
<1>13. \A s \in DOMAIN m_resources :
          /\ m_resources'[s].m_resolution_ticket = m_resources[s].m_resolution_ticket
          /\ m_resources'[s].file = m_resources[s].file
          /\ m_resources'[s].stamp = m_resources[s].stamp
  <2> HIDE DEF p, doubt
  <2> QED BY <1>11, <1>12
<1>14. SameFiles
  <2>1. Current' = Current /\ \A f \in Current : At(f)' = At(f)
    BY <1>9 DEF Current, At
  <2> QED BY <1>12, <1>13, <2>1 DEF SameFiles
<1>15. ParsersTyped'
  BY <1>6, <1>7, <1>8 DEF FolderInv, ParsersTyped
<1>16. folder' = folder
  BY <1>6 DEF diskVars
<1>17. Tickets'
  BY <1>7, <1>12, <1>13 DEF FolderInv, Tickets
<1>18. ParsersFit'
  <2>1. ASSUME NEW u \in DOMAIN m_active_parse_tasks PROVE
          LET x == m_active_parse_tasks'[u]
          IN  /\ x.aborted /\ x.state = "succeeded" => x.late
              /\ Live(x) /\ ~x.late =>
                    \E s \in DOMAIN m_resources : m_resources[s].m_resolution_ticket = u
    <3>1. CASE u = t
      <4> HIDE DEF p
      <4> QED BY <1>7, <1>8, <3>1
    <3>2. CASE u # t
      BY <1>7, <3>2 DEF FolderInv, ParsersFit
    <3> QED BY <3>1, <3>2
  <2>2. ASSUME NEW u \in DOMAIN m_active_parse_tasks, NEW s \in DOMAIN m_resources,
               m_resources[s].m_resolution_ticket = u
        PROVE  LET x == m_active_parse_tasks'[u]
               IN  ~x.late /\ (Live(x) => Fits(folder, x, m_resources'[s]))
    <3>1. CASE u = t
      <4>1. ~p.late
        BY <1>3, <2>2, <3>1
      <4> HIDE DEF p
      <4> QED BY <1>7, <1>8, <3>1, <4>1
    <3>2. CASE u # t
      <4> DEFINE x == m_active_parse_tasks[u]
      <4>1. ~x.late /\ (Live(x) => Fits(folder, x, m_resources[s]))
        BY <2>2 DEF FolderInv, ParsersFit
      <4>2. m_active_parse_tasks'[u] = x
        BY <1>7, <3>2
      <4> HIDE DEF x, p
      <4> QED BY <1>13, <4>1, <4>2 DEF Fits
    <3> QED BY <3>1, <3>2
  <2> HIDE DEF p, doubt
  <2> QED BY <1>7, <1>12, <1>13, <1>16, <2>1, <2>2 DEF ParsersFit, Live, Fits, Reads
<1>19. EntriesFit'
  <2>1. ASSUME NEW s \in DOMAIN m_resources
        PROVE  RowFits(folder, m_active_parse_tasks', m_resources'[s])
    <3>1. CASE s = r
      <4>1. doubt \/ Reads(folder, m_resources[r].file, m_resources[r].stamp, p.details)
        BY <1>1, <1>4 DEF Fits
      <4> HIDE DEF p, doubt
      <4> QED BY <1>11, <1>12, <3>1, <4>1 DEF RowFits
    <3>2. CASE s # r
      <4>1. m_resources'[s] = m_resources[s] /\ RowFits(folder, m_active_parse_tasks, m_resources[s])
        BY <1>12, <3>2 DEF FolderInv, EntriesFit
      <4> DEFINE u == m_resources[s].m_resolution_ticket
      <4>2. ASSUME m_resources[s].m_is_resolving PROVE u \in DOMAIN m_active_parse_tasks /\ u # t
        <5>1. u \in DOMAIN m_active_parse_tasks
          BY <4>1, <4>2 DEF RowFits
        <5>2. ASSUME u = t PROVE FALSE
          <6>1. ~p.late
            BY <1>3, <5>2
          <6>2. m_resources[r].m_resolution_ticket = t
            BY <1>4, <6>1
          <6>3. t # 0
            BY DEF FolderInv, ParsersTyped
          <6> QED BY <3>2, <5>2, <6>2, <6>3 DEF FolderInv, Tickets
        <5> QED BY <5>1, <5>2
      <4> HIDE DEF p, doubt
      <4> QED BY <1>7, <4>1, <4>2 DEF RowFits
    <3> QED BY <3>1, <3>2
  <2> HIDE DEF p, doubt
  <2> QED BY <1>12, <1>16, <2>1 DEF EntriesFit, RowFits, Live, Reads
<1> QED BY <1>6, <1>12, <1>14, <1>15, <1>17, <1>18, <1>19, ParserStep

LEMMA ParseFinishedKeeps ==
    ASSUME FolderInv, NEW t \in DOMAIN m_active_parse_tasks, ParseFinished(t) PROVE FolderInv'
<1>1. UNCHANGED <<diskVars, m_resources_index, m_is_watching, updateVars>>
  BY DEF ParseFinished
<1>2. /\ DOMAIN m_active_parse_tasks' = DOMAIN m_active_parse_tasks \ {t}
      /\ \A u \in DOMAIN m_active_parse_tasks \ {t} :
            m_active_parse_tasks'[u] = m_active_parse_tasks[u]
  BY DEF ParseFinished
<1>3. /\ DOMAIN m_resources' = DOMAIN m_resources
      /\ \A r \in DOMAIN m_resources :
            m_resources'[r] = IF m_resources[r].m_resolution_ticket = t
                              THEN [m_resources[r] EXCEPT !.m_resolution_ticket = 0]
                              ELSE m_resources[r]
  BY DEF ParseFinished
<1>4. ASSUME NEW r \in DOMAIN m_resources
      PROVE  /\ m_resources'[r] \in Entry
             /\ m_resources'[r].file = m_resources[r].file
             /\ m_resources'[r].stamp = m_resources[r].stamp
             /\ m_resources'[r].details = m_resources[r].details
             /\ m_resources'[r].doubtful = m_resources[r].doubtful
             /\ m_resources'[r].m_is_resolving = m_resources[r].m_is_resolving
             /\ m_resources'[r].m_resolution_ticket =
                   IF m_resources[r].m_resolution_ticket = t THEN 0
                   ELSE m_resources[r].m_resolution_ticket
  <2> DEFINE row == [m_resources[r] EXCEPT !.m_resolution_ticket = 0]
  <2>1. m_resources[r] \in Entry
    BY InvParts, RowTyped
  <2>2. row \in Entry /\ row.file = m_resources[r].file /\ row.stamp = m_resources[r].stamp
        /\ row.details = m_resources[r].details /\ row.doubtful = m_resources[r].doubtful
        /\ row.m_is_resolving = m_resources[r].m_is_resolving
        /\ row.m_resolution_ticket = 0
    BY <2>1 DEF Entry
  <2>3. m_resources'[r] = IF m_resources[r].m_resolution_ticket = t THEN row ELSE m_resources[r]
    BY <1>3
  <2> HIDE DEF row
  <2> QED BY <2>1, <2>2, <2>3
<1>5. m_resources' \in Seq(Entry)
  <2>1. m_resources \in Seq(Entry)
    BY InvParts DEF EntriesTyped
  <2>2. Len(m_resources) \in Nat /\ DOMAIN m_resources = 1..Len(m_resources)
    BY <2>1
  <2>3. m_resources' = [r \in 1..Len(m_resources) |-> m_resources'[r]]
    BY <1>3, <2>2 DEF ParseFinished
  <2>4. \A r \in 1..Len(m_resources) : m_resources'[r] \in Entry
    BY <1>4, <2>2
  <2>5. m_resources' \in [1..Len(m_resources) -> Entry]
    BY <2>3, <2>4
  <2> QED BY <2>2, <2>5
<1>6. SameFiles
  <2>1. Current' = Current /\ \A f \in Current : At(f)' = At(f)
    BY <1>1 DEF Current, At
  <2> QED BY <1>3, <1>4, <2>1 DEF SameFiles
<1>7. ParsersTyped'
  <2>1. /\ m_next_resolution_ticket \in Nat
        /\ DOMAIN m_active_parse_tasks \subseteq 1..m_next_resolution_ticket
        /\ \A u \in DOMAIN m_active_parse_tasks : m_active_parse_tasks[u] \in Parser
    BY DEF FolderInv, ParsersTyped
  <2>2. CASE DOMAIN m_active_parse_tasks = {t}
    <3>1. m_next_resolution_ticket' = 0 /\ DOMAIN m_active_parse_tasks' = {}
      BY <1>2, <2>2 DEF ParseFinished
    <3> QED BY <3>1 DEF ParsersTyped
  <2>3. CASE DOMAIN m_active_parse_tasks # {t}
    <3>1. m_next_resolution_ticket' = m_next_resolution_ticket
      BY <2>3 DEF ParseFinished
    <3> QED BY <1>2, <2>1, <3>1 DEF ParsersTyped
  <2> QED BY <2>2, <2>3
<1>8. ~Live(m_active_parse_tasks[t]) /\ t # 0
  BY DEF ParseFinished, Live, FolderInv, ParsersTyped
<1>9. folder' = folder
  BY <1>1 DEF diskVars
<1>10. Tickets'
  <2>1. ASSUME NEW r \in DOMAIN m_resources
        PROVE  m_resources'[r].m_resolution_ticket \in DOMAIN m_active_parse_tasks' \union {0}
    <3>1. m_resources[r].m_resolution_ticket \in DOMAIN m_active_parse_tasks \union {0}
      BY DEF FolderInv, Tickets
    <3> QED BY <1>2, <1>4, <3>1
  <2>2. ASSUME NEW r \in DOMAIN m_resources, NEW s \in DOMAIN m_resources,
               m_resources'[r].m_resolution_ticket = m_resources'[s].m_resolution_ticket,
               m_resources'[r].m_resolution_ticket # 0
        PROVE  r = s
    <3>1. m_resources[r].m_resolution_ticket = m_resources[s].m_resolution_ticket
          /\ m_resources[r].m_resolution_ticket # 0
      BY <1>4, <2>2
    <3> QED BY <3>1 DEF FolderInv, Tickets
  <2> QED BY <1>3, <2>1, <2>2 DEF Tickets
<1>11. ParsersFit'
  <2>1. ASSUME NEW u \in DOMAIN m_active_parse_tasks \ {t} PROVE
          LET x == m_active_parse_tasks[u]
          IN  /\ x.aborted /\ x.state = "succeeded" => x.late
              /\ Live(x) /\ ~x.late =>
                    \E s \in DOMAIN m_resources : m_resources'[s].m_resolution_ticket = u
    <3>1. LET x == m_active_parse_tasks[u]
          IN  /\ x.aborted /\ x.state = "succeeded" => x.late
              /\ Live(x) /\ ~x.late =>
                    \E s \in DOMAIN m_resources : m_resources[s].m_resolution_ticket = u
      BY DEF FolderInv, ParsersFit
    <3> QED BY <1>4, <3>1
  <2>2. ASSUME NEW u \in DOMAIN m_active_parse_tasks \ {t}, NEW s \in DOMAIN m_resources,
               m_resources'[s].m_resolution_ticket = u
        PROVE  LET x == m_active_parse_tasks[u]
               IN  ~x.late /\ (Live(x) => Fits(folder, x, m_resources'[s]))
    <3> DEFINE x == m_active_parse_tasks[u]
    <3>1. u # 0
      BY DEF FolderInv, ParsersTyped
    <3>2. m_resources[s].m_resolution_ticket = u
      BY <1>4, <2>2, <3>1
    <3>3. ~x.late /\ (Live(x) => Fits(folder, x, m_resources[s]))
      BY <3>2 DEF FolderInv, ParsersFit
    <3> HIDE DEF x
    <3> QED BY <1>4, <3>3 DEF Fits, x
  <2> QED BY <1>2, <1>3, <1>9, <2>1, <2>2 DEF ParsersFit, Live, Fits, Reads
<1>12. EntriesFit'
  <2>1. ASSUME NEW r \in DOMAIN m_resources
        PROVE  RowFits(folder, m_active_parse_tasks', m_resources'[r])
    <3> DEFINE u == m_resources[r].m_resolution_ticket
    <3>1. RowFits(folder, m_active_parse_tasks, m_resources[r])
      BY DEF FolderInv, EntriesFit
    <3>2. m_resources[r].m_is_resolving => u # t
      BY <1>8, <3>1 DEF RowFits
    <3> QED BY <1>2, <1>4, <3>1, <3>2 DEF RowFits
  <2> QED BY <1>3, <1>9, <2>1 DEF EntriesFit, RowFits, Live, Reads
<1> QED BY <1>1, <1>5, <1>6, <1>7, <1>10, <1>11, <1>12, ParserStep

-----------------------------------------------------------------------------
(* A mod is enabled or disabled.                                             *)

LEMMA SettledShown ==
    ASSUME FolderInv, m_is_watching, Settled
    PROVE  /\ Current = FilesShown
           /\ \A r \in DOMAIN m_resources :
                 LET row == m_resources[r]
                 IN  /\ row.stamp = folder[row.file] /\ ~row.m_is_resolving
                     /\ row.stamp # 0 => row.doubtful \/ row.details = row.stamp
<1>1. ~noticed /\ task.state = "none" /\ ~m_scheduled_update /\ DOMAIN m_active_parse_tasks = {}
  BY InvParts DEF Settled, Scheduling
<1>2. Current = FilesShown
      /\ \A r \in DOMAIN m_resources : m_resources[r].stamp = folder[m_resources[r].file]
  BY <1>1, InvParts DEF UpToDate
<1>3. \A r \in DOMAIN m_resources :
         /\ ~m_resources[r].m_is_resolving
         /\ \/ m_resources[r].doubtful
            \/ Reads(folder, m_resources[r].file, m_resources[r].stamp, m_resources[r].details)
  BY <1>1 DEF FolderInv, EntriesFit, RowFits
<1> QED BY <1>2, <1>3 DEF Reads

\* The row that is renamed keeps its parser, which is then the parser of a renamed row.
LEMMA ToggleKeeps ==
    ASSUME FolderInv, NEW r \in DOMAIN m_resources, Toggle(r), ~misfiled' PROVE FolderInv'
<1> DEFINE f == m_resources[r].file
           g == Toggled(f)
           stamp == folder[f]
           doubt == m_resources[r].doubtful \/ m_resources[r].stamp # stamp
           row == [m_resources[r] EXCEPT !.file = g, !.stamp = stamp, !.doubtful = doubt]
           t == m_resources[r].m_resolution_ticket
<1>1. m_is_watching /\ There(f) /\ RowsNamed(g) = {}
  BY DEF Toggle
<1>2. f \in Files /\ m_resources[r] \in Entry /\ m_resources \in Seq(Entry)
  BY InvParts, RowTyped DEF EntriesTyped
<1>3. g \in Files /\ g # f
  <2> HIDE DEF f
  <2>1. PICK m \in Mods, b \in BOOLEAN : f = <<m, b>>
    BY <1>2 DEF Files
  <2>2. Toggled(<<m, TRUE>>) = <<m, FALSE>> /\ Toggled(<<m, FALSE>>) = <<m, TRUE>>
    <3>1. ~TRUE = FALSE /\ ~FALSE = TRUE
      OBVIOUS
    <3> QED BY <3>1 DEF Toggled
  <2>3. <<m, TRUE>> \in Files /\ <<m, FALSE>> \in Files /\ <<m, TRUE>> # <<m, FALSE>>
    BY DEF Files
  <2>4. CASE b = TRUE
    BY <2>1, <2>2, <2>3, <2>4
  <2>5. CASE b = FALSE
    BY <2>1, <2>2, <2>3, <2>5
  <2> QED BY <2>4, <2>5
<1>4. f \in Current /\ At(f) = r
  BY DEF FolderInv, RowsIndexed
<1>5. g \notin Current
  <2> HIDE DEF f, g
  <2> QED BY <1>1 DEF RowsNamed, FolderInv, RowsIndexed
<1>6. UNCHANGED <<m_next_resolution_ticket, index, clock, m_is_watching, updateVars>> /\ Notice
  BY DEF Toggle
<1>7. /\ DOMAIN m_active_parse_tasks' = DOMAIN m_active_parse_tasks
      /\ \A u \in DOMAIN m_active_parse_tasks : m_active_parse_tasks'[u] =
            IF t = u THEN [m_active_parse_tasks[u] EXCEPT !.res = g, !.renamed = TRUE]
            ELSE m_active_parse_tasks[u]
  BY DEF Toggle
<1>8. folder' = [folder EXCEPT ![f] = 0, ![g] = stamp]
  BY DEF Toggle
<1>9. m_resources' = [m_resources EXCEPT ![r] = row]
  <2>1. m_resources' = [m_resources EXCEPT ![r].file = g, ![r].stamp = stamp,
                                           ![r].doubtful = @ \/ m_resources[r].stamp # stamp]
    BY DEF Toggle
  <2> HIDE DEF f, g, stamp
  <2> QED BY <2>1
<1>10. m_resources_index' = [h \in (Current \ {f}) \union {g} |->
                                IF h = g THEN r ELSE m_resources_index[h]]
  BY DEF Toggle, Current
<1>11. stamp \in Nat /\ stamp <= clock /\ stamp # 0
  BY <1>1, <1>2 DEF FolderInv, FolderTyped, There
<1>12. /\ row \in Entry /\ row.file = g /\ row.stamp = stamp /\ row.doubtful = doubt
       /\ row.details = m_resources[r].details
       /\ row.m_is_resolving = m_resources[r].m_is_resolving
       /\ row.m_resolution_ticket = t
  <2>1. doubt \in BOOLEAN
    BY <1>2 DEF Entry
  <2> HIDE DEF f, g, stamp, doubt
  <2> QED BY <1>2, <1>3, <1>11, <2>1 DEF Entry
<1>13. /\ folder' \in [Files -> Nat] /\ folder'[g] = stamp /\ folder'[f] = 0
       /\ \A h \in Files \ {f, g} : folder'[h] = folder[h]
  <2> HIDE DEF f, g, stamp
  <2> QED BY <1>2, <1>3, <1>8, <1>11, InvParts
<1> HIDE DEF row
<1>14. /\ m_resources' \in Seq(Entry) /\ DOMAIN m_resources' = DOMAIN m_resources
       /\ m_resources'[r] = row
       /\ \A s \in DOMAIN m_resources \ {r} : m_resources'[s] = m_resources[s]
  <2> HIDE DEF f, g, stamp, doubt, t
  <2> QED BY <1>2, <1>9, <1>12
<1>15. \A s \in DOMAIN m_resources \ {r} :
          /\ m_resources[s].file \in Files \ {f, g} /\ m_resources[s].file \in Current
          /\ At(m_resources[s].file) = s
  <2>1. \A s \in DOMAIN m_resources : m_resources[s].file \in Current
                                      /\ At(m_resources[s].file) = s
    BY DEF FolderInv, RowsIndexed
  <2>2. \A s \in DOMAIN m_resources : m_resources[s].file \in Files
    BY InvParts, RowTyped
  <2> HIDE DEF f, g
  <2> QED BY <1>4, <1>5, <2>1, <2>2
<1>16. FolderTyped'
  <2>1. \A h \in Files : folder[h] \in Nat /\ folder[h] <= clock
    BY DEF FolderInv, FolderTyped
  <2>2. \A h \in Files : folder'[h] <= clock
    <3>1. 0 <= clock
      BY InvParts
    <3> HIDE DEF f, g, stamp
    <3> QED BY <1>11, <1>13, <2>1, <3>1
  <2> QED BY <1>6, <1>13, <2>2, InvParts DEF FolderTyped
<1>17. EntriesTyped'
  <2>1. \A s \in DOMAIN m_resources : m_resources[s].stamp <= clock
    BY InvParts DEF EntriesTyped
  <2> HIDE DEF stamp, f, g, doubt, t
  <2> QED BY <1>6, <1>11, <1>12, <1>14, <2>1 DEF EntriesTyped
<1>18. ASSUME NEW u \in DOMAIN m_active_parse_tasks
       PROVE  LET p == m_active_parse_tasks[u]
                  q == m_active_parse_tasks'[u]
              IN  /\ q \in Parser /\ q.state = p.state /\ q.aborted = p.aborted /\ q.late = p.late
                  /\ u = t => q.res = g /\ q.renamed
                  /\ u # t => q = p
  <2> DEFINE p == m_active_parse_tasks[u]
             x == [p EXCEPT !.res = g, !.renamed = TRUE]
  <2>1. p \in Parser
    BY DEF FolderInv, ParsersTyped
  <2>2. m_active_parse_tasks'[u] = IF t = u THEN x ELSE p
    BY <1>7
  <2> HIDE DEF p, g, t
  <2>3. /\ x \in Parser /\ x.state = p.state /\ x.aborted = p.aborted /\ x.late = p.late
        /\ x.res = g /\ x.renamed
    BY <1>3, <2>1 DEF Parser
  <2> HIDE DEF x
  <2> QED BY <2>1, <2>2, <2>3 DEF p
<1>19. ParsersTyped'
  BY <1>6, <1>7, <1>18 DEF FolderInv, ParsersTyped
<1>20. \A s \in DOMAIN m_resources :
          m_resources'[s].m_resolution_ticket = m_resources[s].m_resolution_ticket
  <2> HIDE DEF f, g, stamp, doubt
  <2> QED BY <1>12, <1>14
<1>21. Tickets'
  BY <1>7, <1>14, <1>20 DEF FolderInv, Tickets
<1>22. ASSUME NEW s \in DOMAIN m_resources \ {r}, m_resources[s].m_resolution_ticket = t
       PROVE  t \notin DOMAIN m_active_parse_tasks
  <2>1. t = 0
    BY <1>22 DEF FolderInv, Tickets
  <2>2. 0 \notin DOMAIN m_active_parse_tasks
    BY DEF FolderInv, ParsersTyped
  <2> QED BY <2>1, <2>2
<1>23. ParsersFit'
  <2>1. ASSUME NEW u \in DOMAIN m_active_parse_tasks PROVE
          LET x == m_active_parse_tasks'[u]
          IN  /\ x.aborted /\ x.state = "succeeded" => x.late
              /\ Live(x) /\ ~x.late =>
                    \E s \in DOMAIN m_resources : m_resources[s].m_resolution_ticket = u
    <3>1. LET x == m_active_parse_tasks[u]
          IN  /\ x.aborted /\ x.state = "succeeded" => x.late
              /\ Live(x) /\ ~x.late =>
                    \E s \in DOMAIN m_resources : m_resources[s].m_resolution_ticket = u
      BY DEF FolderInv, ParsersFit
    <3> QED BY <1>18, <3>1 DEF Live
  <2>2. ASSUME NEW u \in DOMAIN m_active_parse_tasks, NEW s \in DOMAIN m_resources,
               m_resources[s].m_resolution_ticket = u
        PROVE  LET x == m_active_parse_tasks'[u]
               IN  ~x.late /\ (Live(x) => Fits(folder', x, m_resources'[s]))
    <3> DEFINE p == m_active_parse_tasks[u]
               x == m_active_parse_tasks'[u]
    <3>1. ~p.late /\ (Live(p) => Fits(folder, p, m_resources[s]))
      BY <2>2 DEF FolderInv, ParsersFit
    <3>2. x.late = p.late /\ (Live(x) => Live(p))
      BY <1>18 DEF Live
    <3>3. CASE s = r
      <4>1. u = t /\ x.res = g /\ x.renamed
        BY <1>18, <2>2, <3>3
      <4>2. m_resources'[s].file = g
        BY <1>12, <1>14, <3>3
      <4> HIDE DEF p, x, f, g, stamp, doubt
      <4> QED BY <3>1, <3>2, <4>1, <4>2 DEF Fits, x
    <3>4. CASE s # r
      <4>1. u # t
        BY <1>22, <2>2, <3>4
      <4>2. x = p /\ m_resources'[s] = m_resources[s]
        BY <1>14, <1>18, <3>4, <4>1
      <4>3. folder'[m_resources[s].file] = folder[m_resources[s].file]
        <5> HIDE DEF f, g, stamp
        <5> QED BY <1>13, <1>15, <3>4
      <4> HIDE DEF p, x, f, g, stamp, doubt
      <4> QED BY <3>1, <4>2, <4>3 DEF Fits, Reads, x
    <3> QED BY <3>3, <3>4
  <2>3. /\ DOMAIN m_active_parse_tasks' = DOMAIN m_active_parse_tasks
        /\ DOMAIN m_resources' = DOMAIN m_resources
    BY <1>7, <1>14
  <2> HIDE DEF f, g, stamp, doubt, t
  <2> QED BY <1>20, <2>1, <2>2, <2>3 DEF ParsersFit, Live, Fits, Reads
<1>24. EntriesFit'
  <2>1. ASSUME NEW s \in DOMAIN m_resources
        PROVE  RowFits(folder', m_active_parse_tasks', m_resources'[s])
    <3>1. RowFits(folder, m_active_parse_tasks, m_resources[s])
      BY DEF FolderInv, EntriesFit
    <3>2. \A u \in DOMAIN m_active_parse_tasks :
             Live(m_active_parse_tasks[u]) => Live(m_active_parse_tasks'[u])
      BY <1>18 DEF Live
    <3>3. CASE s = r
      <4>1. doubt \/ Reads(folder, f, m_resources[r].stamp, m_resources[r].details)
               \/ m_resources[r].m_is_resolving
        BY <3>1, <3>3 DEF RowFits
      <4>2. doubt \/ m_resources[r].m_is_resolving \/ m_resources[r].details = stamp
        BY <1>11, <4>1 DEF Reads
      <4>3. m_resources[r].m_is_resolving => /\ t \in DOMAIN m_active_parse_tasks
                                             /\ Live(m_active_parse_tasks[t])
        BY <3>1, <3>3 DEF RowFits
      <4> HIDE DEF f, g, stamp, doubt, t
      <4> QED BY <1>7, <1>12, <1>14, <3>2, <3>3, <4>2, <4>3 DEF RowFits, Reads
    <3>4. CASE s # r
      <4>1. m_resources'[s] = m_resources[s]
        BY <1>14, <3>4
      <4>2. folder'[m_resources[s].file] = folder[m_resources[s].file]
        <5> HIDE DEF f, g, stamp
        <5> QED BY <1>13, <1>15, <3>4
      <4> HIDE DEF f, g, stamp, doubt, t
      <4> QED BY <1>7, <3>1, <3>2, <4>1, <4>2 DEF RowFits, Reads
    <3> QED BY <3>3, <3>4
  <2> HIDE DEF f, g, stamp, doubt, t
  <2> QED BY <1>14, <2>1 DEF EntriesFit, RowFits, Live, Reads
<1>25. RowsIndexed'
  <2>1. /\ Current' = (Current \ {f}) \union {g}
        /\ m_resources_index'[g] = r
        /\ \A h \in Current \ {f} : m_resources_index'[h] = m_resources_index[h]
    <3> HIDE DEF f, g
    <3> QED BY <1>5, <1>10 DEF Current
  <2>2. ASSUME NEW s \in DOMAIN m_resources
        PROVE  m_resources'[s].file \in Current' /\ m_resources_index'[m_resources'[s].file] = s
    <3> HIDE DEF f, g
    <3>1. CASE s = r
      BY <1>12, <1>14, <2>1, <3>1
    <3>2. CASE s # r
      BY <1>14, <1>15, <2>1, <3>2 DEF At
    <3> QED BY <3>1, <3>2
  <2>3. ASSUME NEW h \in Current'
        PROVE  /\ m_resources_index'[h] \in DOMAIN m_resources
               /\ m_resources'[m_resources_index'[h]].file = h
    <3> HIDE DEF f, g
    <3>1. CASE h = g
      BY <1>12, <1>14, <2>1, <3>1
    <3>2. CASE h # g
      <4>1. h \in Current \ {f} /\ m_resources_index'[h] = At(h)
        BY <2>1, <2>3, <3>2 DEF At
      <4>2. At(h) \in DOMAIN m_resources /\ m_resources[At(h)].file = h
        BY <4>1 DEF FolderInv, RowsIndexed
      <4>3. At(h) # r
        BY <4>1, <4>2 DEF f
      <4> QED BY <1>14, <4>1, <4>2, <4>3
    <3> QED BY <3>1, <3>2
  <2> HIDE DEF f, g
  <2> QED BY <1>14, <2>2, <2>3 DEF RowsIndexed, At
<1>26. TaskTyped' /\ Scheduling'
  BY <1>6, InvParts DEF updateVars, TaskTyped, Scheduling, Found
<1>27. UpToDate'
  BY <1>6, NoticeFollows, BehindPromises
<1> QED BY <1>16, <1>17, <1>19, <1>21, <1>23, <1>24, <1>25, <1>26, <1>27 DEF FolderInv

-----------------------------------------------------------------------------
(* The main thread takes over what the update task found.                    *)

\* A row that is kept as it is, and the parsers that are started: ticket and file.
Spared(r) == r \in Keep /\ m_resources[r].file \notin Changed
Added == SetToSeq(Found \ Current)
LastTicket == m_next_resolution_ticket + Len(m_resources)
Started == {<<m_next_resolution_ticket + At(f), f>> : f \in Changed}
               \union {<<LastTicket + k, Added[k]>> : k \in DOMAIN Added}

LEMMA FilesAreFinite == IsFiniteSet(Files)
<1>1. IsFiniteSet({TRUE, FALSE})
  <2>1. IsFiniteSet({TRUE}) /\ {TRUE, FALSE} = {TRUE} \union {FALSE}
    BY FS_Singleton
  <2> QED BY <2>1, FS_AddElement
<1>2. BOOLEAN = {TRUE, FALSE}
  OBVIOUS
<1> QED BY <1>1, <1>2, FolderAssumption, FS_Product DEF Files

LEMMA AddedOnce ==
    ASSUME TaskTyped, task.state = "succeeded"
    PROVE  /\ Found \subseteq Files
           /\ Added \in Seq(Found \ Current) /\ Len(Added) \in Nat
           /\ DOMAIN Added = 1..Len(Added)
           /\ \A i \in DOMAIN Added : Added[i] \in Found /\ Added[i] \notin Current
           /\ \A i, j \in DOMAIN Added : Added[i] = Added[j] => i = j
           /\ \A f \in Found \ Current : \E i \in DOMAIN Added : Added[i] = f
<1>1. Found \subseteq Files
  BY DEF TaskTyped
<1>2. IsFiniteSet(Found \ Current)
  BY <1>1, FilesAreFinite, FS_Subset
<1>3. /\ Added \in Seq(Found \ Current)
      /\ \A i, j \in DOMAIN Added : Added[i] = Added[j] => i = j
      /\ \A f \in Found \ Current : \E i \in DOMAIN Added : Added[i] = f
  BY <1>2, ElementsOnce DEF Added
<1>4. Len(Added) \in Nat /\ DOMAIN Added = 1..Len(Added)
      /\ \A i \in DOMAIN Added : Added[i] \in Found \ Current
  BY <1>3
<1> QED BY <1>1, <1>3, <1>4

\* Of a row the index says where it is, so that Changed are the files with another stamp.
LEMMA ChangedFiles ==
    ASSUME RowsIndexed
    PROVE  /\ Changed = {f \in Current \intersect Found :
                            m_resources[At(f)].stamp # task.result[f].stamp}
           /\ \A r \in DOMAIN m_resources :
                 (\E f \in Changed : At(f) = r) <=> m_resources[r].file \in Changed
           /\ \A r \in DOMAIN m_resources, f \in Changed : At(f) = r => f = m_resources[r].file
<1>1. Changed = {f \in Current \intersect Found :
                    m_resources[At(f)].stamp # task.result[f].stamp}
  BY DEF RowsIndexed, Changed
<1>2. \A f \in Current : m_resources[At(f)].file = f
  BY DEF RowsIndexed
<1>3. \A r \in DOMAIN m_resources, f \in Changed : At(f) = r => f = m_resources[r].file
  BY <1>1, <1>2
<1>4. \A r \in DOMAIN m_resources : At(m_resources[r].file) = r
  BY DEF RowsIndexed
<1> QED BY <1>1, <1>3, <1>4

\* Every parser that is started has a ticket of its own, later than all others.
LEMMA StartedTickets ==
    ASSUME FolderInv, task.state = "succeeded"
    PROVE  /\ LastTicket \in Nat /\ m_next_resolution_ticket <= LastTicket
           /\ \A s \in Started :
                 /\ s = <<s[1], s[2]>> /\ s[2] \in Found
                 /\ s[1] \in m_next_resolution_ticket + 1 .. LastTicket + Len(Added)
           /\ \A s, u \in Started : s[1] = u[1] => s = u
<1> DEFINE N == m_next_resolution_ticket
<1>1. N \in Nat /\ Len(m_resources) \in Nat /\ LastTicket = N + Len(m_resources)
  BY InvParts DEF FolderInv, ParsersTyped, EntriesTyped, LastTicket
<1>2. \A f \in Changed : f \in Current /\ f \in Found /\ At(f) \in 1..Len(m_resources)
  <2>1. DOMAIN m_resources = 1..Len(m_resources)
    BY InvParts DEF EntriesTyped
  <2> QED BY <2>1 DEF FolderInv, RowsIndexed, Changed
<1>3. /\ Len(Added) \in Nat /\ DOMAIN Added = 1..Len(Added)
      /\ \A k \in DOMAIN Added : Added[k] \in Found
  BY InvParts, AddedOnce
<1>4. \A f, g \in Changed : At(f) = At(g) => f = g
  BY <1>2, ErasedRows DEF FolderInv
<1> HIDE DEF N
<1>5. ASSUME NEW s \in Started
      PROVE  \/ \E f \in Changed : s = <<N + At(f), f>>
             \/ \E k \in DOMAIN Added : s = <<LastTicket + k, Added[k]>>
  BY DEF Started, N
<1>6. ASSUME NEW s \in Started
      PROVE  s = <<s[1], s[2]>> /\ s[2] \in Found /\ s[1] \in N + 1 .. LastTicket + Len(Added)
  <2>1. CASE \E f \in Changed : s = <<N + At(f), f>>
    <3>1. PICK f \in Changed : s = <<N + At(f), f>>
      BY <2>1
    <3>2. N + At(f) \in N + 1 .. LastTicket + Len(Added)
      <4>1. At(f) \in Nat /\ 1 <= At(f) /\ At(f) <= Len(m_resources)
        BY <1>1, <1>2
      <4> QED BY <1>1, <1>3, <4>1
    <3> QED BY <1>2, <3>1, <3>2
  <2>2. CASE \E k \in DOMAIN Added : s = <<LastTicket + k, Added[k]>>
    <3>1. PICK k \in DOMAIN Added : s = <<LastTicket + k, Added[k]>>
      BY <2>2
    <3>2. LastTicket + k \in N + 1 .. LastTicket + Len(Added)
      BY <1>1, <1>3
    <3> QED BY <1>3, <3>1, <3>2
  <2> QED BY <1>5, <2>1, <2>2
<1>7. ASSUME NEW s \in Started, NEW u \in Started, s[1] = u[1] PROVE s = u
  <2>1. ASSUME NEW f \in Changed, NEW g \in Changed, N + At(f) = N + At(g)
        PROVE  f = g
    <3>1. At(f) \in Nat /\ At(g) \in Nat
      BY <1>2
    <3>2. At(f) = At(g)
      BY <1>1, <2>1, <3>1
    <3> QED BY <1>4, <3>2
  <2>2. ASSUME NEW k \in DOMAIN Added, NEW l \in DOMAIN Added, LastTicket + k = LastTicket + l
        PROVE  k = l
    <3>1. k \in Nat /\ l \in Nat /\ LastTicket \in Nat
      BY <1>1, <1>3
    <3> QED BY <2>2, <3>1
  <2>3. ASSUME NEW f \in Changed, NEW k \in DOMAIN Added PROVE N + At(f) # LastTicket + k
    <3>1. At(f) \in Nat /\ At(f) <= Len(m_resources) /\ k \in Nat /\ 1 <= k
      BY <1>2, <1>3
    <3> QED BY <1>1, <3>1
  <2>4. CASE \E f \in Changed : s = <<N + At(f), f>>
    <3>1. PICK f \in Changed : s = <<N + At(f), f>>
      BY <2>4
    <3>2. CASE \E g \in Changed : u = <<N + At(g), g>>
      BY <1>7, <2>1, <3>1, <3>2
    <3>3. CASE \E k \in DOMAIN Added : u = <<LastTicket + k, Added[k]>>
      BY <1>7, <2>3, <3>1, <3>3
    <3> QED BY <1>5, <3>2, <3>3
  <2>5. CASE \E k \in DOMAIN Added : s = <<LastTicket + k, Added[k]>>
    <3>1. PICK k \in DOMAIN Added : s = <<LastTicket + k, Added[k]>>
      BY <2>5
    <3>2. CASE \E g \in Changed : u = <<N + At(g), g>>
      BY <1>7, <2>3, <3>1, <3>2
    <3>3. CASE \E l \in DOMAIN Added : u = <<LastTicket + l, Added[l]>>
      BY <1>7, <2>2, <3>1, <3>3
    <3> QED BY <1>5, <3>2, <3>3
  <2> QED BY <1>5, <2>4, <2>5
<1>8. N <= LastTicket
  BY <1>1
<1> QED BY <1>1, <1>6, <1>7, <1>8 DEF N

LEMMA NewRowTyped ==
    ASSUME FolderInv, task.state = "succeeded", NEW f \in Found, NEW t \in Nat
    PROVE  /\ Resolving(f, t) \in Entry
           /\ Resolving(f, t).file = f /\ Resolving(f, t).stamp = task.result[f].stamp
           /\ Resolving(f, t).stamp <= clock
           /\ Resolving(f, t).m_is_resolving /\ Resolving(f, t).m_resolution_ticket = t
<1>1. f \in Files /\ task.result[f] \in [stamp : 0..clock, meta : BOOLEAN] /\ clock \in Nat
  BY InvParts DEF TaskTyped
<1>2. task.result[f].stamp \in Nat /\ task.result[f].stamp <= clock
      /\ task.result[f].meta \in BOOLEAN
  BY <1>1
<1>3. (task.result[f].stamp # 0) \in BOOLEAN
  OBVIOUS
<1> QED BY <1>1, <1>2, <1>3 DEF Resolving, Entry

LEMMA Joined ==
    ASSUME NEW S, NEW a \in Seq(S), NEW b \in Seq(S)
    PROVE  /\ a \o b \in Seq(S) /\ DOMAIN (a \o b) = 1..(Len(a) + Len(b))
           /\ \A k \in 1..Len(a) : (a \o b)[k] = a[k]
           /\ \A k \in 1..Len(b) : (a \o b)[Len(a) + k] = b[k]
<1>1. Len(a) \in Nat /\ Len(b) \in Nat
  OBVIOUS
<1>2. a \o b \in Seq(S) /\ Len(a \o b) = Len(a) + Len(b)
  OBVIOUS
<1>3. DOMAIN (a \o b) = 1..(Len(a) + Len(b))
  BY <1>2
<1>4. \A k \in 1..Len(a) : (a \o b)[k] = a[k]
  OBVIOUS
<1>5. \A k \in 1..Len(b) : (a \o b)[Len(a) + k] = b[k]
  BY <1>1
<1> QED BY <1>2, <1>3, <1>4, <1>5

\* The rows after an update: those that were spared, and one for each new parser.
LEMMA RowsApplied ==
    ASSUME FolderInv, task.state = "succeeded", ApplyUpdates
    PROVE  /\ m_resources' \in Seq(Entry)
           /\ \A i \in DOMAIN m_resources' :
                 \/ \E r \in Keep : Spared(r) /\ m_resources'[i] = m_resources[r]
                 \/ \E s \in Started : m_resources'[i] = Resolving(s[2], s[1])
           /\ \A r \in Keep : Spared(r) => \E i \in DOMAIN m_resources' : m_resources'[i] = m_resources[r]
           /\ \A s \in Started : \E i \in DOMAIN m_resources' : m_resources'[i] = Resolving(s[2], s[1])
           /\ \A i, j \in DOMAIN m_resources' : m_resources'[i].file = m_resources'[j].file => i = j
<1> DEFINE N == m_next_resolution_ticket
           K == Cardinality(Keep)
           M == Len(Added)
           old == [k \in DOMAIN Staying |->
                      IF \E f \in Changed : At(f) = Staying[k]
                      THEN Resolving(CHOOSE f \in Changed : At(f) = Staying[k], N + Staying[k])
                      ELSE m_resources[Staying[k]]]
           new == [k \in DOMAIN Added |-> Resolving(Added[k], LastTicket + k)]
           FileOf(r) == m_resources[r].file
<1>1. m_resources' = old \o new
  BY DEF ApplyUpdates, Added, LastTicket
<1>2. /\ K \in Nat /\ DOMAIN Staying = 1..K
      /\ \A k \in DOMAIN Staying : Staying[k] \in Keep
      /\ \A j, k \in DOMAIN Staying : Staying[j] = Staying[k] => j = k
      /\ \A r \in Keep : \E k \in DOMAIN Staying : Staying[k] = r
  BY RowsStay DEF FolderInv
<1>3. /\ M \in Nat /\ DOMAIN Added = 1..M
      /\ \A i \in DOMAIN Added : Added[i] \in Found /\ Added[i] \notin Current
      /\ \A i, j \in DOMAIN Added : Added[i] = Added[j] => i = j
  BY InvParts, AddedOnce
<1>4. /\ \A f \in Changed : f \in Current /\ f \in Found
      /\ \A r \in DOMAIN m_resources : (\E f \in Changed : At(f) = r) <=> FileOf(r) \in Changed
      /\ \A r \in DOMAIN m_resources, f \in Changed : At(f) = r => f = FileOf(r)
  BY ChangedFiles DEF FolderInv
<1>5. \A r \in Keep : r \in DOMAIN m_resources /\ FileOf(r) \in Found /\ FileOf(r) \in Current
                      /\ At(FileOf(r)) = r /\ m_resources[r] \in Entry
  <2>1. \A r \in DOMAIN m_resources : m_resources[r] \in Entry
    BY InvParts, RowTyped
  <2>2. \A r \in DOMAIN m_resources : FileOf(r) \in Current /\ At(FileOf(r)) = r
    BY DEF FolderInv, RowsIndexed
  <2> QED BY <2>1, <2>2 DEF Keep
<1>6. LastTicket \in Nat /\ N \in Nat /\ Len(m_resources) \in Nat
      /\ DOMAIN m_resources = 1..Len(m_resources)
  BY InvParts, StartedTickets DEF FolderInv, ParsersTyped, EntriesTyped
<1>7. ASSUME NEW k \in 1..K
      PROVE  LET r == Staying[k]
             IN  /\ r \in Keep /\ N + r \in Nat
                 /\ old[k] = IF FileOf(r) \in Changed THEN Resolving(FileOf(r), N + r)
                             ELSE m_resources[r]
                 /\ old[k] \in Entry /\ old[k].file = FileOf(r)
  <2> DEFINE r == Staying[k]
             cf == CHOOSE f \in Changed : At(f) = r
  <2>1. r \in Keep /\ r \in DOMAIN m_resources /\ r \in Nat
    BY <1>2, <1>5, <1>6
  <2>2. old[k] = IF \E f \in Changed : At(f) = r THEN Resolving(cf, N + r) ELSE m_resources[r]
    BY <1>2
  <2>3. N + r \in Nat
    BY <1>6, <2>1
  <2>4. CASE FileOf(r) \in Changed
    <3>1. \E f \in Changed : At(f) = r
      BY <1>4, <2>1, <2>4
    <3>2. cf \in Changed /\ At(cf) = r
      BY <3>1
    <3>3. cf = FileOf(r)
      <4> HIDE DEF cf, r
      <4> QED BY <1>4, <2>1, <3>2
    <3>4. old[k] = Resolving(FileOf(r), N + r)
      BY <2>2, <3>1, <3>3
    <3> HIDE DEF old, r, cf
    <3>5. Resolving(FileOf(r), N + r) \in Entry /\ Resolving(FileOf(r), N + r).file = FileOf(r)
      BY <1>4, <2>3, <2>4, NewRowTyped
    <3> QED BY <2>1, <2>3, <2>4, <3>4, <3>5 DEF r
  <2>5. CASE FileOf(r) \notin Changed
    <3>1. ~ \E f \in Changed : At(f) = r
      BY <1>4, <2>1, <2>5
    <3>2. old[k] = m_resources[r]
      BY <2>2, <3>1
    <3> HIDE DEF old, r, cf
    <3> QED BY <1>5, <2>1, <2>3, <2>5, <3>2 DEF r
  <2> QED BY <2>4, <2>5
<1>8. ASSUME NEW k \in 1..M
      PROVE  /\ LastTicket + k \in Nat /\ new[k] = Resolving(Added[k], LastTicket + k)
             /\ new[k] \in Entry /\ new[k].file = Added[k]
  <2>1. LastTicket + k \in Nat /\ Added[k] \in Found
    BY <1>3, <1>6
  <2>2. new[k] = Resolving(Added[k], LastTicket + k)
    BY <1>3
  <2> HIDE DEF new
  <2> QED BY <2>1, <2>2, NewRowTyped
<1>9. DOMAIN old = 1..K /\ DOMAIN new = 1..M
  BY <1>2, <1>3
<1>10. /\ old \in Seq(Entry) /\ Len(old) = K
       /\ new \in Seq(Entry) /\ Len(new) = M
  <2>1. old = [k \in 1..K |-> old[k]] /\ new = [k \in 1..M |-> new[k]]
    BY <1>2, <1>3
  <2> HIDE DEF old, new, K, M
  <2>2. \A k \in 1..K : old[k] \in Entry
    BY <1>7
  <2>3. \A k \in 1..M : new[k] \in Entry
    BY <1>8
  <2>4. old \in [1..K -> Entry] /\ new \in [1..M -> Entry]
    BY <2>1, <2>2, <2>3
  <2> QED BY <1>2, <1>3, <1>9, <2>4
<1> HIDE DEF old, new, K, M
<1>11. /\ m_resources' \in Seq(Entry) /\ DOMAIN m_resources' = 1..(K + M)
       /\ \A k \in 1..K : k \in DOMAIN m_resources' /\ m_resources'[k] = old[k]
       /\ \A k \in 1..M : K + k \in DOMAIN m_resources' /\ m_resources'[K + k] = new[k]
  <2>1. /\ m_resources' \in Seq(Entry) /\ DOMAIN m_resources' = 1..(K + M)
        /\ \A k \in 1..K : m_resources'[k] = old[k]
        /\ \A k \in 1..M : m_resources'[K + k] = new[k]
    BY <1>1, <1>10, Joined
  <2>2. 1..K \subseteq 1..(K + M) /\ \A k \in 1..M : K + k \in 1..(K + M)
    BY <1>2, <1>3
  <2> QED BY <2>1, <2>2
<1>12. ASSUME NEW i \in DOMAIN m_resources'
       PROVE  i \in 1..K \/ (i - K \in 1..M /\ i = K + (i - K) /\ m_resources'[i] = new[i - K])
  <2>1. i \in 1..K \/ (i - K \in 1..M /\ i = K + (i - K))
    BY <1>2, <1>3, <1>11
  <2> QED BY <1>11, <2>1
<1>13. ASSUME NEW k \in 1..K
       PROVE  \/ \E r \in Keep : Spared(r) /\ m_resources'[k] = m_resources[r]
              \/ \E s \in Started : m_resources'[k] = Resolving(s[2], s[1])
  <2> DEFINE r == Staying[k]
  <2>1. /\ r \in Keep /\ m_resources'[k] = old[k]
        /\ old[k] = IF FileOf(r) \in Changed THEN Resolving(FileOf(r), N + r) ELSE m_resources[r]
    BY <1>7, <1>11
  <2> HIDE DEF r
  <2>2. CASE FileOf(r) \in Changed
    <3>1. <<N + At(FileOf(r)), FileOf(r)>> \in Started /\ At(FileOf(r)) = r
      BY <1>5, <2>1, <2>2 DEF Started
    <3> DEFINE s == <<N + r, FileOf(r)>>
    <3>2. s \in Started /\ s[1] = N + r /\ s[2] = FileOf(r)
      BY <3>1
    <3> HIDE DEF s
    <3> QED BY <2>1, <2>2, <3>2
  <2>3. CASE FileOf(r) \notin Changed
    BY <2>1, <2>3 DEF Spared
  <2> QED BY <2>2, <2>3
<1>14. ASSUME NEW k \in 1..M
       PROVE  \E s \in Started : new[k] = Resolving(s[2], s[1])
  <2> DEFINE s == <<LastTicket + k, Added[k]>>
  <2>1. s \in Started /\ s[1] = LastTicket + k /\ s[2] = Added[k]
    BY <1>3 DEF Started
  <2> HIDE DEF s
  <2> QED BY <1>8, <2>1
<1>15. \A i \in DOMAIN m_resources' :
          \/ \E r \in Keep : Spared(r) /\ m_resources'[i] = m_resources[r]
          \/ \E s \in Started : m_resources'[i] = Resolving(s[2], s[1])
  BY <1>12, <1>13, <1>14
<1>16. ASSUME NEW r \in Keep
       PROVE  \E k \in 1..K : k \in DOMAIN m_resources' /\ Staying[k] = r /\
                 m_resources'[k] = IF FileOf(r) \in Changed THEN Resolving(FileOf(r), N + r)
                                   ELSE m_resources[r]
  <2>1. PICK k \in 1..K : Staying[k] = r
    BY <1>2
  <2> QED BY <1>7, <1>11, <2>1
<1>17. \A r \in Keep : Spared(r) => \E i \in DOMAIN m_resources' : m_resources'[i] = m_resources[r]
  BY <1>16 DEF Spared
<1>18. ASSUME NEW s \in Started
       PROVE  \E i \in DOMAIN m_resources' : m_resources'[i] = Resolving(s[2], s[1])
  <2>1. CASE \E f \in Changed : s = <<N + At(f), f>>
    <3>1. PICK f \in Changed : s = <<N + At(f), f>>
      BY <2>1
    <3>2. At(f) \in Keep /\ FileOf(At(f)) = f
      <4>1. f \in Current /\ f \in Found
        BY <1>4
      <4> QED BY <4>1 DEF FolderInv, RowsIndexed, Keep
    <3>3. s[1] = N + At(f) /\ s[2] = f
      BY <3>1
    <3>4. \E k \in DOMAIN m_resources' : m_resources'[k] = Resolving(f, N + At(f))
      BY <1>16, <3>2
    <3> QED BY <3>3, <3>4
  <2>2. CASE \E k \in DOMAIN Added : s = <<LastTicket + k, Added[k]>>
    <3>1. PICK k \in DOMAIN Added : s = <<LastTicket + k, Added[k]>>
      BY <2>2
    <3>2. s[1] = LastTicket + k /\ s[2] = Added[k] /\ k \in 1..M
      BY <1>3, <3>1
    <3> QED BY <1>8, <1>11, <3>2
  <2> QED BY <2>1, <2>2 DEF Started, N
<1>19. ASSUME NEW i \in DOMAIN m_resources', NEW j \in DOMAIN m_resources',
              m_resources'[i].file = m_resources'[j].file
       PROVE  i = j
  <2>1. \A k \in 1..K : m_resources'[k].file = FileOf(Staying[k]) /\ Staying[k] \in Keep
    BY <1>7, <1>11
  <2>2. \A k \in 1..M : new[k].file = Added[k] /\ Added[k] \notin Current
    BY <1>3, <1>8
  <2>3. \A k \in 1..K : FileOf(Staying[k]) \in Current /\ At(FileOf(Staying[k])) = Staying[k]
    BY <1>5, <2>1
  <2>4. CASE i \in 1..K /\ j \in 1..K
    <3>1. Staying[i] = Staying[j]
      BY <1>19, <2>1, <2>3, <2>4
    <3> QED BY <1>2, <2>4, <3>1
  <2>5. CASE i \in 1..K /\ j \notin 1..K
    BY <1>12, <1>19, <2>1, <2>2, <2>3, <2>5
  <2>6. CASE i \notin 1..K /\ j \in 1..K
    BY <1>12, <1>19, <2>1, <2>2, <2>3, <2>6
  <2>7. CASE i \notin 1..K /\ j \notin 1..K
    <3>1. /\ i - K \in 1..M /\ i = K + (i - K) /\ m_resources'[i] = new[i - K]
          /\ j - K \in 1..M /\ j = K + (j - K) /\ m_resources'[j] = new[j - K]
      BY <1>12, <2>7
    <3>2. Added[i - K] = Added[j - K]
      BY <1>19, <2>2, <3>1
    <3>3. i - K = j - K
      BY <1>3, <3>1, <3>2
    <3> QED BY <3>1, <3>3
  <2> QED BY <2>4, <2>5, <2>6, <2>7
<1> QED BY <1>11, <1>15, <1>17, <1>18, <1>19

\* The parsers after an update: those of rows that went are aborted.
LEMMA ParsersApplied ==
    ASSUME FolderInv, task.state = "succeeded", ApplyUpdates
    PROVE  /\ DOMAIN m_active_parse_tasks' =
                  DOMAIN m_active_parse_tasks \union {s[1] : s \in Started}
           /\ \A t \in DOMAIN m_active_parse_tasks :
                 /\ m_active_parse_tasks'[t] \in Parser
                 /\ m_active_parse_tasks'[t].path = m_active_parse_tasks[t].path
                 /\ m_active_parse_tasks'[t].res = m_active_parse_tasks[t].res
                 /\ m_active_parse_tasks'[t].state = m_active_parse_tasks[t].state
                 /\ m_active_parse_tasks'[t].known = m_active_parse_tasks[t].known
                 /\ m_active_parse_tasks'[t].details = m_active_parse_tasks[t].details
                 /\ m_active_parse_tasks'[t].renamed = m_active_parse_tasks[t].renamed
                 /\ m_active_parse_tasks'[t].aborted <=> m_active_parse_tasks[t].aborted \/ Aborts(t)
                 /\ m_active_parse_tasks'[t].late <=> m_active_parse_tasks[t].late \/ ComesLate(t)
           /\ \A s \in Started : /\ s[1] \notin DOMAIN m_active_parse_tasks
                                 /\ m_active_parse_tasks'[s[1]] = ParseTask(s[2])
           /\ m_next_resolution_ticket' =
                  IF DOMAIN m_active_parse_tasks' = {} THEN m_next_resolution_ticket
                  ELSE LastTicket + Len(Added)
<1> DEFINE D == DOMAIN m_active_parse_tasks
           T == {s[1] : s \in Started}
           after(t) == IF t \in D
                       THEN [m_active_parse_tasks[t] EXCEPT !.aborted = @ \/ Aborts(t),
                                                            !.late = @ \/ ComesLate(t)]
                       ELSE ParseTask((CHOOSE s \in Started : s[1] = t)[2])
<1>1. m_active_parse_tasks' = [t \in D \union T |-> after(t)]
  BY DEF ApplyUpdates, Started, Added, LastTicket
<1>2. m_next_resolution_ticket' =
         IF DOMAIN m_active_parse_tasks' = {} THEN m_next_resolution_ticket
         ELSE LastTicket + Len(Added)
  BY DEF ApplyUpdates, Added, LastTicket
<1>3. /\ m_next_resolution_ticket \in Nat
      /\ D \subseteq 1..m_next_resolution_ticket
      /\ \A t \in D : m_active_parse_tasks[t] \in Parser
  BY DEF FolderInv, ParsersTyped
<1>4. ASSUME NEW s \in Started PROVE s[1] \notin D
  <2>1. LastTicket + Len(Added) \in Nat
    BY InvParts, StartedTickets, AddedOnce
  <2>2. s[1] \in m_next_resolution_ticket + 1 .. LastTicket + Len(Added)
    BY StartedTickets
  <2>3. s[1] \in Int /\ m_next_resolution_ticket + 1 <= s[1]
    BY <1>3, <2>1, <2>2
  <2> HIDE DEF D
  <2> QED BY <1>3, <2>3
<1>5. ASSUME NEW t \in D
      PROVE  LET p == m_active_parse_tasks[t]
                 q == m_active_parse_tasks'[t]
             IN  /\ q \in Parser /\ q.path = p.path /\ q.res = p.res /\ q.state = p.state
                 /\ q.known = p.known /\ q.details = p.details /\ q.renamed = p.renamed
                 /\ q.aborted <=> p.aborted \/ Aborts(t)
                 /\ q.late <=> p.late \/ ComesLate(t)
  <2> DEFINE p == m_active_parse_tasks[t]
             b == p.aborted \/ Aborts(t)
             c == p.late \/ ComesLate(t)
             q == [p EXCEPT !.aborted = b, !.late = c]
  <2>1. p \in Parser
    BY <1>3
  <2>2. b \in BOOLEAN /\ c \in BOOLEAN
    OBVIOUS
  <2>3. m_active_parse_tasks'[t] = q
    BY <1>1
  <2> HIDE DEF p, b, c
  <2>4. /\ q \in Parser /\ q.path = p.path /\ q.res = p.res /\ q.state = p.state
        /\ q.known = p.known /\ q.details = p.details /\ q.renamed = p.renamed
        /\ q.aborted = b /\ q.late = c
    BY <2>1, <2>2 DEF Parser
  <2> HIDE DEF q
  <2> QED BY <2>3, <2>4 DEF b, c, p
<1>6. ASSUME NEW s \in Started PROVE m_active_parse_tasks'[s[1]] = ParseTask(s[2])
  <2>1. s[1] \in T
    OBVIOUS
  <2> DEFINE c == CHOOSE x \in Started : x[1] = s[1]
  <2>2. c \in Started /\ c[1] = s[1]
    OBVIOUS
  <2>3. c = s
    <3> HIDE DEF c
    <3> QED BY <2>2, StartedTickets
  <2>4. m_active_parse_tasks'[s[1]] = ParseTask(c[2])
    BY <1>1, <1>4, <2>1
  <2> HIDE DEF c
  <2> QED BY <2>3, <2>4
<1>7. DOMAIN m_active_parse_tasks' = D \union T
  BY <1>1
<1> QED BY <1>2, <1>4, <1>5, <1>6, <1>7

\* A row is dropped unless it is spared; its parser is aborted, or comes late.
LEMMA SparedStays ==
    ASSUME FolderInv, task.state = "succeeded", NEW r \in DOMAIN m_resources
    PROVE  Dropped(r) <=> ~Spared(r)
<1>1. r \in {At(f) : f \in Changed} <=> m_resources[r].file \in Changed
  BY ChangedFiles DEF FolderInv
<1>2. r \in {Staying[k] : k \in DOMAIN Staying} <=> r \in Keep
  BY RowsStay DEF FolderInv
<1> QED BY <1>1, <1>2 DEF Dropped, Spared

LEMMA SparedGoOn ==
    ASSUME FolderInv, task.state = "succeeded", NEW r \in DOMAIN m_resources,
           NEW t \in DOMAIN m_active_parse_tasks, m_resources[r].m_resolution_ticket = t
    PROVE  /\ Aborts(t) <=> m_resources[r].m_is_resolving /\ ~Spared(r)
           /\ ComesLate(t) <=> /\ ~Spared(r)
                               /\ \/ ~m_resources[r].m_is_resolving
                                  \/ m_active_parse_tasks[t].state = "succeeded"
<1>1. RowOf(t) = {r}
  <2>1. t # 0
    BY DEF FolderInv, ParsersTyped
  <2> QED BY <2>1 DEF RowOf, FolderInv, Tickets
<1>2. Dropped(r) <=> ~Spared(r)
  BY SparedStays
<1> QED BY <1>1, <1>2 DEF Aborts, ComesLate

LEMMA UpdateSucceededKeeps ==
    ASSUME FolderInv, UpdateSucceeded PROVE FolderInv'
<1>1. task.state = "succeeded" /\ ApplyUpdates
  BY DEF UpdateSucceeded
<1>2. UNCHANGED <<diskVars, m_is_watching, m_scheduled_update>>
      /\ task' = [NoTask EXCEPT !.state = "applied"]
  BY DEF UpdateSucceeded
<1> DEFINE rows == m_resources'
           tasks == m_active_parse_tasks'
<1>4. /\ rows \in Seq(Entry)
      /\ \A i \in DOMAIN rows : \/ \E r \in Keep : Spared(r) /\ rows[i] = m_resources[r]
                                \/ \E s \in Started : rows[i] = Resolving(s[2], s[1])
      /\ \A r \in Keep : Spared(r) => \E i \in DOMAIN rows : rows[i] = m_resources[r]
      /\ \A s \in Started : \E i \in DOMAIN rows : rows[i] = Resolving(s[2], s[1])
      /\ \A i, j \in DOMAIN rows : rows[i].file = rows[j].file => i = j
  BY <1>1, RowsApplied
<1>5. /\ DOMAIN tasks = DOMAIN m_active_parse_tasks \union {s[1] : s \in Started}
      /\ \A t \in DOMAIN m_active_parse_tasks :
            /\ tasks[t] \in Parser
            /\ tasks[t].path = m_active_parse_tasks[t].path
            /\ tasks[t].res = m_active_parse_tasks[t].res
            /\ tasks[t].state = m_active_parse_tasks[t].state
            /\ tasks[t].known = m_active_parse_tasks[t].known
            /\ tasks[t].details = m_active_parse_tasks[t].details
            /\ tasks[t].renamed = m_active_parse_tasks[t].renamed
            /\ tasks[t].aborted <=> m_active_parse_tasks[t].aborted \/ Aborts(t)
            /\ tasks[t].late <=> m_active_parse_tasks[t].late \/ ComesLate(t)
      /\ \A s \in Started : /\ s[1] \notin DOMAIN m_active_parse_tasks
                            /\ tasks[s[1]] = ParseTask(s[2])
      /\ m_next_resolution_ticket' = IF DOMAIN tasks = {} THEN m_next_resolution_ticket
                                     ELSE LastTicket + Len(Added)
  BY <1>1, ParsersApplied
<1>6. m_resources_index' = Indexed(rows)
  BY <1>1 DEF ApplyUpdates
<1> HIDE DEF rows, tasks
<1>7. folder' = folder /\ index' = index /\ clock' = clock /\ noticed' = noticed
  BY <1>2 DEF diskVars
<1>8. task'.state = "applied"
      /\ task' = [state |-> task'.state, clean |-> task'.clean, meta |-> task'.meta,
                  result |-> task'.result, orphans |-> task'.orphans]
  BY <1>2 DEF NoTask
<1>9. ASSUME NEW s \in Started
      PROVE  /\ s[2] \in Found /\ s[2] \in Files /\ s[1] \in Nat
             /\ s[1] \in m_next_resolution_ticket + 1 .. LastTicket + Len(Added)
             /\ Resolving(s[2], s[1]).file = s[2]
             /\ Resolving(s[2], s[1]).stamp = task.result[s[2]].stamp
             /\ Resolving(s[2], s[1]).stamp <= clock
             /\ Resolving(s[2], s[1]).m_is_resolving
             /\ Resolving(s[2], s[1]).m_resolution_ticket = s[1]
  <2>1. s[2] \in Found /\ s[1] \in m_next_resolution_ticket + 1 .. LastTicket + Len(Added)
        /\ LastTicket \in Nat
    BY <1>1, StartedTickets
  <2>2. m_next_resolution_ticket \in Nat /\ Len(Added) \in Nat /\ Found \subseteq Files
    BY <1>1, InvParts, AddedOnce DEF FolderInv, ParsersTyped
  <2>3. s[1] \in Nat
    BY <2>1, <2>2
  <2> QED BY <1>1, <2>1, <2>2, <2>3, NewRowTyped
<1>10. ASSUME NEW r \in Keep, Spared(r)
       PROVE  /\ r \in DOMAIN m_resources /\ m_resources[r].file \in Found
              /\ m_resources[r].file \in Current /\ At(m_resources[r].file) = r
              /\ m_resources[r].stamp <= clock
              /\ m_resources[r].stamp = task.result[m_resources[r].file].stamp
  <2>1. r \in DOMAIN m_resources /\ m_resources[r].file \in Found
    BY DEF Keep
  <2>2. m_resources[r].file \in Current /\ At(m_resources[r].file) = r
    BY <2>1 DEF FolderInv, RowsIndexed
  <2>3. m_resources[r].stamp = task.result[m_resources[r].file].stamp
    BY <1>10, <2>1, <2>2, ChangedFiles DEF FolderInv, Spared
  <2> QED BY <2>1, <2>2, <2>3, InvParts, RowTyped
<1>11. RowsIndexed'
  <2>1. m_resources_index' =
           [f \in {rows[r].file : r \in DOMAIN rows} |->
               CHOOSE r \in DOMAIN rows : /\ rows[r].file = f
                                          /\ \A s \in DOMAIN rows : rows[s].file = f => s <= r]
    BY <1>6 DEF Indexed
  <2>2. Current' = {rows[r].file : r \in DOMAIN rows}
    BY <2>1 DEF Current
  <2>3. ASSUME NEW r \in DOMAIN rows PROVE m_resources_index'[rows[r].file] = r
    <3> DEFINE best(x) == /\ rows[x].file = rows[r].file
                          /\ \A s \in DOMAIN rows : rows[s].file = rows[r].file => s <= x
    <3>1. r \in Nat
      BY <1>4
    <3>2. best(r)
      <4>1. \A s \in DOMAIN rows : rows[s].file = rows[r].file => s = r
        BY <1>4
      <4>2. r <= r
        BY <3>1
      <4> QED BY <4>1, <4>2
    <3>3. \A x \in DOMAIN rows : best(x) => x = r
      BY <1>4
    <3>4. m_resources_index'[rows[r].file] = CHOOSE x \in DOMAIN rows : best(x)
      BY <2>1
    <3> HIDE DEF best
    <3> QED BY <3>2, <3>3, <3>4
  <2> QED BY <2>2, <2>3 DEF RowsIndexed, At, rows
<1>12. Current' = Found
  <2>1. Current' = {rows[r].file : r \in DOMAIN rows}
    BY <1>6 DEF Current, Indexed
  <2>2. ASSUME NEW i \in DOMAIN rows PROVE rows[i].file \in Found
    BY <1>4, <1>9, <1>10
  <2>3. ASSUME NEW f \in Found PROVE \E i \in DOMAIN rows : rows[i].file = f
    <3>1. CASE f \notin Current
      <4>1. PICK k \in DOMAIN Added : Added[k] = f
        BY <1>1, <2>3, <3>1, InvParts, AddedOnce
      <4> DEFINE s == <<LastTicket + k, Added[k]>>
      <4>2. s \in Started /\ s[2] = f
        BY <4>1 DEF Started
      <4> HIDE DEF s
      <4> QED BY <1>4, <1>9, <4>2
    <3>2. CASE f \in Current
      <4>1. At(f) \in DOMAIN m_resources /\ m_resources[At(f)].file = f
        BY <3>2 DEF FolderInv, RowsIndexed
      <4>2. CASE f \in Changed
        <5> DEFINE s == <<m_next_resolution_ticket + At(f), f>>
        <5>1. s \in Started /\ s[2] = f
          BY <4>2 DEF Started
        <5> HIDE DEF s
        <5> QED BY <1>4, <1>9, <5>1
      <4>3. CASE f \notin Changed
        <5>1. At(f) \in Keep /\ Spared(At(f))
          BY <2>3, <4>1, <4>3 DEF Keep, Spared
        <5> QED BY <1>4, <4>1, <5>1
      <4> QED BY <4>2, <4>3
    <3> QED BY <3>1, <3>2
  <2> QED BY <2>1, <2>2, <2>3
<1>13. \A i \in DOMAIN rows : /\ rows[i].stamp = task.result[rows[i].file].stamp
                              /\ rows[i].stamp <= clock
  BY <1>4, <1>9, <1>10
<1>14. EntriesTyped'
  BY <1>4, <1>7, <1>13 DEF EntriesTyped, rows
<1>15. ParsersTyped'
  <2>1. /\ m_next_resolution_ticket \in Nat
        /\ DOMAIN m_active_parse_tasks \subseteq 1..m_next_resolution_ticket
    BY DEF FolderInv, ParsersTyped
  <2>2. LastTicket \in Nat /\ m_next_resolution_ticket <= LastTicket /\ Len(Added) \in Nat
    BY <1>1, InvParts, StartedTickets, AddedOnce
  <2>3. m_next_resolution_ticket' \in Nat
    BY <1>5, <2>1, <2>2
  <2>4. ASSUME NEW t \in DOMAIN tasks PROVE t \in 1..m_next_resolution_ticket'
    <3>1. m_next_resolution_ticket' = LastTicket + Len(Added)
      BY <1>5, <2>4
    <3>2. CASE t \in DOMAIN m_active_parse_tasks
      <4>1. t \in 1..m_next_resolution_ticket
        BY <2>1, <3>2
      <4> QED BY <2>1, <2>2, <3>1, <4>1
    <3>3. CASE \E s \in Started : t = s[1]
      <4>1. t \in Nat /\ t \in m_next_resolution_ticket + 1 .. LastTicket + Len(Added)
        BY <1>9, <3>3
      <4> QED BY <2>1, <2>2, <3>1, <4>1
    <3> QED BY <1>5, <3>2, <3>3
  <2>5. ASSUME NEW s \in Started PROVE tasks[s[1]] \in Parser
    <3>1. tasks[s[1]] = ParseTask(s[2]) /\ s[2] \in Files
      BY <1>5, <1>9
    <3>2. ASSUME NEW f \in Files PROVE ParseTask(f) \in Parser
      BY DEF ParseTask, Parser
    <3> QED BY <3>1, <3>2
  <2>6. \A t \in DOMAIN tasks : tasks[t] \in Parser
    BY <1>5, <2>5
  <2> QED BY <2>3, <2>4, <2>6 DEF ParsersTyped, tasks
<1>16. \A f \in Files : /\ ParseTask(f).path = f /\ ParseTask(f).res = f
                        /\ ParseTask(f).state = "started" /\ ~ParseTask(f).aborted
                        /\ ~ParseTask(f).late /\ Live(ParseTask(f))
                        /\ ParseTask(f).known = (task.result[f].stamp # 0)
  BY DEF ParseTask, Live
<1>17. ASSUME NEW i \in DOMAIN rows, NEW t \in DOMAIN m_active_parse_tasks \union {0},
              rows[i].m_resolution_ticket = t
       PROVE  \E r \in Keep : Spared(r) /\ rows[i] = m_resources[r]
  <2>1. ASSUME NEW s \in Started PROVE s[1] # t
    <3>1. m_next_resolution_ticket \in Nat
      BY DEF FolderInv, ParsersTyped
    <3>2. s[1] # 0
      <4>1. LastTicket + Len(Added) \in Nat
        BY <1>1, InvParts, StartedTickets, AddedOnce
      <4> QED BY <1>9, <3>1, <4>1
    <3> QED BY <1>5, <3>2
  <2> QED BY <1>4, <1>9, <1>17, <2>1
<1>18. ASSUME NEW i \in DOMAIN rows, NEW s \in Started, rows[i].m_resolution_ticket = s[1]
       PROVE  rows[i] = Resolving(s[2], s[1])
  <2>1. CASE \E r \in Keep : Spared(r) /\ rows[i] = m_resources[r]
    <3>1. PICK r \in Keep : Spared(r) /\ rows[i] = m_resources[r]
      BY <2>1
    <3>2. s[1] \in DOMAIN m_active_parse_tasks \union {0}
      BY <1>10, <1>18, <3>1 DEF FolderInv, Tickets
    <3>3. s[1] # 0 /\ s[1] \notin DOMAIN m_active_parse_tasks
      <4>1. LastTicket + Len(Added) \in Nat /\ m_next_resolution_ticket \in Nat
        BY <1>1, InvParts, StartedTickets, AddedOnce DEF FolderInv, ParsersTyped
      <4> QED BY <1>5, <1>9, <4>1
    <3> QED BY <3>2, <3>3
  <2>2. CASE \E u \in Started : rows[i] = Resolving(u[2], u[1])
    <3>1. PICK u \in Started : rows[i] = Resolving(u[2], u[1])
      BY <2>2
    <3>2. u = s
      BY <1>1, <1>9, <1>18, <3>1, StartedTickets
    <3> QED BY <3>1, <3>2
  <2> QED BY <1>4, <2>1, <2>2
<1>19. Tickets'
  <2>1. ASSUME NEW i \in DOMAIN rows
        PROVE  rows[i].m_resolution_ticket \in DOMAIN tasks \union {0}
    <3>1. CASE \E r \in Keep : Spared(r) /\ rows[i] = m_resources[r]
      BY <1>5, <1>10, <3>1 DEF FolderInv, Tickets
    <3>2. CASE \E s \in Started : rows[i] = Resolving(s[2], s[1])
      BY <1>5, <1>9, <3>2
    <3> QED BY <1>4, <3>1, <3>2
  <2>2. ASSUME NEW i \in DOMAIN rows, NEW j \in DOMAIN rows,
               rows[i].m_resolution_ticket = rows[j].m_resolution_ticket,
               rows[i].m_resolution_ticket # 0
        PROVE  i = j
    <3> DEFINE t == rows[i].m_resolution_ticket
    <3>1. CASE t \in DOMAIN m_active_parse_tasks
      <4>1. PICK q \in Keep : Spared(q) /\ rows[i] = m_resources[q]
        BY <1>17, <3>1
      <4>2. PICK r \in Keep : Spared(r) /\ rows[j] = m_resources[r]
        BY <1>17, <2>2, <3>1
      <4>3. q = r
        BY <1>10, <2>2, <4>1, <4>2 DEF FolderInv, Tickets
      <4> QED BY <1>4, <4>1, <4>2, <4>3
    <3>2. CASE \E s \in Started : t = s[1]
      <4>1. PICK s \in Started : t = s[1]
        BY <3>2
      <4>2. rows[i] = Resolving(s[2], s[1]) /\ rows[j] = Resolving(s[2], s[1])
        BY <1>18, <2>2, <4>1
      <4> QED BY <1>4, <4>2
    <3> QED BY <1>5, <2>1, <2>2, <3>1, <3>2
  <2> QED BY <2>1, <2>2 DEF Tickets, rows, tasks
<1>20. ParsersFit'
  <2>1. ASSUME NEW t \in DOMAIN m_active_parse_tasks PROVE
          LET x == tasks[t]
          IN  /\ x.aborted /\ x.state = "succeeded" => x.late
              /\ Live(x) /\ ~x.late => \E i \in DOMAIN rows : rows[i].m_resolution_ticket = t
    <3> DEFINE p == m_active_parse_tasks[t]
               x == tasks[t]
    <3>1. /\ x.state = p.state
          /\ x.aborted <=> p.aborted \/ Aborts(t)
          /\ x.late <=> p.late \/ ComesLate(t)
      BY <1>5
    <3>2. /\ p.aborted /\ p.state = "succeeded" => p.late
          /\ Live(p) /\ ~p.late =>
                \E r \in DOMAIN m_resources : m_resources[r].m_resolution_ticket = t
      BY DEF FolderInv, ParsersFit
    <3>3. Aborts(t) /\ p.state = "succeeded" => ComesLate(t)
      BY DEF Aborts, ComesLate
    <3>4. ASSUME Live(x), ~x.late
          PROVE  \E i \in DOMAIN rows : rows[i].m_resolution_ticket = t
      <4>1. Live(p) /\ ~p.late /\ ~Aborts(t) /\ ~ComesLate(t)
        BY <3>1, <3>4 DEF Live
      <4>2. PICK r \in DOMAIN m_resources : m_resources[r].m_resolution_ticket = t
        BY <3>2, <4>1
      <4>3. Spared(r)
        BY <1>1, <4>1, <4>2, SparedGoOn
      <4> QED BY <1>4, <4>2, <4>3 DEF Spared
    <3> QED BY <3>1, <3>2, <3>3, <3>4
  <2>2. ASSUME NEW t \in DOMAIN m_active_parse_tasks, NEW i \in DOMAIN rows,
               rows[i].m_resolution_ticket = t
        PROVE  LET x == tasks[t]
               IN  ~x.late /\ (Live(x) => Fits(folder, x, rows[i]))
    <3> DEFINE p == m_active_parse_tasks[t]
               x == tasks[t]
    <3>1. PICK r \in Keep : Spared(r) /\ rows[i] = m_resources[r]
      BY <1>17, <2>2
    <3>2. r \in DOMAIN m_resources /\ m_resources[r].m_resolution_ticket = t
      BY <1>10, <2>2, <3>1
    <3>3. ~p.late /\ (Live(p) => Fits(folder, p, m_resources[r]))
      BY <3>2 DEF FolderInv, ParsersFit
    <3>4. ~Aborts(t) /\ ~ComesLate(t)
      BY <1>1, <3>1, <3>2, SparedGoOn
    <3>5. /\ x.path = p.path /\ x.res = p.res /\ x.state = p.state /\ x.known = p.known
          /\ x.details = p.details /\ x.renamed = p.renamed
          /\ x.aborted <=> p.aborted \/ Aborts(t)
          /\ x.late <=> p.late \/ ComesLate(t)
      BY <1>5
    <3>6. ~x.late /\ (Live(x) => Fits(folder, x, rows[i]))
      <4> HIDE DEF p, x
      <4> QED BY <3>1, <3>3, <3>4, <3>5 DEF Live, Fits, Reads
    <3> QED BY <3>6
  <2>3. ASSUME NEW s \in Started
        PROVE  LET x == tasks[s[1]]
               IN  /\ ~x.aborted /\ ~x.late
                   /\ \E i \in DOMAIN rows : rows[i].m_resolution_ticket = s[1]
                   /\ \A i \in DOMAIN rows : rows[i].m_resolution_ticket = s[1] =>
                         Fits(folder, x, rows[i])
    <3>1. tasks[s[1]] = ParseTask(s[2]) /\ s[2] \in Files
      BY <1>5, <1>9
    <3>2. \E i \in DOMAIN rows : rows[i].m_resolution_ticket = s[1]
      BY <1>4, <1>9
    <3>3. Fits(folder, ParseTask(s[2]), Resolving(s[2], s[1]))
      BY <1>9, <1>16, <3>1 DEF Fits
    <3> QED BY <1>16, <1>18, <3>1, <3>2, <3>3
  <2> QED BY <1>5, <1>7, <2>1, <2>2, <2>3 DEF ParsersFit, Live, Fits, Reads, tasks, rows
<1>21. EntriesFit'
  <2>1. ASSUME NEW i \in DOMAIN rows PROVE RowFits(folder, tasks, rows[i])
    <3>1. CASE \E r \in Keep : Spared(r) /\ rows[i] = m_resources[r]
      <4>1. PICK r \in Keep : Spared(r) /\ rows[i] = m_resources[r]
        BY <3>1
      <4> DEFINE t == m_resources[r].m_resolution_ticket
      <4>2. r \in DOMAIN m_resources
        BY <1>10, <4>1
      <4>3. RowFits(folder, m_active_parse_tasks, m_resources[r])
        BY <4>2 DEF FolderInv, EntriesFit
      <4>4. ASSUME m_resources[r].m_is_resolving PROVE t \in DOMAIN tasks /\ Live(tasks[t])
        <5>1. t \in DOMAIN m_active_parse_tasks /\ Live(m_active_parse_tasks[t])
          BY <4>3, <4>4 DEF RowFits
        <5>2. ~Aborts(t)
          BY <1>1, <4>1, <4>2, <5>1, SparedGoOn
        <5> HIDE DEF t
        <5> QED BY <1>5, <5>1, <5>2 DEF Live
      <4> QED BY <4>1, <4>3, <4>4 DEF RowFits
    <3>2. CASE \E s \in Started : rows[i] = Resolving(s[2], s[1])
      <4>1. PICK s \in Started : rows[i] = Resolving(s[2], s[1])
        BY <3>2
      <4>2. rows[i].m_is_resolving /\ rows[i].m_resolution_ticket = s[1] /\ s[2] \in Files
        BY <1>9, <4>1
      <4>3. s[1] \in DOMAIN tasks /\ tasks[s[1]] = ParseTask(s[2])
        BY <1>5
      <4> QED BY <1>16, <4>2, <4>3 DEF RowFits
    <3> QED BY <1>4, <3>1, <3>2
  <2> QED BY <1>7, <2>1 DEF EntriesFit, RowFits, Live, Reads, rows, tasks
<1>22. FolderTyped'
  BY <1>7 DEF FolderInv, FolderTyped
<1>23. TaskTyped' /\ Scheduling'
  BY <1>8 DEF TaskTyped, Scheduling
<1>24. UpToDate'
  <2>1. FilesShown' = FilesShown
    BY <1>7 DEF FilesShown, There, Shadowed
  <2>2. m_is_watching /\ ~noticed /\ ~m_scheduled_update =>
           Found = FilesShown /\ \A f \in Found : task.result[f].stamp = folder[f]
    BY <1>1, InvParts DEF UpToDate
  <2>3. \A i \in DOMAIN rows : rows[i].file \in Found
    BY <1>4, <1>9, <1>10
  <2> QED BY <1>2, <1>7, <1>8, <1>12, <1>13, <2>1, <2>2, <2>3 DEF UpToDate, rows
<1> QED BY <1>11, <1>14, <1>15, <1>19, <1>20, <1>21, <1>22, <1>23, <1>24 DEF FolderInv

-----------------------------------------------------------------------------
(* The theorem.                                                              *)

LEMMA FolderInitHolds == FolderInit => FolderInv
<1> SUFFICES ASSUME FolderInit PROVE FolderInv
  OBVIOUS
<1>1. FolderTyped
  BY DEF FolderInit, FolderTyped
<1>2. EntriesTyped /\ ParsersTyped
  BY DEF FolderInit, EntriesTyped, ParsersTyped
<1>3. TaskTyped /\ Scheduling
  BY DEF FolderInit, TaskTyped, Scheduling, NoTask
<1>4. RowsIndexed /\ Tickets /\ ParsersFit /\ EntriesFit
  BY DEF FolderInit, RowsIndexed, Tickets, ParsersFit, EntriesFit, Current
<1>5. UpToDate
  BY DEF FolderInit, UpToDate
<1> QED BY <1>1, <1>2, <1>3, <1>4, <1>5 DEF FolderInv

\* Nothing changes: all that the invariant says is about the same state.
LEMMA NothingChanges == ASSUME FolderInv, UNCHANGED folderVars PROVE FolderInv'
<1>1. UNCHANGED <<folder, index, clock, noticed, m_resources, m_resources_index, m_is_watching,
                  task, m_scheduled_update, m_active_parse_tasks, m_next_resolution_ticket>>
  BY DEF folderVars, diskVars, listVars, updateVars, parseVars
<1>2. DiskMoves
  BY <1>1, InvParts, DiskStays
<1>3. SameRows /\ m_resources' \in Seq(Entry)
  BY <1>1, InvParts, RowsAreSame
<1>4. TaskTyped' /\ Scheduling'
  BY <1>1, <1>2, InvParts, TaskStays DEF Scheduling, DiskMoves
<1>5. UpToDate'
  BY <1>1, InvParts DEF UpToDate, IndexNow, FilesShown, Found, Current, There, Shadowed
<1> QED BY <1>1, <1>2, <1>3, <1>4, <1>5, InvParts, ChangeKeeps DEF parseVars

LEMMA FolderStepKeeps ==
    ASSUME FolderInv, [FolderNext]_folderVars, ~misfiled' PROVE FolderInv'
<1>1. CASE User
  <2>1. CASE Open
    BY <2>1, OpenKeeps
  <2>2. CASE Close
    BY <2>2, CloseKeeps
  <2>3. CASE Scan
    BY <2>3, ScanKeeps
  <2>4. CASE \E r \in DOMAIN m_resources : Toggle(r) \/ DeleteMod(r)
    BY <2>4, ToggleKeeps, DeleteModKeeps
  <2>5. CASE \E m \in Mods : Install(m) \/ Download(m)
    BY <2>5, InstallKeeps, DownloadKeeps
  <2> QED BY <1>1, <2>1, <2>2, <2>3, <2>4, <2>5 DEF User
<1>2. CASE Pool
  <2>1. CASE ReadIndex \/ ReadFolder \/ CleanOrphans
    BY <2>1, ReadIndexKeeps, ReadFolderKeeps, CleanOrphansKeeps
  <2>2. CASE \E t \in DOMAIN m_active_parse_tasks : Parse(t)
    BY <2>2, ParseKeeps
  <2> QED BY <1>2, <2>1, <2>2 DEF Pool
<1>3. CASE Events
  <2>1. CASE UpdateSucceeded
    BY <2>1, UpdateSucceededKeeps
  <2>2. CASE UpdateFinished \/ DirectoryChanged \/ DownloadEnds
    BY <2>2, UpdateFinishedKeeps, DirectoryChangedKeeps, DownloadEndsKeeps
  <2>3. CASE \E t \in DOMAIN m_active_parse_tasks : ParseSucceeded(t) \/ ParseFinished(t)
    BY <2>3, ParseSucceededKeeps, ParseFinishedKeeps
  <2> QED BY <1>3, <2>1, <2>2, <2>3 DEF Events
<1>4. CASE \E f \in Files : Foreign(f)
  BY <1>4, ForeignKeeps
<1>5. CASE UNCHANGED folderVars
  BY <1>5, NothingChanges
<1> QED BY <1>1, <1>2, <1>3, <1>4, <1>5 DEF FolderNext

\* What is misfiled stays so.
LEMMA MisfiledStays == ASSUME misfiled, [FolderNext]_folderVars PROVE misfiled'
<1>1. CASE User
  BY <1>1 DEF User, Open, Close, Scan, Toggle, DeleteMod, Install, Download, listVars
<1>2. CASE Pool
  BY <1>2 DEF Pool, ReadIndex, ReadFolder, CleanOrphans, Parse, listVars
<1>3. CASE Events
  <2>1. CASE UpdateSucceeded
    BY <2>1 DEF UpdateSucceeded, ApplyUpdates
  <2>2. CASE UpdateFinished \/ DirectoryChanged \/ DownloadEnds
    BY <2>2 DEF UpdateFinished, DirectoryChanged, DownloadEnds, listVars
  <2>3. CASE \E t \in DOMAIN m_active_parse_tasks : ParseSucceeded(t) \/ ParseFinished(t)
    BY <2>3 DEF ParseSucceeded, ParseFinished
  <2> QED BY <1>3, <2>1, <2>2, <2>3 DEF Events
<1>4. CASE \E f \in Files : Foreign(f)
  BY <1>4 DEF Foreign, listVars
<1>5. CASE UNCHANGED folderVars
  BY <1>5 DEF folderVars, listVars
<1> QED BY <1>1, <1>2, <1>3, <1>4, <1>5 DEF FolderNext

LEMMA ShownFollows == misfiled \/ FolderInv => FolderShown
<1> SUFFICES ASSUME FolderInv, m_is_watching, Settled PROVE RowsFollow
  BY DEF FolderShown
<1>1. /\ Current = FilesShown
      /\ \A r \in DOMAIN m_resources :
            LET row == m_resources[r]
            IN  /\ row.stamp = folder[row.file] /\ ~row.m_is_resolving
                /\ row.stamp # 0 => row.doubtful \/ row.details = row.stamp
  BY SettledShown
<1>2. /\ \A r \in DOMAIN m_resources : /\ m_resources[r].file \in Current
                                       /\ m_resources_index[m_resources[r].file] = r
      /\ \A f \in Current : m_resources_index[f] \in DOMAIN m_resources
                            /\ m_resources[m_resources_index[f]].file = f
  BY DEF FolderInv, RowsIndexed, At
<1>3. ASSUME NEW f \in Files, There(f), ~Shadowed(f)
      PROVE  \E r \in DOMAIN m_resources : m_resources[r].file = f
  BY <1>1, <1>2, <1>3 DEF FilesShown
<1>4. ASSUME NEW r \in DOMAIN m_resources
      PROVE  LET f == m_resources[r].file
             IN  /\ There(f) \/ (f[2] /\ f[1] \in index)
                 /\ f \in Current /\ m_resources_index[f] = r
                 /\ m_resources[r].stamp = folder[f]
                 /\ There(f) => m_resources[r].doubtful \/ m_resources[r].details = folder[f]
  <2>1. m_resources[r].file \in FilesShown
    BY <1>1, <1>2
  <2>2. There(m_resources[r].file) \/ (m_resources[r].file[2] /\ m_resources[r].file[1] \in index)
    BY <2>1 DEF FilesShown
  <2> QED BY <1>1, <1>2, <2>2 DEF There
<1>5. Current = {m_resources[r].file : r \in DOMAIN m_resources}
  BY <1>2
<1> QED BY <1>3, <1>4, <1>5 DEF RowsFollow

\* Once nothing is under way the open page shows the folder, whatever changed while updates and
\* parsers ran (ResourceFolderModel::update(), applyUpdates(), onParseSucceeded()), with what the
\* code lets happen left out: the details of a row that was toggled while it was parsed, or after
\* its file had changed unseen, or that the parser of a dropped resource ended for; and everything
\* once such an end met a name without a row, or a file got the name of another row.
THEOREM FolderStaysShown == FolderSpec => []FolderShown
<1>1. FolderInit => misfiled \/ FolderInv
  BY FolderInitHolds
<1>2. (misfiled \/ FolderInv) /\ [FolderNext]_folderVars => (misfiled \/ FolderInv)'
  BY FolderStepKeeps, MisfiledStays
<1> QED BY <1>1, <1>2, ShownFollows, PTL DEF FolderSpec
=============================================================================
