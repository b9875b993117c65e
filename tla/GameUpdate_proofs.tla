--------------------------- MODULE GameUpdate_proofs ---------------------------
(* Theorems about the game update and the component list for any packages,   *)
(* versions and metadata, and any number of edits and updates.               *)
EXTENDS GameUpdate, SequenceTheorems, FiniteSetTheorems, WellFoundedInduction, TLAPS

Constants == /\ UidAssumption /\ VersionAssumption /\ InfoAssumption /\ HardCodedAssumption
             /\ ServerAssumption /\ DiskAssumption /\ FirstAssumption /\ FaultAssumption
             /\ UpdatesAssumption

\* Does a row show a version file once it is loaded, and is one that is not
\* loaded, but has metadata, without a patch file?
Shown(c, kn) == VersionFile(c, kn) # 0
RowSound(c, kn, pt) == /\ c.loaded => Shown(c, kn)
                       /\ ~c.loaded /\ c.meta # 0 => pt[c.row.uid] = 0
RowsSound == disturbed \/ \A i \in Rows : RowSound(components[i], known, patches)

\* Does a row show a version file and say what it says?
Ready(c, kn) == Shown(c, kn) /\ SaysWhatItShows(c)
AllReady == disturbed \/ \A i \in Rows : Ready(components[i], known)

\* The file names no component twice.
DiskUnique == \A i, j \in DOMAIN disk : disk[i].uid = disk[j].uid => i = j

\* What is known, or in a local file, is what some server had.
OnlyServed == known \union local \subseteq {MetaIndex} \union Served

\* A row that waits for its metadata has that of its version, unless it was customized.
Pending(c) == c.meta = c.row.version \/ (c.meta = 0 /\ IsCustom(c))

\* Where the update task is: what it waits for, and what it still inserts.
Awaits(i) == <<Entity(components[i].row), i>> \in slots
WaitSound ==
    phase = "wait" /\ ~disturbed =>
        /\ \A s \in slots : s[2] # 0 => Pending(components[s[2]])
        /\ remoteOk => \A i \in Rows : Ready(components[i], known) \/ Awaits(i)
TaskSound ==
    /\ phase = "wait" <=> slots # {}
    /\ WaitSound
    /\ phase = "resolve" => AllReady
    /\ phase = "inject" => \A add \in todo : add.at \in 1..Len(components)

\* What the end of the task tells.
SignalSound ==
    /\ signal # "none" => phase = "idle" /\ m_profile = NoProfile
    /\ signal = "Succeeded" => DependenciesMet /\ AllReady

ListInv == /\ PackTypeOK /\ ListKept /\ DiskUnique /\ SlotsFitRows
           /\ OnlyServed /\ RowsSound /\ TaskSound /\ SignalSound

\* Where the update is.
JobFits == job # "none" => /\ u_state = "Running" /\ u_step = "none"
                           /\ CurrentTask = (IF job \in {"index", "assets"} THEN "assets" ELSE job)
StepFits == /\ u_step # "none" => u_state = "Running"
            /\ u_step = "collect" => m_tasks = << >> /\ current = 0 /\ ~m_abort
            /\ u_step = "next" => phase \in {"idle", "wait"} /\ signal = "none"
AbortFits == m_abort => u_mode = "Online"

\* A launch profile is taken after the list settled.
ProfileFresh ==
    /\ u_step = "collect" /\ phase # "wait" => m_profile = NoProfile
    /\ u_step = "next" /\ (\/ m_tasks = Always /\ current \in {0, 1}
                           \/ m_tasks = WithComponents /\ current = 2) => m_profile = NoProfile
NextReady == u_step = "next" /\ CurrentTask = "components" => DependenciesMet /\ AllReady

UpdateInv == TypeOK /\ AbortedStops /\ JobFits /\ StepFits /\ AbortFits /\ ProfileFresh /\ NextReady

IInv == ListInv /\ UpdateInv

-----------------------------------------------------------------------------
(* Numbers and sequences.                                                    *)

\* A set of numbers that is not empty has a least one.
LEMMA LeastNumber ==
    ASSUME NEW T, T \subseteq Nat, T # {}
    PROVE  \E least \in T : \A i \in T : least <= i
<1> DEFINE R == OpToRel(<, Nat)
<1>1. IsWellFoundedOn(R, Nat)
  BY NatLessThanWellFounded
<1>2. PICK least \in T : \A i \in T : ~ (<<i, least>> \in R)
  <2> HIDE DEF R
  <2> QED BY <1>1, WFMin
<1>3. least \in Nat /\ \A i \in T : i \in Nat /\ ~ (i < least)
  BY <1>2 DEF OpToRel
<1>4. \A i \in T : least <= i
  BY <1>3
<1> QED BY <1>2, <1>4

LEMMA MinIsThere ==
    ASSUME NEW T, T \subseteq Nat, T # {}
    PROVE  Min(T) \in T
BY LeastNumber DEF Min

\* A finite set of numbers that is not empty has a greatest one: among its bounds,
\* which there are as it is counted, there is a least one.
LEMMA BoundedHasGreatest ==
    ASSUME NEW T, T \subseteq Nat, T # {}, NEW bound \in Nat, \A x \in T : x <= bound
    PROVE  \E greatest \in T : \A x \in T : greatest >= x
<1> DEFINE Bounds == {b \in Nat : \A x \in T : x <= b}
<1>1. bound \in Bounds /\ Bounds \subseteq Nat
  OBVIOUS
<1>2. PICK b \in Bounds : \A c \in Bounds : b <= c
  <2> HIDE DEF Bounds
  <2> QED BY <1>1, LeastNumber
<1>3. CASE b \in T
  BY <1>2, <1>3
<1>4. CASE b \notin T
  <2>1. \A x \in T : x <= b /\ x # b
    BY <1>2, <1>4
  <2>2. PICK x \in T : TRUE
    OBVIOUS
  <2>3. b - 1 \in Nat /\ b \in Nat
    BY <1>2, <2>1, <2>2
  <2>4. b - 1 \in Bounds
    BY <2>1, <2>3
  <2>5. b <= b - 1
    BY <1>2, <2>4
  <2> QED BY <2>3, <2>5
<1> QED BY <1>3, <1>4

\* What holds of 0 and passes from each number to the next holds up to any bound.
LEMMA UpTo ==
    ASSUME NEW N \in Nat, NEW T, 0 \in T, \A n \in 1..N : n - 1 \in T => n \in T
    PROVE  0..N \subseteq T
<1> SUFFICES ASSUME ~ (0..N \subseteq T) PROVE FALSE
  OBVIOUS
<1> DEFINE Missed == (0..N) \ T
<1>1. Missed \subseteq Nat /\ Missed # {}
  OBVIOUS
<1>2. PICK least \in Missed : \A i \in Missed : least <= i
  <2> HIDE DEF Missed
  <2> QED BY <1>1, LeastNumber
<1>3. least \in 1..N /\ least - 1 \in 0..N /\ ~ (least <= least - 1)
  BY <1>2
<1>4. least - 1 \in T
  BY <1>2, <1>3
<1> QED BY <1>2, <1>3, <1>4

LEMMA FiniteIsBounded ==
    ASSUME NEW T, T \subseteq Nat, IsFiniteSet(T)
    PROVE  \E bound \in Nat : \A x \in T : x <= bound
<1> DEFINE N == Cardinality(T)
<1>1. N \in Nat /\ ExistsBijection(1..N, T)
  BY FS_CardinalityType
<1>2. PICK f \in [1..N -> T] : \A x \in T : \E n \in 1..N : f[n] = x
  <2> HIDE DEF N
  <2> QED BY <1>1 DEF ExistsBijection, Bijection, Surjection
<1> DEFINE Good == {n \in 0..N : \E bound \in Nat : \A k \in 1..n : f[k] <= bound}
<1> HIDE DEF N
<1>3. 0 \in Good
  BY <1>1
<1>4. ASSUME NEW n \in 1..N, n - 1 \in Good PROVE n \in Good
  <2>1. PICK bound \in Nat : \A k \in 1..(n - 1) : f[k] <= bound
    BY <1>4
  <2>2. f[n] \in Nat /\ \A k \in 1..n : f[k] \in Nat
    <3>1. \A k \in 1..n : k \in 1..N
      BY <1>1, <1>4
    <3>2. \A k \in 1..N : f[k] \in T
      BY <1>2
    <3> QED BY <1>4, <3>1, <3>2
  <2>3. bound + f[n] \in Nat
    BY <2>1, <2>2
  <2>4. \A k \in 1..n : f[k] <= bound + f[n]
    <3> SUFFICES ASSUME NEW k \in 1..n PROVE f[k] <= bound + f[n]
      OBVIOUS
    <3>0. f[k] \in Nat
      BY <2>2
    <3>1. CASE k = n
      BY <2>1, <2>2, <3>0, <3>1
    <3>2. CASE k \in 1..(n - 1)
      BY <2>1, <2>2, <3>0, <3>2
    <3> QED BY <1>1, <1>4, <3>1, <3>2
  <2> QED BY <1>1, <1>4, <2>3, <2>4
<1>5. N \in Good
  <2> HIDE DEF Good
  <2>1. 0..N \subseteq Good
    BY <1>1, <1>3, <1>4, UpTo
  <2> QED BY <1>1, <2>1
<1> QED BY <1>2, <1>5

\* The greatest of several versions is one of them.
LEMMA MaxIsThere ==
    ASSUME Constants, NEW T, T \subseteq Maybe, T # {}
    PROVE  Max(T) \in T
<1>1. Maybe \subseteq Nat /\ IsFiniteSet(Maybe)
  BY FS_AddElement DEF Constants, VersionAssumption, Maybe
<1>2. T \subseteq Nat /\ IsFiniteSet(T)
  BY <1>1, FS_Subset
<1>3. \E greatest \in T : \A x \in T : greatest >= x
  BY <1>2, FiniteIsBounded, BoundedHasGreatest
<1> QED BY <1>3 DEF Max

\* Of a set of versions that has not more than one, all are the same.
LEMMA NotTwo ==
    ASSUME Constants, NEW T, T \subseteq Maybe, ~ (Cardinality(T) > 1),
           NEW a \in T, NEW b \in T
    PROVE  a = b
<1>1. IsFiniteSet(T)
  BY FS_AddElement, FS_Subset DEF Constants, VersionAssumption, Maybe
<1>2. Cardinality(T) \in Nat
  BY <1>1, FS_CardinalityType
<1>3. {a} \in SUBSET T
  OBVIOUS
<1>4. /\ Cardinality({a}) <= Cardinality(T)
      /\ Cardinality({a}) = Cardinality(T) => {a} = T
  BY <1>1, <1>3, FS_Subset
<1>5. Cardinality({a}) = 1
  BY FS_Singleton
<1>6. Cardinality({a}) = Cardinality(T)
  BY <1>2, <1>4, <1>5
<1>7. T = {a}
  BY <1>4, <1>6
<1> QED BY <1>7

\* Two sequences one after the other.
LEMMA Joined ==
    ASSUME NEW S, NEW s \in Seq(S), NEW t \in Seq(S)
    PROVE  /\ s \o t \in Seq(S) /\ Len(s \o t) = Len(s) + Len(t)
           /\ \A i \in 1..Len(s) : (s \o t)[i] = s[i]
           /\ \A i \in 1..Len(t) : (s \o t)[Len(s) + i] = t[i]
<1>1. /\ s \o t \in Seq(S) /\ Len(s \o t) = Len(s) + Len(t)
      /\ \A i \in 1..(Len(s) + Len(t)) :
            (s \o t)[i] = IF i <= Len(s) THEN s[i] ELSE t[i - Len(s)]
  BY ConcatProperties
<1>2. Len(s) \in Nat /\ Len(t) \in Nat
  OBVIOUS
<1>3. \A i \in 1..Len(s) : i \in 1..(Len(s) + Len(t)) /\ i <= Len(s)
  BY <1>2
<1>4. \A i \in 1..Len(t) : /\ Len(s) + i \in 1..(Len(s) + Len(t))
                           /\ ~ (Len(s) + i <= Len(s)) /\ (Len(s) + i) - Len(s) = i
  BY <1>2
<1>5. ASSUME NEW i \in 1..Len(t) PROVE (s \o t)[Len(s) + i] = t[i]
  <2>1. (s \o t)[Len(s) + i] = t[(Len(s) + i) - Len(s)]
    BY <1>1, <1>4
  <2> QED BY <1>4, <2>1
<1> QED BY <1>1, <1>3, <1>5

LEMMA RemoveAtSeq ==
    ASSUME NEW S, NEW s \in Seq(S), NEW k \in 1..Len(s)
    PROVE  /\ RemoveAt(s, k) \in Seq(S) /\ Len(RemoveAt(s, k)) = Len(s) - 1
           /\ \A i \in 1..(Len(s) - 1) : RemoveAt(s, k)[i] = IF i < k THEN s[i] ELSE s[i + 1]
<1> DEFINE n == Len(s)
           front == SubSeq(s, 1, k - 1)
           back == SubSeq(s, k + 1, n)
           t == RemoveAt(s, k)
<1>1. n \in Nat /\ k \in 1..n
  OBVIOUS
<1>2. front \in Seq(S) /\ Len(front) = k - 1 /\ \A i \in 1..(k - 1) : front[i] = s[i]
  BY <1>1
<1>3. back \in Seq(S) /\ Len(back) = n - k /\ \A i \in 1..(n - k) : back[i] = s[k + i]
  BY <1>1
<1>4. t = front \o back
  BY DEF RemoveAt
<1> HIDE DEF n, front, back, t
<1>5. /\ t \in Seq(S) /\ Len(t) = n - 1
      /\ \A i \in 1..(k - 1) : t[i] = front[i]
      /\ \A i \in 1..(n - k) : t[k - 1 + i] = back[i]
  <2>1. k - 1 \in Nat /\ n - k \in Nat /\ (k - 1) + (n - k) = n - 1
    BY <1>1
  <2>2. /\ t \in Seq(S) /\ Len(t) = (k - 1) + (n - k)
        /\ \A i \in 1..(k - 1) : t[i] = front[i]
        /\ \A i \in 1..(n - k) : t[(k - 1) + i] = back[i]
    <3>0. front \in Seq(S) /\ back \in Seq(S)
      BY <1>2, <1>3, <1>4
    <3>1. /\ front \o back \in Seq(S) /\ Len(front \o back) = Len(front) + Len(back)
          /\ \A i \in 1..Len(front) : (front \o back)[i] = front[i]
          /\ \A i \in 1..Len(back) : (front \o back)[Len(front) + i] = back[i]
      BY <3>0, Joined
    <3>2. /\ t \in Seq(S) /\ Len(t) = Len(front) + Len(back)
          /\ \A i \in 1..Len(front) : t[i] = front[i]
          /\ \A i \in 1..Len(back) : t[Len(front) + i] = back[i]
      BY <3>1, <1>4
    <3> QED BY <1>2, <1>3, <1>4, <3>2
  <2> QED BY <2>1, <2>2
<1>6. ASSUME NEW i \in 1..(n - 1), i < k PROVE t[i] = s[i]
  BY <1>1, <1>2, <1>5, <1>6
<1>7. ASSUME NEW i \in 1..(n - 1), ~ (i < k) PROVE t[i] = s[i + 1]
  <2>1. i - (k - 1) \in 1..(n - k) /\ k + (i - (k - 1)) = i + 1 /\ k - 1 + (i - (k - 1)) = i
    BY <1>1, <1>7
  <2>2. t[k - 1 + (i - (k - 1))] = back[i - (k - 1)]
    BY <1>5, <2>1
  <2>3. back[i - (k - 1)] = s[k + (i - (k - 1))]
    BY <1>3, <2>1
  <2> QED BY <2>1, <2>2, <2>3
<1> QED BY <1>5, <1>6, <1>7 DEF n, t

LEMMA InsertAtSeq ==
    ASSUME NEW S, NEW s \in Seq(S), NEW e \in S, NEW k \in 1..(Len(s) + 1)
    PROVE  /\ InsertAt(s, k, e) \in Seq(S) /\ Len(InsertAt(s, k, e)) = Len(s) + 1
           /\ \A i \in 1..(k - 1) : InsertAt(s, k, e)[i] = s[i]
           /\ InsertAt(s, k, e)[k] = e
           /\ \A i \in k..Len(s) : InsertAt(s, k, e)[i + 1] = s[i]
<1> DEFINE n == Len(s)
           front == SubSeq(s, 1, k - 1)
           one == <<e>>
           mid == front \o one
           back == SubSeq(s, k, n)
           t == InsertAt(s, k, e)
<1>1. n \in Nat /\ k \in 1..(n + 1)
  OBVIOUS
<1>2. front \in Seq(S) /\ Len(front) = k - 1 /\ \A i \in 1..(k - 1) : front[i] = s[i]
  BY <1>1
<1>3. /\ back \in Seq(S) /\ Len(back) = n - k + 1
      /\ \A i \in 1..(n - k + 1) : back[i] = s[k + i - 1]
  BY <1>1
<1>4. t = mid \o back
  BY DEF InsertAt
<1>5. one \in Seq(S) /\ Len(one) = 1 /\ one[1] = e
  OBVIOUS
<1>6. mid = front \o one
  OBVIOUS
<1> HIDE DEF n, front, one, mid, back, t
<1>7. /\ mid \in Seq(S) /\ Len(mid) = k /\ mid[k] = e
      /\ \A i \in 1..(k - 1) : mid[i] = s[i]
  <2>1. k - 1 \in Nat /\ (k - 1) + 1 = k /\ 1 \in 1..1
    BY <1>1
  <2>2. /\ mid \in Seq(S) /\ Len(mid) = (k - 1) + 1
        /\ \A i \in 1..(k - 1) : mid[i] = front[i]
        /\ \A i \in 1..1 : mid[(k - 1) + i] = one[i]
    <3>0. front \in Seq(S) /\ one \in Seq(S)
      BY <1>2, <1>5, <1>6
    <3>1. /\ front \o one \in Seq(S) /\ Len(front \o one) = Len(front) + Len(one)
          /\ \A i \in 1..Len(front) : (front \o one)[i] = front[i]
          /\ \A i \in 1..Len(one) : (front \o one)[Len(front) + i] = one[i]
      BY <3>0, Joined
    <3>2. /\ mid \in Seq(S) /\ Len(mid) = Len(front) + Len(one)
          /\ \A i \in 1..Len(front) : mid[i] = front[i]
          /\ \A i \in 1..Len(one) : mid[Len(front) + i] = one[i]
      BY <3>1, <1>6
    <3> QED BY <1>2, <1>5, <1>6, <3>2
  <2>3. mid[(k - 1) + 1] = one[1]
    BY <2>1, <2>2
  <2> QED BY <1>2, <1>5, <2>1, <2>2, <2>3
<1>8. /\ t \in Seq(S) /\ Len(t) = n + 1
      /\ \A i \in 1..k : t[i] = mid[i]
      /\ \A i \in 1..(n - k + 1) : t[k + i] = back[i]
  <2>1. k \in Nat /\ n - k + 1 \in Nat /\ k + (n - k + 1) = n + 1
    BY <1>1
  <2>2. /\ t \in Seq(S) /\ Len(t) = k + (n - k + 1)
        /\ \A i \in 1..k : t[i] = mid[i]
        /\ \A i \in 1..(n - k + 1) : t[k + i] = back[i]
    <3>0. mid \in Seq(S) /\ back \in Seq(S)
      BY <1>3, <1>4, <1>7
    <3>1. /\ mid \o back \in Seq(S) /\ Len(mid \o back) = Len(mid) + Len(back)
          /\ \A i \in 1..Len(mid) : (mid \o back)[i] = mid[i]
          /\ \A i \in 1..Len(back) : (mid \o back)[Len(mid) + i] = back[i]
      BY <3>0, Joined
    <3>2. /\ t \in Seq(S) /\ Len(t) = Len(mid) + Len(back)
          /\ \A i \in 1..Len(mid) : t[i] = mid[i]
          /\ \A i \in 1..Len(back) : t[Len(mid) + i] = back[i]
      BY <3>1, <1>4
    <3> QED BY <1>3, <1>4, <1>7, <3>2
  <2> QED BY <2>1, <2>2
<1>9. t[k] = e /\ \A i \in 1..(k - 1) : t[i] = s[i]
  BY <1>1, <1>7, <1>8
<1>10. ASSUME NEW i \in k..n PROVE t[i + 1] = s[i]
  <2>1. i - k + 1 \in 1..(n - k + 1) /\ k + (i - k + 1) = i + 1 /\ k + (i - k + 1) - 1 = i
    BY <1>1, <1>10
  <2>2. t[k + (i - k + 1)] = back[i - k + 1]
    BY <1>8, <2>1
  <2>3. back[i - k + 1] = s[k + (i - k + 1) - 1]
    BY <1>3, <2>1
  <2> QED BY <2>1, <2>2, <2>3
<1> QED BY <1>8, <1>9, <1>10 DEF n, t

-----------------------------------------------------------------------------
(* One component.                                                            *)

LEMMA VersionFileTyped ==
    ASSUME NEW c \in Component, NEW kn PROVE VersionFile(c, kn) \in Maybe
BY DEF Component, VersionFile, Maybe

\* Metadata that arrives hides no version file.
LEMMA ShownMonotone ==
    ASSUME NEW c, NEW kn, NEW more, kn \subseteq more, Shown(c, kn) PROVE Shown(c, more)
BY DEF Shown, VersionFile, MetaOf

LEMMA SoundMonotone ==
    ASSUME NEW c, NEW kn, NEW more, NEW pt, kn \subseteq more, RowSound(c, kn, pt)
    PROVE  RowSound(c, more, pt)
BY ShownMonotone DEF RowSound

LEMMA ReadyMonotone ==
    ASSUME NEW c, NEW kn, NEW more, kn \subseteq more, Ready(c, kn) PROVE Ready(c, more)
BY ShownMonotone DEF Ready

\* updateCachedData() changes what is cached and nothing else.
LEMMA UpdateCachedDataKeeps ==
    ASSUME Constants, NEW c \in Component, NEW kn
    PROVE  LET d == UpdateCachedData(c, kn)
           IN  /\ d \in Component /\ d.loaded = c.loaded /\ d.file = c.file /\ d.meta = c.meta
               /\ d.row.uid = c.row.uid /\ d.row.version = c.row.version
<1> DEFINE v == VersionFile(c, kn)
           u == c.row.uid
           d == UpdateCachedData(c, kn)
<1>1. v \in Maybe /\ u \in Uids /\ c.row \in Row
  BY VersionFileTyped DEF Component, Row
<1>2. CASE v = 0
  <2>1. d = [c EXCEPT !.row.cachedRequires = {}]
    BY <1>2 DEF UpdateCachedData
  <2> QED BY <2>1, <1>1 DEF Component, Row
<1>3. CASE v # 0
  <2> DEFINE rq == Info[u][v].requires
             vo == Info[u][v].volatile
  <2>0. InfoAssumption
    BY DEF Constants
  <2>1. rq \in SUBSET Require /\ vo \in BOOLEAN
    BY <1>1, <1>3, <2>0 DEF InfoAssumption, Maybe
  <2>2. d = [c EXCEPT !.row.cachedVersion = v, !.row.cachedRequires = rq,
                      !.row.cachedVolatile = vo]
    BY <1>3 DEF UpdateCachedData
  <2> DEFINE row == [c.row EXCEPT !.cachedVersion = v, !.cachedRequires = rq,
                                  !.cachedVolatile = vo]
  <2> HIDE DEF rq, vo, v, u, d
  <2>3. row \in Row /\ row.uid = c.row.uid /\ row.version = c.row.version
    BY <2>1, <1>1 DEF Row
  <2>4. d = [c EXCEPT !.row = row]
    BY <2>2 DEF Component
  <2> HIDE DEF row
  <2> QED BY <2>3, <2>4 DEF Component, d
<1> QED BY <1>2, <1>3

\* What it caches is what the metadata says, when that is shown.
LEMMA UpdateCachedDataSays ==
    ASSUME Constants, NEW c \in Component, NEW kn, Shown(c, kn)
    PROVE  Ready(UpdateCachedData(c, kn), kn)
<1> DEFINE v == VersionFile(c, kn)
           u == c.row.uid
           rq == Info[u][v].requires
           vo == Info[u][v].volatile
           row == [c.row EXCEPT !.cachedVersion = v, !.cachedRequires = rq,
                                !.cachedVolatile = vo]
           d == UpdateCachedData(c, kn)
<1>1. v \in Maybe /\ v # 0 /\ c.row \in Row
  BY VersionFileTyped DEF Component, Shown
<1>2. d = [c EXCEPT !.row.cachedVersion = v, !.row.cachedRequires = rq,
                    !.row.cachedVolatile = vo]
  BY <1>1 DEF UpdateCachedData
<1>3. /\ d \in Component /\ d.file = c.file /\ d.meta = c.meta /\ d.row.uid = u
  BY UpdateCachedDataKeeps
<1>4. c.meta # 0 => v = c.meta
  BY <1>1 DEF VersionFile
<1>5. Shown(d, kn)
  <2> HIDE DEF d
  <2> QED BY <1>1, <1>3 DEF Shown, VersionFile, MetaOf
<1> HIDE DEF rq, vo
<1>6. d = [c EXCEPT !.row = row]
  <2> HIDE DEF v, d
  <2> QED BY <1>2 DEF Component
<1>7. /\ row.cachedVersion = v /\ row.cachedRequires = rq /\ row.cachedVolatile = vo
  <2> HIDE DEF v, u
  <2> QED BY <1>1 DEF Row
<1>8. d.row = row
  <2> HIDE DEF row, d
  <2> QED BY <1>6 DEF Component
<1>9. SaysWhatItShows(d)
  <2> HIDE DEF d, row, v
  <2> QED BY <1>3, <1>4, <1>7, <1>8 DEF SaysWhatItShows, rq, vo
<1> QED BY <1>5, <1>9 DEF Ready

\* What is known of packages is of versions that there are.
LEMMA KnownVersions ==
    ASSUME Constants, OnlyServed,
           NEW u \in Uids, NEW v \in Maybe, <<u, v>> \in known \union local
    PROVE  v \in Versions /\ v # 0
BY DEF Constants, ServerAssumption, DiskAssumption, VersionAssumption, OnlyServed

\* A component that takes its metadata again shows it, or waits for it.
LEMMA RebaseSound ==
    ASSUME Constants, OnlyServed, NEW c \in Component
    PROVE  LET d == Rebase(c)
           IN  /\ d \in Component /\ d.row = c.row /\ d.file = c.file
               /\ d.loaded => Shown(d, known)
               /\ ~d.loaded => ~c.loaded \/ d.meta = 0
<1>1. c.row.uid \in Uids /\ c.row.version \in Maybe /\ 0 \in Maybe
  BY DEF Component, Row, Maybe
<1>2. CASE Entity(c.row) \in known
  <2>1. Rebase(c) = [c EXCEPT !.meta = c.row.version]
    BY <1>2 DEF Rebase
  <2>2. c.row.version # 0
    BY <1>1, <1>2, KnownVersions DEF Entity
  <2> QED BY <1>1, <1>2, <2>1, <2>2 DEF Component, Shown, VersionFile, MetaOf, Entity
<1>3. CASE Entity(c.row) \notin known
  <2>1. Rebase(c) = [c EXCEPT !.meta = 0, !.loaded = FALSE]
    BY <1>3 DEF Rebase
  <2> QED BY <1>1, <2>1 DEF Component
<1> QED BY <1>2, <1>3

\* setVersion(): a sound row stays sound.
LEMMA SetVersionSound ==
    ASSUME Constants, OnlyServed,
           NEW c \in Component, NEW v \in Maybe, NEW pt
    PROVE  LET d == SetVersion(c, v)
           IN  /\ d \in Component /\ d.row.uid = c.row.uid
               /\ RowSound(c, known, pt) => RowSound(d, known, pt)
<1> DEFINE named == [c EXCEPT !.row.version = v]
           cached == [named EXCEPT !.row.cachedVersion = v]
<1>1. /\ named \in Component /\ named.row.uid = c.row.uid /\ named.loaded = c.loaded
      /\ named.file = c.file /\ named.meta = c.meta
  <2> DEFINE row == [c.row EXCEPT !.version = v]
  <2>1. c.row \in Row
    BY DEF Component
  <2>2. row \in Row /\ row.uid = c.row.uid
    BY <2>1 DEF Row
  <2>3. named = [c EXCEPT !.row = row]
    BY DEF Component
  <2> HIDE DEF row, named
  <2> QED BY <2>2, <2>3 DEF Component
<1> HIDE DEF named
<1>2. CASE v = c.row.version
  BY <1>2 DEF SetVersion
<1>3. CASE v # c.row.version /\ c.loaded /\ ~IsCustom(c)
  <2>1. cached \in Component /\ cached.row.uid = c.row.uid /\ cached.loaded
    <3> DEFINE row == [named.row EXCEPT !.cachedVersion = v]
    <3>1. named.row \in Row
      BY <1>1 DEF Component
    <3>2. row \in Row /\ row.uid = named.row.uid
      BY <3>1 DEF Row
    <3>3. cached = [named EXCEPT !.row = row]
      BY <1>1 DEF Component
    <3> HIDE DEF row, cached
    <3> QED BY <1>1, <1>3, <3>2, <3>3 DEF Component
  <2>2. SetVersion(c, v) = UpdateCachedData(Rebase(cached), known)
    BY <1>3 DEF SetVersion, named
  <2> HIDE DEF cached
  <2> DEFINE b == Rebase(cached)
  <2>3. /\ b \in Component /\ b.row.uid = c.row.uid
        /\ b.loaded => Shown(b, known)
        /\ ~b.loaded => b.meta = 0
    BY <2>1, RebaseSound
  <2> HIDE DEF b
  <2> DEFINE d == UpdateCachedData(b, known)
  <2>4. /\ d \in Component /\ d.loaded = b.loaded /\ d.file = b.file /\ d.meta = b.meta
        /\ d.row.uid = b.row.uid
    BY <2>3, UpdateCachedDataKeeps
  <2>5. SetVersion(c, v) = d
    BY <2>2 DEF b
  <2> HIDE DEF d
  <2>6. RowSound(d, known, pt)
    BY <2>3, <2>4 DEF RowSound, Shown, VersionFile, MetaOf
  <2> QED BY <2>3, <2>4, <2>5, <2>6
<1>4. CASE v # c.row.version /\ ~ (c.loaded /\ ~IsCustom(c))
  <2>1. SetVersion(c, v) = named
    BY <1>4 DEF SetVersion, named
  <2>2. RowSound(c, known, pt) => RowSound(named, known, pt)
    BY <1>1 DEF RowSound, Shown, VersionFile, MetaOf
  <2> QED BY <1>1, <2>1, <2>2
<1> QED BY <1>2, <1>3, <1>4

\* revert(), the patch file being gone: a sound row stays sound.
LEMMA RevertedSound ==
    ASSUME Constants, OnlyServed,
           NEW c \in Component, NEW pt, NEW gone,
           gone[c.row.uid] = IF IsCustom(c) THEN 0 ELSE pt[c.row.uid]
    PROVE  LET d == Reverted(c)
           IN  /\ d \in Component /\ d.row.uid = c.row.uid
               /\ RowSound(c, known, pt) => RowSound(d, known, gone)
<1>1. CASE IsCustom(c)
  <2> DEFINE bare == [c EXCEPT !.file = 0]
             d == Rebase(bare)
  <2>1. bare \in Component /\ bare.row = c.row
    BY DEF Component, Maybe
  <2> HIDE DEF bare
  <2>2. d \in Component /\ d.row = c.row /\ (d.loaded => Shown(d, known))
    BY <2>1, RebaseSound
  <2>3. Reverted(c) = d
    BY <1>1 DEF Reverted, bare
  <2> HIDE DEF d
  <2> QED BY <1>1, <2>2, <2>3 DEF RowSound
<1>2. CASE ~IsCustom(c)
  BY <1>2 DEF Reverted, RowSound
<1> QED BY <1>1, <1>2

\* A row that is read from the file means what it meant there.
LEMMA FromJsonSound ==
    ASSUME NEW r \in Row, NEW kn, NEW pt
    PROVE  LET d == FromJson(r)
           IN  /\ d \in Component /\ d.row.uid = r.uid /\ RowSound(d, kn, pt)
               /\ Meaning(r) = Meaning(d.row)
<1> DEFINE off == r.disabled /\ CanBeDisabled(r)
           row == [r EXCEPT !.cachedVolatile = FALSE, !.disabled = off]
<1>1. off \in BOOLEAN
  BY DEF Row, CanBeDisabled
<1>2. /\ row \in Row /\ row.uid = r.uid /\ row.important = r.important
      /\ row.dependencyOnly = r.dependencyOnly /\ row.disabled = off
      /\ row.version = r.version /\ row.cachedVersion = r.cachedVersion
      /\ row.cachedRequires = r.cachedRequires
  <2> HIDE DEF off
  <2> QED BY <1>1 DEF Row
<1>3. FromJson(r) = [row |-> row, loaded |-> FALSE, file |-> 0, meta |-> 0]
  BY DEF FromJson
<1>4. ~IsEnabled(r) <=> off
  BY DEF IsEnabled
<1>5. ~IsEnabled(row) <=> off
  BY <1>2 DEF IsEnabled, CanBeDisabled
<1> HIDE DEF row, off
<1>6. Meaning(r) = Meaning(row)
  BY <1>1, <1>2, <1>4, <1>5 DEF Meaning, Row
<1> QED BY <1>2, <1>3, <1>6 DEF Component, Maybe, RowSound

LEMMA NewComponentSound ==
    ASSUME NEW u \in Uids, NEW v \in Maybe, NEW dep \in BOOLEAN, NEW imp \in BOOLEAN,
           NEW kn, NEW pt
    PROVE  LET d == NewComponent(u, v, dep, imp)
           IN  d \in Component /\ d.row.uid = u /\ d.meta = 0 /\ RowSound(d, kn, pt)
BY DEF NewComponent, Component, Row, Maybe, RowSound

\* loadComponent(): a sound row that is not to be fetched shows its metadata and says
\* what it says, and one that is to be fetched has the metadata of its version.
LEMMA LoadComponentSound ==
    ASSUME Constants, OnlyServed, components \in Seq(Component), NEW i \in Rows, NEW remote,
           NEW kn, known \subseteq kn, kn \subseteq known \union local,
           patches \in [Uids -> Maybe]
    PROVE  LET c == components[i]
               d == LoadComponent(i, kn, remote)
           IN  /\ d \in Component /\ d.row.uid = c.row.uid /\ d.row.version = c.row.version
               /\ i \in Needed => d.meta = c.row.version
               /\ RowSound(c, known, patches) =>
                     /\ RowSound(d, kn, patches)
                     /\ i \notin remote /\ (i \notin Needed \/ Entity(c.row) \in kn) => Ready(d, kn)
<1> DEFINE c == components[i]
           u == c.row.uid
           based == IF c.loaded THEN c
                    ELSE IF patches[u] # 0
                    THEN [c EXCEPT !.file = patches[u], !.loaded = TRUE]
                    ELSE [c EXCEPT !.meta = c.row.version, !.loaded = i \notin Needed]
           d == LoadComponent(i, kn, remote)
<1>0. c \in Component
  BY DEF Rows
<1>1. c \in Component /\ c.row \in Row /\ u \in Uids /\ c.row.version \in Maybe
  <2> HIDE DEF c
  <2> QED BY <1>0 DEF Component, Row
<1>2. d = IF i \in remote \/ VersionFile(based, kn) = 0 THEN based
          ELSE UpdateCachedData(based, kn)
  BY DEF LoadComponent
<1> HIDE DEF d
<1>3. /\ based \in Component /\ based.row = c.row
      /\ i \in Needed => based.meta = c.row.version
      /\ RowSound(c, known, patches) =>
            /\ RowSound(based, kn, patches)
            /\ i \notin Needed \/ Entity(c.row) \in kn => Shown(based, kn)
  <2>0. patches[u] \in Maybe
    BY <1>1
  <2>1. i \in Needed <=> ~c.loaded /\ patches[u] = 0 /\ Entity(c.row) \notin known
    BY DEF Needed
  <2>2. Entity(c.row) \in kn => c.row.version # 0
    BY <1>1, KnownVersions DEF Entity
  <2>3. CASE c.loaded
    <3>1. based = c
      BY <2>3
    <3>2. RowSound(c, known, patches) => RowSound(c, kn, patches)
      BY SoundMonotone
    <3> HIDE DEF based, c
    <3> QED BY <1>1, <2>1, <2>3, <3>1, <3>2 DEF RowSound
  <2>4. CASE ~c.loaded /\ patches[u] # 0
    <3>1. based = [c EXCEPT !.file = patches[u], !.loaded = TRUE]
      BY <2>4
    <3>2. RowSound(c, known, patches) => c.meta = 0
      BY <2>4 DEF RowSound
    <3> HIDE DEF based, c
    <3>3. /\ based \in Component /\ based.row = c.row /\ based.file = patches[u]
          /\ based.meta = c.meta /\ based.loaded
      BY <1>1, <2>0, <3>1 DEF Component
    <3>4. RowSound(c, known, patches) => Shown(based, kn)
      BY <2>4, <3>2, <3>3 DEF Shown, VersionFile
    <3> QED BY <2>1, <2>4, <3>3, <3>4 DEF RowSound
  <2>5. CASE ~c.loaded /\ patches[u] = 0
    <3>1. based = [c EXCEPT !.meta = c.row.version, !.loaded = i \notin Needed]
      BY <2>5
    <3> HIDE DEF based, c
    <3>2. /\ based \in Component /\ based.row = c.row /\ based.meta = c.row.version
          /\ based.loaded = (i \notin Needed)
      BY <1>1, <3>1 DEF Component
    <3>3. Entity(c.row) \in kn => Shown(based, kn)
      BY <1>1, <2>2, <3>2 DEF Shown, VersionFile, MetaOf, Entity
    <3>4. i \notin Needed => Entity(c.row) \in kn
      BY <2>1, <2>5
    <3> QED BY <2>5, <3>2, <3>3, <3>4 DEF RowSound, u
  <2> QED BY <2>3, <2>4, <2>5
<1> DEFINE e == UpdateCachedData(based, kn)
<1> HIDE DEF based, c
<1>4. /\ e \in Component /\ e.loaded = based.loaded /\ e.file = based.file
      /\ e.meta = based.meta /\ e.row.uid = based.row.uid /\ e.row.version = based.row.version
  BY <1>3, UpdateCachedDataKeeps
<1>5. Shown(based, kn) => Ready(e, kn)
  BY <1>3, UpdateCachedDataSays
<1>6. d = IF i \in remote \/ VersionFile(based, kn) = 0 THEN based ELSE e
  BY <1>2
<1> HIDE DEF e
<1>7. VersionFile(e, kn) = VersionFile(based, kn)
  BY <1>4 DEF VersionFile, MetaOf
<1>8. CASE i \in remote \/ VersionFile(based, kn) = 0
  <2>1. d = based
    BY <1>6, <1>8
  <2> QED BY <1>3, <1>8, <2>1 DEF c, d, Shown
<1>9. CASE i \notin remote /\ VersionFile(based, kn) # 0
  <2>1. d = e
    BY <1>6, <1>9
  <2>2. RowSound(based, kn, patches) => RowSound(e, kn, patches)
    BY <1>4, <1>7 DEF RowSound, Shown
  <2>3. Ready(e, kn)
    BY <1>5, <1>9 DEF Shown
  <2> QED BY <1>3, <1>4, <2>1, <2>2, <2>3 DEF c, d
<1> QED BY <1>8, <1>9

-----------------------------------------------------------------------------
(* The list.                                                                 *)

LEMMA AskedTyped ==
    ASSUME NEW cs \in Seq(Component) PROVE Asked(cs) \subseteq Entities
<1> SUFFICES ASSUME NEW i \in DOMAIN cs PROVE MetaOf(cs[i]) \in Entities
  BY DEF Asked
<1>1. cs[i] \in Component
  OBVIOUS
<1> QED BY <1>1 DEF Component, Row, MetaOf, Entities

\* Asking for metadata only adds to what is known and under way.
LEMMA FetchKeeps ==
    ASSUME OnlyServed, known \subseteq Entities, local \subseteq Entities,
           inProgress \subseteq Entities, NEW es, es \subseteq Entities, FetchOnline(es)
    PROVE  /\ known \subseteq known' /\ inProgress \subseteq inProgress' /\ local' = local
           /\ known' \subseteq known \union local
           /\ known' \subseteq Entities /\ inProgress' \subseteq Entities
           /\ OnlyServed'
BY DEF FetchOnline, LoadedBy, StartedBy, OnlyServed

\* The index stays right when rows keep their places and uids.
LEMMA SameRows ==
    ASSUME ListConsistent, Rows' = Rows, indexed' = indexed,
           \A i \in Rows : components'[i].row.uid = components[i].row.uid
    PROVE  ListConsistent'
<1>1. UniqueRows'
  BY DEF ListConsistent, UniqueRows
<1>2. indexed' = {components'[i].row.uid : i \in Rows}
  BY DEF ListConsistent
<1> QED BY <1>1, <1>2 DEF ListConsistent

LEMMA Scheduled ==
    ASSUME ScheduleSave, loaded' = loaded, loaded \in BOOLEAN, dirty \in BOOLEAN
    PROVE  CleanMeansSaved' /\ dirty' \in BOOLEAN
BY DEF ScheduleSave, CleanMeansSaved

\* Rows that say the same need no save.
LEMMA Unscheduled ==
    ASSUME CleanMeansSaved, Persist(components') = Persist(components),
           UNCHANGED <<loaded, dirty, disk, lost>>
    PROVE  CleanMeansSaved'
<1>1. Rows' = Rows
  BY DEF Persist, Rows
<1>2. \A i \in Rows : components'[i].row = components[i].row
  <2>1. \A i \in Rows : Persist(components)[i] = components[i].row
    BY DEF Persist, Rows
  <2>2. \A i \in Rows : Persist(components')[i] = components'[i].row
    BY <1>1 DEF Persist, Rows
  <2> QED BY <2>1, <2>2
<1>3. \A i \in Rows : Meaning(components'[i].row) = Meaning(components[i].row)
  BY <1>2
<1> QED BY <1>1, <1>3 DEF CleanMeansSaved

LEMMA PersistTyped ==
    ASSUME components \in Seq(Component), UniqueRows
    PROVE  /\ Persist(components) \in Seq(Row) /\ DOMAIN Persist(components) = Rows
           /\ \A i \in Rows : Persist(components)[i] = components[i].row
           /\ \A i, j \in Rows : Persist(components)[i].uid = Persist(components)[j].uid => i = j
<1>1. \A i \in Rows : components[i].row \in Row
  <2>1. \A i \in Rows : components[i] \in Component
    BY DEF Rows
  <2> QED BY <2>1 DEF Component
<1>2. Rows = 1..Len(components) /\ Len(components) \in Nat
  BY DEF Rows
<1>3. Persist(components) = [i \in 1..Len(components) |-> components[i].row]
  BY <1>2 DEF Persist, Rows
<1> QED BY <1>1, <1>2, <1>3 DEF UniqueRows

\* A row whose patch file goes, or stays, is as sound as it was.
LEMMA SoundWithoutPatch ==
    ASSUME NEW c, NEW kn, NEW more, NEW pt, NEW gone, kn \subseteq more,
           RowSound(c, kn, pt), gone[c.row.uid] \in {0, pt[c.row.uid]}
    PROVE  RowSound(c, more, gone)
BY ShownMonotone DEF RowSound

\* One row changes, and perhaps the patch file of its uid.
LEMMA OneRowChanged ==
    ASSUME components \in Seq(Component), ListConsistent, RowsSound, disturbed => disturbed',
           patches \in [Uids -> Maybe], known \subseteq known', indexed' = indexed,
           NEW i \in Rows, NEW d \in Component, d.row.uid = components[i].row.uid,
           NEW x \in Maybe, patches' = [patches EXCEPT ![components[i].row.uid] = x],
           components' = [components EXCEPT ![i] = d],
           disturbed \/ RowSound(d, known', patches')
    PROVE  /\ components' \in Seq(Component) /\ Rows' = Rows
           /\ patches' \in [Uids -> Maybe] /\ ListConsistent' /\ RowsSound'
<1>1. /\ components' \in Seq(Component) /\ Rows' = Rows /\ components'[i] = d
      /\ \A j \in Rows \ {i} : components'[j] = components[j]
  BY DEF Rows
<1>2. \A j \in Rows : components[j] \in Component /\ components[j].row.uid \in Uids
  <2>1. \A j \in Rows : components[j] \in Component
    BY DEF Rows
  <2> QED BY <2>1 DEF Component, Row
<1>3. patches' \in [Uids -> Maybe]
  BY <1>2
<1>4. \A j \in Rows : components'[j].row.uid = components[j].row.uid
  BY <1>1
<1>5. ListConsistent'
  BY <1>1, <1>4, SameRows
<1>6. ASSUME NEW j \in Rows, j # i, ~disturbed PROVE RowSound(components'[j], known', patches')
  <2>1. components[j].row.uid # components[i].row.uid
    BY <1>6 DEF ListConsistent, UniqueRows
  <2>2. patches'[components[j].row.uid] = patches[components[j].row.uid]
    BY <1>2, <2>1
  <2>3. RowSound(components[j], known, patches)
    BY <1>6 DEF RowsSound
  <2>4. RowSound(components[j], known', patches')
    BY <2>2, <2>3, SoundWithoutPatch
  <2> QED BY <1>1, <1>6, <2>4
<1>7. RowsSound'
  BY <1>1, <1>6 DEF RowsSound
<1> QED BY <1>1, <1>3, <1>5, <1>7

\* remove(): the row goes or stays; whatever stays keeps its order, and is sound.
LEMMA RemoveRowKeeps ==
    ASSUME components \in Seq(Component), ListConsistent, CleanMeansSaved, RowsSound,
           indexed \subseteq Uids, loaded \in BOOLEAN, dirty \in BOOLEAN,
           patches \in [Uids -> Maybe], known \subseteq known', disturbed => disturbed',
           NEW k \in Rows, RemoveRow(k), UNCHANGED <<loaded, disk, lost>>
    PROVE  /\ components' \in Seq(Component) /\ indexed' \subseteq Uids /\ dirty' \in BOOLEAN
           /\ patches' \in [Uids -> Maybe]
           /\ ListConsistent' /\ CleanMeansSaved' /\ RowsSound'
           /\ \A j \in Rows' : \E i \in Rows : components'[j] = components[i]
           /\ \A i \in Rows : i # k => \E j \in Rows' : components'[j] = components[i]
<1> DEFINE u == components[k].row.uid
<1>0. u \in Uids /\ 0 \in Maybe
  <2>1. components[k] \in Component
    BY DEF Rows
  <2> QED BY <2>1 DEF Component, Row, Maybe
<1>1. ~disturbed => \A i \in Rows : RowSound(components[i], known, patches)
  BY DEF RowsSound
<1>2. ASSUME patches' = [patches EXCEPT ![u] = 0] \/ patches' = patches
      PROVE  /\ patches' \in [Uids -> Maybe]
             /\ ~disturbed => \A i \in Rows : RowSound(components[i], known', patches')
  <2>1. patches' \in [Uids -> Maybe]
    BY <1>0, <1>2
  <2>2. \A i \in Rows : components[i].row.uid \in Uids
    <3>1. \A i \in Rows : components[i] \in Component
      BY DEF Rows
    <3> QED BY <3>1 DEF Component, Row
  <2> HIDE DEF u
  <2>3. \A w \in Uids : patches'[w] \in {0, patches[w]}
    BY <1>0, <1>2
  <2> QED BY <1>1, <2>1, <2>2, <2>3, SoundWithoutPatch
<1>3. CASE /\ UNCHANGED <<components, indexed, dirty>>
           /\ patches' = [patches EXCEPT ![u] = 0] \/ patches' = patches
  <2>1. ListConsistent'
    BY <1>3, SameRows DEF Rows
  <2>2. CleanMeansSaved'
    BY <1>3, Unscheduled DEF Persist
  <2>3. RowsSound'
    BY <1>2, <1>3 DEF RowsSound, Rows
  <2> QED BY <1>2, <1>3, <2>1, <2>2, <2>3 DEF Rows
<1>4. CASE /\ components' = RemoveAt(components, k) /\ indexed' = indexed \ {u}
           /\ patches' = [patches EXCEPT ![u] = 0] /\ ScheduleSave
  <2> DEFINE n == Len(components)
             from(j) == IF j < k THEN j ELSE j + 1
  <2>1. n \in Nat /\ Rows = 1..n /\ k \in 1..n
    BY DEF Rows
  <2>2. /\ components' \in Seq(Component) /\ Len(components') = n - 1
        /\ \A j \in 1..(n - 1) :
              components'[j] = IF j < k THEN components[j] ELSE components[j + 1]
    BY <1>4, <2>1, RemoveAtSeq
  <2>3. Rows' = 1..(n - 1)
    BY <2>2 DEF Rows
  <2>4. \A j \in Rows' : from(j) \in Rows \ {k} /\ components'[j] = components[from(j)]
    BY <2>1, <2>2, <2>3
  <2>5. \A i, j \in Rows' : from(i) = from(j) => i = j
    BY <2>1, <2>3
  <2>6. ASSUME NEW i \in Rows, i # k PROVE \E j \in Rows' : from(j) = i
    <3>1. CASE i < k
      <4>1. i \in 1..(n - 1)
        BY <2>1, <3>1
      <4> QED BY <2>3, <3>1, <4>1
    <3>2. CASE i > k
      <4>1. i - 1 \in 1..(n - 1) /\ ~ (i - 1 < k) /\ (i - 1) + 1 = i
        BY <2>1, <3>2
      <4> QED BY <2>3, <4>1
    <3> QED BY <1>4, <2>1, <2>6, <3>1, <3>2
  <2> HIDE DEF from, n
  <2>7. UniqueRows'
    <3> SUFFICES ASSUME NEW i \in Rows', NEW j \in Rows',
                        components'[i].row.uid = components'[j].row.uid
                 PROVE  i = j
      BY DEF UniqueRows
    <3>1. from(i) = from(j)
      BY <2>4 DEF ListConsistent, UniqueRows
    <3> QED BY <2>5, <3>1
  <2>8. indexed' = {components'[j].row.uid : j \in Rows'}
    <3>1. indexed = {components[i].row.uid : i \in Rows}
      BY DEF ListConsistent
    <3>2. \A i \in Rows : components[i].row.uid = u <=> i = k
      BY DEF ListConsistent, UniqueRows
    <3>3. ASSUME NEW w \in indexed' PROVE w \in {components'[j].row.uid : j \in Rows'}
      <4>1. PICK i \in Rows : i # k /\ components[i].row.uid = w
        BY <1>4, <3>1, <3>3
      <4>2. PICK j \in Rows' : from(j) = i
        BY <2>6, <4>1
      <4> QED BY <2>4, <4>1, <4>2
    <3>4. ASSUME NEW j \in Rows' PROVE components'[j].row.uid \in indexed'
      BY <1>4, <2>4, <3>1, <3>2
    <3> QED BY <3>3, <3>4
  <2>9. RowsSound'
    BY <1>2, <1>4, <2>4 DEF RowsSound
  <2>10. CleanMeansSaved' /\ dirty' \in BOOLEAN
    BY <1>4, Scheduled
  <2>11. \A i \in Rows : i # k => \E j \in Rows' : components'[j] = components[i]
    BY <2>4, <2>6
  <2> QED BY <1>2, <1>4, <2>2, <2>4, <2>7, <2>8, <2>9, <2>10, <2>11 DEF ListConsistent
<1> QED BY <1>3, <1>4 DEF RemoveRow

-----------------------------------------------------------------------------
(* What the user does with the list.                                         *)

\* The task waits for nothing while it does not run.
LEMMA NothingAwaited ==
    ASSUME ListInv, phase # "wait" PROVE slots = {}
BY DEF ListInv, TaskSound

\* Rows that a waiting task finds as it left them, or customized.
Upheld(c, d, kn, more) == /\ Entity(d.row) = Entity(c.row)
                          /\ Pending(c) => Pending(d)
                          /\ Ready(c, kn) => Ready(d, more)
RowsUpheld ==
    /\ Rows \subseteq Rows'
    /\ \A i \in Rows : Upheld(components[i], components'[i], known, known')
    /\ \A i \in Rows' \ Rows : Ready(components'[i], known')

LEMMA SameUpheld ==
    ASSUME NEW c, NEW kn, NEW more, kn \subseteq more PROVE Upheld(c, c, kn, more)
BY ReadyMonotone DEF Upheld

\* The task of undisturbed rows goes on waiting.
LEMMA WaitGoesOn ==
    ASSUME ListInv, UNCHANGED <<phase, slots, remoteOk, disturbed>>,
           inProgress \subseteq inProgress', phase = "wait" => RowsUpheld
    PROVE  SlotsFitRows' /\ WaitSound'
<1>1. /\ \A s \in slots : phase = "wait" /\ s[1] \in inProgress'
      /\ \A s \in slots : \/ disturbed \/ s[2] = 0
                          \/ s[2] \in Rows /\ s[1] = Entity(components[s[2]].row)
  BY DEF ListInv, SlotsFitRows
<1>2. SlotsFitRows'
  BY <1>1 DEF SlotsFitRows, RowsUpheld, Upheld
<1>3. ASSUME phase = "wait", ~disturbed
      PROVE  /\ \A s \in slots : s[2] # 0 => Pending(components'[s[2]])
             /\ remoteOk => \A i \in Rows' : Ready(components'[i], known') \/ Awaits(i)'
  <2>1. /\ \A s \in slots : s[2] # 0 => s[2] \in Rows /\ Pending(components[s[2]])
        /\ remoteOk => \A i \in Rows : Ready(components[i], known) \/ Awaits(i)
    BY <1>1, <1>3 DEF ListInv, TaskSound, WaitSound
  <2>2. \A i \in Rows : Upheld(components[i], components'[i], known, known')
    BY <1>3 DEF RowsUpheld
  <2>3. \A i \in Rows : Awaits(i) => Awaits(i)'
    BY <2>2 DEF Upheld, Awaits
  <2>4. \A i \in Rows' : i \in Rows \/ Ready(components'[i], known')
    BY <1>3 DEF RowsUpheld
  <2> QED BY <2>1, <2>2, <2>3, <2>4 DEF Upheld
<1>4. WaitSound'
  BY <1>3 DEF WaitSound
<1> QED BY <1>2, <1>4

\* Of a disturbed task it is enough that its loads are under way.
LEMMA WaitDisturbed ==
    ASSUME ListInv, UNCHANGED <<phase, slots>>, inProgress \subseteq inProgress', disturbed'
    PROVE  SlotsFitRows' /\ WaitSound' /\ RowsSound'
BY DEF ListInv, SlotsFitRows, WaitSound, RowsSound

\* What is left to show of an operation that leaves the task alone: the list, the
\* index, the patch files, and what the task finds if it waits.
LEMMA EditKept ==
    ASSUME Constants, ListInv, MayEdit, Edited, UNCHANGED <<loaded, disk, lost, local>>,
           UNCHANGED <<phase, slots, remoteOk, netmode, checkOnly, todo, dangling>>,
           components' \in Seq(Component), indexed' \subseteq Uids,
           patches' \in [Uids -> Maybe], dirty' \in BOOLEAN,
           known' \subseteq Entities, inProgress' \subseteq Entities,
           inProgress \subseteq inProgress',
           ListConsistent', CleanMeansSaved', OnlyServed', disturbed' \in BOOLEAN,
           disturbed' \/ (RowsSound' /\ disturbed' = disturbed /\ (phase = "wait" => RowsUpheld))
    PROVE  ListInv'
<1>1. edits' \in 0..MaxEdits /\ signal = "none" /\ signal' = "none" /\ phase \in {"idle", "wait"}
  BY DEF ListInv, PackTypeOK, MayEdit, Edited, Quiet, Constants, FaultAssumption
<1>2. PackTypeOK'
  BY <1>1 DEF ListInv, PackTypeOK
<1>3. DiskUnique' /\ ListKept'
  BY DEF ListInv, DiskUnique, ListKept
<1>4. SlotsFitRows' /\ WaitSound' /\ RowsSound'
  BY WaitDisturbed, WaitGoesOn
<1>5. TaskSound' /\ SignalSound'
  BY <1>1, <1>4 DEF ListInv, TaskSound, SignalSound
<1> QED BY <1>2, <1>3, <1>4, <1>5 DEF ListInv

\* What the operations start from.
LEMMA EditStarts ==
    ASSUME ListInv, MayEdit
    PROVE  /\ components \in Seq(Component) /\ indexed \subseteq Uids /\ loaded = TRUE
           /\ dirty \in BOOLEAN /\ patches \in [Uids -> Maybe]
           /\ known \subseteq Entities /\ local \subseteq Entities /\ inProgress \subseteq Entities
           /\ ListConsistent /\ CleanMeansSaved /\ RowsSound /\ OnlyServed
           /\ phase \in {"idle", "wait"} /\ remoteOk \in BOOLEAN /\ disturbed \in BOOLEAN
           /\ netmode \in {"Online", "Offline"} /\ checkOnly \in BOOLEAN
           /\ \A i \in Rows : /\ components[i] \in Component /\ components[i].row \in Row
                              /\ components[i].row.uid \in Uids
                              /\ components[i].row.version \in Maybe
                              /\ disturbed \/ RowSound(components[i], known, patches)
<1>1. \A i \in Rows : components[i] \in Component
  BY DEF ListInv, PackTypeOK, Rows
<1>2. \A i \in Rows : /\ components[i].row \in Row /\ components[i].row.uid \in Uids
                      /\ components[i].row.version \in Maybe
  BY <1>1 DEF Component, Row
<1>3. \A i \in Rows : disturbed \/ RowSound(components[i], known, patches)
  BY DEF ListInv, RowsSound
<1>4. phase \in {"idle", "wait"} /\ loaded = TRUE
  BY DEF MayEdit, Quiet, ListInv, PackTypeOK
<1> QED BY <1>1, <1>2, <1>3, <1>4 DEF ListInv, PackTypeOK, ListKept

\* A task is disturbed by the operations that move rows or take their metadata, if they
\* do anything.
LEMMA Disturbance ==
    ASSUME ListInv, MayEdit, Disturbs, known \subseteq known'
    PROVE  /\ UNCHANGED <<slots, remoteOk, netmode, checkOnly, todo, dangling>>
           /\ disturbed' \in BOOLEAN /\ (disturbed => disturbed')
           /\ disturbed' \/ (disturbed' = disturbed /\ (phase = "wait" => RowsUpheld))
<1>1. /\ disturbed' = (disturbed \/ (phase = "wait" /\ components' # components))
      /\ UNCHANGED <<slots, remoteOk, netmode, checkOnly, todo, dangling>>
  BY DEF Disturbs, loadVars
<1>2. disturbed \in BOOLEAN
  BY EditStarts
<1>3. components' = components => RowsUpheld
  <2> SUFFICES ASSUME components' = components PROVE RowsUpheld
    OBVIOUS
  <2>1. \A i \in Rows : Upheld(components[i], components[i], known, known')
    BY SameUpheld
  <2> QED BY <2>1 DEF RowsUpheld, Rows
<1>4. CASE disturbed = TRUE
  BY <1>1, <1>2, <1>4
<1>5. CASE disturbed = FALSE
  BY <1>1, <1>3, <1>5
<1> QED BY <1>1, <1>2, <1>4, <1>5

LEMMA RemoveComponentKeeps ==
    ASSUME Constants, ListInv, NEW i \in Rows, RemoveComponent(i)
    PROVE  ListInv'
<1>1. MayEdit /\ Edited /\ RemoveRow(i) /\ FetchOnline(Asked(<<components[i]>>)) /\ Disturbs
      /\ UNCHANGED <<loaded, disk, lost, phase>>
  BY DEF RemoveComponent, fileVars
<1>2. <<components[i]>> \in Seq(Component)
  BY <1>1, EditStarts
<1>3. Asked(<<components[i]>>) \subseteq Entities
  BY <1>2, AskedTyped
<1>4. /\ known \subseteq known' /\ local' = local /\ known' \subseteq Entities
      /\ inProgress \subseteq inProgress' /\ inProgress' \subseteq Entities /\ OnlyServed'
  BY <1>1, <1>3, EditStarts, FetchKeeps
<1>5. /\ UNCHANGED <<slots, remoteOk, netmode, checkOnly, todo, dangling>>
      /\ disturbed' \in BOOLEAN /\ (disturbed => disturbed')
      /\ disturbed' \/ (disturbed' = disturbed /\ (phase = "wait" => RowsUpheld))
  BY <1>1, <1>4, Disturbance
<1>6. /\ components' \in Seq(Component) /\ indexed' \subseteq Uids /\ dirty' \in BOOLEAN
      /\ patches' \in [Uids -> Maybe] /\ ListConsistent' /\ CleanMeansSaved' /\ RowsSound'
  BY <1>1, <1>4, <1>5, EditStarts, RemoveRowKeeps
<1> QED BY <1>1, <1>4, <1>5, <1>6, EditKept

LEMMA OneUpheld ==
    ASSUME components \in Seq(Component), NEW i \in Rows, NEW d, Rows' = Rows,
           components' = [components EXCEPT ![i] = d], known \subseteq known',
           Upheld(components[i], d, known, known')
    PROVE  RowsUpheld
<1>1. components'[i] = d /\ \A j \in Rows : j # i => components'[j] = components[j]
  BY DEF Rows
<1>2. \A j \in Rows : Upheld(components[j], components[j], known, known')
  BY SameUpheld
<1> QED BY <1>1, <1>2 DEF RowsUpheld

LEMMA CustomizeKeeps ==
    ASSUME Constants, ListInv, NEW i \in Rows, Customize(i)
    PROVE  ListInv'
<1> DEFINE c == components[i]
           v == VersionFile(c, LoadedBy(Asked(<<c>>)))
           d == [c EXCEPT !.file = v, !.meta = 0]
<1>1. /\ MayEdit /\ Edited /\ v # 0
      /\ patches' = [patches EXCEPT ![c.row.uid] = v]
      /\ components' = [components EXCEPT ![i].file = v, ![i].meta = 0]
      /\ ScheduleSave /\ FetchOnline(Asked(<<c>>))
      /\ UNCHANGED <<indexed, loaded, disk, lost, phase, netmode, checkOnly,
                     slots, remoteOk, todo, dangling, disturbed>>
  BY DEF Customize, fileVars, taskVars, loadVars
<1>2. c \in Component /\ c.row.uid \in Uids /\ i \in DOMAIN components
  BY <1>1, EditStarts DEF Rows
<1>3. Asked(<<c>>) \subseteq Entities
  <2>1. <<c>> \in Seq(Component)
    BY <1>2
  <2> QED BY <2>1, AskedTyped
<1>4. /\ known \subseteq known' /\ local' = local /\ known' \subseteq Entities
      /\ inProgress \subseteq inProgress' /\ inProgress' \subseteq Entities /\ OnlyServed'
  BY <1>1, <1>3, EditStarts, FetchKeeps
<1>5. v \in Maybe
  BY <1>2, VersionFileTyped
<1>6. components' = [components EXCEPT ![i] = d]
  BY <1>1, <1>2
<1> HIDE DEF v
<1>7. d \in Component /\ d.row = c.row /\ d.file = v /\ d.meta = 0 /\ d.loaded = c.loaded
  <2> HIDE DEF c
  <2> QED BY <1>2, <1>5 DEF Component, Maybe
<1>8. RowSound(d, known', patches')
  BY <1>1, <1>7 DEF RowSound, Shown, VersionFile
<1>9. Upheld(c, d, known, known')
  <2>1. v # 0
    BY <1>1
  <2> HIDE DEF c, d
  <2>2. Entity(d.row) = Entity(c.row)
    BY <1>7
  <2>3. Pending(d)
    BY <1>7, <2>1 DEF Pending, IsCustom
  <2>4. Shown(d, known')
    BY <1>7, <2>1 DEF Shown, VersionFile
  <2>5. SaysWhatItShows(d)
    BY <1>7 DEF SaysWhatItShows
  <2> QED BY <2>2, <2>3, <2>4, <2>5 DEF Upheld, Ready
<1> HIDE DEF d
<1>10. /\ components' \in Seq(Component) /\ Rows' = Rows
       /\ patches' \in [Uids -> Maybe] /\ ListConsistent' /\ RowsSound'
  BY <1>1, <1>4, <1>5, <1>6, <1>7, <1>8, EditStarts, OneRowChanged
<1>11. CleanMeansSaved' /\ dirty' \in BOOLEAN
  BY <1>1, EditStarts, Scheduled
<1>12. RowsUpheld
  BY <1>1, <1>4, <1>6, <1>9, <1>10, EditStarts, OneUpheld
<1>13. disturbed' \in BOOLEAN
  BY <1>1, EditStarts
<1> QED BY <1>1, <1>4, <1>10, <1>11, <1>12, <1>13, EditStarts, EditKept

LEMMA RevertToBaseKeeps ==
    ASSUME Constants, ListInv, NEW i \in Rows, RevertToBase(i)
    PROVE  ListInv'
<1> DEFINE c == components[i]
           d == Reverted(c)
<1>1. /\ MayEdit /\ Edited /\ IsCustom(c)
      /\ patches' = [patches EXCEPT ![c.row.uid] = 0]
      /\ components' = [components EXCEPT ![i] = d]
      /\ ScheduleSave /\ Disturbs
      /\ UNCHANGED <<indexed, loaded, disk, lost, known, local, inProgress, phase>>
  BY DEF RevertToBase, fileVars, metaVars
<1>2. /\ c \in Component /\ c.row.uid \in Uids
      /\ disturbed \/ RowSound(c, known, patches)
      /\ OnlyServed /\ patches \in [Uids -> Maybe]
  BY <1>1, EditStarts
<1>3. /\ d \in Component /\ d.row.uid = c.row.uid
      /\ disturbed \/ RowSound(d, known, patches')
  <2>1. patches'[c.row.uid] = IF IsCustom(c) THEN 0 ELSE patches[c.row.uid]
    BY <1>1, <1>2
  <2> QED BY <1>2, <2>1, RevertedSound
<1>4. disturbed \/ RowSound(d, known', patches')
  BY <1>1, <1>3
<1> HIDE DEF d
<1>8. /\ UNCHANGED <<slots, remoteOk, netmode, checkOnly, todo, dangling>>
      /\ disturbed' \in BOOLEAN /\ (disturbed => disturbed')
      /\ disturbed' \/ (disturbed' = disturbed /\ (phase = "wait" => RowsUpheld))
  BY <1>1, Disturbance
<1>5. /\ components' \in Seq(Component) /\ Rows' = Rows
      /\ patches' \in [Uids -> Maybe] /\ ListConsistent' /\ RowsSound'
  <2>1. 0 \in Maybe
    BY DEF Maybe
  <2> QED BY <1>1, <1>3, <1>4, <1>8, <2>1, EditStarts, OneRowChanged
<1>6. CleanMeansSaved' /\ dirty' \in BOOLEAN
  BY <1>1, EditStarts, Scheduled
<1>7. OnlyServed'
  BY <1>1, <1>2 DEF OnlyServed
<1> QED BY <1>1, <1>5, <1>6, <1>7, <1>8, EditStarts, EditKept

LEMMA SetEnabledKeeps ==
    ASSUME Constants, ListInv, NEW i \in Rows, SetEnabled(i)
    PROVE  ListInv'
<1> DEFINE c == components[i]
           off == ~c.row.disabled
           row == [c.row EXCEPT !.disabled = off]
           d == [c EXCEPT !.row = row]
<1>1. /\ MayEdit /\ Edited /\ ScheduleSave
      /\ components' = [components EXCEPT ![i].row.disabled = ~@]
      /\ UNCHANGED <<indexed, loaded, disk, lost, patches, known, local, inProgress, phase,
                     netmode, checkOnly, slots, remoteOk, todo,
                     dangling, disturbed>>
  BY DEF SetEnabled, fileVars, taskVars, loadVars, metaVars
<1>2. /\ c \in Component /\ c.row \in Row /\ c.row.uid \in Uids
      /\ disturbed \/ RowSound(c, known, patches)
      /\ OnlyServed /\ patches \in [Uids -> Maybe]
      /\ i \in DOMAIN components
  BY <1>1, EditStarts DEF Rows
<1>3. components' = [components EXCEPT ![i] = d]
  BY <1>1, <1>2
<1>4. /\ row \in Row /\ row.uid = c.row.uid /\ row.version = c.row.version
      /\ row.cachedVersion = c.row.cachedVersion
      /\ row.cachedRequires = c.row.cachedRequires
      /\ row.cachedVolatile = c.row.cachedVolatile
  <2>1. off \in BOOLEAN
    OBVIOUS
  <2> HIDE DEF off, c
  <2> QED BY <1>2, <2>1 DEF Row
<1> HIDE DEF row
<1>5. d \in Component /\ d.row = row /\ d.file = c.file /\ d.meta = c.meta /\ d.loaded = c.loaded
  <2> HIDE DEF c
  <2> QED BY <1>2, <1>4 DEF Component
<1>11. Upheld(c, d, known, known')
  <2> HIDE DEF c, d
  <2> QED BY <1>1, <1>4, <1>5 DEF Upheld, Entity, Pending, IsCustom, Ready, Shown, VersionFile,
                                  MetaOf, SaysWhatItShows
<1> HIDE DEF d
<1>6. disturbed \/ RowSound(d, known', patches')
  BY <1>1, <1>2, <1>4, <1>5 DEF RowSound, Shown, VersionFile, MetaOf
<1>7. /\ patches[c.row.uid] \in Maybe
      /\ patches' = [patches EXCEPT ![c.row.uid] = patches[c.row.uid]]
  BY <1>1, <1>2
<1>8. /\ components' \in Seq(Component) /\ Rows' = Rows
      /\ patches' \in [Uids -> Maybe] /\ ListConsistent' /\ RowsSound'
  <2>1. d.row.uid = components[i].row.uid /\ known \subseteq known'
    BY <1>1, <1>4, <1>5
  <2> QED BY <1>1, <1>3, <1>5, <1>6, <1>7, <2>1, EditStarts, OneRowChanged
<1>9. CleanMeansSaved' /\ dirty' \in BOOLEAN
  BY <1>1, EditStarts, Scheduled
<1>10. OnlyServed'
  BY <1>1, <1>2 DEF OnlyServed
<1>12. RowsUpheld
  <2>1. known \subseteq known'
    BY <1>1
  <2> QED BY <1>1, <1>3, <1>8, <1>11, <2>1, EditStarts, OneUpheld
<1>13. disturbed' \in BOOLEAN /\ inProgress \subseteq inProgress'
  BY <1>1, EditStarts
<1> QED BY <1>1, <1>8, <1>9, <1>10, <1>12, <1>13, EditStarts, EditKept

LEMMA MoveKeeps ==
    ASSUME Constants, ListInv, NEW i \in Rows, NEW up \in BOOLEAN, Move(i, up)
    PROVE  ListInv'
<1> DEFINE j == IF up THEN (IF i = 1 THEN Len(components) ELSE i - 1)
                ELSE (IF i = Len(components) THEN i ELSE i + 1)
<1>1. /\ MayEdit /\ Edited /\ ScheduleSave /\ Disturbs /\ i # j
      /\ components' = [components EXCEPT ![i] = components[j], ![j] = components[i]]
      /\ UNCHANGED <<indexed, loaded, disk, lost, patches, known, local, inProgress, phase>>
  BY DEF Move, fileVars, metaVars
<1>2. components \in Seq(Component) /\ OnlyServed /\ ListConsistent
  BY <1>1, EditStarts
<1>3. j \in Rows
  <2>1. Rows = 1..Len(components) /\ Len(components) \in Nat
    BY <1>2 DEF Rows
  <2> QED BY <2>1
<1> HIDE DEF j
<1>4. /\ components' \in Seq(Component) /\ Rows' = Rows
      /\ components'[i] = components[j] /\ components'[j] = components[i]
      /\ \A k \in Rows : k # i /\ k # j => components'[k] = components[k]
  BY <1>1, <1>2, <1>3 DEF Rows
<1>5. UniqueRows'
  BY <1>2, <1>3, <1>4 DEF ListConsistent, UniqueRows
<1>6. ListConsistent'
  <2>1. indexed = {components[k].row.uid : k \in Rows}
    BY <1>2 DEF ListConsistent
  <2>2. {components[k].row.uid : k \in Rows} = {components'[k].row.uid : k \in Rows}
    BY <1>3, <1>4
  <2> QED BY <1>1, <1>4, <1>5, <2>1, <2>2 DEF ListConsistent
<1>10. /\ UNCHANGED <<slots, remoteOk, netmode, checkOnly, todo, dangling>>
       /\ disturbed' \in BOOLEAN /\ (disturbed => disturbed')
       /\ disturbed' \/ (disturbed' = disturbed /\ (phase = "wait" => RowsUpheld))
  BY <1>1, Disturbance
<1>7. RowsSound'
  <2>1. \A k \in Rows : disturbed \/ RowSound(components[k], known', patches')
    BY <1>1, EditStarts
  <2> QED BY <1>3, <1>4, <1>10, <2>1 DEF RowsSound
<1>8. CleanMeansSaved' /\ dirty' \in BOOLEAN
  BY <1>1, EditStarts, Scheduled
<1>9. OnlyServed'
  BY <1>1, <1>2 DEF OnlyServed
<1> QED BY <1>1, <1>4, <1>6, <1>7, <1>8, <1>9, <1>10, EditStarts, EditKept

\* A row of a uid that no row has yet.
LEMMA RowAppended ==
    ASSUME components \in Seq(Component), ListConsistent, RowsSound, indexed \subseteq Uids,
           patches \in [Uids -> Maybe], known \subseteq known', disturbed => disturbed',
           NEW u \in Uids, u \notin indexed, NEW x \in Maybe, NEW d \in Component, d.row.uid = u,
           RowSound(d, known', patches'), patches' = [patches EXCEPT ![u] = x],
           components' = Append(components, d), indexed' = indexed \union {u}
    PROVE  /\ components' \in Seq(Component) /\ indexed' \subseteq Uids
           /\ patches' \in [Uids -> Maybe] /\ ListConsistent' /\ RowsSound'
           /\ Rows \subseteq Rows' /\ \A i \in Rows : components'[i] = components[i]
           /\ \A i \in Rows' \ Rows : components'[i] = d
<1> DEFINE n == Len(components)
<1>1. /\ n \in Nat /\ Rows = 1..n /\ components' \in Seq(Component) /\ Rows' = 1..(n + 1)
      /\ components'[n + 1] = d /\ \A i \in 1..n : components'[i] = components[i]
  BY DEF Rows
<1>2. \A i \in Rows' : i \in Rows \/ i = n + 1
  BY <1>1
<1>3. n + 1 \notin Rows /\ n + 1 \in Rows' /\ Rows \subseteq Rows'
  BY <1>1
<1>4. \A i \in Rows : components'[i] = components[i]
  BY <1>1
<1>5. \A i \in Rows : components[i].row.uid \in Uids /\ components[i].row.uid # u
  BY DEF ListConsistent
<1> HIDE DEF n
<1>6. ListConsistent'
  <2>1. UniqueRows'
    BY <1>1, <1>2, <1>4, <1>5 DEF UniqueRows, ListConsistent
  <2>2. {components'[i].row.uid : i \in Rows'} = {components[i].row.uid : i \in Rows} \union {u}
    BY <1>1, <1>2, <1>3, <1>4
  <2> QED BY <2>1, <2>2 DEF ListConsistent
<1>7. RowsSound'
  <2>1. ASSUME NEW i \in Rows, ~disturbed PROVE RowSound(components'[i], known', patches')
    <3>1. patches'[components[i].row.uid] = patches[components[i].row.uid]
      BY <1>5
    <3>2. RowSound(components[i], known, patches)
      BY <2>1 DEF RowsSound
    <3> QED BY <1>4, <3>1, <3>2, SoundWithoutPatch
  <2> QED BY <1>1, <1>2, <2>1 DEF RowsSound
<1>8. \A i \in Rows' \ Rows : components'[i] = d
  BY <1>1, <1>2
<1> QED BY <1>1, <1>3, <1>4, <1>6, <1>7, <1>8

LEMMA InstallPatchKeeps ==
    ASSUME Constants, ListInv, NEW u \in Uids, InstallPatch(u)
    PROVE  ListInv'
<1> DEFINE new == NewComponent(u, 0, FALSE, FALSE)
           row == [new.row EXCEPT !.cachedVersion = 1]
           d == [new EXCEPT !.row = row, !.file = 1, !.loaded = TRUE]
<1>1. /\ MayEdit /\ Edited /\ ScheduleSave /\ u \notin indexed
      /\ patches' = [patches EXCEPT ![u] = 1]
      /\ components' = Append(components,
            [new EXCEPT !.row.cachedVersion = 1, !.file = 1, !.loaded = TRUE])
      /\ indexed' = indexed \union {u}
      /\ UNCHANGED <<loaded, disk, lost, known, local, inProgress, phase,
                     netmode, checkOnly, slots, remoteOk, todo,
                     dangling, disturbed>>
  BY DEF InstallPatch, fileVars, taskVars, loadVars, metaVars
<1>2. 1 \in Maybe /\ 0 \in Maybe
  BY DEF Maybe, Constants, VersionAssumption
<1>3. new \in Component /\ new.row.uid = u /\ new.meta = 0 /\ new.row \in Row
  <2>1. new \in Component /\ new.row.uid = u /\ new.meta = 0
    BY <1>2, NewComponentSound
  <2> HIDE DEF new
  <2> QED BY <2>1 DEF Component
<1> HIDE DEF new
<1>4. row \in Row /\ row.uid = u
  BY <1>2, <1>3 DEF Row
<1> HIDE DEF row
<1>5. /\ d \in Component /\ d.row.uid = u /\ d.meta = 0 /\ d.file = 1 /\ d.loaded
  BY <1>2, <1>3, <1>4 DEF Component
<1>6. [new EXCEPT !.row.cachedVersion = 1, !.file = 1, !.loaded = TRUE] = d
  BY <1>3 DEF row, Component
<1> HIDE DEF d
<1>7. RowSound(d, known', patches') /\ Ready(d, known')
  BY <1>5 DEF RowSound, Shown, VersionFile, Ready, SaysWhatItShows
<1>8. /\ components' \in Seq(Component) /\ indexed' \subseteq Uids
      /\ patches' \in [Uids -> Maybe] /\ ListConsistent' /\ RowsSound'
      /\ Rows \subseteq Rows' /\ \A i \in Rows : components'[i] = components[i]
      /\ \A i \in Rows' \ Rows : components'[i] = d
  <2>1. known \subseteq known' /\ components' = Append(components, d)
    BY <1>1, <1>6
  <2> QED BY <1>1, <1>2, <1>5, <1>7, <2>1, EditStarts, RowAppended
<1>9. CleanMeansSaved' /\ dirty' \in BOOLEAN
  BY <1>1, EditStarts, Scheduled
<1>10. OnlyServed'
  BY <1>1, EditStarts DEF OnlyServed
<1>11. RowsUpheld
  <2>1. \A i \in Rows : Upheld(components[i], components[i], known, known')
    BY <1>1, SameUpheld
  <2> QED BY <1>7, <1>8, <2>1 DEF RowsUpheld
<1>12. disturbed' \in BOOLEAN /\ inProgress \subseteq inProgress'
  BY <1>1, EditStarts
<1> QED BY <1>1, <1>8, <1>9, <1>10, <1>11, <1>12, EditStarts, EditKept

\* setComponentVersion() of a row that is there.
LEMMA ChangeVersionKeeps ==
    ASSUME Constants, ListInv, MayEdit, NEW i \in Rows, NEW v \in Maybe, NEW imp \in BOOLEAN,
           ChangeVersion(i, v, imp), UNCHANGED <<known, local, disturbed>>
    PROVE  /\ components' \in Seq(Component) /\ indexed' \subseteq Uids
           /\ patches' \in [Uids -> Maybe] /\ ListConsistent' /\ RowsSound'
<1> DEFINE c == components[i]
           r == Reverted(c)
           s == SetVersion(r, v)
           row == [s.row EXCEPT !.important = imp]
           d == [s EXCEPT !.row = row]
           x == IF IsCustom(c) THEN 0 ELSE patches[c.row.uid]
<1>1. /\ patches' = [patches EXCEPT ![s.row.uid] = IF IsCustom(c) THEN 0 ELSE @]
      /\ components' = [components EXCEPT ![i] = [s EXCEPT !.row.important = imp]]
      /\ indexed' = indexed
  BY DEF ChangeVersion
<1>2. /\ c \in Component /\ c.row.uid \in Uids
      /\ disturbed \/ RowSound(c, known, patches)
      /\ OnlyServed /\ patches \in [Uids -> Maybe]
  BY EditStarts
<1>3. x \in Maybe
  BY <1>2 DEF Maybe
<1> DEFINE gone == [patches EXCEPT ![c.row.uid] = x]
<1>4. gone[c.row.uid] = IF IsCustom(c) THEN 0 ELSE patches[c.row.uid]
  BY <1>2
<1> HIDE DEF gone
<1>5. /\ r \in Component /\ r.row.uid = c.row.uid
      /\ disturbed \/ RowSound(r, known, gone)
  BY <1>2, <1>4, RevertedSound
<1> HIDE DEF r
<1>6. /\ s \in Component /\ s.row.uid = c.row.uid
      /\ disturbed \/ RowSound(s, known, gone)
  BY <1>2, <1>5, SetVersionSound
<1> HIDE DEF s
<1>7. patches' = gone
  BY <1>1, <1>2, <1>6 DEF gone
<1>8. s.row \in Row
  BY <1>6 DEF Component
<1>9. row \in Row /\ row.uid = c.row.uid
  BY <1>6, <1>8 DEF Row
<1>10. [s EXCEPT !.row.important = imp] = d
  BY <1>6 DEF Component
<1> HIDE DEF row
<1>11. d \in Component /\ d.row = row /\ d.loaded = s.loaded /\ d.file = s.file /\ d.meta = s.meta
  BY <1>6, <1>9 DEF Component
<1> HIDE DEF d
<1>12. disturbed \/ RowSound(d, known', patches')
  BY <1>6, <1>7, <1>9, <1>11 DEF RowSound, Shown, VersionFile, MetaOf
<1>13. components' = [components EXCEPT ![i] = d] /\ d.row.uid = components[i].row.uid
       /\ known \subseteq known' /\ patches' = [patches EXCEPT ![components[i].row.uid] = x]
  BY <1>1, <1>7, <1>9, <1>10, <1>11 DEF gone
<1> HIDE DEF x
<1>14. /\ components' \in Seq(Component) /\ Rows' = Rows
       /\ patches' \in [Uids -> Maybe] /\ ListConsistent' /\ RowsSound'
  BY <1>1, <1>3, <1>11, <1>12, <1>13, EditStarts, OneRowChanged
<1> QED BY <1>1, <1>14, EditStarts

LEMMA SetComponentVersionKeeps ==
    ASSUME Constants, ListInv, NEW u \in Uids, NEW v \in Versions, NEW imp \in BOOLEAN,
           SetComponentVersion(u, v, imp)
    PROVE  ListInv'
<1>1. /\ MayEdit /\ Edited
      /\ \/ \E i \in Rows : ChangeVersion(i, v, imp)
         \/ AddComponent(u, v, imp)
      /\ IF components' = components THEN UNCHANGED dirty ELSE ScheduleSave
      /\ phase' = "load" /\ netmode' = "Online" /\ checkOnly' = ("Online" = "Offline")
      /\ slots' = {} /\ remoteOk' = TRUE /\ todo' = {}
      /\ dangling' = dangling \union {s[1] : s \in slots}
      /\ UNCHANGED <<loaded, disk, lost, known, local, inProgress, disturbed>>
  BY DEF SetComponentVersion, Resolve, LeftBehind, fileVars, metaVars
<1>2. v \in Maybe
  BY DEF Maybe
<1>3. /\ components' \in Seq(Component) /\ indexed' \subseteq Uids
      /\ patches' \in [Uids -> Maybe] /\ ListConsistent' /\ RowsSound'
  <2>1. CASE \E i \in Rows : ChangeVersion(i, v, imp)
    BY <1>1, <1>2, <2>1, ChangeVersionKeeps
  <2>2. CASE AddComponent(u, v, imp)
    <3> DEFINE d == NewComponent(u, v, FALSE, imp)
    <3>1. /\ u \notin indexed /\ components' = Append(components, d)
          /\ indexed' = indexed \union {u} /\ patches' = patches
      BY <2>2 DEF AddComponent
    <3>2. d \in Component /\ d.row.uid = u /\ RowSound(d, known', patches')
      BY <1>2, NewComponentSound
    <3> HIDE DEF d
    <3>3. /\ patches[u] \in Maybe /\ patches' = [patches EXCEPT ![u] = patches[u]]
          /\ known \subseteq known'
      BY <1>1, <3>1, EditStarts
    <3> QED BY <1>1, <3>1, <3>2, <3>3, EditStarts, RowAppended
  <2> QED BY <1>1, <2>1, <2>2
<1>4. CleanMeansSaved' /\ dirty' \in BOOLEAN
  <2>1. CASE components' = components
    <3>1. Persist(components') = Persist(components)
      BY <2>1
    <3> QED BY <1>1, <2>1, <3>1, EditStarts, Unscheduled
  <2>2. CASE components' # components
    BY <1>1, <2>2, EditStarts, Scheduled
  <2> QED BY <2>1, <2>2
<1>5. OnlyServed' /\ known' \subseteq Entities /\ inProgress' \subseteq Entities
  BY <1>1, EditStarts DEF OnlyServed
<1>6. dangling' \subseteq Entities
  BY <1>1 DEF ListInv, PackTypeOK
<1>7. edits' \in 0..MaxEdits /\ signal = "none" /\ signal' = "none"
  BY <1>1 DEF ListInv, PackTypeOK, MayEdit, Edited, Quiet, Constants, FaultAssumption
<1>8. PackTypeOK'
  BY <1>1, <1>3, <1>4, <1>5, <1>6, <1>7 DEF ListInv, PackTypeOK
<1>9. DiskUnique' /\ ListKept'
  BY <1>1, <1>3, <1>4 DEF ListInv, DiskUnique, ListKept
<1>10. SlotsFitRows' /\ TaskSound' /\ SignalSound'
  BY <1>1, <1>7 DEF SlotsFitRows, TaskSound, WaitSound, SignalSound
<1> QED BY <1>3, <1>5, <1>8, <1>9, <1>10 DEF ListInv

\* More metadata is known, or asked for: nothing in the list minds.
LEMMA KnownGrows ==
    ASSUME Constants, ListInv, signal = "none", NEW es, es \subseteq Entities, FetchOnline(es),
           UNCHANGED <<components, indexed, loaded, dirty, disk, lost, patches, phase,
                       netmode, checkOnly, slots, remoteOk, todo,
                     dangling, disturbed, signal>>,
           edits' \in 0..MaxEdits
    PROVE  ListInv'
<1>1. /\ known \subseteq known' /\ inProgress \subseteq inProgress' /\ local' = local
      /\ known' \subseteq Entities /\ inProgress' \subseteq Entities /\ OnlyServed'
  BY FetchKeeps DEF ListInv, PackTypeOK
<1>2. PackTypeOK'
  BY <1>1 DEF ListInv, PackTypeOK
<1>3. ListKept' /\ DiskUnique'
  BY <1>1 DEF ListInv, ListKept, ListConsistent, UniqueRows, CleanMeansSaved, DiskUnique, Rows
<1>4. \A i \in Rows : Upheld(components[i], components[i], known, known')
  BY <1>1, SameUpheld
<1>5. RowsUpheld
  BY <1>4 DEF RowsUpheld, Rows
<1>6. SlotsFitRows' /\ WaitSound'
  BY <1>1, <1>5, WaitGoesOn
<1>7. RowsSound'
  <2>1. \A i \in Rows : disturbed \/ RowSound(components[i], known', patches)
    BY <1>1, SoundMonotone DEF ListInv, RowsSound
  <2> QED BY <2>1 DEF RowsSound, Rows
<1>8. TaskSound'
  <2>1. AllReady => AllReady'
    BY <1>4 DEF AllReady, Upheld, Rows
  <2> QED BY <1>6, <2>1 DEF ListInv, TaskSound
<1>9. SignalSound'
  BY DEF ListInv, SignalSound
<1> QED BY <1>1, <1>2, <1>3, <1>6, <1>7, <1>8, <1>9 DEF ListInv

LEMMA GetProfileKeeps ==
    ASSUME Constants, ListInv, signal = "none", GetProfile,
           UNCHANGED <<components, indexed, loaded, dirty, disk, lost, patches, phase,
                       netmode, checkOnly, slots, remoteOk, todo, dangling, disturbed,
                       signal, edits>>
    PROVE  ListInv'
<1>1. Asked(components) \subseteq Entities
  BY AskedTyped DEF ListInv, PackTypeOK
<1>2. FetchOnline(Asked(components)) /\ edits' \in 0..MaxEdits
  BY DEF GetProfile, ListInv, PackTypeOK
<1> QED BY <1>1, <1>2, KnownGrows

-----------------------------------------------------------------------------
(* Saving and loading.                                                       *)

\* What is in the file after save_internal().
LEMMA SaveWrites ==
    ASSUME components \in Seq(Component), UniqueRows, disk \in Seq(Row), DiskUnique,
           SaveInternal
    PROVE  /\ dirty' = FALSE /\ lost' \in BOOLEAN
           /\ disk' \in Seq(Row) /\ DiskUnique'
           /\ ~lost' => /\ DOMAIN disk' = Rows
                        /\ \A i \in Rows : disk'[i] = components[i].row
<1>1. CASE disk' = Persist(components) /\ lost' = FALSE
  BY <1>1, PersistTyped DEF SaveInternal, DiskUnique
<1>2. CASE lost' = TRUE /\ disk' = disk
  BY <1>2 DEF SaveInternal, DiskUnique
<1> QED BY <1>1, <1>2 DEF SaveInternal

\* What is in the file once nothing is left to save.
LEMMA SaveFlushes ==
    ASSUME ListInv, SaveNow
    PROVE  /\ dirty' = FALSE /\ lost' \in BOOLEAN
           /\ disk' \in Seq(Row) /\ DiskUnique'
           /\ loaded /\ ~lost' =>
                 /\ DOMAIN disk' = Rows
                 /\ \A i \in Rows : Meaning(disk'[i]) = Meaning(components[i].row)
<1>1. /\ components \in Seq(Component) /\ UniqueRows /\ disk \in Seq(Row) /\ DiskUnique
      /\ CleanMeansSaved /\ dirty \in BOOLEAN /\ lost \in BOOLEAN
  BY DEF ListInv, PackTypeOK, ListKept, ListConsistent
<1>2. CASE dirty
  <2>1. SaveInternal
    BY <1>2 DEF SaveNow
  <2> QED BY <1>1, <2>1, SaveWrites
<1>3. CASE ~dirty
  BY <1>1, <1>3 DEF SaveNow, DiskUnique, CleanMeansSaved
<1> QED BY <1>1, <1>2, <1>3

LEMMA SaveTimerKeeps ==
    ASSUME Constants, ListInv, SaveTimer PROVE ListInv'
<1>1. /\ SaveInternal /\ Quiet /\ dirty
      /\ UNCHANGED <<components, indexed, loaded, patches, m_profile, phase, signal,
                     edits, known, local, inProgress, netmode, checkOnly, slots, remoteOk, todo,
                     dangling, disturbed>>
  BY DEF SaveTimer, metaVars, taskVars, loadVars
<1>2. /\ components \in Seq(Component) /\ UniqueRows /\ disk \in Seq(Row) /\ DiskUnique
  BY DEF ListInv, PackTypeOK, ListKept, ListConsistent
<1>3. /\ dirty' = FALSE /\ lost' \in BOOLEAN /\ disk' \in Seq(Row) /\ DiskUnique'
      /\ ~lost' => DOMAIN disk' = Rows /\ \A i \in Rows : disk'[i] = components[i].row
  BY <1>1, <1>2, SaveWrites
<1>4. CleanMeansSaved'
  BY <1>1, <1>3 DEF CleanMeansSaved, Rows
<1>5. PackTypeOK'
  BY <1>1, <1>3 DEF ListInv, PackTypeOK
<1>6. ListConsistent' /\ SlotsFitRows' /\ OnlyServed'
  BY <1>1 DEF ListInv, ListKept, ListConsistent, UniqueRows, SlotsFitRows, OnlyServed, Rows
<1>7. RowsSound' /\ TaskSound' /\ SignalSound'
  BY <1>1 DEF ListInv, RowsSound, TaskSound, WaitSound, AllReady, Awaits, SignalSound,
              DependenciesMet, Rows
<1> QED BY <1>3, <1>4, <1>5, <1>6, <1>7 DEF ListInv, ListKept

\* reload(): the list that is read is the one that was written, unless the file
\* could not be written.
LEMMA ReloadKeeps ==
    ASSUME Constants, ListInv, Quiet, NEW net \in {"Online", "Offline"}, Reload(net),
           edits' \in 0..MaxEdits
    PROVE  ListInv' /\ (phase' # "wait" => m_profile' = NoProfile) /\ signal' = "none"
<1>1. UNCHANGED <<patches, known, local, inProgress, signal>> /\ signal = "none"
  BY DEF Reload, metaVars, Quiet
<1>2. CASE phase # "idle"
  <2>1. UNCHANGED <<components, indexed, loaded, dirty, disk, lost, m_profile, phase,
                    netmode, checkOnly, slots, remoteOk, todo,
                     dangling, disturbed>>
    BY <1>2 DEF Reload, fileVars, taskVars, loadVars
  <2>2. phase' = "wait"
    BY <1>2, <2>1 DEF Quiet
  <2>3. PackTypeOK'
    BY <1>1, <2>1 DEF ListInv, PackTypeOK
  <2>4. ListKept' /\ DiskUnique' /\ SlotsFitRows' /\ OnlyServed' /\ RowsSound'
    BY <1>1, <2>1 DEF ListInv, ListKept, ListConsistent, UniqueRows, CleanMeansSaved,
                      DiskUnique, SlotsFitRows, OnlyServed, RowsSound, Rows
  <2>5. TaskSound' /\ SignalSound'
    BY <1>1, <2>1 DEF ListInv, TaskSound, WaitSound, AllReady, Awaits, SignalSound, Rows
  <2> QED BY <1>1, <2>2, <2>3, <2>4, <2>5 DEF ListInv
<1>3. CASE phase = "idle" /\ SaveNow /\ m_profile' = NoProfile /\ ReloadFlushed(net)
  <2>1. /\ dirty' = FALSE /\ lost' \in BOOLEAN /\ disk' \in Seq(Row) /\ DiskUnique'
        /\ loaded /\ ~lost' =>
              /\ DOMAIN disk' = Rows
              /\ \A i \in Rows : Meaning(disk'[i]) = Meaning(components[i].row)
    BY <1>3, SaveFlushes
  <2>2. OnlyServed'
    BY <1>1 DEF ListInv, OnlyServed
  <2>3. CASE /\ components' = [i \in DOMAIN disk' |-> FromJson(disk'[i])]
             /\ indexed' = {disk'[i].uid : i \in DOMAIN disk'}
             /\ loaded' = TRUE /\ disturbed' = FALSE /\ Resolve(net)
    <3>1. \A i \in DOMAIN disk' :
             /\ FromJson(disk'[i]) \in Component
             /\ FromJson(disk'[i]).row.uid = disk'[i].uid
             /\ RowSound(FromJson(disk'[i]), known', patches')
             /\ Meaning(disk'[i]) = Meaning(FromJson(disk'[i]).row)
      <4>1. \A i \in DOMAIN disk' : disk'[i] \in Row
        BY <2>1
      <4> QED BY <4>1, FromJsonSound
    <3>2. DOMAIN disk' = 1..Len(disk') /\ Len(disk') \in Nat
      BY <2>1
    <3>3. /\ components' \in Seq(Component) /\ Rows' = DOMAIN disk'
          /\ \A i \in Rows' : components'[i] = FromJson(disk'[i])
      BY <2>3, <3>1, <3>2 DEF Rows
    <3>4. ListConsistent'
      BY <2>1, <2>3, <3>1, <3>3 DEF ListConsistent, UniqueRows, DiskUnique
    <3>5. CleanMeansSaved'
      BY <3>1, <3>3 DEF CleanMeansSaved
    <3>6. RowsSound'
      BY <3>1, <3>3 DEF RowsSound
    <3>7. indexed' \subseteq Uids
      <4>1. \A i \in DOMAIN disk' : disk'[i] \in Row
        BY <2>1
      <4>2. \A i \in DOMAIN disk' : disk'[i].uid \in Uids
        BY <4>1 DEF Row
      <4> QED BY <2>3, <4>2
    <3>8. /\ phase' = "load" /\ netmode' = net /\ checkOnly' = (net = "Offline")
          /\ slots' = {} /\ remoteOk' = TRUE /\ todo' = {}
          /\ dangling' \subseteq Entities
      BY <2>3 DEF Resolve, LeftBehind, ListInv, PackTypeOK
    <3>9. PackTypeOK'
      BY <1>1, <2>1, <2>3, <3>3, <3>7, <3>8 DEF ListInv, PackTypeOK
    <3>10. SlotsFitRows' /\ TaskSound' /\ SignalSound'
      BY <1>1, <3>8 DEF SlotsFitRows, TaskSound, WaitSound, SignalSound
    <3> QED BY <1>1, <1>3, <2>1, <2>2, <3>4, <3>5, <3>6, <3>9, <3>10 DEF ListInv, ListKept
  <2>4. CASE UNCHANGED <<components, indexed, loaded, phase, taskVars>>
    <3>1. UNCHANGED <<components, indexed, loaded, phase, netmode, checkOnly,
                     slots, remoteOk, todo, dangling, disturbed>>
      BY <2>4 DEF taskVars, loadVars
    <3>2. PackTypeOK'
      BY <1>1, <2>1, <3>1 DEF ListInv, PackTypeOK
    <3>3. ListConsistent' /\ RowsSound'
      BY <1>1, <3>1 DEF ListInv, ListKept, ListConsistent, UniqueRows, RowsSound, Rows
    <3>4. CleanMeansSaved'
      BY <2>1, <3>1 DEF CleanMeansSaved, Rows
    <3>5. slots' = {}
      BY <1>3, <3>1, NothingAwaited
    <3>6. SlotsFitRows' /\ TaskSound' /\ SignalSound'
      BY <1>1, <1>3, <3>1, <3>5 DEF SlotsFitRows, TaskSound, WaitSound, SignalSound
    <3> QED BY <1>1, <1>3, <2>1, <2>2, <3>2, <3>3, <3>4, <3>6 DEF ListInv, ListKept
  <2> QED BY <1>3, <2>3, <2>4 DEF ReloadFlushed
<1> QED BY <1>2, <1>3 DEF Reload

LEMMA ReloadPageKeeps ==
    ASSUME Constants, ListInv, ReloadPage PROVE ListInv'
<1>1. Quiet /\ Reload("Online")
  BY DEF ReloadPage
<1>2. edits' \in 0..MaxEdits
  BY DEF ReloadPage, Edited, ListInv, PackTypeOK, Constants, FaultAssumption
<1> QED BY <1>1, <1>2, ReloadKeeps

LEMMA AskProfileKeeps ==
    ASSUME Constants, ListInv, AskProfile PROVE ListInv'
<1>1. /\ Quiet /\ GetProfile
      /\ UNCHANGED <<components, indexed, loaded, dirty, disk, lost, patches, phase,
                     netmode, checkOnly, slots, remoteOk, todo, dangling, disturbed,
                       signal, edits>>
  BY DEF AskProfile, fileVars, taskVars, loadVars
<1> QED BY <1>1, GetProfileKeeps DEF Quiet

\* Of a launcher that is gone only the files are left.
LEMMA GoneKeeps ==
    ASSUME Constants, ListInv, signal = "none", Gone, dirty' = FALSE, lost' \in BOOLEAN,
           disk' \in Seq(Row), DiskUnique', edits' \in 0..MaxEdits, local' \subseteq Entities,
           local' \subseteq {MetaIndex} \union Served
    PROVE  ListInv'
<1>1. /\ components' = << >> /\ indexed' = {} /\ loaded' = FALSE
      /\ known' = {} /\ inProgress' = {} /\ phase' = "idle" /\ slots' = {} /\ remoteOk' = TRUE
      /\ dangling' = {} /\ disturbed' = FALSE
      /\ UNCHANGED <<patches, netmode, checkOnly, todo, signal>>
  BY DEF Gone
<1>2. components' \in Seq(Component) /\ Rows' = {}
  BY <1>1 DEF Rows
<1>3. PackTypeOK'
  BY <1>1, <1>2 DEF ListInv, PackTypeOK
<1>4. ListKept' /\ SlotsFitRows' /\ OnlyServed' /\ RowsSound'
  BY <1>1, <1>2 DEF ListKept, ListConsistent, UniqueRows, CleanMeansSaved,
                    SlotsFitRows, OnlyServed, RowsSound
<1>5. TaskSound' /\ SignalSound'
  BY <1>1 DEF TaskSound, WaitSound, SignalSound
<1> QED BY <1>3, <1>4, <1>5 DEF ListInv

LEMMA RestartKeeps ==
    ASSUME Constants, ListInv, Restart PROVE ListInv'
<1>1. Quiet /\ Gone /\ local' = local /\ edits < MaxEdits /\ edits' = edits + 1
  BY DEF Restart
<1>2. dirty' = FALSE /\ lost' \in BOOLEAN /\ disk' \in Seq(Row) /\ DiskUnique'
  <2>1. CASE SaveNow
    BY <2>1, SaveFlushes
  <2>2. CASE dirty' = FALSE /\ UNCHANGED fileVars
    BY <2>2 DEF fileVars, ListInv, PackTypeOK, DiskUnique
  <2> QED BY <2>1, <2>2 DEF Restart
<1>3. edits' \in 0..MaxEdits
  BY <1>1 DEF ListInv, PackTypeOK, Constants, FaultAssumption
<1>4. local' \subseteq Entities /\ local' \subseteq {MetaIndex} \union Served
  BY <1>1 DEF ListInv, PackTypeOK, OnlyServed
<1> QED BY <1>1, <1>2, <1>3, <1>4, GoneKeeps DEF Quiet

LEMMA CrashKeeps ==
    ASSUME Constants, ListInv, NEW e \in inProgress, NEW ok \in BOOLEAN, Crash(e, ok)
    PROVE  ListInv'
<1>1. /\ Quiet /\ Gone /\ dirty' = FALSE /\ UNCHANGED <<disk, lost, edits>>
      /\ ok => e = MetaIndex \/ e \in Served
      /\ local' = IF ok THEN local \union {e} ELSE local
  BY DEF Crash, fileVars
<1>2. /\ lost \in BOOLEAN /\ disk \in Seq(Row) /\ DiskUnique /\ edits \in 0..MaxEdits
      /\ local \subseteq Entities /\ inProgress \subseteq Entities
      /\ local \subseteq {MetaIndex} \union Served
  BY DEF ListInv, PackTypeOK, OnlyServed
<1>3. DiskUnique'
  BY <1>1, <1>2 DEF DiskUnique
<1>4. local' \subseteq Entities /\ local' \subseteq {MetaIndex} \union Served
  BY <1>1, <1>2
<1> QED BY <1>1, <1>2, <1>3, <1>4, GoneKeeps DEF Quiet

LEMMA EditKeeps ==
    ASSUME Constants, ListInv, Edit \/ NewVersion PROVE ListInv'
<1>1. CASE \E i \in Rows : \/ RemoveComponent(i) \/ Customize(i) \/ RevertToBase(i)
                           \/ SetEnabled(i) \/ \E up \in BOOLEAN : Move(i, up)
  BY <1>1, RemoveComponentKeeps, CustomizeKeeps, RevertToBaseKeeps, SetEnabledKeeps, MoveKeeps
<1>2. CASE \E u \in Uids : InstallPatch(u)
  BY <1>2, InstallPatchKeeps
<1>3. CASE NewVersion
  BY <1>3, SetComponentVersionKeeps DEF NewVersion
<1>4. CASE ReloadPage \/ AskProfile
  BY <1>4, ReloadPageKeeps, AskProfileKeeps
<1> QED BY <1>1, <1>2, <1>3, <1>4 DEF Edit

-----------------------------------------------------------------------------
(* The update task.                                                          *)

\* What a step of the task starts from.
LEMMA TaskStarts ==
    ASSUME ListInv
    PROVE  /\ components \in Seq(Component) /\ indexed \subseteq Uids /\ loaded \in BOOLEAN
           /\ dirty \in BOOLEAN /\ patches \in [Uids -> Maybe]
           /\ known \subseteq Entities /\ local \subseteq Entities /\ inProgress \subseteq Entities
           /\ ListConsistent /\ CleanMeansSaved /\ RowsSound /\ OnlyServed
           /\ \A i \in Rows : /\ components[i] \in Component /\ components[i].row \in Row
                              /\ components[i].row.uid \in Uids
                              /\ components[i].row.version \in Maybe
                              /\ components[i].row.cachedVersion \in Maybe
                              /\ components[i].row.cachedRequires \subseteq Require
                              /\ disturbed \/ RowSound(components[i], known, patches)
<1>1. \A i \in Rows : components[i] \in Component
  BY DEF ListInv, PackTypeOK, Rows
<1>2. \A i \in Rows : /\ components[i].row \in Row /\ components[i].row.uid \in Uids
                      /\ components[i].row.version \in Maybe
                      /\ components[i].row.cachedVersion \in Maybe
                      /\ components[i].row.cachedRequires \subseteq Require
  BY <1>1 DEF Component, Row
<1>3. \A i \in Rows : disturbed \/ RowSound(components[i], known, patches)
  BY DEF ListInv, RowsSound
<1> QED BY <1>1, <1>2, <1>3 DEF ListInv, PackTypeOK, ListKept

\* A synchronous step neither waits nor tells.
LEMMA NothingTold ==
    ASSUME ListInv, phase \in {"load", "resolve", "inject"}
    PROVE  signal = "none" /\ slots = {}
BY NothingAwaited DEF ListInv, PackTypeOK, SignalSound

LEMMA ResolveFailedKeeps ==
    ASSUME Constants, ListInv, ResolveFailed PROVE ListInv'
<1>1. /\ phase = "resolve" /\ phase' = "idle" /\ m_profile' = NoProfile /\ signal' = "Failed"
      /\ slots' = {}
      /\ UNCHANGED <<components, indexed, loaded, dirty, disk, lost, patches, known, local,
                     inProgress, edits, netmode, checkOnly, remoteOk, todo, dangling, disturbed>>
  BY DEF ResolveFailed, Finish, fileVars, metaVars
<1>2. ListConsistent' /\ RowsSound' /\ CleanMeansSaved' /\ OnlyServed'
  BY <1>1 DEF ListInv, ListKept, ListConsistent, UniqueRows, RowsSound, CleanMeansSaved,
              OnlyServed, Rows
<1>3. SlotsFitRows' /\ TaskSound' /\ SignalSound'
  BY <1>1 DEF SlotsFitRows, TaskSound, WaitSound, SignalSound
<1>4. PackTypeOK'
  BY <1>1 DEF ListInv, PackTypeOK
<1>5. DiskUnique'
  BY <1>1 DEF ListInv, DiskUnique
<1> QED BY <1>2, <1>3, <1>4, <1>5 DEF ListInv, ListKept

\* resolveDependencies() has nothing left to do: every requirement is met.
LEMMA NothingToDo ==
    ASSUME Constants, ListInv, ~Conflict, ToAdd = {}, Differing = {}
    PROVE  DependenciesMet
<1> SUFFICES ASSUME NEW i \in Rows, NEW r \in components[i].row.cachedRequires
             PROVE  \E j \in Rows : /\ components[j].row.uid = r.uid
                                    /\ r.equals \in {0, components[j].row.cachedVersion}
  BY DEF DependenciesMet
<1> DEFINE u == r.uid
           T == EqualsVersion(u)
<1>1. \A k \in Rows : components[k].row.cachedRequires \subseteq Require
  BY TaskStarts
<1>2. u \in Required
  BY DEF Required, Requires
<1>3. PICK j \in Rows : components[j].row.uid = u
  BY <1>2, TaskStarts DEF ToAdd, ListConsistent
<1>4. T \subseteq Maybe
  BY <1>1 DEF EqualsVersion, AskedFor, Requires, Require
<1>5. r.equals = 0 \/ r.equals \in T
  BY DEF EqualsVersion, AskedFor, Requires
<1>6. ~ (Cardinality(T) > 1)
  BY <1>2 DEF Conflict
<1>7. T = {} \/ components[j].row.cachedVersion \in T
  BY <1>2, <1>3 DEF Differing
<1> HIDE DEF T
<1>8. r.equals \in T => r.equals = components[j].row.cachedVersion
  BY <1>4, <1>6, <1>7, NotTwo
<1> QED BY <1>3, <1>5, <1>8

LEMMA ResolveSucceededKeeps ==
    ASSUME Constants, ListInv, ResolveSucceeded PROVE ListInv'
<1>1. /\ phase = "resolve" /\ phase' = "idle" /\ m_profile' = NoProfile
      /\ signal' = "Succeeded" /\ slots' = {}
      /\ ~Conflict /\ ToAdd = {} /\ Differing = {}
      /\ UNCHANGED <<components, indexed, loaded, dirty, disk, lost, patches, known, local,
                     inProgress, edits, netmode, checkOnly, remoteOk, todo, dangling, disturbed>>
  BY DEF ResolveSucceeded, Finish, fileVars, metaVars
<1>2. ListConsistent' /\ RowsSound' /\ CleanMeansSaved' /\ OnlyServed'
  BY <1>1 DEF ListInv, ListKept, ListConsistent, UniqueRows, RowsSound, CleanMeansSaved,
              OnlyServed, Rows
<1>3. DependenciesMet
  BY <1>1, NothingToDo
<1>4. AllReady
  BY <1>1 DEF ListInv, TaskSound
<1>5. DependenciesMet' /\ AllReady'
  BY <1>1, <1>3, <1>4 DEF DependenciesMet, AllReady, Rows
<1>6. SlotsFitRows' /\ TaskSound' /\ SignalSound'
  BY <1>1, <1>5 DEF SlotsFitRows, TaskSound, WaitSound, SignalSound
<1>7. PackTypeOK'
  BY <1>1 DEF ListInv, PackTypeOK
<1>8. DiskUnique'
  BY <1>1 DEF ListInv, DiskUnique
<1> QED BY <1>2, <1>6, <1>7, <1>8 DEF ListInv, ListKept

LEMMA LoadAgainKeeps ==
    ASSUME Constants, ListInv, LoadAgain PROVE ListInv'
<1>1. /\ phase = "inject" /\ phase' = "load"
      /\ UNCHANGED <<components, indexed, loaded, dirty, disk, lost, patches, m_profile, known,
                     local, inProgress, edits, netmode, checkOnly, slots, remoteOk, todo,
                     dangling, disturbed, signal>>
  BY DEF LoadAgain, fileVars, metaVars, taskVars, loadVars
<1>2. signal = "none" /\ slots = {}
  BY <1>1, NothingTold
<1>3. ListConsistent' /\ RowsSound' /\ CleanMeansSaved' /\ OnlyServed'
  BY <1>1 DEF ListInv, ListKept, ListConsistent, UniqueRows, RowsSound, CleanMeansSaved,
              OnlyServed, Rows
<1>4. SlotsFitRows' /\ TaskSound' /\ SignalSound'
  BY <1>1, <1>2 DEF SlotsFitRows, TaskSound, WaitSound, SignalSound
<1>5. PackTypeOK'
  BY <1>1 DEF ListInv, PackTypeOK
<1>6. DiskUnique'
  BY <1>1 DEF ListInv, DiskUnique
<1> QED BY <1>3, <1>4, <1>5, <1>6 DEF ListInv, ListKept

LEMMA RemoveOrphanKeeps ==
    ASSUME Constants, ListInv, RemoveOrphan PROVE ListInv'
<1>1. PICK k \in Orphans : RemoveRow(k) /\ FetchOnline(Asked(<<components[k]>>))
  BY DEF RemoveOrphan
<1>2. /\ phase = "resolve"
      /\ UNCHANGED <<loaded, disk, lost, phase, netmode, checkOnly, slots, remoteOk,
                     todo, dangling, disturbed,
                     signal, edits>>
  BY DEF RemoveOrphan, fileVars, taskVars, loadVars
<1>3. k \in Rows
  BY DEF Orphans
<1>4. Asked(<<components[k]>>) \subseteq Entities
  <2>1. <<components[k]>> \in Seq(Component)
    BY <1>3, TaskStarts
  <2> QED BY <2>1, AskedTyped
<1>5. /\ known \subseteq known' /\ local' = local /\ known' \subseteq Entities
      /\ inProgress' \subseteq Entities /\ OnlyServed'
  BY <1>1, <1>4, TaskStarts, FetchKeeps
<1>6. /\ components' \in Seq(Component) /\ indexed' \subseteq Uids /\ dirty' \in BOOLEAN
      /\ patches' \in [Uids -> Maybe]
      /\ ListConsistent' /\ CleanMeansSaved' /\ RowsSound'
      /\ \A j \in Rows' : \E i \in Rows : components'[j] = components[i]
  BY <1>1, <1>2, <1>3, <1>5, TaskStarts, RemoveRowKeeps
<1>7. signal = "none" /\ slots = {} /\ AllReady
  BY <1>2, NothingTold DEF ListInv, TaskSound
<1>8. AllReady'
  <2>1. \A i \in Rows : disturbed \/ Ready(components[i], known')
    BY <1>5, <1>7, ReadyMonotone DEF AllReady
  <2> QED BY <1>2, <1>6, <2>1 DEF AllReady
<1>9. SlotsFitRows' /\ TaskSound' /\ SignalSound'
  BY <1>2, <1>7, <1>8 DEF SlotsFitRows, TaskSound, WaitSound, SignalSound
<1>10. PackTypeOK'
  BY <1>2, <1>5, <1>6 DEF ListInv, PackTypeOK
<1>11. DiskUnique'
  BY <1>2 DEF ListInv, DiskUnique
<1> QED BY <1>5, <1>6, <1>9, <1>10, <1>11 DEF ListInv, ListKept

\* What resolveDependencies() takes for a missing uid is a place in the list and a
\* version there is, or none.
LEMMA AdditionTyped ==
    ASSUME Constants, ListInv, NEW u \in Required
    PROVE  /\ Addition(u) \in [uid : Uids, at : Nat, version : Maybe]
           /\ Addition(u).at \in Rows
<1>1. PICK i \in Rows : \E r \in components[i].row.cachedRequires : r.uid = u
  BY DEF Required, Requires
<1>2. \A k \in Rows : components[k].row.cachedRequires \subseteq Require
  BY TaskStarts
<1>3. u \in Uids
  BY <1>1, <1>2 DEF Require
<1>4. Min(Dependees(u)) \in Rows /\ Rows \subseteq Nat
  <2>1. Rows \subseteq Nat
    BY TaskStarts DEF Rows
  <2>2. Dependees(u) \subseteq Rows /\ Dependees(u) # {}
    BY <1>1 DEF Dependees, Requires
  <2>3. Dependees(u) \subseteq Nat
    BY <2>1, <2>2
  <2> HIDE DEF Rows
  <2> QED BY <2>1, <2>2, <2>3, MinIsThere
<1>5. EqualsVersion(u) # {} => ExactVersion(u) \in Maybe
  <2>1. EqualsVersion(u) \subseteq Maybe
    BY <1>2 DEF EqualsVersion, AskedFor, Requires, Require
  <2> QED BY <2>1 DEF ExactVersion
<1>6. Suggests(u) \in Maybe
  <2> DEFINE T == {r.suggests : r \in AskedFor(u)}
  <2>1. T \subseteq Maybe /\ T # {}
    BY <1>1, <1>2 DEF AskedFor, Requires, Require
  <2> HIDE DEF T
  <2>2. Max(T) \in Maybe
    BY <2>1, MaxIsThere
  <2> QED BY <2>2 DEF Suggests, T
<1>7. HardCoded[u] \in Maybe
  <2>1. HardCodedAssumption
    BY DEF Constants
  <2> QED BY <1>3, <2>1 DEF HardCodedAssumption
<1> DEFINE v == IF EqualsVersion(u) # {} THEN ExactVersion(u)
                ELSE IF Suggests(u) # 0 THEN Suggests(u) ELSE HardCoded[u]
           at == Min(Dependees(u))
<1>8. v \in Maybe /\ at \in Nat /\ at \in Rows
  BY <1>4, <1>5, <1>6, <1>7
<1>9. Addition(u) = [uid |-> u, at |-> at, version |-> v]
  BY DEF Addition
<1> HIDE DEF v, at
<1> QED BY <1>3, <1>8, <1>9

LEMMA ResolveChangesKeeps ==
    ASSUME Constants, ListInv, ResolveChanges PROVE ListInv'
<1> DEFINE next(i) == IF i \in Differing
                      THEN SetVersion(components[i], ExactVersion(components[i].row.uid))
                      ELSE components[i]
<1>1. /\ phase = "resolve" /\ phase' = "inject"
      /\ components' = [i \in Rows |-> next(i)]
      /\ IF Differing = {} THEN UNCHANGED dirty ELSE ScheduleSave
      /\ todo' = {Addition(u) : u \in ToAdd}
      /\ UNCHANGED <<indexed, loaded, disk, lost, patches, m_profile, known, local, inProgress,
                     netmode, checkOnly, slots, remoteOk, dangling, disturbed, signal, edits>>
  BY DEF ResolveChanges, fileVars, metaVars
<1>2. signal = "none" /\ slots = {}
  BY <1>1, NothingTold
<1>3. ASSUME NEW i \in Rows
      PROVE  /\ next(i) \in Component /\ next(i).row.uid = components[i].row.uid
             /\ disturbed \/ RowSound(next(i), known, patches)
  <2> DEFINE c == components[i]
             v == ExactVersion(c.row.uid)
  <2>1. c \in Component /\ (disturbed \/ RowSound(c, known, patches)) /\ OnlyServed
    BY TaskStarts
  <2>2. CASE i \in Differing
    <3>1. v \in EqualsVersion(c.row.uid)
      BY <2>2 DEF Differing, ExactVersion
    <3>2. EqualsVersion(c.row.uid) \subseteq Maybe
      <4>1. \A k \in Rows : components[k].row.cachedRequires \subseteq Require
        BY TaskStarts
      <4> QED BY <4>1 DEF EqualsVersion, AskedFor, Requires, Require
    <3>3. next(i) = SetVersion(c, v)
      BY <2>2
    <3>4. v \in Maybe
      BY <3>1, <3>2
    <3> HIDE DEF c, v, next
    <3>5. LET d == SetVersion(c, v)
          IN  /\ d \in Component /\ d.row.uid = c.row.uid
              /\ disturbed \/ RowSound(d, known, patches)
      BY <2>1, <3>4, SetVersionSound
    <3> QED BY <3>3, <3>5 DEF c
  <2>3. CASE i \notin Differing
    BY <2>1, <2>3
  <2> QED BY <2>2, <2>3
<1>4. Rows = 1..Len(components) /\ Len(components) \in Nat
  BY TaskStarts DEF Rows
<1>5. Differing = {} => components' = components
  <2>1. components = [i \in 1..Len(components) |-> components[i]]
    BY TaskStarts
  <2> QED BY <1>1, <1>4, <2>1
<1> HIDE DEF next
<1>6. /\ components' \in Seq(Component) /\ Rows' = Rows /\ Len(components') = Len(components)
      /\ \A i \in Rows : components'[i] = next(i)
  <2>1. components' = [i \in 1..Len(components) |-> next(i)]
    BY <1>1, <1>4
  <2>2. \A i \in 1..Len(components) : next(i) \in Component
    BY <1>3, <1>4
  <2> QED BY <1>4, <2>1, <2>2 DEF Rows
<1>7. ListConsistent'
  BY <1>1, <1>3, <1>6, TaskStarts, SameRows
<1>8. RowsSound'
  BY <1>1, <1>3, <1>6 DEF RowsSound
<1>9. CleanMeansSaved' /\ dirty' \in BOOLEAN
  <2>1. CASE Differing = {}
    <3>1. Persist(components') = Persist(components)
      BY <1>5, <2>1
    <3> QED BY <1>1, <2>1, <3>1, TaskStarts, Unscheduled
  <2>2. CASE Differing # {}
    BY <1>1, <2>2, TaskStarts, Scheduled
  <2> QED BY <2>1, <2>2
<1>10. /\ todo' \subseteq [uid : Uids, at : Nat, version : Maybe]
       /\ \A add \in todo' : add.at \in 1..Len(components')
  BY <1>1, <1>4, <1>6, AdditionTyped DEF ToAdd
<1>11. SlotsFitRows' /\ TaskSound' /\ SignalSound' /\ OnlyServed'
  BY <1>1, <1>2, <1>10, TaskStarts DEF SlotsFitRows, TaskSound, WaitSound, SignalSound, OnlyServed
<1>12. PackTypeOK'
  BY <1>1, <1>6, <1>9, <1>10 DEF ListInv, PackTypeOK
<1>13. DiskUnique'
  BY <1>1 DEF ListInv, DiskUnique
<1> QED BY <1>7, <1>8, <1>9, <1>11, <1>12, <1>13 DEF ListInv, ListKept

\* A row of a uid that no row has yet goes between two others.
LEMMA RowInserted ==
    ASSUME components \in Seq(Component), ListConsistent, RowsSound, indexed \subseteq Uids,
           UNCHANGED <<known, patches, disturbed>>,
           NEW u \in Uids, u \notin indexed, NEW d \in Component, d.row.uid = u,
           RowSound(d, known, patches), NEW k \in Rows,
           components' = InsertAt(components, k, d), indexed' = indexed \union {u}
    PROVE  /\ components' \in Seq(Component) /\ Len(components') = Len(components) + 1
           /\ indexed' \subseteq Uids /\ ListConsistent' /\ RowsSound'
           /\ \A i \in Rows : \E j \in Rows' : components'[j] = components[i]
           /\ \A j \in Rows' : \/ components'[j] = d
                               \/ \E i \in Rows : components'[j] = components[i]
<1> DEFINE n == Len(components)
           from(j) == IF j < k THEN j ELSE j - 1
<1>1. n \in Nat /\ Rows = 1..n /\ k \in 1..n /\ k \in 1..(n + 1)
  BY DEF Rows
<1>2. /\ components' \in Seq(Component) /\ Len(components') = n + 1
      /\ \A i \in 1..(k - 1) : components'[i] = components[i]
      /\ components'[k] = d
      /\ \A i \in k..n : components'[i + 1] = components[i]
  <2> DEFINE t == InsertAt(components, k, d)
  <2>1. components \in Seq(Component) /\ d \in Component /\ k \in 1..(Len(components) + 1)
    BY <1>1
  <2>2. /\ t \in Seq(Component) /\ Len(t) = n + 1
        /\ \A i \in 1..(k - 1) : t[i] = components[i]
        /\ t[k] = d
        /\ \A i \in k..n : t[i + 1] = components[i]
    BY ONLY <2>1, InsertAtSeq
  <2> HIDE DEF t
  <2>3. components' = t
    BY DEF t
  <2> QED BY <2>2, <2>3
<1>3. Rows' = 1..(n + 1)
  BY <1>2 DEF Rows
<1>4. ASSUME NEW j \in Rows', j # k
      PROVE  from(j) \in Rows /\ components'[j] = components[from(j)]
  <2>1. CASE j < k
    <3>1. j \in 1..(k - 1) /\ j \in 1..n
      BY <1>1, <1>3, <2>1
    <3> QED BY <1>1, <1>2, <2>1, <3>1
  <2>2. CASE j > k
    <3>1. j - 1 \in k..n /\ (j - 1) + 1 = j /\ ~ (j < k) /\ j - 1 \in 1..n
      BY <1>1, <1>3, <2>2
    <3>2. components'[(j - 1) + 1] = components[j - 1]
      BY <1>2, <3>1
    <3> QED BY <1>1, <3>1, <3>2
  <2> QED BY <1>1, <1>3, <1>4, <2>1, <2>2
<1>5. \A i, j \in Rows' : i # k /\ j # k /\ from(i) = from(j) => i = j
  BY <1>1, <1>3
<1>6. ASSUME NEW i \in Rows PROVE \E j \in Rows' : j # k /\ from(j) = i
  <2>1. CASE i < k
    <3>1. i \in 1..(n + 1) /\ i # k
      BY <1>1, <2>1
    <3> QED BY <1>3, <2>1, <3>1
  <2>2. CASE ~ (i < k)
    <3>1. i + 1 \in 1..(n + 1) /\ i + 1 # k /\ ~ (i + 1 < k) /\ (i + 1) - 1 = i
      BY <1>1, <2>2
    <3> QED BY <1>3, <3>1
  <2> QED BY <2>1, <2>2
<1>7. k \in Rows'
  BY <1>1, <1>3
<1> HIDE DEF from, n
<1>8. \A i \in Rows : components[i].row.uid \in indexed
  BY DEF ListConsistent
<1>9. UniqueRows'
  <2> SUFFICES ASSUME NEW i \in Rows', NEW j \in Rows',
                      components'[i].row.uid = components'[j].row.uid
               PROVE  i = j
    BY DEF UniqueRows
  <2>1. i = k <=> j = k
    BY <1>2, <1>4, <1>8
  <2>2. CASE i # k
    <3>1. from(i) = from(j)
      BY <1>4, <2>1, <2>2 DEF ListConsistent, UniqueRows
    <3> QED BY <1>5, <2>1, <2>2, <3>1
  <2> QED BY <2>1, <2>2
<1>10. indexed' = {components'[j].row.uid : j \in Rows'}
  <2>1. ASSUME NEW w \in indexed' PROVE w \in {components'[j].row.uid : j \in Rows'}
    <3>1. CASE w = u
      BY <1>2, <1>7, <3>1
    <3>2. CASE w \in indexed
      <4>1. PICK i \in Rows : components[i].row.uid = w
        BY <3>2 DEF ListConsistent
      <4>2. PICK j \in Rows' : j # k /\ from(j) = i
        BY <1>6
      <4> QED BY <1>4, <4>1, <4>2
    <3> QED BY <2>1, <3>1, <3>2
  <2>2. ASSUME NEW j \in Rows' PROVE components'[j].row.uid \in indexed'
    BY <1>2, <1>4, <1>8
  <2> QED BY <2>1, <2>2
<1>11. RowsSound'
  <2>1. \A i \in Rows : disturbed \/ RowSound(components[i], known, patches)
    BY DEF RowsSound
  <2>2. \A j \in Rows' : disturbed \/ RowSound(components'[j], known, patches)
    BY <1>2, <1>4, <2>1
  <2> QED BY <2>2 DEF RowsSound
<1> QED BY <1>2, <1>4, <1>6, <1>9, <1>10, <1>11 DEF ListConsistent, n

LEMMA InsertDependencyKeeps ==
    ASSUME Constants, ListInv, InsertDependency PROVE ListInv'
<1>1. PICK add \in todo :
         /\ todo' = todo \ {add}
         /\ IF add.uid \in indexed
            THEN UNCHANGED <<components, dirty>>
            ELSE /\ components' = InsertAt(components, add.at,
                                     NewComponent(add.uid, add.version, TRUE, FALSE))
                 /\ ScheduleSave
         /\ indexed' = indexed \union {add.uid}
  BY DEF InsertDependency
<1>2. /\ phase = "inject"
      /\ UNCHANGED <<loaded, disk, lost, patches, m_profile, known, local, inProgress, phase,
                     netmode, checkOnly, slots, remoteOk, dangling, disturbed, signal, edits>>
  BY DEF InsertDependency, fileVars, metaVars
<1>3. signal = "none" /\ slots = {}
  BY <1>2, NothingTold
<1>4. /\ todo \subseteq [uid : Uids, at : Nat, version : Maybe]
      /\ \A other \in todo : other.at \in 1..Len(components)
  BY <1>2 DEF ListInv, PackTypeOK, TaskSound
<1>5. Rows = 1..Len(components) /\ Len(components) \in Nat
  BY TaskStarts DEF Rows
<1>6. add.uid \in Uids /\ add.version \in Maybe /\ add.at \in Rows
  BY <1>4, <1>5
<1>7. /\ components' \in Seq(Component) /\ Len(components') \in {Len(components), Len(components) + 1}
      /\ indexed' \subseteq Uids /\ ListConsistent' /\ RowsSound'
      /\ CleanMeansSaved' /\ dirty' \in BOOLEAN
  <2>1. CASE add.uid \in indexed
    <3>1. UNCHANGED <<components, indexed, dirty>>
      BY <1>1, <2>1
    <3>2. ListConsistent' /\ RowsSound' /\ CleanMeansSaved'
      BY <1>2, <3>1, TaskStarts DEF ListConsistent, UniqueRows, RowsSound, CleanMeansSaved, Rows
    <3> QED BY <3>1, <3>2, TaskStarts
  <2>2. CASE add.uid \notin indexed
    <3> DEFINE d == NewComponent(add.uid, add.version, TRUE, FALSE)
    <3>1. d \in Component /\ d.row.uid = add.uid /\ RowSound(d, known, patches)
      BY <1>6, NewComponentSound
    <3>2. /\ components' = InsertAt(components, add.at, d) /\ ScheduleSave
          /\ indexed' = indexed \union {add.uid}
      BY <1>1, <2>2
    <3> HIDE DEF d
    <3>3. /\ components' \in Seq(Component) /\ Len(components') = Len(components) + 1
          /\ indexed' \subseteq Uids /\ ListConsistent' /\ RowsSound'
      BY <1>2, <1>6, <2>2, <3>1, <3>2, TaskStarts, RowInserted
    <3>4. CleanMeansSaved' /\ dirty' \in BOOLEAN
      BY <1>2, <3>2, TaskStarts, Scheduled
    <3> QED BY <3>3, <3>4
  <2> QED BY <2>1, <2>2
<1>8. \A other \in todo' : other.at \in 1..Len(components')
  BY <1>1, <1>4, <1>5, <1>7
<1>9. SlotsFitRows' /\ TaskSound' /\ SignalSound' /\ OnlyServed'
  BY <1>2, <1>3, <1>8, TaskStarts DEF SlotsFitRows, TaskSound, WaitSound, SignalSound, OnlyServed
<1>10. PackTypeOK'
  BY <1>1, <1>2, <1>4, <1>7 DEF ListInv, PackTypeOK
<1>11. DiskUnique'
  BY <1>2 DEF ListInv, DiskUnique
<1> QED BY <1>7, <1>9, <1>10, <1>11 DEF ListInv, ListKept

\* loadComponents(): what it cannot show now it waits for.
LEMMA LoadComponentsKeeps ==
    ASSUME Constants, ListInv, LoadComponents PROVE ListInv'
<1> DEFINE wanted  == {Entity(components[i].row) : i \in Needed} \union ({MetaIndex} \ known)
           kn      == LoadedBy(wanted)
           started == StartedBy(wanted, netmode = "Online")
           remote  == {i \in Needed : Entity(components[i].row) \in started}
           lacking == {i \in Needed \ remote : Entity(components[i].row) \notin kn}
           waits   == {<<Entity(components[i].row), i>> : i \in remote}
                      \union {<<MetaIndex, 0>> : x \in {MetaIndex} \intersect (started \ known)}
           next(i) == LoadComponent(i, kn, remote)
<1>1. /\ phase = "load" /\ known' = kn /\ inProgress' = started /\ local' = local
      /\ components' = [i \in Rows |-> next(i)]
      /\ IF Persist(components') = Persist(components) THEN UNCHANGED dirty ELSE ScheduleSave
      /\ \/ /\ lacking # {}
            /\ Finish("Failed") /\ dangling' = dangling \union {s[1] : s \in waits}
         \/ /\ lacking = {} /\ waits # {}
            /\ phase' = "wait" /\ slots' = waits /\ remoteOk' = TRUE
            /\ UNCHANGED <<netmode, checkOnly, todo, dangling, m_profile, signal>>
         \/ /\ lacking = {} /\ waits = {}
            /\ phase' = "resolve" /\ checkOnly' = (netmode = "Offline")
            /\ UNCHANGED <<netmode, slots, remoteOk, todo, dangling, m_profile, signal>>
      /\ UNCHANGED <<indexed, loaded, disk, lost, patches, disturbed, edits>>
  BY DEF LoadComponents, fileVars
<1>2. signal = "none" /\ slots = {}
  BY <1>1, NothingTold
<1>3. Rows = 1..Len(components) /\ Len(components) \in Nat /\ Needed \subseteq Rows
  BY TaskStarts DEF Rows, Needed
<1>4. \A i \in Rows : Entity(components[i].row) \in Entities
  <2>1. \A i \in Rows : components[i].row.uid \in Uids /\ components[i].row.version \in Maybe
    BY TaskStarts
  <2> QED BY <2>1 DEF Entity, Entities
<1>5. wanted \subseteq Entities
  BY <1>3, <1>4 DEF Entities
<1>6. remote \subseteq Needed /\ remote \subseteq Rows
  BY <1>3
<1>7. \A i \in Needed : i \in remote \/ i \in lacking \/ Entity(components[i].row) \in kn
  OBVIOUS
<1>8. \A s \in waits : /\ s \in Entities \X Nat /\ s[1] \in started
                       /\ s[2] = 0 \/ (s[2] \in remote /\ s[1] = Entity(components[s[2]].row))
  <2>1. \A i \in remote : i \in Nat /\ Entity(components[i].row) \in started
    BY <1>3, <1>6
  <2>2. MetaIndex \in Entities
    BY DEF Entities
  <2> HIDE DEF remote, started
  <2> QED BY <1>4, <1>6, <2>1, <2>2
<1>9. \A i \in remote : <<Entity(components[i].row), i>> \in waits
  OBVIOUS
<1>10. /\ kn = known \union (wanted \intersect local) /\ started = inProgress \union
             (IF netmode = "Online" THEN wanted ELSE {})
  BY DEF LoadedBy, StartedBy
<1>11. /\ known \subseteq kn /\ kn \subseteq known \union local /\ kn \subseteq Entities
       /\ started \subseteq Entities
  <2> HIDE DEF kn, started, wanted
  <2> QED BY <1>5, <1>10, TaskStarts
<1> HIDE DEF wanted, kn, started, remote, lacking, waits
<1>12. ASSUME NEW i \in Rows
       PROVE  /\ next(i) \in Component /\ next(i).row.uid = components[i].row.uid
              /\ next(i).row.version = components[i].row.version
              /\ i \in Needed => next(i).meta = components[i].row.version
              /\ disturbed \/ RowSound(next(i), kn, patches)
              /\ i \notin remote /\ (i \notin Needed \/ Entity(components[i].row) \in kn) =>
                    disturbed \/ Ready(next(i), kn)
  BY <1>11, TaskStarts, LoadComponentSound
<1> HIDE DEF next
<1>13. /\ components' \in Seq(Component) /\ Rows' = Rows
       /\ \A i \in Rows : components'[i] = next(i)
  <2>1. components' = [i \in 1..Len(components) |-> next(i)]
    BY <1>1, <1>3
  <2>2. \A i \in 1..Len(components) : next(i) \in Component
    BY <1>3, <1>12
  <2> QED BY <1>3, <2>1, <2>2 DEF Rows
<1>14. \A i \in Rows : Entity(components'[i].row) = Entity(components[i].row)
  BY <1>12, <1>13 DEF Entity
<1>15. ListConsistent'
  BY <1>1, <1>12, <1>13, TaskStarts, SameRows
<1>16. RowsSound'
  BY <1>1, <1>12, <1>13 DEF RowsSound
<1>17. CleanMeansSaved' /\ dirty' \in BOOLEAN
  <2>1. CASE Persist(components') = Persist(components)
    BY <1>1, <2>1, TaskStarts, Unscheduled
  <2>2. CASE Persist(components') # Persist(components)
    BY <1>1, <2>2, TaskStarts, Scheduled
  <2> QED BY <2>1, <2>2
<1>18. OnlyServed'
  BY <1>1, <1>11, TaskStarts DEF OnlyServed
<1>19. DiskUnique'
  BY <1>1 DEF ListInv, DiskUnique
<1>20. lacking = {} => \A i \in Rows : disturbed \/ Ready(components'[i], kn) \/ i \in remote
  BY <1>7, <1>12, <1>13
<1>21. CASE /\ lacking # {}
            /\ Finish("Failed") /\ dangling' = dangling \union {s[1] : s \in waits}
  <2>1. /\ phase' = "idle" /\ m_profile' = NoProfile /\ signal' = "Failed" /\ slots' = {}
        /\ UNCHANGED <<netmode, checkOnly, remoteOk, todo>>
    BY <1>21 DEF Finish
  <2>4. dangling' \subseteq Entities
    BY <1>8, <1>21 DEF ListInv, PackTypeOK
  <2>2. SlotsFitRows' /\ TaskSound' /\ SignalSound'
    BY <2>1 DEF SlotsFitRows, TaskSound, WaitSound, SignalSound
  <2>3. PackTypeOK'
    BY <1>1, <1>11, <1>13, <1>17, <2>1, <2>4 DEF ListInv, PackTypeOK
  <2> QED BY <1>15, <1>16, <1>17, <1>18, <1>19, <2>2, <2>3 DEF ListInv, ListKept
<1>22. CASE /\ lacking = {} /\ waits # {}
            /\ phase' = "wait" /\ slots' = waits /\ remoteOk' = TRUE
            /\ UNCHANGED <<netmode, checkOnly, todo, dangling, m_profile, signal>>
  <2>1. SlotsFitRows'
    BY <1>1, <1>6, <1>8, <1>13, <1>14, <1>22 DEF SlotsFitRows
  <2>2. \A s \in slots' : s[2] # 0 => Pending(components'[s[2]])
    BY <1>6, <1>8, <1>12, <1>13, <1>22 DEF Pending
  <2>3. \A i \in Rows' : \/ disturbed \/ Ready(components'[i], known')
                         \/ <<Entity(components'[i].row), i>> \in slots'
    BY <1>1, <1>9, <1>13, <1>14, <1>20, <1>22
  <2>4. TaskSound'
    BY <1>1, <1>22, <2>2, <2>3 DEF TaskSound, WaitSound, Awaits
  <2>5. SignalSound'
    BY <1>2, <1>22 DEF SignalSound
  <2>6. slots' \subseteq Entities \X Nat
    BY <1>8, <1>22
  <2>7. PackTypeOK'
    BY <1>1, <1>11, <1>13, <1>17, <1>22, <2>6 DEF ListInv, PackTypeOK
  <2> QED BY <1>15, <1>16, <1>17, <1>18, <1>19, <2>1, <2>4, <2>5, <2>7 DEF ListInv, ListKept
<1>23. CASE /\ lacking = {} /\ waits = {}
            /\ phase' = "resolve" /\ checkOnly' = (netmode = "Offline")
            /\ UNCHANGED <<netmode, slots, remoteOk, todo, dangling, m_profile, signal>>
  <2>1. AllReady'
    BY <1>1, <1>9, <1>13, <1>20, <1>23 DEF AllReady
  <2>2. SlotsFitRows' /\ TaskSound' /\ SignalSound'
    BY <1>2, <1>23, <2>1 DEF SlotsFitRows, TaskSound, WaitSound, SignalSound
  <2>3. PackTypeOK'
    BY <1>1, <1>11, <1>13, <1>17, <1>23 DEF ListInv, PackTypeOK
  <2> QED BY <1>15, <1>16, <1>17, <1>18, <1>19, <2>2, <2>3 DEF ListInv, ListKept
<1> QED BY <1>1, <1>21, <1>22, <1>23

LEMMA TaskKeeps ==
    ASSUME Constants, ListInv, Task PROVE ListInv'
BY LoadComponentsKeeps, RemoveOrphanKeeps, ResolveFailedKeeps, ResolveSucceededKeeps,
   ResolveChangesKeeps, InsertDependencyKeeps, LoadAgainKeeps DEF Task

\* A row whose metadata arrived.
LEMMA ArrivalSound ==
    ASSUME Constants, NEW kn, NEW pt, NEW c \in Component
    PROVE  LET d == UpdateCachedData([c EXCEPT !.loaded = TRUE], kn)
           IN  /\ d \in Component /\ d.row.uid = c.row.uid /\ d.row.version = c.row.version
               /\ Pending(c) /\ Entity(c.row) \in kn /\ c.row.version # 0 =>
                     Pending(d) /\ Ready(d, kn) /\ RowSound(d, kn, pt)
<1> DEFINE b == [c EXCEPT !.loaded = TRUE]
           d == UpdateCachedData(b, kn)
<1>1. b \in Component /\ b.row = c.row /\ b.meta = c.meta /\ b.file = c.file /\ b.loaded
  BY DEF Component
<1> HIDE DEF b
<1>2. /\ d \in Component /\ d.loaded = b.loaded /\ d.file = b.file /\ d.meta = b.meta
      /\ d.row.uid = b.row.uid /\ d.row.version = b.row.version
  BY <1>1, UpdateCachedDataKeeps
<1>3. ASSUME Pending(c), Entity(c.row) \in kn, c.row.version # 0
      PROVE  Pending(d) /\ Ready(d, kn) /\ RowSound(d, kn, pt)
  <2>1. Shown(b, kn)
    <3>1. CASE c.meta = c.row.version
      BY <1>1, <1>3, <3>1 DEF Shown, VersionFile, MetaOf, Entity
    <3>2. CASE c.meta = 0 /\ IsCustom(c)
      BY <1>1, <3>2 DEF Shown, VersionFile, IsCustom
    <3> QED BY <1>3, <3>1, <3>2 DEF Pending
  <2>2. Ready(d, kn)
    BY <1>1, <2>1, UpdateCachedDataSays
  <2> HIDE DEF d
  <2> QED BY <1>1, <1>2, <1>3, <2>2 DEF Pending, IsCustom, RowSound, Ready
<1> HIDE DEF d
<1> QED BY <1>1, <1>2, <1>3 DEF b, d

\* What a task asks for when it looks at rows of the list is metadata of packages.
LEMMA AskedOfRows ==
    ASSUME ListInv, NEW rows, rows \subseteq Rows
    PROVE  Asked([i \in rows |-> components[i]]) \subseteq Entities
<1> DEFINE cs == [i \in rows |-> components[i]]
<1>1. \A i \in rows : components[i] \in Component /\ components[i].row.uid \in Uids
  BY TaskStarts
<1>2. \A i \in rows : MetaOf(components[i]) \in Entities
  BY <1>1 DEF MetaOf, Entities, Component
<1>3. DOMAIN cs = rows /\ \A i \in rows : cs[i] = components[i]
  OBVIOUS
<1> HIDE DEF cs
<1>4. Asked(cs) \subseteq Entities
  BY <1>2, <1>3 DEF Asked
<1> QED BY <1>4 DEF cs

\* A download of metadata ends: the rows that wait for it show it, unless they were
\* disturbed.
LEMMA MetaEndsKeeps ==
    ASSUME Constants, ListInv, NEW e \in inProgress, NEW ok \in BOOLEAN, MetaEnds(e, ok)
    PROVE  ListInv' /\ Quiet
<1> DEFINE rows  == IF ok THEN Target(e) ELSE {}
           asked == Asked([i \in rows |-> components[i]]) \ {e}
           kn    == known \union (IF ok THEN {e} ELSE {}) \union (asked \intersect local)
           mine  == Awaiting(e)
           left  == slots \ mine
           arrived(c) == UpdateCachedData([c EXCEPT !.loaded = TRUE], kn)
           next(i) == IF i \in rows THEN arrived(components[i]) ELSE components[i]
<1>1. /\ Quiet /\ (ok => e = MetaIndex \/ e \in Served) /\ rows \subseteq Rows
      /\ known' = kn /\ inProgress' = (inProgress \ {e}) \union asked
      /\ local' = IF ok THEN local \union {e} ELSE local
      /\ components' = [i \in Rows |-> next(i)]
      /\ IF Persist(components') = Persist(components) THEN UNCHANGED dirty ELSE ScheduleSave
      /\ dangling' = dangling \ {e}
      /\ IF phase = "wait" /\ mine # {}
         THEN RemoteLoadsEnded(left, remoteOk /\ ok)
         ELSE UNCHANGED <<phase, netmode, checkOnly, slots, remoteOk, todo, m_profile, signal>>
      /\ UNCHANGED <<indexed, loaded, disk, lost, patches, disturbed, edits>>
  BY DEF MetaEnds, Arrived, fileVars
<1>2. /\ signal = "none" /\ phase \in {"idle", "wait"} /\ inProgress \subseteq Entities
      /\ known \subseteq Entities /\ local \subseteq Entities /\ OnlyServed
      /\ slots \subseteq Entities \X Nat /\ dangling \subseteq Entities
  BY <1>1 DEF Quiet, ListInv, PackTypeOK
<1>3. Rows = 1..Len(components) /\ Len(components) \in Nat
  BY TaskStarts DEF Rows
<1>4. /\ \A s \in slots : /\ phase = "wait" /\ s[1] \in inProgress
                          /\ \/ disturbed \/ s[2] = 0
                             \/ s[2] \in Rows /\ s[1] = Entity(components[s[2]].row)
      /\ \A s \in slots : disturbed \/ s[2] = 0 \/ Pending(components[s[2]])
  BY DEF ListInv, SlotsFitRows, TaskSound, WaitSound
<1>5. asked \subseteq Entities /\ e \notin asked
  BY <1>1, AskedOfRows
<1>6. \A s : s \in mine <=> s \in slots /\ s[1] = e
  BY DEF Awaiting
<1>7. ASSUME NEW i \in rows PROVE ok /\ i # 0 /\ \E s \in mine : s[2] = i
  BY <1>7 DEF Target
<1>8. ASSUME NEW i \in Rows, ok, <<e, i>> \in slots PROVE i \in rows
  <2>1. <<e, i>> \in mine /\ i # 0
    BY <1>3, <1>6, <1>8
  <2> QED BY <1>8, <2>1 DEF Target
<1> HIDE DEF asked, rows, mine, left
<1>9. /\ known \subseteq kn /\ kn \subseteq Entities /\ (ok => e \in kn)
      /\ kn \union local' \subseteq known \union local \union (IF ok THEN {e} ELSE {})
  BY <1>1, <1>2, <1>5
<1>10. OnlyServed'
  BY <1>1, <1>2, <1>9 DEF OnlyServed
<1>11. /\ known' \subseteq Entities /\ inProgress' \subseteq Entities /\ local' \subseteq Entities
       /\ dangling' \subseteq Entities
  BY <1>1, <1>2, <1>5, <1>9
<1> HIDE DEF kn
<1>12. ASSUME NEW i \in rows
       PROVE  disturbed \/ (/\ Pending(components[i]) /\ e = Entity(components[i].row)
                            /\ e \in kn /\ components[i].row.version # 0)
  <2>1. PICK s \in slots : s[1] = e /\ s[2] = i /\ i # 0 /\ ok /\ i \in Rows
    BY <1>1, <1>6, <1>7
  <2>2. disturbed \/ (Pending(components[i]) /\ e = Entity(components[i].row))
    BY <1>4, <2>1
  <2>3. ASSUME e = Entity(components[i].row) PROVE components[i].row.version # 0
    <3>1. components[i].row.uid \in Uids /\ components[i].row.version \in Maybe
      BY <2>1, TaskStarts
    <3>2. <<components[i].row.uid, components[i].row.version>> \in {MetaIndex} \union Served
      BY <1>1, <1>9, <1>10, <2>1, <2>3 DEF OnlyServed, Entity
    <3> QED BY <3>1, <3>2 DEF Constants, ServerAssumption, DiskAssumption, VersionAssumption
  <2> QED BY <1>9, <2>1, <2>2, <2>3
<1>13. ASSUME NEW i \in Rows
       PROVE  /\ next(i) \in Component /\ next(i).row.uid = components[i].row.uid
              /\ next(i).row.version = components[i].row.version
              /\ disturbed \/ /\ RowSound(next(i), kn, patches)
                              /\ Upheld(components[i], next(i), known, kn)
                              /\ i \in rows => Ready(next(i), kn)
  <2> DEFINE c == components[i]
  <2>1. c \in Component /\ (disturbed \/ RowSound(c, known, patches))
    BY TaskStarts
  <2>2. CASE i \in rows
    <3>1. next(i) = arrived(c)
      BY <2>2
    <3>2. disturbed \/ (Pending(c) /\ Entity(c.row) \in kn /\ c.row.version # 0)
      BY <1>12, <2>2
    <3> HIDE DEF next, c
    <3>3. LET d == arrived(c)
          IN  /\ d \in Component /\ d.row.uid = c.row.uid /\ d.row.version = c.row.version
              /\ Pending(c) /\ Entity(c.row) \in kn /\ c.row.version # 0 =>
                    Pending(d) /\ Ready(d, kn) /\ RowSound(d, kn, patches)
      BY <2>1, ArrivalSound
    <3> HIDE DEF arrived
    <3> QED BY <3>1, <3>2, <3>3 DEF c, Upheld, Entity
  <2>3. CASE i \notin rows
    <3>1. next(i) = c
      BY <2>3
    <3> HIDE DEF next, c
    <3>2. Upheld(c, c, known, kn) /\ (RowSound(c, known, patches) => RowSound(c, kn, patches))
      BY <1>9, SameUpheld, SoundMonotone
    <3> QED BY <2>1, <2>3, <3>1, <3>2 DEF c
  <2> QED BY <2>2, <2>3
<1> HIDE DEF next
<1>14. /\ components' \in Seq(Component) /\ Rows' = Rows
       /\ \A i \in Rows : components'[i] = next(i)
  <2>1. components' = [i \in 1..Len(components) |-> next(i)]
    BY <1>1, <1>3
  <2>2. \A i \in 1..Len(components) : next(i) \in Component
    BY <1>3, <1>13
  <2> QED BY <1>3, <2>1, <2>2 DEF Rows
<1>15. \A i \in Rows :
          /\ Entity(components'[i].row) = Entity(components[i].row)
          /\ disturbed \/ Upheld(components[i], components'[i], known, known')
          /\ i \in rows => disturbed \/ Ready(components'[i], known')
  BY <1>1, <1>13, <1>14 DEF Entity
<1>16. ListConsistent'
  BY <1>1, <1>13, <1>14, TaskStarts, SameRows
<1>17. RowsSound'
  <2>1. \A i \in Rows' : disturbed' \/ RowSound(components'[i], known', patches')
    BY <1>1, <1>13, <1>14
  <2> QED BY <2>1 DEF RowsSound
<1>18. CleanMeansSaved' /\ dirty' \in BOOLEAN
  <2>1. CASE Persist(components') = Persist(components)
    BY <1>1, <2>1, TaskStarts, Unscheduled
  <2>2. CASE Persist(components') # Persist(components)
    BY <1>1, <2>2, TaskStarts, Scheduled
  <2> QED BY <2>1, <2>2
<1>19. DiskUnique'
  BY <1>1 DEF ListInv, DiskUnique
\* The loads that are left, if any, are as they were.
<1>20. \A s \in left : /\ s \in slots /\ phase = "wait" /\ s[1] \in inProgress'
                       /\ \/ disturbed \/ s[2] = 0
                          \/ s[2] \in Rows' /\ s[1] = Entity(components'[s[2]].row)
  BY <1>1, <1>4, <1>6, <1>14, <1>15 DEF left
<1>21. \A s \in left : disturbed \/ s[2] = 0 \/ Pending(components'[s[2]])
  BY <1>4, <1>15 DEF left, Upheld
<1>22. remoteOk /\ phase = "wait" =>
          \A i \in Rows : \/ disturbed \/ Ready(components'[i], known')
                          \/ <<Entity(components'[i].row), i>> \in left
                          \/ ~ok /\ <<Entity(components'[i].row), i>> \in mine
  <2> SUFFICES ASSUME remoteOk, phase = "wait", ~disturbed, NEW i \in Rows
               PROVE  \/ Ready(components'[i], known')
                      \/ <<Entity(components'[i].row), i>> \in left
                      \/ ~ok /\ <<Entity(components'[i].row), i>> \in mine
    OBVIOUS
  <2>1. Ready(components[i], known) \/ <<Entity(components[i].row), i>> \in slots
    BY DEF ListInv, TaskSound, WaitSound, Awaits
  <2>2. CASE Ready(components[i], known)
    BY <1>15, <2>2 DEF Upheld
  <2>3. CASE <<Entity(components[i].row), i>> \in slots /\ Entity(components[i].row) = e
    <3>1. ok => i \in rows
      BY <1>8, <2>3
    <3>2. <<Entity(components'[i].row), i>> \in mine
      BY <1>6, <1>15, <2>3
    <3> QED BY <1>15, <3>1, <3>2
  <2>4. CASE <<Entity(components[i].row), i>> \in slots /\ Entity(components[i].row) # e
    BY <1>6, <1>15, <2>4 DEF left
  <2> QED BY <2>1, <2>2, <2>3, <2>4
<1>23. CASE phase = "wait" /\ mine # {}
  <2>1. RemoteLoadsEnded(left, remoteOk /\ ok)
    BY <1>1, <1>23
  <2>2. left \subseteq Entities \X Nat /\ remoteOk \in BOOLEAN
    BY <1>2 DEF ListInv, PackTypeOK, left
  <2>3. CASE /\ left # {} /\ slots' = left /\ remoteOk' = (remoteOk /\ ok)
             /\ UNCHANGED <<phase, netmode, checkOnly, todo, m_profile, signal>>
    <3>1. SlotsFitRows'
      BY <1>1, <1>20, <1>23, <2>3 DEF SlotsFitRows
    <3>2. \A i \in Rows' : remoteOk' => disturbed \/ Ready(components'[i], known') \/ Awaits(i)'
      BY <1>14, <1>22, <1>23, <2>3 DEF Awaits
    <3>3. TaskSound'
      BY <1>1, <1>21, <1>23, <2>3, <3>2 DEF TaskSound, WaitSound
    <3>4. SignalSound'
      BY <1>2, <2>3 DEF SignalSound
    <3>5. PackTypeOK'
      BY <1>1, <1>11, <1>14, <1>18, <2>2, <2>3 DEF ListInv, PackTypeOK
    <3> QED BY <1>1, <1>10, <1>16, <1>17, <1>18, <1>19, <3>1, <3>3, <3>4, <3>5
            DEF ListInv, ListKept
  <2>4. CASE /\ left = {} /\ remoteOk /\ ok /\ phase' = "resolve" /\ checkOnly' = FALSE
             /\ slots' = {} /\ remoteOk' = TRUE
             /\ UNCHANGED <<netmode, todo, m_profile, signal>>
    <3>1. AllReady'
      BY <1>1, <1>14, <1>22, <1>23, <2>4 DEF AllReady
    <3>2. SlotsFitRows' /\ TaskSound' /\ SignalSound'
      BY <1>2, <2>4, <3>1 DEF SlotsFitRows, TaskSound, WaitSound, SignalSound
    <3>3. PackTypeOK'
      BY <1>1, <1>11, <1>14, <1>18, <2>4 DEF ListInv, PackTypeOK
    <3> QED BY <1>1, <1>10, <1>16, <1>17, <1>18, <1>19, <3>2, <3>3 DEF ListInv, ListKept
  <2>5. CASE left = {} /\ Finish("Failed")
    <3>1. /\ phase' = "idle" /\ m_profile' = NoProfile /\ signal' = "Failed" /\ slots' = {}
          /\ UNCHANGED <<netmode, checkOnly, remoteOk, todo>>
      BY <2>5 DEF Finish
    <3>2. SlotsFitRows' /\ TaskSound' /\ SignalSound'
      BY <3>1 DEF SlotsFitRows, TaskSound, WaitSound, SignalSound
    <3>3. PackTypeOK'
      BY <1>1, <1>11, <1>14, <1>18, <3>1 DEF ListInv, PackTypeOK
    <3> QED BY <1>1, <1>10, <1>16, <1>17, <1>18, <1>19, <3>2, <3>3 DEF ListInv, ListKept
  <2> QED BY <2>1, <2>3, <2>4, <2>5 DEF RemoteLoadsEnded
<1>24. CASE ~ (phase = "wait" /\ mine # {})
  <2>1. UNCHANGED <<phase, netmode, checkOnly, slots, remoteOk, todo, m_profile, signal>>
    BY <1>1, <1>24
  <2>2. mine = {} /\ slots = left
    BY <1>4, <1>6, <1>24 DEF left
  <2>3. SlotsFitRows'
    BY <1>1, <1>20, <2>1, <2>2 DEF SlotsFitRows
  <2>4. WaitSound'
    BY <1>1, <1>14, <1>21, <1>22, <2>1, <2>2 DEF WaitSound, Awaits
  <2>5. TaskSound'
    <3>1. phase = "wait" <=> slots # {}
      BY DEF ListInv, TaskSound
    <3> QED BY <1>2, <2>1, <2>4, <3>1 DEF TaskSound
  <2>6. SignalSound'
    BY <1>2, <2>1 DEF SignalSound
  <2>7. PackTypeOK'
    BY <1>1, <1>11, <1>14, <1>18, <2>1 DEF ListInv, PackTypeOK
  <2> QED BY <1>1, <1>10, <1>16, <1>17, <1>18, <1>19, <2>3, <2>5, <2>6, <2>7
          DEF ListInv, ListKept
<1> QED BY <1>1, <1>23, <1>24

-----------------------------------------------------------------------------
(* The update of the game.                                                   *)

\* The list moves and the update waits.
LEMMA ListMoves ==
    ASSUME IInv, ListInv', u_step = "none", UNCHANGED updVars PROVE IInv'
<1>1. UNCHANGED <<u_state, u_mode, u_step, m_tasks, current, job, m_abort, applied, updates>>
  BY DEF updVars
<1>2. PackTypeOK'
  BY DEF ListInv
<1>3. TypeOK' /\ AbortedStops' /\ AbortFits'
  BY <1>1, <1>2 DEF IInv, UpdateInv, TypeOK, AbortedStops, AbortFits
<1>4. JobFits' /\ StepFits' /\ ProfileFresh' /\ NextReady'
  BY <1>1 DEF IInv, UpdateInv, JobFits, CurrentTask, StepFits, ProfileFresh, NextReady
<1> QED BY <1>3, <1>4 DEF IInv, UpdateInv

LEMMA TaskStep ==
    ASSUME Constants, IInv, Task, UNCHANGED updVars PROVE IInv'
<1>1. ListInv /\ ListInv'
  BY TaskKeeps DEF IInv
<1>2. UNCHANGED <<u_state, u_mode, u_step, m_tasks, current, job, m_abort, applied, updates>>
  BY DEF updVars
<1>3. phase \in {"load", "resolve", "inject"}
  BY DEF Task, LoadComponents, RemoveOrphan, ResolveFailed, ResolveSucceeded,
         ResolveChanges, InsertDependency, LoadAgain
<1>4. u_step # "next"
  BY <1>3 DEF IInv, UpdateInv, StepFits
<1>5. m_profile = NoProfile /\ phase' # "wait" => m_profile' = NoProfile
  <2>1. CASE LoadComponents
    BY <2>1 DEF LoadComponents, Finish
  <2>2. CASE RemoveOrphan
    BY <2>2 DEF RemoveOrphan, RemoveRow
  <2>3. CASE ResolveFailed \/ ResolveSucceeded
    BY <2>3 DEF ResolveFailed, ResolveSucceeded, Finish
  <2>4. CASE ResolveChanges \/ InsertDependency \/ LoadAgain
    BY <2>4 DEF ResolveChanges, InsertDependency, LoadAgain
  <2> QED BY <2>1, <2>2, <2>3, <2>4 DEF Task
<1>6. TypeOK' /\ AbortedStops' /\ AbortFits' /\ JobFits'
  BY <1>1, <1>2 DEF IInv, ListInv, UpdateInv, TypeOK, AbortedStops, AbortFits, JobFits, CurrentTask
<1>7. StepFits' /\ NextReady'
  BY <1>2, <1>4 DEF IInv, UpdateInv, StepFits, NextReady
<1>8. ProfileFresh'
  BY <1>2, <1>3, <1>4, <1>5 DEF IInv, UpdateInv, ProfileFresh
<1> QED BY <1>1, <1>6, <1>7, <1>8 DEF IInv, UpdateInv

LEMMA EventStep ==
    ASSUME Constants, IInv, u_step = "none", Metadata \/ EditList \/ SaveTimer,
           UNCHANGED updVars
    PROVE  IInv'
<1>1. ListInv
  BY DEF IInv
<1>2. ListInv'
  BY <1>1, MetaEndsKeeps, EditKeeps, SaveTimerKeeps DEF Metadata, EditList
<1> QED BY <1>2, ListMoves

\* The launcher ends, or crashes: there is no update any more.
LEMMA RestartStep ==
    ASSUME Constants, IInv, RestartLauncher \/ CrashLauncher PROVE IInv'
<1>1. /\ u_state' = "Inactive" /\ u_step' = "none" /\ job' = "none"
      /\ m_tasks' = << >> /\ current' = 0 /\ m_abort' = FALSE /\ applied' = {}
      /\ UNCHANGED <<u_mode, updates>>
  BY DEF RestartLauncher, CrashLauncher, NoUpdate
<1>2. ListInv'
  BY RestartKeeps, CrashKeeps DEF IInv, RestartLauncher, CrashLauncher
<1>3. TypeOK'
  <2>1. PackTypeOK' /\ u_mode \in {"Online", "Offline"} /\ updates \in 0..MaxUpdates
    BY <1>2 DEF ListInv, IInv, UpdateInv, TypeOK
  <2>2. current' \in 0..6 /\ m_tasks' \in {<< >>, Always, WithComponents, <<"components">>}
    BY <1>1
  <2>3. job' \in Jobs \union {"none"} /\ u_state' \in {"Inactive", "Running", "Succeeded", "Failed"}
    BY <1>1
  <2> QED BY <1>1, <2>1, <2>2, <2>3 DEF TypeOK
<1>4. AbortedStops' /\ JobFits' /\ StepFits' /\ AbortFits' /\ ProfileFresh' /\ NextReady'
  BY <1>1 DEF AbortedStops, JobFits, StepFits, AbortFits, ProfileFresh, NextReady
<1> QED BY <1>2, <1>3, <1>4 DEF IInv, UpdateInv

LEMMA StartStep ==
    ASSUME Constants, IInv, NEW mode \in {"Online", "Offline"}, Start(mode) PROVE IInv'
<1>1. /\ Quiet /\ u_step = "none" /\ u_state # "Running" /\ updates < MaxUpdates
      /\ u_state' = "Running" /\ u_mode' = mode /\ u_step' = "collect"
      /\ current' = 0 /\ m_tasks' = << >> /\ m_abort' = FALSE /\ applied' = {}
      /\ updates' = updates + 1 /\ Reload(mode) /\ UNCHANGED <<job, edits>>
  BY DEF Start, Settled
<1>2. job = "none"
  BY <1>1 DEF IInv, UpdateInv, JobFits
<1>3. edits' \in 0..MaxEdits
  BY <1>1 DEF IInv, ListInv, PackTypeOK
<1>4. ListInv' /\ (phase' # "wait" => m_profile' = NoProfile)
  BY <1>1, <1>3, ReloadKeeps DEF IInv
<1>5. updates' \in 0..MaxUpdates
  BY <1>1 DEF IInv, UpdateInv, TypeOK, Constants, UpdatesAssumption
<1>6. TypeOK'
  <2>1. PackTypeOK'
    BY <1>4 DEF ListInv
  <2>2. current' \in 0..6 /\ m_tasks' \in {<< >>, Always, WithComponents, <<"components">>}
    BY <1>1
  <2>3. job' \in Jobs \union {"none"} /\ u_state' \in {"Inactive", "Running", "Succeeded", "Failed"}
    BY <1>1, <1>2
  <2> QED BY <1>1, <1>5, <2>1, <2>2, <2>3 DEF TypeOK
<1>7. AbortedStops' /\ JobFits' /\ StepFits' /\ AbortFits' /\ ProfileFresh' /\ NextReady'
  BY <1>1, <1>2, <1>4 DEF AbortedStops, JobFits, StepFits, AbortFits, ProfileFresh, NextReady
<1> QED BY <1>4, <1>6, <1>7 DEF IInv, UpdateInv

\* Only the signal of the component task goes.
LEMMA SignalTaken ==
    ASSUME ListInv, signal' = "none",
           UNCHANGED <<components, indexed, loaded, dirty, fileVars, patches, m_profile,
                       metaVars, phase, taskVars, edits>>
    PROVE  ListInv'
<1>1. UNCHANGED <<components, indexed, loaded, dirty, disk, lost, patches, m_profile, known,
                  local, inProgress, phase, netmode, checkOnly, slots, remoteOk, todo,
                  dangling, disturbed, edits>>
  BY DEF fileVars, metaVars, taskVars, loadVars
<1>2. PackTypeOK'
  BY <1>1 DEF ListInv, PackTypeOK
<1>3. ListKept' /\ DiskUnique' /\ SlotsFitRows' /\ OnlyServed' /\ RowsSound'
  BY <1>1 DEF ListInv, ListKept, ListConsistent, UniqueRows, CleanMeansSaved,
              DiskUnique, SlotsFitRows, OnlyServed, RowsSound, Rows
<1>4. TaskSound' /\ SignalSound'
  BY <1>1 DEF ListInv, TaskSound, WaitSound, AllReady, Awaits, SignalSound, Rows
<1> QED BY <1>2, <1>3, <1>4 DEF ListInv

LEMMA CollectStep ==
    ASSUME Constants, IInv, Collect PROVE IInv'
<1>1. /\ u_step = "collect" /\ phase \in {"idle", "wait"} /\ signal' = "none"
      /\ \/ /\ u_mode = "Online"
            /\ m_tasks' = IF phase = "wait" THEN WithComponents ELSE Always
            /\ u_step' = "next" /\ UNCHANGED <<u_state, current, job>>
         \/ /\ u_mode = "Offline" /\ phase = "wait"
            /\ m_tasks' = <<"components">> /\ current' = 1 /\ u_step' = "none"
            /\ UNCHANGED <<u_state, job>>
         \/ /\ u_mode = "Offline" /\ phase = "idle"
            /\ u_state' = "Succeeded" /\ u_step' = "none" /\ job' = "none"
            /\ UNCHANGED <<m_tasks, current>>
      /\ UNCHANGED <<components, indexed, loaded, dirty, fileVars, patches, m_profile,
                     metaVars, phase, taskVars, edits>>
      /\ UNCHANGED <<u_mode, m_abort, applied, updates>>
  BY DEF Collect, Verdict
<1>2. ListInv'
  BY <1>1, SignalTaken DEF IInv
<1>3. /\ u_state = "Running" /\ m_tasks = << >> /\ current = 0 /\ ~m_abort /\ job = "none"
      /\ phase # "wait" => m_profile = NoProfile
  BY <1>1 DEF IInv, UpdateInv, StepFits, JobFits, ProfileFresh
<1>4. TypeOK'
  BY <1>1, <1>2, <1>3 DEF IInv, UpdateInv, TypeOK, ListInv
<1>5. AbortedStops' /\ JobFits' /\ StepFits' /\ AbortFits'
  BY <1>1, <1>3 DEF AbortedStops, JobFits, StepFits, AbortFits
<1>6. Always # WithComponents /\ Always # <<"components">>
  BY DEF Always, WithComponents
<1>7. u_step' = "next" => current' = 0 /\ (m_tasks' = Always => m_profile' = NoProfile)
  BY <1>1, <1>3, <1>6
<1>8. ProfileFresh'
  BY <1>1, <1>7 DEF ProfileFresh
<1>9. u_step' = "next" => CurrentTask' = "none"
  <2>1. ASSUME u_step' = "next" PROVE 0 \notin DOMAIN m_tasks'
    BY <1>1, <2>1 DEF Always, WithComponents
  <2> QED BY <1>7, <2>1 DEF CurrentTask
<1>10. NextReady'
  BY <1>9 DEF NextReady
<1> QED BY <1>2, <1>4, <1>5, <1>8, <1>10 DEF IInv, UpdateInv

\* Which subtask stands where.
LEMMA TaskOrder ==
    ASSUME m_tasks \in {<< >>, Always, WithComponents, <<"components">>}, current \in 0..6,
           current < Len(m_tasks)
    PROVE  LET t == m_tasks[current + 1]
           IN  /\ current + 1 \in 1..5 /\ current + 1 \in DOMAIN m_tasks
               /\ t = "folders" => current = 0
               /\ t = "libraries" => \/ m_tasks = Always /\ current = 1
                                     \/ m_tasks = WithComponents /\ current = 2
               /\ t = "fml" => \/ m_tasks = Always /\ current = 2
                               \/ m_tasks = WithComponents /\ current = 3
<1>1. CASE m_tasks = << >>
  BY <1>1
<1>2. CASE m_tasks = Always
  BY <1>2 DEF Always
<1>3. CASE m_tasks = WithComponents
  BY <1>3 DEF WithComponents
<1>4. CASE m_tasks = <<"components">>
  BY <1>4
<1> QED BY <1>1, <1>2, <1>3, <1>4

LEMMA ListsDiffer ==
    /\ Always # WithComponents /\ Always # <<"components">> /\ WithComponents # <<"components">>
    /\ Always # << >> /\ WithComponents # << >>
BY DEF Always, WithComponents

\* A subtask leaves the list as it is, and may ask for the launch profile.
LEMMA ListRests ==
    ASSUME Constants, ListInv, signal = "none", UNCHANGED packFixed,
           GetProfile \/ UNCHANGED <<m_profile, metaVars>>
    PROVE  ListInv'
<1>1. UNCHANGED <<components, indexed, loaded, dirty, disk, lost, patches, phase,
                  netmode, checkOnly, slots, remoteOk, todo, dangling, disturbed,
                       signal, edits>>
  BY DEF packFixed, fileVars, taskVars, loadVars
<1>2. CASE GetProfile
  BY <1>1, <1>2, GetProfileKeeps
<1>3. CASE UNCHANGED <<m_profile, metaVars>>
  <2>1. UNCHANGED <<known, local, inProgress>>
    BY <1>3 DEF metaVars
  <2>2. PackTypeOK'
    BY <1>1, <2>1 DEF ListInv, PackTypeOK
  <2>3. ListKept' /\ DiskUnique' /\ SlotsFitRows' /\ OnlyServed' /\ RowsSound'
    BY <1>1, <2>1 DEF ListInv, ListKept, ListConsistent, UniqueRows, CleanMeansSaved,
                      DiskUnique, SlotsFitRows, OnlyServed, RowsSound, Rows
  <2>4. TaskSound' /\ SignalSound'
    BY <1>1, <1>3, <2>1 DEF ListInv, TaskSound, WaitSound, AllReady, Awaits, SignalSound, Rows
  <2> QED BY <2>2, <2>3, <2>4 DEF ListInv
<1> QED BY <1>2, <1>3

\* What a subtask does to the update when it starts.
LEMMA TaskStarted ==
    ASSUME NEW t, StartTask(t)
    PROVE  /\ GetProfile \/ UNCHANGED <<m_profile, metaVars>>
           /\ \/ u_step' = "next" /\ job' = "none" /\ u_state' = u_state /\ t \in {"folders", "fml"}
              \/ /\ u_step' = "none" /\ u_state' = u_state
                 /\ \/ job' = job /\ t = "components"
                    \/ job' = t /\ t \in {"libraries", "fml"}
                    \/ job' = "index" /\ t = "assets"
              \/ u_step' = "none" /\ job' = "none" /\ u_state' = "Failed"
           /\ t = "folders" => m_profile' = m_profile
           /\ t # "libraries" => applied' = applied
           /\ t = "libraries" => GetProfile /\ applied' = m_profile'
<1>1. CASE t = "folders" /\ FoldersTask
  BY <1>1 DEF FoldersTask, Proceed, Verdict
<1>2. CASE t = "components" /\ ComponentTask
  BY <1>2 DEF ComponentTask
<1>3. CASE t = "libraries" /\ LibrariesTask
  BY <1>3 DEF LibrariesTask, Work, Verdict
<1>4. CASE t = "fml" /\ FMLLibrariesTask
  BY <1>4 DEF FMLLibrariesTask, Work, Proceed
<1>5. CASE t = "assets" /\ AssetUpdateTask
  BY <1>5 DEF AssetUpdateTask, Work
<1> QED BY <1>1, <1>2, <1>3, <1>4, <1>5 DEF StartTask

LEMMA NextTaskStep ==
    ASSUME Constants, IInv, NextTask PROVE IInv'
<1>1. /\ u_step = "next" /\ UNCHANGED packFixed /\ UNCHANGED <<u_mode, m_tasks, m_abort, updates>>
  BY DEF NextTask
<1>2. /\ u_state = "Running" /\ phase \in {"idle", "wait"} /\ signal = "none" /\ job = "none"
      /\ m_tasks \in {<< >>, Always, WithComponents, <<"components">>} /\ current \in 0..6
  BY <1>1 DEF IInv, UpdateInv, StepFits, JobFits, TypeOK
<1>3. phase' = phase /\ signal' = signal
  BY <1>1 DEF packFixed
<1>4. /\ AbortFits' /\ PackTypeOK /\ u_mode' \in {"Online", "Offline"} /\ m_abort' \in BOOLEAN
      /\ updates' \in 0..MaxUpdates
  BY <1>1 DEF IInv, UpdateInv, TypeOK, AbortFits
<1>5. CASE m_abort /\ Verdict("Failed") /\ UNCHANGED <<current, m_profile, metaVars, applied>>
  <2>1. u_state' = "Failed" /\ u_step' = "none" /\ job' = "none" /\ current' = current
    BY <1>5 DEF Verdict
  <2>2. ListInv'
    BY <1>1, <1>2, <1>5, ListRests DEF IInv
  <2>3. TypeOK'
    BY <1>1, <1>2, <1>4, <2>1, <2>2 DEF TypeOK, ListInv
  <2>4. AbortedStops' /\ JobFits' /\ StepFits' /\ ProfileFresh' /\ NextReady'
    BY <2>1 DEF AbortedStops, JobFits, StepFits, ProfileFresh, NextReady
  <2> QED BY <1>4, <2>2, <2>3, <2>4 DEF IInv, UpdateInv
<1>6. CASE /\ ~m_abort /\ current = Len(m_tasks) /\ current' = current + 1
           /\ Verdict("Succeeded") /\ UNCHANGED <<m_profile, metaVars, applied>>
  <2>1. u_state' = "Succeeded" /\ u_step' = "none" /\ job' = "none" /\ ~m_abort'
    BY <1>1, <1>6 DEF Verdict
  <2>2. ListInv'
    BY <1>1, <1>2, <1>6, ListRests DEF IInv
  <2>3. current' \in 0..6
    <3>1. Len(m_tasks) \in 0..5
      BY <1>2 DEF Always, WithComponents
    <3> QED BY <1>6, <3>1
  <2>4. TypeOK'
    BY <1>1, <1>2, <1>4, <2>1, <2>2, <2>3 DEF TypeOK, ListInv
  <2>5. AbortedStops' /\ JobFits' /\ StepFits' /\ ProfileFresh' /\ NextReady'
    BY <2>1 DEF AbortedStops, JobFits, StepFits, ProfileFresh, NextReady
  <2> QED BY <1>4, <2>2, <2>4, <2>5 DEF IInv, UpdateInv
<1>7. CASE /\ ~m_abort /\ current < Len(m_tasks) /\ current' = current + 1
           /\ StartTask(m_tasks[current + 1])
  <2> DEFINE t == m_tasks[current + 1]
  <2>1. /\ current + 1 \in 1..5 /\ current + 1 \in DOMAIN m_tasks
        /\ t = "folders" => current = 0
        /\ t = "fml" => \/ m_tasks = Always /\ current = 2
                        \/ m_tasks = WithComponents /\ current = 3
    BY <1>2, <1>7, TaskOrder
  <2>2. CurrentTask' = t
    BY <1>1, <1>7, <2>1 DEF CurrentTask
  <2>3. StartTask(t)
    BY <1>7
  <2> HIDE DEF t
  <2>4. /\ GetProfile \/ UNCHANGED <<m_profile, metaVars>>
        /\ \/ u_step' = "next" /\ job' = "none" /\ u_state' = u_state /\ t \in {"folders", "fml"}
           \/ /\ u_step' = "none" /\ u_state' = u_state
              /\ \/ job' = job /\ t = "components"
                 \/ job' = t /\ t \in {"libraries", "fml"}
                 \/ job' = "index" /\ t = "assets"
           \/ u_step' = "none" /\ job' = "none" /\ u_state' = "Failed"
        /\ t = "folders" => m_profile' = m_profile
    BY <2>3, TaskStarted
  <2>5. ListInv'
    BY <1>1, <1>2, <2>4, ListRests DEF IInv
  <2>6. JobFits' /\ AbortedStops'
    BY <1>1, <1>2, <1>7, <2>2, <2>4 DEF JobFits, AbortedStops
  <2>7. /\ u_step' \in {"next", "none"} /\ job' \in Jobs \union {"none"}
        /\ u_state' \in {"Running", "Failed"} /\ (u_step' = "next" => u_state' = "Running")
    BY <1>2, <2>4 DEF Jobs
  <2>8. TypeOK'
    BY <1>1, <1>2, <1>4, <1>7, <2>1, <2>5, <2>7 DEF TypeOK, ListInv
  <2>9. StepFits'
    BY <1>2, <1>3, <2>7 DEF StepFits
  <2>10. u_step' = "next" => t \in {"folders", "fml"}
    BY <2>4
  <2>11. NextReady'
    BY <2>2, <2>10 DEF NextReady
  <2>12. ProfileFresh'
    <3>1. u_step' # "collect"
      BY <2>7
    <3> SUFFICES ASSUME u_step' = "next",
                        \/ m_tasks' = Always /\ current' \in {0, 1}
                        \/ m_tasks' = WithComponents /\ current' = 2
                 PROVE  m_profile' = NoProfile
      BY <3>1 DEF ProfileFresh
    <3>2. CASE t = "fml"
      BY <1>1, <1>7, <2>1, <3>2, ListsDiffer
    <3>3. CASE t = "folders"
      <4>1. m_tasks = Always /\ current = 0
        BY <1>1, <1>7, <2>1, <3>3
      <4>2. m_profile = NoProfile
        BY <1>1, <4>1 DEF IInv, UpdateInv, ProfileFresh
      <4> QED BY <2>4, <3>3, <4>2
    <3> QED BY <2>10, <3>2, <3>3
  <2> QED BY <1>4, <2>5, <2>6, <2>8, <2>9, <2>11, <2>12 DEF IInv, UpdateInv
<1> QED BY <1>5, <1>6, <1>7 DEF NextTask

LEMMA DeliverStep ==
    ASSUME Constants, IInv, Deliver PROVE IInv'
<1>1. /\ signal # "none" /\ u_step = "none" /\ signal' = "none"
      /\ \/ /\ u_state = "Running" /\ CurrentTask = "components"
            /\ \/ signal = "Succeeded" /\ job' = "none" /\ u_step' = "next" /\ u_state' = u_state
               \/ /\ u_state' \in {"Succeeded", "Failed"} /\ u_step' = "none" /\ job' = "none"
                  /\ u_state' = "Succeeded" => u_mode = "Offline"
         \/ UNCHANGED <<u_state, u_step, job>>
      /\ UNCHANGED <<components, indexed, loaded, dirty, fileVars, patches, m_profile,
                     metaVars, phase, taskVars, edits>>
      /\ UNCHANGED <<u_mode, m_tasks, current, m_abort, applied, updates>>
  BY DEF Deliver, Proceed, Verdict
<1>2. ListInv'
  BY <1>1, SignalTaken DEF IInv
<1>3. /\ phase = "idle" /\ m_profile = NoProfile
      /\ signal = "Succeeded" => DependenciesMet /\ AllReady
  BY <1>1 DEF IInv, ListInv, SignalSound
<1>4. UNCHANGED <<components, known, m_profile, phase, disturbed>>
  BY <1>1 DEF metaVars, taskVars
<1>5. DependenciesMet' = DependenciesMet /\ AllReady' = AllReady
  BY <1>4 DEF DependenciesMet, AllReady, Rows
<1>6. TypeOK'
  BY <1>1, <1>2 DEF IInv, UpdateInv, TypeOK, ListInv
<1>7. AbortedStops' /\ JobFits' /\ AbortFits'
  BY <1>1 DEF IInv, UpdateInv, AbortedStops, JobFits, AbortFits, CurrentTask
<1>8. StepFits' /\ ProfileFresh'
  BY <1>1, <1>3, <1>4 DEF StepFits, ProfileFresh
<1>9. NextReady'
  BY <1>1, <1>3, <1>5 DEF NextReady
<1> QED BY <1>2, <1>6, <1>7, <1>8, <1>9 DEF IInv, UpdateInv

\* How the job of a subtask may end.
LEMMA JobEnds ==
    ASSUME Constants, IInv, Settled, job # "none", UNCHANGED packFixed,
           GetProfile \/ UNCHANGED <<m_profile, metaVars>>,
           \/ u_state' = "Failed" /\ u_step' = "none" /\ job' = "none"
           \/ u_state' = u_state /\ u_step' = "next" /\ job' = "none"
           \/ job = "index" /\ u_state' = u_state /\ u_step' = "none" /\ job' = "assets",
           UNCHANGED <<u_mode, m_tasks, current, m_abort, applied, updates>>
    PROVE  IInv'
<1>1. phase \in {"idle", "wait"} /\ signal = "none" /\ u_step = "none"
  BY DEF Settled, Quiet
<1>2. /\ u_state = "Running" /\ ~m_abort
      /\ CurrentTask = (IF job \in {"index", "assets"} THEN "assets" ELSE job)
      /\ job \in Jobs
  BY DEF IInv, UpdateInv, JobFits, AbortedStops, TypeOK
<1>3. ListInv' /\ phase' = phase /\ signal' = signal
  BY <1>1, ListRests DEF IInv, packFixed
<1>4. CurrentTask' = CurrentTask
  BY DEF CurrentTask
<1>5. CurrentTask \in {"libraries", "fml", "assets"}
  BY <1>2 DEF Jobs
<1>6. /\ ~ (m_tasks = Always /\ current \in {0, 1})
      /\ ~ (m_tasks = WithComponents /\ current = 2)
  <2>1. ~ (m_tasks = Always /\ current \in {0, 1})
    BY <1>5 DEF CurrentTask, Always
  <2>2. ~ (m_tasks = WithComponents /\ current = 2)
    BY <1>5 DEF CurrentTask, WithComponents
  <2> QED BY <2>1, <2>2
<1>7. TypeOK'
  BY <1>2, <1>3 DEF IInv, UpdateInv, TypeOK, ListInv, Jobs
<1>8. AbortedStops' /\ JobFits' /\ AbortFits'
  BY <1>2, <1>4 DEF IInv, UpdateInv, AbortedStops, JobFits, AbortFits
<1>9. StepFits'
  BY <1>1, <1>2, <1>3 DEF StepFits
<1>10. ProfileFresh'
  BY <1>6 DEF ProfileFresh
<1>11. NextReady'
  BY <1>4, <1>5 DEF NextReady
<1> QED BY <1>3, <1>7, <1>8, <1>9, <1>10, <1>11 DEF IInv, UpdateInv

LEMMA JobStep ==
    ASSUME Constants, IInv, JobSucceeded \/ JobFailed PROVE IInv'
<1>1. CASE JobSucceeded
  <2>1. /\ Settled /\ job # "none" /\ UNCHANGED packFixed
        /\ GetProfile \/ UNCHANGED <<m_profile, metaVars>>
        /\ UNCHANGED <<u_mode, m_tasks, current, m_abort, applied, updates>>
    BY <1>1 DEF JobSucceeded
  <2>2. \/ u_state' = "Failed" /\ u_step' = "none" /\ job' = "none"
        \/ u_state' = u_state /\ u_step' = "next" /\ job' = "none"
        \/ job = "index" /\ u_state' = u_state /\ u_step' = "none" /\ job' = "assets"
    BY <1>1 DEF JobSucceeded, Proceed, Work, Verdict
  <2> QED BY <2>1, <2>2, JobEnds
<1>2. CASE JobFailed
  BY <1>2, JobEnds DEF JobFailed, Verdict
<1> QED BY <1>1, <1>2

LEMMA AbortStep ==
    ASSUME Constants, IInv, Abort PROVE IInv'
<1>1. /\ u_step = "none" /\ u_state = "Running" /\ u_mode = "Online" /\ m_abort' = TRUE
      /\ \/ u_state' = "Failed" /\ u_step' = "none" /\ job' = "none"
         \/ job = "none" /\ UNCHANGED <<u_state, u_step, job>>
      /\ UNCHANGED packVars /\ UNCHANGED <<u_mode, m_tasks, current, applied, updates>>
  BY DEF Abort, Settled, Verdict
<1>2. ListInv'
  <2>1. UNCHANGED <<components, indexed, loaded, dirty, disk, lost, patches, m_profile, known,
                    local, inProgress, phase, netmode, checkOnly, slots, remoteOk, todo,
                    dangling, disturbed, signal, edits>>
    BY <1>1 DEF packVars
  <2>2. PackTypeOK'
    BY <2>1 DEF IInv, ListInv, PackTypeOK
  <2>3. ListKept' /\ DiskUnique' /\ SlotsFitRows' /\ OnlyServed' /\ RowsSound'
    BY <2>1 DEF IInv, ListInv, ListKept, ListConsistent, UniqueRows, CleanMeansSaved,
                DiskUnique, SlotsFitRows, OnlyServed, RowsSound, Rows
  <2>4. TaskSound' /\ SignalSound'
    BY <2>1 DEF IInv, ListInv, TaskSound, WaitSound, AllReady, Awaits, SignalSound, DependenciesMet, Rows
  <2> QED BY <2>2, <2>3, <2>4 DEF ListInv
<1>3. TypeOK'
  BY <1>1, <1>2 DEF IInv, UpdateInv, TypeOK, ListInv
<1>4. AbortedStops' /\ JobFits' /\ StepFits' /\ AbortFits' /\ ProfileFresh' /\ NextReady'
  BY <1>1 DEF AbortedStops, JobFits, StepFits, AbortFits, ProfileFresh, NextReady
<1> QED BY <1>2, <1>3, <1>4 DEF IInv, UpdateInv

LEMMA StandsStill ==
    ASSUME IInv, UNCHANGED vars PROVE IInv'
<1>1. UNCHANGED <<components, indexed, loaded, dirty, disk, lost, patches, m_profile, known,
                  local, inProgress, phase, netmode, checkOnly, slots, remoteOk, todo, dangling, disturbed, signal,
                  edits>>
  BY DEF vars, packVars
<1>2. UNCHANGED <<u_state, u_mode, u_step, m_tasks, current, job, m_abort, applied, updates>>
  BY DEF vars, updVars
<1>3. PackTypeOK'
  BY <1>1 DEF IInv, ListInv, PackTypeOK
<1>4. ListKept' /\ DiskUnique' /\ SlotsFitRows' /\ OnlyServed' /\ RowsSound'
  BY <1>1 DEF IInv, ListInv, ListKept, ListConsistent, UniqueRows, CleanMeansSaved,
              DiskUnique, SlotsFitRows, OnlyServed, RowsSound, Rows
<1>5. TaskSound' /\ SignalSound'
  BY <1>1 DEF IInv, ListInv, TaskSound, WaitSound, AllReady, Awaits, SignalSound, DependenciesMet, Rows
<1>6. TypeOK' /\ AbortedStops' /\ AbortFits'
  BY <1>2, <1>3 DEF IInv, UpdateInv, TypeOK, AbortedStops, AbortFits
<1>7. JobFits' /\ StepFits' /\ ProfileFresh' /\ NextReady'
  BY <1>1, <1>2 DEF IInv, UpdateInv, JobFits, CurrentTask, StepFits, ProfileFresh, NextReady,
                    DependenciesMet, AllReady, Rows
<1> QED BY <1>3, <1>4, <1>5, <1>6, <1>7 DEF IInv, ListInv, UpdateInv

LEMMA IInvStep ==
    ASSUME Constants, IInv, [Next]_vars PROVE IInv'
<1>1. CASE Task /\ UNCHANGED updVars
  BY <1>1, TaskStep
<1>2. CASE u_step = "none" /\ (Metadata \/ EditList \/ SaveTimer) /\ UNCHANGED updVars
  BY <1>2, EventStep
<1>3. CASE Collect \/ NextTask \/ Deliver
  BY <1>3, CollectStep, NextTaskStep, DeliverStep
<1>4. CASE JobSucceeded \/ JobFailed
  BY <1>4, JobStep
<1>5. CASE RestartLauncher \/ CrashLauncher
  BY <1>5, RestartStep
<1>6. CASE \E mode \in {"Online", "Offline"} : Start(mode)
  BY <1>6, StartStep
<1>7. CASE Abort
  BY <1>7, AbortStep
<1>8. CASE UNCHANGED vars
  BY <1>8, StandsStill
<1> QED BY <1>1, <1>2, <1>3, <1>4, <1>5, <1>6, <1>7, <1>8 DEF Next, Progress

LEMMA IInvInit ==
    ASSUME Constants, GameInit PROVE IInv
<1>1. /\ components = << >> /\ indexed = {} /\ loaded = FALSE /\ dirty = FALSE
      /\ disk \in FirstLists /\ lost = FALSE /\ patches = [u \in Uids |-> 0]
      /\ known = {} /\ local = OnDisk /\ inProgress = {} /\ phase = "idle"
      /\ netmode = "Offline" /\ checkOnly = FALSE /\ slots = {} /\ remoteOk = TRUE /\ todo = {}
      /\ dangling = {} /\ disturbed = FALSE /\ signal = "none" /\ edits = 0
  BY DEF GameInit, Init
<1>2. /\ u_state = "Inactive" /\ u_mode = "Online" /\ u_step = "none"
      /\ m_tasks = << >> /\ current = 0 /\ job = "none" /\ m_abort = FALSE /\ applied = {}
      /\ updates = 0
  BY DEF GameInit
<1>3. disk \in Seq(Row) /\ DiskUnique
  BY <1>1 DEF Constants, FirstAssumption, DiskUnique
<1>4. local \subseteq {MetaIndex} \union Served
  BY <1>1 DEF Constants, DiskAssumption
<1>5. local \subseteq Entities
  BY <1>4 DEF Entities, Constants, ServerAssumption, Maybe
<1>6. patches \in [Uids -> Maybe]
  BY <1>1 DEF Maybe
<1>7. 0 \in 0..MaxEdits /\ 0 \in 0..MaxUpdates
  BY DEF Constants, FaultAssumption, UpdatesAssumption
<1>8. components \in Seq(Component) /\ Rows = {}
  BY <1>1 DEF Rows
<1>9. PackTypeOK
  BY <1>1, <1>3, <1>5, <1>6, <1>7, <1>8 DEF PackTypeOK
<1>10. ListKept /\ SlotsFitRows /\ OnlyServed /\ RowsSound
  BY <1>1, <1>4, <1>8 DEF ListKept, ListConsistent, UniqueRows, CleanMeansSaved,
                          SlotsFitRows, OnlyServed, RowsSound
<1>11. TaskSound /\ SignalSound
  BY <1>1 DEF TaskSound, WaitSound, SignalSound
<1>12. TypeOK
  <2>1. current \in 0..6 /\ m_tasks \in {<< >>, Always, WithComponents, <<"components">>}
    BY <1>2
  <2>2. /\ job \in Jobs \union {"none"} /\ u_mode \in {"Online", "Offline"}
        /\ u_state \in {"Inactive", "Running", "Succeeded", "Failed"}
    BY <1>2
  <2> QED BY <1>2, <1>7, <1>9, <2>1, <2>2 DEF TypeOK
<1>13. AbortedStops /\ JobFits /\ StepFits /\ AbortFits /\ ProfileFresh /\ NextReady
  BY <1>2 DEF AbortedStops, JobFits, StepFits, AbortFits, ProfileFresh, NextReady
<1> QED BY <1>3, <1>9, <1>10, <1>11, <1>12, <1>13 DEF IInv, ListInv, UpdateInv

\* The assumptions on the constants, together.
LEMMA ConstantsHold == Constants
BY UidAssumption, VersionAssumption, InfoAssumption, HardCodedAssumption, ServerAssumption,
   DiskAssumption, FirstAssumption, FaultAssumption, UpdatesAssumption DEF Constants

LEMMA Inductive == Spec => []IInv
<1>1. GameInit => IInv
  BY ConstantsHold, IInvInit
<1>2. IInv /\ [Next]_vars => IInv'
  BY ConstantsHold, IInvStep
<1> QED BY <1>1, <1>2, PTL DEF Spec

-----------------------------------------------------------------------------
(* The theorems.                                                             *)

\* List, index and mmc-pack.json stay in step through every operation of the
\* user, the update task, reloads and restarts (PackProfile.cpp).
THEOREM ListStaysKept == Spec => []ListKept
<1>1. IInv => ListKept
  BY DEF IInv, ListInv
<1> QED BY <1>1, Inductive, PTL

\* However edits, arrivals, crashes and restarts fall: unless the user moved, removed or
\* reverted a row while the task waited, its loads fit their rows and it succeeds only
\* with what the right metadata says in each; and an aborted update starts no download
\* and does not succeed (ComponentUpdateTask.cpp, MinecraftUpdate.cpp).
THEOREM UpdateStaysSound == Spec => []UpdateSound
<1>1. IInv => ResultsFiled
  BY DEF IInv, ListInv, SignalSound, AllReady, Ready, ResultsFiled
<1>2. IInv => TypeOK /\ SlotsFitRows /\ AbortedStops
  BY DEF IInv, ListInv, UpdateInv
<1>3. IInv => UpdateSound
  BY <1>1, <1>2 DEF UpdateSound
<1> QED BY <1>3, Inductive, PTL

\* One step of the task, for a row of the list: what has its uid afterwards is
\* the row that had it.
LEMMA SameUidAfter ==
    ASSUME UniqueRows, NEW i \in Rows, NEW j,
           \E k \in Rows : /\ components'[j].row.uid = components[k].row.uid
                           /\ components'[j].row.version = components[k].row.version,
           components'[j].row.uid = components[i].row.uid
    PROVE  components'[j].row.version = components[i].row.version
BY DEF UniqueRows

\* Rows that keep uid and version, each at its place.
LEMMA PlacesKept ==
    ASSUME UniqueRows, Rows' = Rows,
           \A i \in Rows : /\ components'[i].row.uid = components[i].row.uid
                           /\ components'[i].row.version = components[i].row.version
    PROVE  ChosenKept
<1> SUFFICES ASSUME NEW i \in Rows
             PROVE  /\ \E j \in Rows' : components'[j].row.uid = components[i].row.uid
                    /\ \A j \in Rows' : components'[j].row.uid = components[i].row.uid =>
                          components'[j].row.version = components[i].row.version
  BY DEF ChosenKept, Rows
<1>1. components'[i].row.uid = components[i].row.uid /\ i \in Rows'
  OBVIOUS
<1>2. \A j \in Rows' : components'[j].row.uid = components[i].row.uid =>
         components'[j].row.version = components[i].row.version
  BY SameUidAfter
<1> QED BY <1>1, <1>2

LEMMA LoadKeepsChoice ==
    ASSUME Constants, ListInv, LoadComponents PROVE ChosenKept
<1> DEFINE wanted  == {Entity(components[i].row) : i \in Needed} \union ({MetaIndex} \ known)
           kn      == LoadedBy(wanted)
           started == StartedBy(wanted, netmode = "Online")
           remote  == {i \in Needed : Entity(components[i].row) \in started}
           next(i) == LoadComponent(i, kn, remote)
<1>1. components' = [i \in Rows |-> next(i)]
  BY DEF LoadComponents
<1>2. known \subseteq kn /\ kn \subseteq known \union local
  BY DEF LoadedBy
<1> HIDE DEF wanted, kn, started, remote
<1>3. \A i \in Rows : /\ next(i).row.uid = components[i].row.uid
                      /\ next(i).row.version = components[i].row.version
  BY <1>2, TaskStarts, LoadComponentSound
<1> HIDE DEF next
<1>4. Rows' = Rows /\ \A i \in Rows : components'[i] = next(i)
  BY <1>1 DEF Rows
<1>5. UniqueRows
  BY TaskStarts DEF ListConsistent
<1> QED BY <1>3, <1>4, <1>5, PlacesKept

LEMMA RemovalKeepsChoice ==
    ASSUME Constants, ListInv, RemoveOrphan PROVE ChosenKept
<1>1. PICK k \in Orphans : RemoveRow(k) /\ FetchOnline(Asked(<<components[k]>>))
  BY DEF RemoveOrphan
<1>2. UNCHANGED <<loaded, disk, lost, disturbed>>
  BY DEF RemoveOrphan, fileVars, taskVars
<1>3. /\ k \in Rows /\ components[k].row.dependencyOnly
      /\ components[k].row.uid \notin Required
  BY DEF Orphans
<1>4. known \subseteq known'
  BY <1>1 DEF FetchOnline, LoadedBy
<1>5. /\ \A j \in Rows' : \E i \in Rows : components'[j] = components[i]
      /\ \A i \in Rows : i # k => \E j \in Rows' : components'[j] = components[i]
  BY <1>1, <1>2, <1>3, <1>4, TaskStarts, RemoveRowKeeps
<1>6. UniqueRows
  BY TaskStarts DEF ListConsistent
<1> SUFFICES ASSUME NEW i \in Rows
             PROVE  /\ \/ \E j \in Rows' : components'[j].row.uid = components[i].row.uid
                       \/ components[i].row.dependencyOnly /\ components[i].row.uid \notin Required
                    /\ \A j \in Rows' : components'[j].row.uid = components[i].row.uid =>
                          components'[j].row.version = components[i].row.version
  BY DEF ChosenKept, Rows
<1>7. i = k \/ \E j \in Rows' : components'[j].row.uid = components[i].row.uid
  BY <1>5
<1>8. \A j \in Rows' : components'[j].row.uid = components[i].row.uid =>
         components'[j].row.version = components[i].row.version
  BY <1>5, <1>6, SameUidAfter
<1> QED BY <1>3, <1>7, <1>8

LEMMA ChangeKeepsChoice ==
    ASSUME Constants, ListInv, ResolveChanges PROVE ChosenKept
<1> DEFINE next(i) == IF i \in Differing
                      THEN SetVersion(components[i], ExactVersion(components[i].row.uid))
                      ELSE components[i]
<1>1. components' = [i \in Rows |-> next(i)] /\ Locked = {}
  BY DEF ResolveChanges
<1>2. Rows' = Rows /\ \A i \in Rows : components'[i] = next(i)
  BY <1>1 DEF Rows
<1>3. UniqueRows /\ UniqueRows'
  BY ResolveChangesKeeps, TaskStarts DEF ListConsistent, ListInv, ListKept
<1>4. \A i \in Rows : next(i).row.uid = components[i].row.uid
  <2> SUFFICES ASSUME NEW i \in Rows, i \in Differing
               PROVE  next(i).row.uid = components[i].row.uid
    OBVIOUS
  <2> DEFINE c == components[i]
             v == ExactVersion(c.row.uid)
  <2>1. c \in Component /\ OnlyServed
    BY TaskStarts
  <2>2. v \in EqualsVersion(c.row.uid)
    BY DEF Differing, ExactVersion
  <2>3. EqualsVersion(c.row.uid) \subseteq Maybe
    <3>1. \A k \in Rows : components[k].row.cachedRequires \subseteq Require
      BY TaskStarts
    <3> QED BY <3>1 DEF EqualsVersion, AskedFor, Requires, Require
  <2>4. next(i) = SetVersion(c, v) /\ v \in Maybe
    BY <2>2, <2>3
  <2> HIDE DEF c, v, next
  <2>5. LET d == SetVersion(c, v)
        IN  d \in Component /\ d.row.uid = c.row.uid
    BY <2>1, <2>4, SetVersionSound
  <2> QED BY <2>4, <2>5 DEF c
<1>5. \A i \in Rows : ~components[i].row.dependencyOnly \/ IsCustom(components[i]) =>
         next(i) = components[i]
  BY <1>1 DEF Locked
<1> HIDE DEF next
<1>6. \A i, j \in Rows : components'[j].row.uid = components[i].row.uid => i = j
  BY <1>2, <1>3, <1>4 DEF UniqueRows
<1> SUFFICES ASSUME NEW i \in Rows
             PROVE  /\ \E j \in Rows' : components'[j].row.uid = components[i].row.uid
                    /\ ~components[i].row.dependencyOnly \/ IsCustom(components[i]) =>
                          \A j \in Rows' : components'[j].row.uid = components[i].row.uid =>
                             components'[j].row.version = components[i].row.version
  BY DEF ChosenKept, Rows
<1>7. components'[i].row.uid = components[i].row.uid /\ i \in Rows'
  BY <1>2, <1>4
<1> QED BY <1>2, <1>5, <1>6, <1>7

LEMMA InsertionKeepsChoice ==
    ASSUME Constants, ListInv, InsertDependency PROVE ChosenKept
<1>1. PICK add \in todo :
         /\ IF add.uid \in indexed
            THEN UNCHANGED <<components, dirty>>
            ELSE components' = InsertAt(components, add.at,
                                 NewComponent(add.uid, add.version, TRUE, FALSE))
         /\ indexed' = indexed \union {add.uid}
  BY DEF InsertDependency
<1>2. phase = "inject" /\ UNCHANGED <<known, patches, disturbed>>
  BY DEF InsertDependency, metaVars
<1>3. add \in [uid : Uids, at : Nat, version : Maybe] /\ add.at \in 1..Len(components)
  BY <1>2 DEF ListInv, PackTypeOK, TaskSound
<1>4. add.uid \in Uids /\ add.version \in Maybe /\ add.at \in Rows
  BY <1>3, TaskStarts DEF Rows
<1>5. UniqueRows
  BY TaskStarts DEF ListConsistent
<1>6. CASE add.uid \in indexed
  <2>1. components' = components
    BY <1>1, <1>6
  <2> QED BY <1>5, <2>1, PlacesKept DEF Rows
<1>7. CASE add.uid \notin indexed
  <2> DEFINE d == NewComponent(add.uid, add.version, TRUE, FALSE)
  <2>1. d \in Component /\ d.row.uid = add.uid /\ RowSound(d, known, patches)
    BY <1>4, NewComponentSound
  <2>2. components' = InsertAt(components, add.at, d) /\ indexed' = indexed \union {add.uid}
    BY <1>1, <1>7
  <2> HIDE DEF d
  <2>3. /\ \A i \in Rows : \E j \in Rows' : components'[j] = components[i]
        /\ \A j \in Rows' : components'[j] = d \/ \E i \in Rows : components'[j] = components[i]
    BY <1>2, <1>4, <1>7, <2>1, <2>2, TaskStarts, RowInserted
  <2> SUFFICES ASSUME NEW i \in Rows
               PROVE  /\ \E j \in Rows' : components'[j].row.uid = components[i].row.uid
                      /\ \A j \in Rows' : components'[j].row.uid = components[i].row.uid =>
                            components'[j].row.version = components[i].row.version
    BY DEF ChosenKept, Rows
  <2>4. components[i].row.uid # d.row.uid
    BY <1>7, <2>1, TaskStarts DEF ListConsistent
  <2>5. \A j \in Rows' : components'[j].row.uid = components[i].row.uid =>
           components'[j].row.version = components[i].row.version
    BY <1>5, <2>3, <2>4, SameUidAfter
  <2> QED BY <2>3, <2>5
<1> QED BY <1>6, <1>7

LEMMA ChoiceKept ==
    ASSUME Constants, IInv, Task PROVE ChosenKept
<1>1. ListInv /\ UniqueRows
  BY DEF IInv, ListInv, ListKept, ListConsistent
<1>2. CASE ResolveFailed \/ ResolveSucceeded \/ LoadAgain
  <2>1. components' = components
    BY <1>2 DEF ResolveFailed, ResolveSucceeded, LoadAgain
  <2> QED BY <1>1, <2>1, PlacesKept DEF Rows
<1> QED BY <1>1, <1>2, LoadKeepsChoice, RemovalKeepsChoice, ChangeKeepsChoice,
           InsertionKeepsChoice DEF Task

\* The update task leaves alone what the user chose (ComponentUpdateTask.cpp).
THEOREM ChoiceStaysKept == Spec => TaskKeepsChoice
<1>1. IInv /\ [Next]_vars => [Task => ChosenKept]_vars
  BY ConstantsHold, ChoiceKept
<1> QED BY <1>1, Inductive, PTL DEF TaskKeepsChoice, Spec

\* Every step but the next subtask leaves the libraries and goes past no subtask.
LEMMA OnlyNextTask ==
    ASSUME Constants, IInv, [Next]_vars, ~NextTask
    PROVE  /\ current' > current => CurrentTask # "components"
           /\ applied' = applied \/ applied' = {}
<1>1. current \in Nat /\ ~ (current > current)
  BY DEF IInv, UpdateInv, TypeOK
<1>2. CASE UNCHANGED updVars
  BY <1>1, <1>2 DEF updVars
<1>3. CASE Collect
  <2>1. current = 0 /\ m_tasks = << >> /\ applied' = applied
    BY <1>3 DEF IInv, UpdateInv, StepFits, Collect
  <2>2. CurrentTask = "none"
    BY <2>1 DEF CurrentTask
  <2> QED BY <2>1, <2>2
<1>4. CASE Deliver \/ JobSucceeded \/ JobFailed \/ Abort
  BY <1>1, <1>4 DEF Deliver, JobSucceeded, JobFailed, Abort
<1>5. CASE \/ RestartLauncher \/ CrashLauncher
           \/ \E mode \in {"Online", "Offline"} : Start(mode)
  <2>1. current' = 0 /\ applied' = {}
    BY <1>5 DEF RestartLauncher, CrashLauncher, NoUpdate, Start
  <2> QED BY <1>1, <2>1
<1>6. CASE UNCHANGED vars
  BY <1>1, <1>6 DEF vars, updVars
<1> QED BY <1>2, <1>3, <1>4, <1>5, <1>6 DEF Next, Progress

LEMMA LibrariesTaken ==
    ASSUME Constants, IInv, NextTask
    PROVE  ComponentsReady /\ LibrariesMatchList
<1>1. /\ u_step = "next" /\ UNCHANGED packFixed /\ UNCHANGED m_tasks
  BY DEF NextTask
<1>2. /\ m_tasks \in {<< >>, Always, WithComponents, <<"components">>} /\ current \in 0..6
      /\ components' = components
  BY <1>1 DEF IInv, UpdateInv, TypeOK, packFixed
<1>3. ComponentsReady
  BY <1>1 DEF IInv, UpdateInv, NextReady, ComponentsReady, AllReady, Ready, Shown
<1>4. CASE UNCHANGED applied
  BY <1>3, <1>4 DEF LibrariesMatchList
<1>5. CASE current < Len(m_tasks) /\ StartTask(m_tasks[current + 1])
  <2> DEFINE t == m_tasks[current + 1]
  <2>1. t = "libraries" => \/ m_tasks = Always /\ current = 1
                           \/ m_tasks = WithComponents /\ current = 2
    BY <1>2, <1>5, TaskOrder
  <2>2. StartTask(t)
    BY <1>5
  <2> HIDE DEF t
  <2>3. /\ t # "libraries" => applied' = applied
        /\ t = "libraries" => GetProfile /\ applied' = m_profile'
    BY <2>2, TaskStarted
  <2>4. CASE t = "libraries"
    <3>1. m_profile = NoProfile
      BY <1>1, <2>1, <2>4 DEF IInv, UpdateInv, ProfileFresh
    <3>2. known' = LoadedBy(Asked(components)) /\ m_profile' = {Applied(components, known')}
      BY <2>3, <2>4, <3>1 DEF GetProfile, FetchOnline
    <3> QED BY <1>2, <1>3, <2>3, <2>4, <3>2 DEF LibrariesMatchList
  <2>5. CASE t # "libraries"
    BY <1>3, <2>3, <2>5 DEF LibrariesMatchList
  <2> QED BY <2>4, <2>5
<1> QED BY <1>4, <1>5 DEF NextTask

\* A launch goes past the component task only with every requirement met and, unless the
\* rows were disturbed, a version file in every row; its libraries are then those of the
\* list as it is (MinecraftUpdate.cpp, LibrariesTask.cpp).
THEOREM LibrariesStayReady == Spec => LibrariesReady
<1>1. IInv /\ [Next]_vars => [ComponentsReady /\ LibrariesMatchList]_vars
  <2>1. ASSUME IInv, [Next]_vars, ~NextTask PROVE ComponentsReady /\ LibrariesMatchList
    BY <2>1, ConstantsHold, OnlyNextTask DEF ComponentsReady, LibrariesMatchList
  <2> QED BY <2>1, ConstantsHold, LibrariesTaken
<1> QED BY <1>1, Inductive, PTL DEF LibrariesReady, Spec
=============================================================================
