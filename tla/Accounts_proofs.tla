---------------------------- MODULE Accounts_proofs ----------------------------
(* Theorems about accounts for any sets of them: the list with its refreshes *)
(* and the launches that use them, AccountList, and below it the sign-in of  *)
(* one account, AuthFlow.  The two share no variable.                        *)
EXTENDS AccountList, AuthFlow, FiniteSetTheorems, SequenceTheorems, WellFoundedInduction, TLAPS

Launching == [phase : Phases, account : Accounts \union {None}, wants : BOOLEAN,
              online : BOOLEAN, claim : Accounts \union {None}]

\* What the proofs need of the types.
Typed == /\ list \in Seq(Accounts)
         /\ fresh \subseteq Accounts
         /\ busy \subseteq Accounts \ Offline
         /\ state \in [Accounts -> States]
         /\ launch \in [Launches -> Launching]

SomebodyHas(a) == a \in Listed \/ \E l \in Launches : launch[l].account = a

\* An account the user has yet to create is known to nobody.
FreshUnknown == \A a \in fresh : ~SomebodyHas(a) /\ a \notin busy \union strayed

\* A flow that goes on is kept alive by a login, for the account it signs in with.
StrayInLogin == /\ strayed \subseteq Accounts
                /\ stray \subseteq {l \in Launches : InLogin(l)}

\* The account a dialog waits for keeps its profile on the list: no row can be
\* removed under a modal dialog, and a replacement has the same profile.
SignInListed == \A l \in Launches :
    Waiting(l) => launch[l].account \in Accounts /\ HasProfile(launch[l].account)

IInv == /\ Typed /\ FreshUnknown /\ SignInListed /\ StrayInLogin
        /\ ScheduleAlive /\ DefaultListed /\ WorkingHasTask /\ ClaimFound

-----------------------------------------------------------------------------
\* The rows hold accounts.
LEMMA ListedTyped == ASSUME list \in Seq(Accounts) PROVE Listed \subseteq Accounts
BY DEF Listed

\* A set of numbers that is not empty has a least one.
LEMMA LeastNumber ==
    ASSUME NEW T, T \subseteq Nat, T # {}
    PROVE  \E least \in T : \A i \in T : least <= i
<1> DEFINE R == OpToRel(<, Nat)
<1>1. IsWellFoundedOn(R, Nat)
  BY NatLessThanWellFounded
<1>2. PICK least \in T : \A i \in T : ~ (<<i, least>> \in R)
  <2> HIDE DEF R
  <2> QED BY <1>1, WFMin
<1>3. least \in Nat /\ \A i \in T : i \in Nat /\ ~ (i < least)
  BY <1>2 DEF OpToRel
<1>4. \A i \in T : least <= i
  BY <1>3
<1> QED BY <1>2, <1>4

\* What holds of 0 and passes from each number to the next holds up to any bound.
LEMMA UpTo ==
    ASSUME NEW N \in Nat, NEW T, 0 \in T, \A n \in 1..N : n - 1 \in T => n \in T
    PROVE  0..N \subseteq T
<1> SUFFICES ASSUME ~ (0..N \subseteq T) PROVE FALSE
  OBVIOUS
<1> DEFINE Missed == (0..N) \ T
<1>1. Missed \subseteq Nat /\ Missed # {}
  OBVIOUS
<1>2. PICK least \in Missed : \A i \in Missed : least <= i
  <2> HIDE DEF Missed
  <2> QED BY <1>1, LeastNumber
<1>3. least \in 1..N /\ least - 1 \in 0..N /\ ~ (least <= least - 1)
  BY <1>2
<1>4. least - 1 \in T
  BY <1>2, <1>3
<1> QED BY <1>2, <1>3, <1>4

\* Among the rows with a profile there is a first one.
LEMMA FirstRow ==
    ASSUME list \in Seq(Accounts), NEW b, HasProfile(b)
    PROVE  \E row \in DOMAIN list : IsRowOf(b, row)
<1> DEFINE T == {i \in DOMAIN list : Profile[list[i]] = Profile[b]}
<1>1. T \subseteq Nat /\ T # {}
  BY DEF HasProfile
<1>2. PICK row \in T : \A i \in T : row <= i
  <2> HIDE DEF T
  <2> QED BY <1>1, LeastNumber
<1>3. \A i \in 1..(row - 1) : i \in DOMAIN list /\ ~ (row <= i)
  <2>1. DOMAIN list = 1..Len(list) /\ Len(list) \in Nat
    OBVIOUS
  <2>2. row \in 1..Len(list)
    BY <1>2, <2>1
  <2> QED BY <2>1, <2>2
<1> QED BY <1>2, <1>3 DEF IsRowOf

\* What a launch claims is an account, if there is one with the profile.
LEMMA ClaimOfTyped ==
    ASSUME list \in Seq(Accounts), NEW a
    PROVE  /\ ClaimOf(a) \in Accounts \union {None}
           /\ HasProfile(a) => ClaimOf(a) \in Accounts
<1>1. CASE HasProfile(a)
  <2>1. (CHOOSE row \in DOMAIN list : IsRowOf(a, row)) \in DOMAIN list
    BY <1>1, FirstRow
  <2> QED BY <1>1, <2>1 DEF ClaimOf
<1>2. CASE ~HasProfile(a)
  BY <1>2 DEF ClaimOf
<1> QED BY <1>1, <1>2

-----------------------------------------------------------------------------
\* refresh() leaves the account working exactly when it has a task.
LEMMA RefreshWorks ==
    ASSUME Typed, NEW a \in Accounts, Refresh(a)
    PROVE  /\ busy' \subseteq Accounts \ Offline /\ busy \subseteq busy'
           /\ busy' \subseteq busy \union {a}
           /\ strayed' \subseteq strayed /\ strayed \subseteq strayed' \union {a}
           /\ state' \in [Accounts -> States]
           /\ (a \in busy /\ a \notin strayed => state[a] = "Working")
                 => (a \notin strayed' => (state'[a] = "Working" <=> a \in busy'))
           /\ \A x \in Accounts \ {a} : state'[x] = state[x]
           /\ a \notin Offline => a \in busy'
<1>1. CASE a \in Offline
  BY <1>1 DEF Refresh, Typed, States
<1>2. CASE a \notin Offline
  BY <1>2 DEF Refresh, Typed, States
<1> QED BY <1>1, <1>2

\* At most one account somebody has is refreshed: the relation between Working
\* and the tasks is kept, whatever launches begin to wait or end.
LEMMA RefreshKeepsWorking ==
    ASSUME IInv, NEW a \in Accounts, SomebodyHas(a),
           Refresh(a) \/ UNCHANGED <<busy, state, strayed>>,
           UNCHANGED <<list, fresh>>,
           \A x \in Accounts : SomebodyHas(x)' => SomebodyHas(x)
    PROVE  /\ WorkingHasTask' /\ FreshUnknown' /\ strayed' \subseteq Accounts
           /\ busy' \subseteq Accounts \ Offline
           /\ state' \in [Accounts -> States]
<1>0. a \notin fresh /\ fresh \subseteq Accounts
  BY DEF IInv, FreshUnknown, Typed
<1>1. CASE Refresh(a)
  <2>1. WorkingHasTask'
    BY <1>1, RefreshWorks DEF IInv, WorkingHasTask, SomebodyHas
  <2>2. FreshUnknown'
    BY <1>0, <1>1, RefreshWorks DEF IInv, FreshUnknown
  <2> QED BY <1>1, <2>1, <2>2, RefreshWorks DEF IInv, StrayInLogin
<1>2. CASE UNCHANGED <<busy, state, strayed>>
  BY <1>0, <1>2 DEF IInv, WorkingHasTask, FreshUnknown, SomebodyHas, Typed, StrayInLogin
<1> QED BY <1>1, <1>2

\* One round of the schedule keeps the invariant and leaves something to wait for.
LEMMA TryNextKeeps ==
    ASSUME IInv, NEW q, NEW next, NEW refresh,
           TryNext(q, next, refresh), UNCHANGED OutsideQueue
    PROVE  IInv'
<1>1. UNCHANGED <<list, dflt, fresh, launch, stray>>
  BY DEF OutsideQueue
<1>2. Listed' = Listed /\ \A x : SomebodyHas(x)' <=> SomebodyHas(x)
  BY <1>1 DEF Listed, SomebodyHas
<1>3. SignInListed' /\ DefaultListed' /\ ClaimFound'
  BY <1>1, <1>2 DEF IInv, SignInListed, DefaultListed, ClaimFound, Waiting, HasProfile
<1>4. CASE refreshTimer' /\ UNCHANGED <<busy, state, strayed>>
  BY <1>1, <1>2, <1>3, <1>4 DEF IInv, Typed, FreshUnknown, WorkingHasTask, ScheduleAlive, SomebodyHas,
                                StrayInLogin, InLogin
<1>5. ASSUME NEW row \in DOMAIN list, Refresh(list[row]),
             IF list[row] \in Offline THEN nextTimer' = TRUE
                ELSE current' = list[row] /\ heard' = heard \union {list[row]}
      PROVE  IInv'
  <2> DEFINE a == list[row]
  <2>1. a \in Accounts /\ SomebodyHas(a)
    BY <1>5 DEF IInv, Typed, SomebodyHas, Listed
  <2>2. /\ WorkingHasTask' /\ FreshUnknown' /\ strayed' \subseteq Accounts
        /\ busy' \subseteq Accounts \ Offline /\ state' \in [Accounts -> States]
    BY <1>1, <1>2, <1>5, <2>1, RefreshKeepsWorking
  <2>3. ScheduleAlive'
    BY <1>5, <2>1, RefreshWorks DEF IInv, ScheduleAlive
  <2> QED BY <1>1, <1>3, <2>2, <2>3 DEF IInv, Typed, StrayInLogin, InLogin
<1> QED BY <1>4, <1>5 DEF TryNext

-----------------------------------------------------------------------------
\* A step that leaves the tasks, the list and the launches alone.
LEMMA OutsideKeeps ==
    ASSUME IInv, UNCHANGED <<list, dflt, fresh, busy, heard, current, nextTimer,
                             refreshTimer, state, launch, started, stray, strayed>>
    PROVE  IInv'
BY DEF IInv, Typed, FreshUnknown, SignInListed, ScheduleAlive, DefaultListed, WorkingHasTask,
       ClaimFound, SomebodyHas, Listed, Waiting, HasProfile, StrayInLogin, InLogin

\* The end of a task.
LEMMA TaskEndsKeeps == ASSUME IInv, NEW a \in Accounts, TaskEnds(a) PROVE IInv'
<1>1. UNCHANGED <<list, dflt, fresh, refreshTimer, launch, started>>
      /\ busy' = busy \ {a} /\ heard' = heard \ {a} /\ strayed' = strayed \ {a}
  BY DEF TaskEnds
<1>2. PICK end \in Ends : AccountEnds(a, end) /\ ListHears(a, end) /\ MayGoOn(a, end)
  BY DEF TaskEnds
<1>3. end[1] \in States /\ end[1] # "Working"
  BY DEF Ends, States
<1>4. state' \in [Accounts -> States] /\ state'[a] # "Working"
      /\ \A x \in Accounts \ {a} : state'[x] = state[x]
  BY <1>2, <1>3 DEF AccountEnds, IInv, Typed
<1>5. Typed' /\ FreshUnknown' /\ SignInListed' /\ DefaultListed' /\ ClaimFound'
  BY <1>1, <1>4 DEF IInv, Typed, FreshUnknown, SignInListed, DefaultListed, ClaimFound,
                    SomebodyHas, Listed, Waiting, HasProfile
<1>6. WorkingHasTask'
  BY <1>1, <1>4 DEF IInv, WorkingHasTask, SomebodyHas, Listed
<1>7. ScheduleAlive'
  BY <1>1, <1>2 DEF IInv, ScheduleAlive, ListHears
<1>8. StrayInLogin'
  BY <1>1, <1>2 DEF IInv, StrayInLogin, MayGoOn, Waiters, Waiting, InLogin
<1> QED BY <1>5, <1>6, <1>7, <1>8 DEF IInv

\* A report that no list and no launch hears of: the account is Working with its
\* task again, or says what a stray flow made of it.
LEMMA ReportKeeps ==
    ASSUME IInv, NEW a \in Accounts, TaskGoesOn(a) \/ StrayReports(a) PROVE IInv'
<1>1. UNCHANGED <<list, dflt, fresh, busy, heard, current, nextTimer, refreshTimer, launch, started>>
  BY DEF TaskGoesOn, StrayReports
<1>2. a \notin fresh
  BY DEF TaskGoesOn, StrayReports, IInv, FreshUnknown, StrayInLogin, SomebodyHas
<1>3. /\ state' \in [Accounts -> States] /\ stray' \subseteq stray
      /\ \A x \in Accounts \ {a} : state'[x] = state[x]
      /\ strayed' \subseteq strayed \union {a} /\ strayed \subseteq strayed' \union {a}
      /\ a \notin strayed' => state'[a] = "Working" /\ a \in busy
  BY DEF TaskGoesOn, StrayReports, IInv, Typed, States
<1>4. WorkingHasTask'
  BY <1>1, <1>3 DEF IInv, WorkingHasTask, SomebodyHas, Listed
<1>5. FreshUnknown' /\ StrayInLogin'
  BY <1>1, <1>2, <1>3 DEF IInv, FreshUnknown, SomebodyHas, Listed, StrayInLogin, InLogin
<1> QED BY <1>1, <1>3, <1>4, <1>5 DEF IInv, Typed, SignInListed, ScheduleAlive, DefaultListed,
             ClaimFound, Listed, Waiting, HasProfile

\* The end of a task nobody holds.
LEMMA TaskVanishesKeeps == ASSUME IInv, NEW a \in Accounts, TaskVanishes(a) PROVE IInv'
<1>1. UNCHANGED <<list, dflt, fresh, current, nextTimer, refreshTimer, state, launch, started,
                  stray, strayed>>
      /\ busy' = busy \ {a} /\ heard' = heard \ {a} /\ a # current
  BY DEF TaskVanishes, strayVars
<1>2. ~SomebodyHas(a)
  BY DEF TaskVanishes, SomebodyHas, Held
<1>3. Typed' /\ FreshUnknown' /\ SignInListed' /\ DefaultListed' /\ ClaimFound'
  BY <1>1 DEF IInv, Typed, FreshUnknown, SignInListed, DefaultListed, ClaimFound,
              SomebodyHas, Listed, Waiting, HasProfile
<1>4. WorkingHasTask'
  BY <1>1, <1>2 DEF IInv, WorkingHasTask, SomebodyHas, Listed
<1>5. ScheduleAlive' /\ StrayInLogin'
  BY <1>1 DEF IInv, ScheduleAlive, StrayInLogin, InLogin
<1> QED BY <1>3, <1>4, <1>5 DEF IInv

-----------------------------------------------------------------------------
\* The rows after a replacement.
LEMMA ReplaceRow ==
    ASSUME list \in Seq(Accounts), NEW b \in Accounts, NEW row \in DOMAIN list,
           list' = [list EXCEPT ![row] = b], Profile[list[row]] = Profile[b]
    PROVE  /\ list' \in Seq(Accounts)
           /\ Listed' \subseteq Listed \union {b} /\ b \in Listed'
           /\ \A x \in Listed : x = list[row] \/ x \in Listed'
           /\ \A x : HasProfile(x) => HasProfile(x)'
<1>1. list' \in Seq(Accounts) /\ DOMAIN list' = DOMAIN list
      /\ \A i \in DOMAIN list : list'[i] = IF i = row THEN b ELSE list[i]
  OBVIOUS
<1> QED BY <1>1 DEF Listed, HasProfile

\* The rows after a new one was added at the end.
LEMMA AppendRow ==
    ASSUME list \in Seq(Accounts), NEW b \in Accounts, list' = Append(list, b)
    PROVE  /\ list' \in Seq(Accounts)
           /\ Listed' = Listed \union {b}
           /\ \A x : HasProfile(x) => HasProfile(x)'
<1>1. /\ list' \in Seq(Accounts) /\ Len(list) \in Nat
      /\ DOMAIN list = 1..Len(list) /\ DOMAIN list' = 1..(Len(list) + 1)
      /\ \A i \in DOMAIN list : list'[i] = list[i]
      /\ list'[Len(list) + 1] = b
  OBVIOUS
<1>2. DOMAIN list' = DOMAIN list \union {Len(list) + 1}
  BY <1>1
<1> QED BY <1>1, <1>2 DEF Listed, HasProfile

\* The rows after one was removed.
LEMMA RemoveRow ==
    ASSUME list \in Seq(Accounts), NEW row \in DOMAIN list, list' = RemoveAt(list, row)
    PROVE  /\ list' \in Seq(Accounts)
           /\ Listed' \subseteq Listed
           /\ \A x \in Listed : x = list[row] \/ x \in Listed'
<1> DEFINE n == Len(list)
<1>1. n \in Nat /\ row \in 1..n /\ DOMAIN list = 1..n
  OBVIOUS
<1> DEFINE front == SubSeq(list, 1, row - 1)
           back == SubSeq(list, row + 1, n)
<1>a. /\ front \in Seq(Accounts) /\ Len(front) = row - 1
      /\ \A i \in 1..(row - 1) : front[i] = list[i]
  BY <1>1
<1>b. /\ back \in Seq(Accounts) /\ Len(back) = n - row
      /\ \A i \in 1..(n - row) : back[i] = list[row + i]
  BY <1>1
<1>c. list' = front \o back
  BY DEF RemoveAt
<1>2. /\ list' \in Seq(Accounts) /\ Len(list') = n - 1
      /\ \A i \in 1..(n - 1) : list'[i] = IF i < row THEN list[i] ELSE list[i + 1]
  <2> HIDE DEF front, back
  <2>1. list' \in Seq(Accounts) /\ Len(list') = Len(front) + Len(back)
    BY <1>a, <1>b, <1>c
  <2>2. ASSUME NEW i \in 1..(n - 1), i < row PROVE list'[i] = list[i]
    BY <1>1, <1>a, <1>b, <1>c, <2>2
  <2>3. ASSUME NEW i \in 1..(n - 1), i >= row PROVE list'[i] = list[i + 1]
    <3>1. i - (row - 1) \in 1..(n - row)
      BY <1>1, <2>3
    <3>2. list'[i] = back[i - (row - 1)]
      BY <1>1, <1>a, <1>b, <1>c, <2>3
    <3> QED BY <1>1, <1>b, <2>3, <3>1, <3>2
  <2> QED BY <1>1, <1>a, <1>b, <2>1, <2>2, <2>3
<1>3. Listed' \subseteq Listed
  <2>1. DOMAIN list' = 1..(n - 1)
    BY <1>2
  <2>2. ASSUME NEW i \in 1..(n - 1) PROVE list'[i] \in Listed
    <3> HIDE DEF n
    <3>1. i \in DOMAIN list /\ i + 1 \in DOMAIN list
      BY <1>1, <2>2
    <3>2. list[i] \in Listed /\ list[i + 1] \in Listed
      BY <3>1 DEF Listed
    <3> QED BY <1>2, <2>2, <3>2
  <2> QED BY <2>1, <2>2 DEF Listed
<1>4. ASSUME NEW i \in 1..n, i # row PROVE list[i] \in Listed'
  <2>1. CASE i < row
    BY <1>1, <1>2, <2>1 DEF Listed
  <2>2. CASE i > row
    <3>1. i - 1 \in 1..(n - 1) /\ list'[i - 1] = list[i]
      BY <1>1, <1>2, <2>2
    <3> QED BY <1>2, <3>1 DEF Listed
  <2> QED BY <1>1, <1>4, <2>1, <2>2
<1> QED BY <1>1, <1>2, <1>3, <1>4 DEF Listed

-----------------------------------------------------------------------------
\* The operations of the user on the list.
LEMMA AddAccountKeeps == ASSUME IInv, NEW b \in Accounts, AddAccount(b) PROVE IInv'
<1>1. /\ b \in fresh /\ fresh' = fresh \ {b} /\ started' = started
      /\ UNCHANGED <<busy, heard, current, nextTimer, refreshTimer, launch, stray, strayed>>
      /\ state' = [state EXCEPT ![b] = "Online"]
  BY DEF AddAccount, OutsideList, strayVars
<1>2. b \notin busy /\ b \notin strayed /\ ~SomebodyHas(b)
  BY <1>1 DEF IInv, FreshUnknown
<1>3. /\ list' \in Seq(Accounts)
      /\ Listed' \subseteq Listed \union {b}
      /\ \A x : HasProfile(x) => HasProfile(x)'
      /\ DefaultListed'
  <2>1. CASE ~HasProfile(b) /\ list' = Append(list, b) /\ dflt' = IF list = <<>> THEN b ELSE dflt
    BY <2>1, AppendRow DEF IInv, Typed, DefaultListed
  <2>2. ASSUME NEW row \in DOMAIN list, IsRowOf(b, row), list' = [list EXCEPT ![row] = b],
               dflt' = IF Len(list) = 1 THEN b ELSE NewDefault(b, row)
        PROVE  /\ list' \in Seq(Accounts) /\ Listed' \subseteq Listed \union {b}
               /\ \A x : HasProfile(x) => HasProfile(x)'
               /\ DefaultListed'
    <3>1. Profile[list[row]] = Profile[b]
      BY <2>2 DEF IsRowOf
    <3> QED BY <2>2, <3>1, ReplaceRow DEF IInv, Typed, DefaultListed, NewDefault
  <2> QED BY <2>1, <2>2 DEF AddAccount
<1>4. Typed'
  BY <1>1, <1>3 DEF IInv, Typed, States
<1>5. FreshUnknown'
  BY <1>1, <1>3 DEF IInv, FreshUnknown, SomebodyHas
<1>6. SignInListed' /\ ClaimFound' /\ ScheduleAlive' /\ StrayInLogin'
  BY <1>1, <1>3 DEF IInv, SignInListed, ClaimFound, ScheduleAlive, Waiting, StrayInLogin, InLogin
<1>7. WorkingHasTask'
  BY <1>1, <1>2, <1>3 DEF IInv, Typed, WorkingHasTask, SomebodyHas
<1> QED BY <1>3, <1>4, <1>5, <1>6, <1>7 DEF IInv

LEMMA RemoveAccountKeeps ==
    ASSUME IInv, NEW row \in DOMAIN list, RemoveAccount(row) PROVE IInv'
<1>1. /\ UNCHANGED <<busy, heard, current, nextTimer, refreshTimer, launch, started, fresh, state,
                     stray, strayed>>
      /\ list' = RemoveAt(list, row)
      /\ dflt' = IF dflt = list[row] THEN None ELSE dflt
  BY DEF RemoveAccount, OutsideList, strayVars
<1>2. /\ list' \in Seq(Accounts) /\ Listed' \subseteq Listed
      /\ \A x \in Listed : x = list[row] \/ x \in Listed'
  BY <1>1, RemoveRow DEF IInv, Typed
<1>3. Typed' /\ FreshUnknown' /\ ScheduleAlive' /\ ClaimFound' /\ StrayInLogin'
  BY <1>1, <1>2 DEF IInv, Typed, FreshUnknown, ScheduleAlive, ClaimFound, SomebodyHas, StrayInLogin,
                    InLogin
<1>4. DefaultListed'
  BY <1>1, <1>2 DEF IInv, DefaultListed
<1>5. SignInListed'
  BY <1>1 DEF RemoveAccount, Quiet, SignInListed, Waiting, InLogin
<1>6. WorkingHasTask'
  BY <1>1, <1>2 DEF IInv, WorkingHasTask, SomebodyHas
<1> QED BY <1>3, <1>4, <1>5, <1>6 DEF IInv

LEMMA SetDefaultKeeps ==
    ASSUME IInv, NEW a \in Accounts \union {None}, SetDefaultAccount(a) PROVE IInv'
<1>1. /\ UNCHANGED <<list, busy, heard, current, nextTimer, refreshTimer, launch, started, fresh, state,
                     stray, strayed>>
      /\ dflt' = a /\ a \in Listed \union {None}
  BY DEF SetDefaultAccount, OutsideList, strayVars
<1>2. DefaultListed'
  BY <1>1 DEF DefaultListed, Listed
<1> QED BY <1>1, <1>2 DEF IInv, Typed, FreshUnknown, SignInListed, ScheduleAlive, WorkingHasTask,
           ClaimFound, SomebodyHas, Listed, Waiting, HasProfile, StrayInLogin, InLogin

-----------------------------------------------------------------------------
\* What a turn of the login loop makes of the launch.
LEMMA LoginTurn ==
    ASSUME IInv, NEW l \in Launches, NEW a \in Accounts, HasProfile(a),
           NEW wants \in BOOLEAN, Login(l, a, wants) \/ Idle(l)
    PROVE  \E r \in Launching :
             /\ launch' = [launch EXCEPT ![l] = r] /\ r.account \in {a, None}
             /\ r.online => r.claim # None
             /\ r.phase = "waiting" => r.account = a
             /\ stray' = stray \ {l} \/ (stray' = stray /\ r.phase \in {"waiting", "told"})
<1>1. NoLaunch \in Launching /\ NoLaunch.account = None /\ NoLaunch.online = FALSE
      /\ NoLaunch.phase = "idle"
  BY DEF NoLaunch, Launching, Phases
<1>2. CASE Idle(l)
  BY <1>1, <1>2 DEF Idle
<1>3. ASSUME NEW phase \in {"waiting", "told"}, Shows(l, phase, a, wants)
      PROVE  \E r \in Launching :
               /\ launch' = [launch EXCEPT ![l] = r] /\ r.account = a
               /\ ~r.online /\ stray' = stray /\ r.phase = phase
  <2> DEFINE r == [NoLaunch EXCEPT !.phase = phase, !.account = a, !.wants = wants]
  <2>1. r \in Launching /\ r.account = a /\ r.online = FALSE /\ r.phase = phase
    BY <1>3 DEF NoLaunch, Launching, Phases
  <2> QED BY <1>3, <2>1 DEF Shows
<1>4. ASSUME NEW online \in BOOLEAN, Prepare(l, a, online)
      PROVE  \E r \in Launching :
               /\ launch' = [launch EXCEPT ![l] = r] /\ r.account = a
               /\ r.online => r.claim # None
               /\ r.phase = "preparing" /\ stray' = stray \ {l}
  <2> DEFINE r == [NoLaunch EXCEPT !.phase = "preparing", !.account = a, !.online = online,
                                   !.claim = IF online THEN ClaimOf(a) ELSE None]
  <2>1. ClaimOf(a) \in Accounts
    BY ClaimOfTyped DEF IInv, Typed
  <2>2. r \in Launching /\ (r.online => r.claim # None) /\ r.account = a /\ r.phase = "preparing"
    BY <2>1, AccountsAssumption DEF NoLaunch, Launching, Phases
  <2> QED BY <1>4, <2>2 DEF Prepare
<1> QED BY <1>2, <1>3, <1>4 DEF Login

\* A turn of the login loop for an account somebody has and whose profile is
\* on the list.
LEMMA LoginKeeps ==
    ASSUME IInv, NEW l \in Launches, NEW a \in Accounts, SomebodyHas(a), HasProfile(a),
           NEW wants \in BOOLEAN, Login(l, a, wants) \/ Idle(l), DefaultListed', UNCHANGED OutsideLogin
    PROVE  IInv'
<1>1. UNCHANGED <<list, fresh, heard, current, nextTimer, refreshTimer, started>>
  BY DEF OutsideLogin
<1>2. \/ Refresh(a) \/ UNCHANGED <<busy, state, strayed>>
  BY DEF Login, Idle, Prepare, Unsigned
<1>3. PICK r \in Launching :
        /\ launch' = [launch EXCEPT ![l] = r] /\ r.account \in {a, None}
        /\ r.online => r.claim # None
        /\ r.phase = "waiting" => r.account = a
        /\ stray' = stray \ {l} \/ (stray' = stray /\ r.phase \in {"waiting", "told"})
  BY LoginTurn
<1>4. launch' \in [Launches -> Launching]
      /\ \A m \in Launches : launch'[m] = IF m = l THEN r ELSE launch[m]
  BY <1>3 DEF IInv, Typed
<1>5. \A x \in Accounts : SomebodyHas(x)' => SomebodyHas(x)
  BY <1>1, <1>3, <1>4, AccountsAssumption DEF SomebodyHas, Listed
<1>6. /\ WorkingHasTask' /\ FreshUnknown' /\ strayed' \subseteq Accounts
      /\ busy' \subseteq Accounts \ Offline /\ state' \in [Accounts -> States]
  BY <1>1, <1>2, <1>5, RefreshKeepsWorking
<1>7. SignInListed' /\ ClaimFound'
  BY <1>1, <1>3, <1>4 DEF IInv, SignInListed, ClaimFound, Waiting, HasProfile
<1>8. ScheduleAlive'
  <2>1. busy \subseteq busy'
    BY <1>2, RefreshWorks DEF IInv
  <2> QED BY <1>1, <2>1 DEF IInv, ScheduleAlive
<1>9. StrayInLogin'
  BY <1>3, <1>4, <1>6 DEF IInv, StrayInLogin, InLogin
<1> QED BY <1>1, <1>4, <1>6, <1>7, <1>8, <1>9 DEF IInv, Typed

LEMMA StartLaunchKeeps ==
    ASSUME IInv, NEW l \in Launches, NEW a \in Accounts, StartLaunch(l, a) PROVE IInv'
<1>1. /\ a \in Listed /\ UNCHANGED OutsideLogin /\ dflt' \in {dflt, a}
      /\ \E wants \in BOOLEAN : Login(l, a, wants)
  BY DEF StartLaunch
<1>2. SomebodyHas(a) /\ HasProfile(a)
  BY <1>1 DEF SomebodyHas, HasProfile, Listed
<1>3. DefaultListed'
  BY <1>1 DEF IInv, DefaultListed, OutsideLogin, Listed
<1> QED BY <1>1, <1>2, <1>3, LoginKeeps

LEMMA ResumeLoginKeeps == ASSUME IInv, NEW l \in Launches, ResumeLogin(l) PROVE IInv'
<1> DEFINE a == launch[l].account
<1>1. /\ Waiting(l)
      /\ Login(l, a, launch[l].wants) \/ Idle(l)
      /\ UNCHANGED OutsideLogin /\ dflt' = dflt
  BY DEF ResumeLogin
<1>2. a \in Accounts /\ HasProfile(a) /\ SomebodyHas(a) /\ launch[l].wants \in BOOLEAN
  BY <1>1 DEF IInv, SignInListed, SomebodyHas, Typed, Launching
<1>3. DefaultListed'
  BY <1>1 DEF IInv, DefaultListed, OutsideLogin, Listed
<1> QED BY <1>1, <1>2, <1>3, LoginKeeps

\* The end of a login that told why it fails.
LEMMA CloseMessageKeeps == ASSUME IInv, NEW l \in Launches, CloseMessage(l) PROVE IInv'
<1>1. /\ launch' = [launch EXCEPT ![l] = NoLaunch] /\ stray' = stray \ {l}
      /\ UNCHANGED <<list, dflt, fresh, busy, heard, current, nextTimer, refreshTimer, state,
                     started, strayed>>
  BY DEF CloseMessage, Idle, Unsigned, OutsideLogin
<1>2. NoLaunch \in Launching /\ NoLaunch.account = None /\ NoLaunch.online = FALSE
      /\ NoLaunch.phase = "idle"
  BY DEF NoLaunch, Launching, Phases
<1>3. launch' \in [Launches -> Launching]
      /\ \A m \in Launches : launch'[m] = IF m = l THEN NoLaunch ELSE launch[m]
  BY <1>1, <1>2 DEF IInv, Typed
<1>4. \A x \in Accounts : SomebodyHas(x)' => SomebodyHas(x)
  BY <1>1, <1>2, <1>3, AccountsAssumption DEF SomebodyHas, Listed
<1>5. Typed' /\ ScheduleAlive' /\ DefaultListed' /\ WorkingHasTask'
  BY <1>1, <1>3, <1>4 DEF IInv, Typed, ScheduleAlive, DefaultListed, WorkingHasTask, Listed, SomebodyHas
<1>6. FreshUnknown' /\ StrayInLogin'
  BY <1>1, <1>3, <1>4 DEF IInv, Typed, FreshUnknown, StrayInLogin, InLogin
<1>7. SignInListed' /\ ClaimFound'
  BY <1>1, <1>2, <1>3 DEF IInv, SignInListed, ClaimFound, Waiting, HasProfile
<1> QED BY <1>5, <1>6, <1>7 DEF IInv

\* The claim and the end of a launch.
LEMMA GameKeeps ==
    ASSUME IInv, NEW l \in Launches, Claim(l) \/ FinishLaunch(l) PROVE IInv'
<1>1. UNCHANGED OutsideGame
  BY DEF Claim, FinishLaunch
<1>2. PICK r \in Launching :
        /\ launch' = [launch EXCEPT ![l] = r] /\ r.account \in {launch[l].account, None}
        /\ r.online => r.claim # None
        /\ r.phase # "waiting"
  <2>1. CASE Claim(l)
    <3> DEFINE r == [launch[l] EXCEPT !.phase = "playing"]
    <3>1. launch[l] \in Launching
      BY DEF IInv, Typed
    <3>2. r \in Launching /\ r.account = launch[l].account /\ r.online = launch[l].online
          /\ r.claim = launch[l].claim /\ r.phase = "playing"
      BY <3>1 DEF Launching, Phases
    <3>3. launch' = [launch EXCEPT ![l] = r]
      BY <2>1 DEF Claim
    <3> QED BY <3>2, <3>3 DEF IInv, ClaimFound
  <2>2. CASE FinishLaunch(l)
    <3>1. NoLaunch \in Launching /\ NoLaunch.account = None /\ NoLaunch.online = FALSE
          /\ NoLaunch.phase = "idle"
      BY DEF NoLaunch, Launching, Phases
    <3> QED BY <2>2, <3>1 DEF FinishLaunch
  <2> QED BY <2>1, <2>2
<1>3. launch' \in [Launches -> Launching]
      /\ \A m \in Launches : launch'[m] = IF m = l THEN r ELSE launch[m]
  BY <1>2 DEF IInv, Typed
<1>4. UNCHANGED <<list, dflt, fresh, busy, heard, current, nextTimer, refreshTimer, state, started,
                  stray, strayed>>
  BY <1>1 DEF OutsideGame, strayVars
<1>5. \A x \in Accounts : SomebodyHas(x)' => SomebodyHas(x)
  BY <1>2, <1>3, <1>4, AccountsAssumption DEF SomebodyHas, Listed
<1>6. Typed' /\ ScheduleAlive' /\ DefaultListed' /\ WorkingHasTask'
  BY <1>3, <1>4, <1>5 DEF IInv, Typed, ScheduleAlive, DefaultListed, WorkingHasTask, Listed, SomebodyHas
<1>7. FreshUnknown' /\ StrayInLogin'
  <2>1. launch[l].phase \in {"preparing", "playing"}
    BY DEF Claim, FinishLaunch
  <2> QED BY <1>3, <1>4, <1>5, <2>1 DEF IInv, Typed, FreshUnknown, StrayInLogin, InLogin
<1>8. SignInListed' /\ ClaimFound'
  BY <1>2, <1>3, <1>4 DEF IInv, SignInListed, ClaimFound, Waiting, HasProfile
<1> QED BY <1>6, <1>7, <1>8 DEF IInv

-----------------------------------------------------------------------------
(* The queue: the types of the sequences the schedule computes.              *)

\* The values that N steps lead through, the first one included.
Path(f, first, N, by) == f[0] = first /\ \A n \in 1..N : f[n] = by[n][f[n - 1]]

\* Steps that can each be taken from any value can be taken one after the other.
LEMMA StepsCompose ==
    ASSUME NEW S, NEW first \in S, NEW N \in Nat, NEW by \in [1..N -> [S -> S]]
    PROVE  \E f \in [0..N -> S] : Path(f, first, N, by)
<1> DEFINE Reaches(n) == \E f \in [0..n -> S] :
              f[0] = first /\ \A k \in 1..n : f[k] = by[k][f[k - 1]]
           T == {n \in 0..N : Reaches(n)}
<1>1. 0 \in T
  <2> DEFINE f == [n \in 0..0 |-> first]
  <2>1. f \in [0..0 -> S] /\ f[0] = first /\ 1..0 = {}
    OBVIOUS
  <2>2. Reaches(0)
    <3> HIDE DEF f
    <3> QED BY <2>1
  <2> QED BY <2>2
<1>2. ASSUME NEW n \in 1..N, n - 1 \in T PROVE n \in T
  <2>1. PICK f \in [0..(n - 1) -> S] :
            f[0] = first /\ \A k \in 1..(n - 1) : f[k] = by[k][f[k - 1]]
    BY <1>2
  <2> DEFINE g == [k \in 0..n |-> IF k < n THEN f[k] ELSE by[n][f[n - 1]]]
  <2>2. by[n][f[n - 1]] \in S
    BY <2>1
  <2>3. \A k \in 0..n : k < n => k \in 0..(n - 1)
    OBVIOUS
  <2>4. g \in [0..n -> S]
    BY <2>1, <2>2, <2>3
  <2>5. g[0] = first
    BY <2>1
  <2>6. ASSUME NEW k \in 1..n PROVE g[k] = by[k][g[k - 1]]
    <3>1. k - 1 \in 0..n /\ k - 1 < n /\ k \in 0..n /\ (k < n => k \in 1..(n - 1)) /\ (~ (k < n) => k = n)
      BY <2>6
    <3> QED BY <2>1, <3>1
  <2> HIDE DEF g
  <2> QED BY <2>4, <2>5, <2>6
<1>3. N \in T
  <2> HIDE DEF T
  <2>1. 0..N \subseteq T
    BY <1>1, <1>2, UpTo
  <2> QED BY <2>1
<1> QED BY <1>3 DEF Path

\* The two loops of fillQueue() queue identifiers of accounts.
LEMMA FilledTyped ==
    ASSUME list \in Seq(Accounts), dflt \in Accounts \union {None}, NEW q \in Seq(Ids)
    PROVE  Filled(q) \in Seq(Ids)
<1> DEFINE Queues == Seq(Ids)
           QueueRefresh(ids, a) ==
              IF a # dflt /\ ShouldRefresh(a) /\ ~Contains(ids, InternalId[a])
                THEN Append(ids, InternalId[a]) ELSE ids
           first == IF dflt # None /\ ShouldRefresh(dflt) THEN Append(q, InternalId[dflt]) ELSE q
           N == Len(list)
           Then(g) == [n \in 0..N |-> IF n > 0 THEN QueueRefresh(g[n - 1], list[n]) ELSE first]
           by == [n \in 1..N |-> [ids \in Queues |-> QueueRefresh(ids, list[n])]]
           after == CHOOSE g : g = Then(g)
<1>1. Filled(q) = after[N]
  BY DEF Filled
<1>2. N \in Nat /\ first \in Queues /\ \A n \in 1..N : list[n] \in Accounts
  BY DEF Ids
<1>3. \A ids \in Queues, a \in Accounts : QueueRefresh(ids, a) \in Queues
  BY DEF Ids
<1> HIDE DEF Queues, QueueRefresh, first, N
<1>4. by \in [1..N -> [Queues -> Queues]]
  BY <1>2, <1>3
<1>5. PICK f \in [0..N -> Queues] : Path(f, first, N, by)
  <2> HIDE DEF by, Then, after
  <2> QED BY <1>2, <1>4, StepsCompose
<1>6. f = Then(f)
  <2>1. ASSUME NEW n \in 1..N PROVE f[n] = QueueRefresh(f[n - 1], list[n])
    <3>1. n - 1 \in 0..N
      BY <1>2
    <3> QED BY <1>5, <3>1 DEF Path
  <2>2. \A n \in 0..N : f[n] = IF n > 0 THEN QueueRefresh(f[n - 1], list[n]) ELSE first
    BY <1>2, <1>5, <2>1 DEF Path
  <2> QED BY <1>5, <2>2
<1>7. after = Then(after)
  <2> HIDE DEF Then
  <2> QED BY <1>6
<1>8. \A n \in 0..N : after[n] = IF n > 0 THEN QueueRefresh(after[n - 1], list[n]) ELSE first
  <2> HIDE DEF after
  <2> QED BY <1>7
<1> HIDE DEF after
<1> DEFINE T == {n \in 0..N : after[n] \in Queues}
<1>9. 0 \in T
  BY <1>2, <1>8
<1>10. ASSUME NEW n \in 1..N, n - 1 \in T PROVE n \in T
  <2>1. n \in 0..N /\ n > 0
    BY <1>2
  <2>2. after[n] = QueueRefresh(after[n - 1], list[n])
    BY <1>8, <2>1
  <2> QED BY <1>2, <1>3, <1>10, <2>1, <2>2
<1>11. 0..N \subseteq T
  <2> HIDE DEF T
  <2> QED BY <1>2, <1>9, <1>10, UpTo
<1> QED BY <1>1, <1>2, <1>11 DEF Queues

\* requestRefresh() takes the identifier out of the queue, if it is there, and
\* puts it in front.
LEMMA ToFrontTyped ==
    ASSUME queue \in Seq(Ids), NEW a \in Accounts
    PROVE  ToFront(a) \in Seq(Ids)
<1> DEFINE id == InternalId[a]
           I == {i \in 1..Len(queue) : queue[i] = id}
           least == Min(I)
<1>1. id \in Ids
  BY DEF Ids
<1>2. RemoveFirst(queue, id) \in Seq(Ids)
  <2>1. CASE ~ \E i \in 1..Len(queue) : queue[i] = id
    BY <2>1 DEF RemoveFirst
  <2>2. CASE \E i \in 1..Len(queue) : queue[i] = id
    <3>1. I \subseteq Nat /\ I # {}
      BY <2>2
    <3>2. \E n \in I : \A i \in I : n <= i
      <4> HIDE DEF I
      <4> QED BY <3>1, LeastNumber
    <3>3. least \in I
      <4> HIDE DEF I
      <4> QED BY <3>2 DEF Min
    <3>4. RemoveFirst(queue, id) = SubSeq(queue, 1, least - 1) \o SubSeq(queue, least + 1, Len(queue))
      BY <2>2, <3>1 DEF RemoveFirst, RemoveAt, SelectInSeq
    <3>5. least \in 1..Len(queue) /\ Len(queue) \in Nat
      BY <3>3
    <3> HIDE DEF least
    <3>6. SubSeq(queue, 1, least - 1) \in Seq(Ids)
      BY <3>5
    <3>7. SubSeq(queue, least + 1, Len(queue)) \in Seq(Ids)
      BY <3>5
    <3> QED BY <3>4, <3>6, <3>7
  <2> QED BY <2>1, <2>2
<1> QED BY <1>1, <1>2 DEF ToFront

-----------------------------------------------------------------------------
(* The counts: the activities of the list and the users of each account.     *)

\* The launches that play with an account.
Players(a) == {l \in Launches : launch[l].phase = "playing" /\ launch[l].claim = a}

\* m_useCount counts the UseLocks: one for each launch that plays.
UsesCounted == /\ uses \in [Accounts -> Nat]
               /\ \A a \in Accounts : IsFiniteSet(Players(a)) /\ uses[a] = Cardinality(Players(a))

\* What Counted says of the schedule.
Scheduled == /\ queue \in Seq(Ids) /\ current \in Accounts \union {None} /\ heard \subseteq busy
             /\ nextTimer \in BOOLEAN /\ refreshTimer \in BOOLEAN
             /\ started \in BOOLEAN /\ requests \in 0..MaxRequests
             /\ validity \in [Accounts -> Validities]

\* What it says of the activities.
Active == activity \in Nat /\ ActivityCovers

CInv == IInv /\ Scheduled /\ Active /\ UsesCounted

\* The invariants together say that everything is counted.
LEMMA CountedFollows == ASSUME CInv PROVE Counted
<1>1. Listed \subseteq Accounts
  BY ListedTyped DEF CInv, IInv, Typed
<1>2. dflt \in Accounts \union {None}
  BY <1>1 DEF CInv, IInv, DefaultListed
<1> QED BY <1>2 DEF CInv, IInv, Typed, Launching, Scheduled, Active, UsesCounted, Counted, TypeOK,
        StrayInLogin

\* The running tasks that count are finitely many.
LEMMA ActivitiesFinite ==
    ASSUME list \in Seq(Accounts), NEW S
    PROVE  /\ IsFiniteSet(S \intersect Listed) /\ Cardinality(S \intersect Listed) \in Nat
           /\ \A T \in SUBSET (S \intersect Listed) :
                 IsFiniteSet(T) /\ Cardinality(T) <= Cardinality(S \intersect Listed)
<1>1. IsFiniteSet(S \intersect Listed)
  <2>1. S \intersect Listed \subseteq Accounts
    BY ListedTyped
  <2> QED BY <2>1, FS_Subset, AccountsAssumption
<1> QED BY <1>1, FS_Subset, FS_CardinalityType

\* Fewer activities are left than before: the count still covers them.
LEMMA FewerActivities ==
    ASSUME IInv, Active, activity' = activity,
           busy' \intersect Listed' \subseteq busy \intersect Listed
    PROVE  Active'
<1>1. IsFiniteSet(busy \intersect Listed) /\ Cardinality(busy \intersect Listed) \in Nat
  BY ActivitiesFinite DEF IInv, Typed
<1>2. /\ Cardinality(busy' \intersect Listed') <= Cardinality(busy \intersect Listed)
      /\ Cardinality(busy' \intersect Listed') \in Nat
  BY <1>1, FS_Subset, FS_CardinalityType
<1> QED BY <1>1, <1>2 DEF Active, ActivityCovers

\* refresh() of an account announces the activity it adds.
LEMMA RefreshCounts ==
    ASSUME IInv, Scheduled, Active, NEW a \in Accounts, Refresh(a), UNCHANGED list
    PROVE  Active' /\ validity' \in [Accounts -> Validities]
<1>1. Listed' = Listed
  BY DEF Listed
<1>2. CASE a \in Offline
  <2>1. Active'
    BY <1>1, <1>2, FewerActivities DEF Refresh
  <2> QED BY <1>2, <2>1 DEF Refresh, Certain, Scheduled, Validities
<1>3. CASE a \notin Offline
  <2>1. busy' = busy \union {a} /\ validity' = validity
        /\ IF a \in busy THEN activity' = activity ELSE Begin(a)
    BY <1>3 DEF Refresh
  <2>2. CASE a \in busy \/ a \notin Listed
    BY <1>1, <2>1, <2>2, FewerActivities DEF Begin, Scheduled
  <2>3. CASE a \notin busy /\ a \in Listed
    <3>1. /\ IsFiniteSet(busy \intersect Listed)
          /\ Cardinality(busy \intersect Listed) \in Nat
      BY ActivitiesFinite DEF IInv, Typed
    <3>2. busy' \intersect Listed' = (busy \intersect Listed) \union {a}
      BY <1>1, <2>1, <2>3
    <3>3. Cardinality(busy' \intersect Listed') = Cardinality(busy \intersect Listed) + 1
      BY <2>3, <3>1, <3>2, FS_AddElement
    <3> QED BY <2>1, <2>3, <3>1, <3>3 DEF Active, ActivityCovers, Begin, Scheduled
  <2> QED BY <2>2, <2>3
<1> QED BY <1>2, <1>3

\* One round of the schedule.
LEMMA TryNextCounts ==
    ASSUME IInv, Scheduled, Active, UNCHANGED OutsideQueue,
           NEW q \in Seq(Ids), NEW next \in BOOLEAN, NEW refresh \in BOOLEAN,
           TryNext(q, next, refresh), started' \in BOOLEAN, requests' \in 0..MaxRequests
    PROVE  Scheduled' /\ Active'
<1>1. list' = list /\ Listed' = Listed /\ Ids' = Ids
  BY DEF OutsideQueue, Listed, Ids
<1>2. CASE /\ queue' = <<>> /\ refreshTimer' = TRUE /\ nextTimer' = next
           /\ UNCHANGED <<busy, heard, current, activity, validity, state, strayed>>
  <2>1. Active'
    BY <1>1, <1>2, FewerActivities
  <2> QED BY <1>1, <1>2, <2>1 DEF Scheduled
<1>3. ASSUME NEW i \in DOMAIN q, NEW row \in DOMAIN list,
             queue' = SubSeq(q, i + 1, Len(q)), Refresh(list[row]), refreshTimer' = refresh,
             IF list[row] \in Offline
               THEN current' = None /\ nextTimer' = TRUE /\ UNCHANGED heard
               ELSE /\ current' = list[row] /\ nextTimer' = next
                    /\ heard' = heard \union {list[row]}
      PROVE  Scheduled' /\ Active'
  <2>1. list[row] \in Accounts
    BY <1>3 DEF IInv, Typed
  <2>2. Active' /\ validity' \in [Accounts -> Validities]
    BY <1>1, <1>3, <2>1, RefreshCounts
  <2>3. heard' \subseteq busy'
    BY <1>3, <2>1, RefreshWorks DEF IInv, Scheduled
  <2>4. queue' \in Seq(Ids)
    BY <1>3
  <2> QED BY <1>1, <1>3, <2>1, <2>2, <2>3, <2>4 DEF Scheduled
<1> QED BY <1>2, <1>3 DEF TryNext

-----------------------------------------------------------------------------
LEMMA InitInv == Init => IInv
<1> SUFFICES ASSUME Init PROVE IInv
  OBVIOUS
<1>1. list \in Seq(Accounts) /\ Listed \subseteq Accounts
  BY AccountsAssumption, ListedTyped DEF Init
<1>2. \A l \in Launches : launch[l] = NoLaunch
  BY DEF Init
<1>3. Typed
  BY <1>1, AccountsAssumption DEF Init, Typed, States, NoLaunch, Launching, Phases
<1>4. FreshUnknown
  BY <1>1, <1>2, AccountsAssumption DEF Init, FreshUnknown, SomebodyHas, NoLaunch
<1>5. SignInListed /\ ClaimFound
  BY <1>2 DEF SignInListed, ClaimFound, Waiting, NoLaunch
<1>6. ScheduleAlive /\ DefaultListed /\ WorkingHasTask /\ StrayInLogin
  BY DEF Init, ScheduleAlive, DefaultListed, WorkingHasTask, StrayInLogin
<1> QED BY <1>3, <1>4, <1>5, <1>6 DEF IInv

LEMMA NextInv == IInv /\ [Next]_vars => IInv'
<1> SUFFICES ASSUME IInv, [Next]_vars PROVE IInv'
  OBVIOUS
<1>1. CASE FillQueue \/ NextTimerFires
  <2>1. CASE FillQueue
    <3>1. TryNext(Filled(queue), nextTimer, FALSE) /\ UNCHANGED OutsideQueue
      BY <2>1 DEF FillQueue
    <3> QED BY <3>1, TryNextKeeps
  <2>2. CASE NextTimerFires
    <3>1. TryNext(queue, FALSE, refreshTimer) /\ UNCHANGED OutsideQueue
      BY <2>2 DEF NextTimerFires
    <3> QED BY <3>1, TryNextKeeps
  <2> QED BY <1>1, <2>1, <2>2
<1>2. ASSUME NEW a \in Accounts, RequestRefresh(a) PROVE IInv'
  <2>1. CASE TryNext(ToFront(a), nextTimer, refreshTimer) /\ UNCHANGED OutsideQueue
    BY <2>1, TryNextKeeps
  <2>2. CASE UNCHANGED <<busy, heard, current, nextTimer, refreshTimer, state, started, strayed>>
             /\ UNCHANGED OutsideQueue
    BY <2>2, OutsideKeeps DEF OutsideQueue
  <2> QED BY <1>2, <2>1, <2>2 DEF RequestRefresh
<1>3. ASSUME NEW a \in Accounts, Age(a) PROVE IInv'
  BY <1>3, OutsideKeeps DEF Age, strayVars
<1>4. ASSUME NEW a \in Accounts, NEW l \in Launches, StartLaunch(l, a) PROVE IInv'
  BY <1>4, StartLaunchKeeps
<1>5. ASSUME NEW l \in Launches, ResumeLogin(l) \/ CloseMessage(l) \/ Claim(l) \/ FinishLaunch(l)
      PROVE  IInv'
  BY <1>5, ResumeLoginKeeps, CloseMessageKeeps, GameKeeps
<1>6. CASE UNCHANGED vars
  BY <1>6, OutsideKeeps DEF vars, strayVars
<1> QED BY <1>1, <1>2, <1>3, <1>4, <1>5, <1>6, TaskEndsKeeps, ReportKeeps, TaskVanishesKeeps, AddAccountKeeps,
        RemoveAccountKeeps, SetDefaultKeeps DEF Next

-----------------------------------------------------------------------------
(* Every step keeps the counts.                                              *)

\* The end of a task takes one activity away, at most the one it stands for.
LEMMA TaskEndsCounts ==
    ASSUME CInv, NEW a \in Accounts, TaskEnds(a) PROVE Scheduled' /\ Active'
<1>1. /\ a \in busy /\ busy' = busy \ {a} /\ heard' = heard \ {a} /\ End(a)
      /\ UNCHANGED <<list, queue, refreshTimer, requests, started>>
  BY DEF TaskEnds
<1>2. Listed' = Listed /\ Ids' = Ids
  BY <1>1 DEF Listed, Ids
<1>3. PICK end \in Ends : AccountEnds(a, end) /\ ListHears(a, end)
  BY DEF TaskEnds
<1>4. Scheduled'
  <2>1. validity' \in [Accounts -> Validities]
    BY <1>3 DEF AccountEnds, Ends, CInv, Scheduled, Validities
  <2>2. current' \in Accounts \union {None} /\ nextTimer' \in BOOLEAN
    BY <1>3 DEF ListHears, CInv, Scheduled
  <2> QED BY <1>1, <1>2, <2>1, <2>2 DEF CInv, Scheduled
<1>5. Active'
  <2>1. /\ IsFiniteSet(busy \intersect Listed)
        /\ Cardinality(busy \intersect Listed) \in Nat
    BY ActivitiesFinite DEF CInv, IInv, Typed
  <2>2. CASE a \notin Listed
    BY <1>1, <1>2, <2>2, FewerActivities DEF End, CInv
  <2>3. CASE a \in Listed
    <3>1. busy' \intersect Listed' = (busy \intersect Listed) \ {a}
      BY <1>1, <1>2
    <3>2. /\ Cardinality(busy' \intersect Listed') = Cardinality(busy \intersect Listed) - 1
          /\ Cardinality(busy' \intersect Listed') \in Nat
      BY <1>1, <2>1, <2>3, <3>1, FS_RemoveElement, FS_CardinalityType
    <3> QED BY <1>1, <2>1, <2>3, <3>2 DEF CInv, Active, ActivityCovers, End
  <2> QED BY <2>2, <2>3
<1> QED BY <1>4, <1>5

\* The operations on the list and the end of a task nobody holds.
LEMMA ListCounts ==
    ASSUME CInv, UNCHANGED <<queue, current, nextTimer, refreshTimer, activity, started, requests>>,
           heard' \subseteq busy', validity' \in [Accounts -> Validities],
           busy' \intersect Listed' \subseteq busy \intersect Listed
    PROVE  Scheduled' /\ Active'
<1>1. Active'
  BY FewerActivities DEF CInv
<1>2. Ids' = Ids
  BY DEF Ids
<1> QED BY <1>1, <1>2 DEF CInv, Scheduled

LEMMA TaskVanishesCounts ==
    ASSUME CInv, NEW a \in Accounts, TaskVanishes(a) PROVE Scheduled' /\ Active'
<1>1. Listed' = Listed /\ busy' = busy \ {a} /\ heard' = heard \ {a}
  BY DEF TaskVanishes, Listed
<1> QED BY <1>1, ListCounts DEF TaskVanishes, CInv, Scheduled

LEMMA AddAccountCounts ==
    ASSUME CInv, NEW b \in Accounts, AddAccount(b) PROVE Scheduled' /\ Active'
<1>1. b \notin busy
  BY DEF AddAccount, CInv, IInv, FreshUnknown
<1>2. Listed' \subseteq Listed \union {b}
  <2>1. CASE list' = Append(list, b)
    BY <2>1, AppendRow DEF CInv, IInv, Typed
  <2>2. ASSUME NEW row \in DOMAIN list, IsRowOf(b, row), list' = [list EXCEPT ![row] = b]
        PROVE  Listed' \subseteq Listed \union {b}
    BY <2>2, ReplaceRow DEF IsRowOf, CInv, IInv, Typed
  <2> QED BY <2>1, <2>2 DEF AddAccount
<1>3. validity' \in [Accounts -> Validities] /\ UNCHANGED OutsideList
  BY DEF AddAccount, CInv, Scheduled, Validities
<1> QED BY <1>1, <1>2, <1>3, ListCounts DEF OutsideList, CInv, Scheduled

LEMMA RemoveAccountCounts ==
    ASSUME CInv, NEW row \in DOMAIN list, RemoveAccount(row) PROVE Scheduled' /\ Active'
<1>1. Listed' \subseteq Listed
  BY RemoveRow DEF RemoveAccount, CInv, IInv, Typed
<1>2. UNCHANGED OutsideList /\ UNCHANGED validity
  BY DEF RemoveAccount
<1> QED BY <1>1, <1>2, ListCounts DEF OutsideList, CInv, Scheduled

\* A turn of the loop of login() is no user of an account.
LEMMA LoginCounts ==
    ASSUME CInv, NEW l \in Launches, NEW a \in Accounts, launch[l].phase # "playing",
           NEW wants \in BOOLEAN, Login(l, a, wants) \/ Idle(l), UNCHANGED OutsideLogin
    PROVE  Scheduled' /\ Active' /\ UsesCounted'
<1>1. UNCHANGED <<list, heard, current, queue, nextTimer, refreshTimer, uses, requests, started>>
  BY DEF OutsideLogin
<1>2. Listed' = Listed /\ Ids' = Ids
  BY <1>1 DEF Listed, Ids
<1>3. Refresh(a) \/ UNCHANGED <<busy, activity, validity>>
  BY DEF Login, Idle, Prepare, Unsigned
<1>4. busy \subseteq busy' /\ Active' /\ validity' \in [Accounts -> Validities]
  <2>1. CASE Refresh(a)
    BY <1>1, <2>1, RefreshWorks, RefreshCounts DEF CInv, IInv
  <2>2. CASE UNCHANGED <<busy, activity, validity>>
    BY <1>2, <2>2, FewerActivities DEF CInv, Scheduled
  <2> QED BY <1>3, <2>1, <2>2
<1>5. PICK r : launch' = [launch EXCEPT ![l] = r] /\ r.phase # "playing"
  <2>1. NoLaunch.phase = "idle"
    BY DEF NoLaunch
  <2>2. CASE Idle(l)
    BY <2>1, <2>2 DEF Idle
  <2>3. ASSUME NEW phase \in {"waiting", "told"}, Shows(l, phase, a, wants)
        PROVE  \E r : launch' = [launch EXCEPT ![l] = r] /\ r.phase # "playing"
    <3> DEFINE r == [NoLaunch EXCEPT !.phase = phase, !.account = a, !.wants = wants]
    <3>1. r.phase # "playing" /\ launch' = [launch EXCEPT ![l] = r]
      BY <2>3 DEF Shows, NoLaunch
    <3> HIDE DEF r
    <3> QED BY <3>1
  <2>4. ASSUME NEW online \in BOOLEAN, Prepare(l, a, online)
        PROVE  \E r : launch' = [launch EXCEPT ![l] = r] /\ r.phase # "playing"
    <3> DEFINE r == [NoLaunch EXCEPT !.phase = "preparing", !.account = a, !.online = online,
                                     !.claim = IF online THEN ClaimOf(a) ELSE None]
    <3>1. r.phase # "playing" /\ launch' = [launch EXCEPT ![l] = r]
      BY <2>4 DEF Prepare, NoLaunch
    <3> HIDE DEF r
    <3> QED BY <3>1
  <2> QED BY <2>2, <2>3, <2>4 DEF Login
<1>6. \A x \in Accounts : Players(x)' = Players(x)
  BY <1>5 DEF Players, CInv, IInv, Typed
<1> QED BY <1>1, <1>2, <1>4, <1>6 DEF CInv, Scheduled, UsesCounted

\* The UseLock is taken with the claim and released at the end of the launch.
LEMMA ClaimCounts ==
    ASSUME CInv, NEW l \in Launches, Claim(l) PROVE UsesCounted'
<1> DEFINE a == launch[l].claim
<1>1. /\ launch[l].phase = "preparing"
      /\ launch' = [launch EXCEPT ![l].phase = "playing"]
      /\ uses' = IF a = None THEN uses ELSE [uses EXCEPT ![a] = @ + 1]
  BY DEF Claim
<1>2. launch[l] \in Launching /\ a \in Accounts \union {None}
  BY DEF CInv, IInv, Typed, Launching
<1>3. /\ launch'[l].phase = "playing" /\ launch'[l].claim = a
      /\ \A m \in Launches \ {l} : launch'[m] = launch[m]
  BY <1>1, <1>2 DEF CInv, IInv, Typed, Launching
<1>4. \A x \in Accounts :
         Players(x)' = IF x = a THEN Players(x) \union {l} ELSE Players(x)
  BY <1>1, <1>3 DEF Players
<1>5. l \notin Players(a)
  BY <1>1 DEF Players
<1>6. uses' \in [Accounts -> Nat]
      /\ \A x \in Accounts : uses'[x] = IF x = a THEN uses[x] + 1 ELSE uses[x]
  BY <1>1, <1>2, AccountsAssumption DEF CInv, UsesCounted
<1>7. ASSUME NEW x \in Accounts
      PROVE  IsFiniteSet(Players(x)') /\ uses'[x] = Cardinality(Players(x)')
  <2>1. IsFiniteSet(Players(x)) /\ uses[x] = Cardinality(Players(x))
    BY DEF CInv, UsesCounted
  <2>2. CASE x = a
    <3>1. Players(x)' = Players(x) \union {l} /\ l \notin Players(x)
      BY <1>4, <1>5, <2>2
    <3> QED BY <1>6, <2>1, <2>2, <3>1, FS_AddElement
  <2>3. CASE x # a
    BY <1>4, <1>6, <2>1, <2>3
  <2> QED BY <2>2, <2>3
<1> QED BY <1>6, <1>7 DEF UsesCounted

LEMMA FinishCounts ==
    ASSUME CInv, NEW l \in Launches, FinishLaunch(l) PROVE UsesCounted'
<1> DEFINE a == launch[l].claim
           playing == launch[l].phase = "playing"
<1>1. /\ launch' = [launch EXCEPT ![l] = NoLaunch]
      /\ uses' = IF playing /\ a # None THEN [uses EXCEPT ![a] = @ - 1] ELSE uses
  BY DEF FinishLaunch, Release
<1>2. launch[l] \in Launching /\ a \in Accounts \union {None}
  BY DEF CInv, IInv, Typed, Launching
<1>3. launch'[l].phase # "playing" /\ \A m \in Launches \ {l} : launch'[m] = launch[m]
  BY <1>1 DEF CInv, IInv, Typed, NoLaunch
<1>4. \A x \in Accounts : Players(x)' = Players(x) \ {l}
  BY <1>3 DEF Players
<1>5. \A x \in Accounts : l \in Players(x) <=> playing /\ x = a
  BY DEF Players
<1>6. uses \in [Accounts -> Nat]
      /\ DOMAIN uses' = Accounts /\ uses' = [x \in Accounts |-> uses'[x]]
      /\ \A x \in Accounts : uses'[x] = IF playing /\ x = a THEN uses[x] - 1 ELSE uses[x]
  BY <1>1, <1>2, AccountsAssumption DEF CInv, UsesCounted
<1>7. ASSUME NEW x \in Accounts
      PROVE  /\ IsFiniteSet(Players(x)') /\ uses'[x] = Cardinality(Players(x)')
             /\ uses'[x] \in Nat
  <2>1. IsFiniteSet(Players(x)) /\ uses[x] = Cardinality(Players(x))
    BY DEF CInv, UsesCounted
  <2>2. /\ IsFiniteSet(Players(x)')
        /\ Cardinality(Players(x)') = IF l \in Players(x) THEN Cardinality(Players(x)) - 1
                                      ELSE Cardinality(Players(x))
    BY <1>4, <2>1, FS_RemoveElement
  <2>3. Cardinality(Players(x)') \in Nat
    BY <2>2, FS_CardinalityType
  <2> QED BY <1>5, <1>6, <2>1, <2>2, <2>3
<1> QED BY <1>6, <1>7 DEF UsesCounted

\* The counts do not depend on what other steps change.
LEMMA UsesUnchanged == ASSUME UsesCounted, UNCHANGED <<uses, launch>> PROVE UsesCounted'
BY DEF UsesCounted, Players

LEMMA CountsUnchanged ==
    ASSUME CInv, UNCHANGED <<list, busy, heard, current, queue, nextTimer, refreshTimer, activity,
                             started, requests>>, validity' \in [Accounts -> Validities]
    PROVE  Scheduled' /\ Active'
<1>1. Listed' = Listed
  BY DEF Listed
<1> QED BY <1>1, ListCounts DEF CInv, Scheduled

LEMMA CInvKept == CInv /\ [Next]_vars => CInv'
<1> SUFFICES ASSUME CInv, [Next]_vars PROVE Scheduled' /\ Active' /\ UsesCounted'
  BY NextInv DEF CInv
<1>0. /\ queue \in Seq(Ids) /\ list \in Seq(Accounts) /\ dflt \in Accounts \union {None}
      /\ nextTimer \in BOOLEAN /\ refreshTimer \in BOOLEAN /\ started \in BOOLEAN
      /\ requests \in 0..MaxRequests
  BY CountedFollows DEF Counted, TypeOK
<1>1. CASE FillQueue
  <2>1. /\ TryNext(Filled(queue), nextTimer, FALSE) /\ UNCHANGED OutsideQueue
        /\ requests' = requests /\ started' = TRUE
    BY <1>1 DEF FillQueue
  <2>2. Filled(queue) \in Seq(Ids)
    BY <1>0, FilledTyped
  <2> QED BY <1>0, <2>1, <2>2, TryNextCounts, UsesUnchanged DEF CInv, OutsideQueue
<1>2. CASE NextTimerFires
  <2>1. /\ TryNext(queue, FALSE, refreshTimer) /\ UNCHANGED OutsideQueue
        /\ UNCHANGED <<requests, started>>
    BY <1>2 DEF NextTimerFires
  <2> QED BY <1>0, <2>1, TryNextCounts, UsesUnchanged DEF CInv, OutsideQueue
<1>3. ASSUME NEW a \in Accounts, RequestRefresh(a) PROVE Scheduled' /\ Active' /\ UsesCounted'
  <2>1. /\ UNCHANGED OutsideQueue /\ started' = started
        /\ requests' = requests + 1 /\ requests < MaxRequests
    BY <1>3 DEF RequestRefresh
  <2>2. requests' \in 0..MaxRequests
    BY <1>0, <2>1, AccountsAssumption
  <2>3. ToFront(a) \in Seq(Ids)
    BY <1>0, ToFrontTyped
  <2>4. CASE TryNext(ToFront(a), nextTimer, refreshTimer)
    BY <1>0, <2>1, <2>2, <2>3, <2>4, TryNextCounts, UsesUnchanged DEF CInv, OutsideQueue
  <2>5. CASE /\ queue' = ToFront(a)
             /\ UNCHANGED <<busy, heard, current, nextTimer, refreshTimer, activity, validity, state, strayed>>
    <3>1. Ids' = Ids /\ Listed' = Listed /\ UsesCounted'
      BY <2>1, UsesUnchanged DEF Ids, Listed, OutsideQueue, CInv
    <3>2. Active'
      BY <2>5, <3>1, FewerActivities DEF CInv
    <3> QED BY <2>1, <2>2, <2>3, <2>5, <3>1, <3>2 DEF CInv, Scheduled
  <2> QED BY <1>3, <2>4, <2>5 DEF RequestRefresh
<1>4. ASSUME NEW a \in Accounts, TaskEnds(a) \/ TaskVanishes(a) \/ AddAccount(a) \/ TaskGoesOn(a)
                                     \/ StrayReports(a)
      PROVE  Scheduled' /\ Active' /\ UsesCounted'
  <2>1. UNCHANGED <<uses, launch>>
    BY <1>4 DEF TaskEnds, TaskVanishes, AddAccount, OutsideList, TaskGoesOn, StrayReports
  <2>2. CASE TaskGoesOn(a) \/ StrayReports(a)
    BY <2>2, CountsUnchanged, UsesUnchanged DEF TaskGoesOn, StrayReports, CInv, Scheduled
  <2> QED BY <1>4, <2>1, <2>2, TaskEndsCounts, TaskVanishesCounts, AddAccountCounts, UsesUnchanged DEF CInv
<1>5. ASSUME NEW a \in Accounts, Age(a) PROVE Scheduled' /\ Active' /\ UsesCounted'
  <2>1. validity' \in [Accounts -> Validities]
    BY <1>5 DEF Age, CInv, Scheduled, Validities
  <2> QED BY <1>5, <2>1, CountsUnchanged, UsesUnchanged DEF Age, CInv
<1>6. ASSUME NEW row \in DOMAIN list, RemoveAccount(row)
      PROVE  Scheduled' /\ Active' /\ UsesCounted'
  BY <1>6, RemoveAccountCounts, UsesUnchanged DEF CInv, RemoveAccount, OutsideList
<1>7. ASSUME NEW a \in Accounts \union {None}, SetDefaultAccount(a)
      PROVE  Scheduled' /\ Active' /\ UsesCounted'
  BY <1>7, CountsUnchanged, UsesUnchanged DEF CInv, SetDefaultAccount, OutsideList, Scheduled
<1>8. ASSUME NEW a \in Accounts, NEW l \in Launches, StartLaunch(l, a)
      PROVE  Scheduled' /\ Active' /\ UsesCounted'
  BY <1>8, LoginCounts DEF StartLaunch, NoLaunch
<1>9. ASSUME NEW l \in Launches, ResumeLogin(l) PROVE Scheduled' /\ Active' /\ UsesCounted'
  <2>1. launch[l].account \in Accounts /\ launch[l].phase # "playing" /\ launch[l].wants \in BOOLEAN
    BY <1>9 DEF ResumeLogin, Waiting, CInv, IInv, SignInListed, Typed, Launching
  <2> QED BY <1>9, <2>1, LoginCounts DEF ResumeLogin
<1>10. ASSUME NEW l \in Launches, Claim(l) \/ FinishLaunch(l)
       PROVE  Scheduled' /\ Active' /\ UsesCounted'
  <2>1. UNCHANGED OutsideGame
    BY <1>10 DEF Claim, FinishLaunch
  <2> QED BY <1>10, <2>1, CountsUnchanged, ClaimCounts, FinishCounts DEF OutsideGame, CInv, Scheduled
<1>12. ASSUME NEW l \in Launches, CloseMessage(l) PROVE Scheduled' /\ Active' /\ UsesCounted'
  <2>1. /\ launch' = [launch EXCEPT ![l] = NoLaunch] /\ launch[l].phase = "told"
        /\ UNCHANGED <<list, busy, heard, current, queue, nextTimer, refreshTimer, activity,
                       started, requests, uses, validity>>
    BY <1>12 DEF CloseMessage, Idle, Unsigned, OutsideLogin
  <2>2. \A x \in Accounts : Players(x)' = Players(x)
    BY <2>1 DEF Players, NoLaunch, CInv, IInv, Typed
  <2> QED BY <2>1, <2>2, CountsUnchanged DEF CInv, Scheduled, UsesCounted
<1>11. CASE UNCHANGED vars
  BY <1>11, CountsUnchanged, UsesUnchanged DEF vars, CInv, Scheduled
<1> QED BY <1>1, <1>2, <1>3, <1>4, <1>5, <1>6, <1>7, <1>8, <1>9, <1>10, <1>11, <1>12 DEF Next

LEMMA InitCounts == Init => CInv
<1> SUFFICES ASSUME Init PROVE Scheduled /\ Active /\ UsesCounted
  BY InitInv DEF CInv
<1>1. Scheduled
  <2>1. validity \in [Accounts -> {"none", "assumed"}]
    BY DEF Init
  <2>2. validity \in [Accounts -> Validities]
    BY <2>1 DEF Validities
  <2>3. queue \in Seq(Ids) /\ requests \in 0..MaxRequests
    BY AccountsAssumption DEF Init
  <2> QED BY <2>2, <2>3 DEF Init, Scheduled
<1>2. Active
  <2>1. activity = 0 /\ busy \intersect Listed = {}
    BY DEF Init
  <2> QED BY <2>1, FS_EmptySet DEF Active, ActivityCovers
<1>3. UsesCounted
  <2>1. uses = [a \in Accounts |-> 0] /\ \A a \in Accounts : Players(a) = {}
    BY DEF Init, NoLaunch, Players
  <2> QED BY <2>1, FS_EmptySet DEF UsesCounted
<1> QED BY <1>1, <1>2, <1>3

-----------------------------------------------------------------------------
\* The invariant behind the first four theorems.
LEMMA Invariance == Spec => []IInv
<1>1. Init => IInv
  BY InitInv
<1>2. IInv /\ [Next]_vars => IInv'
  BY NextInv
<1> QED BY <1>1, <1>2, PTL DEF Spec

\* For any accounts and launches the background refresh never stops: a timer of
\* the list runs, or the list holds a running task whose end it will hear of
\* (AccountList.cpp:719-752).
THEOREM ScheduleNeverStops == Spec => []ScheduleAlive
<1>1. IInv => ScheduleAlive
  BY DEF IInv
<1> QED BY <1>1, Invariance, PTL

\* For any accounts and launches the default account is on the list
\* (AccountList.cpp:110-223).
THEOREM DefaultStaysListed == Spec => []DefaultListed
<1>1. IInv => DefaultListed
  BY DEF IInv
<1> QED BY <1>1, Invariance, PTL

\* For any accounts and launches an account is Working exactly while it has a task
\* to wait for, so the loop of login() waits or ends, except after a flow went on
\* that had reported another client (LaunchController.cpp:274-284).
THEOREM WorkingIsWaitedFor == Spec => []WorkingHasTask
<1>1. IInv => WorkingHasTask
  BY DEF IInv
<1> QED BY <1>1, Invariance, PTL

\* For any accounts and launches an online launch finds an account to claim
\* (ClaimAccount.cpp:7-21).
THEOREM ClaimNeverMissing == Spec => []ClaimFound
<1>1. IInv => ClaimFound
  BY DEF IInv
<1> QED BY <1>1, Invariance, PTL

\* For any accounts and launches, however accounts are added, replaced and removed
\* and their tasks end, the members keep their types and every end of an activity
\* is matched by a begin: the counter never has to be kept from going below zero
\* while a task that counts is at work (AccountList.cpp:755-773).
THEOREM CountsKept == Spec => []Counted
<1>1. CInv /\ [Next]_vars => CInv'
  BY CInvKept
<1>2. CInv => Counted
  BY CountedFollows
<1> QED BY <1>1, <1>2, InitCounts, PTL DEF Spec

\* For any accounts and launches m_useCount is the number of launches that play
\* with the account: no UseLock is released twice or left behind, so isInUse()
\* tells the truth (MinecraftAccount.cpp:318-331, ClaimAccount.cpp:7-21).
THEOREM UsesAreLaunches == Spec => []UsesCounted
<1>1. CInv /\ [Next]_vars => CInv'
  BY CInvKept
<1>2. CInv => UsesCounted
  BY DEF CInv
<1> QED BY <1>1, <1>2, InitCounts, PTL DEF Spec

-----------------------------------------------------------------------------
(* The sign-in of one account: AuthFlow.                                     *)

AllTypes == {"MSA", "Mojang", "Authlib", "Offline"}
S == StepsOf[type]
AllSteps == {"msa", "user", "xbox", "services", "launcher", "xboxProfile", "entitlements",
             "profile", "skin", "yggdrasil", "profileMojang", "migration", "injector", "offline"}
LastSteps == {"skin", "offline"}

\* What each step that obtains a token obtains.
Given == [msa |-> "msa", user |-> "user", xbox |-> "xbox", services |-> "services",
          launcher |-> "ygg", yggdrasil |-> "ygg"]

\* The current step is the k-th, the others are those after it, and while a
\* request is under way the tokens of the earlier ones are of this sign-in.
At(k) ==
    /\ step = S[k] /\ steps = SubSeq(S, k + 1, Len(S))
    /\ wait = "reply" => \A j \in 1..(k - 1) : S[j] \in DOMAIN Given => token[Given[S[j]]] \in Got(Given[S[j]])

\* Where a sign-in is. The waits of MSAStep are those of the first step.
Position ==
    /\ wait # "nothing" => \E k \in 1..Len(S) : At(k)
    /\ wait \in {"perform", "refresh", "device", "interval", "poll", "late"} => At(1)
    /\ wait \in {"refresh", "device", "interval", "poll", "late"} => type = "MSA"

\* A flow that runs has reported nothing.
Silent == task = "Running" => emitted = << >>

AuthInv == AuthTypeOK /\ Position /\ Silent

-----------------------------------------------------------------------------
\* The flows are sequences of steps, of which only the last is a last one.
LEMMA StepsTyped ==
    ASSUME type \in AllTypes
    PROVE  /\ S \in Seq(AllSteps) /\ Len(S) \in Nat \ {0}
           /\ \A k \in 1..Len(S) : S[k] \notin LastSteps => k < Len(S)
           /\ type = "MSA" => S[1] = "msa"
           /\ type = "Offline" => S[1] = "offline"
           /\ type \in {"Mojang", "Authlib"} => S[1] \in {"yggdrasil", "injector"}
<1>1. CASE type = "MSA"
  <2>1. S = <<"msa", "user", "xbox", "services", "launcher", "xboxProfile", "entitlements",
              "profile", "skin">>
    BY <1>1 DEF S, StepsOf
  <2>2. S \in Seq(AllSteps) /\ Len(S) = 9 /\ S[1] = "msa" /\ S[9] = "skin"
    BY <2>1 DEF AllSteps
  <2> QED BY <1>1, <2>2 DEF LastSteps
<1>2. CASE type = "Mojang"
  <2>1. S = <<"yggdrasil", "profileMojang", "migration", "skin">>
    BY <1>2 DEF S, StepsOf
  <2>2. S \in Seq(AllSteps) /\ Len(S) = 4 /\ S[1] = "yggdrasil" /\ S[4] = "skin"
    BY <2>1 DEF AllSteps
  <2> QED BY <1>2, <2>2 DEF LastSteps
<1>3. CASE type = "Authlib"
  <2>1. S = <<"injector", "yggdrasil", "profileMojang", "skin">>
    BY <1>3 DEF S, StepsOf
  <2>2. S \in Seq(AllSteps) /\ Len(S) = 4 /\ S[1] = "injector" /\ S[4] = "skin"
    BY <2>1 DEF AllSteps
  <2> QED BY <1>3, <2>2 DEF LastSteps
<1>4. CASE type = "Offline"
  <2>1. S = <<"offline">>
    BY <1>4 DEF S, StepsOf
  <2>2. S \in Seq(AllSteps) /\ Len(S) = 1 /\ S[1] = "offline"
    BY <2>1 DEF AllSteps
  <2> QED BY <1>4, <2>2 DEF LastSteps
<1> QED BY <1>1, <1>2, <1>3, <1>4 DEF AllTypes

\* Each token a request carries is obtained by an earlier step of the same flow.
LEMMA CarriedBefore ==
    ASSUME type \in AllTypes, NEW k \in 1..Len(S), NEW c \in Carries, S[k] = c[1]
    PROVE  \E j \in 1..(k - 1) : S[j] \in DOMAIN Given /\ Given[S[j]] = c[2]
<1>1. CASE type = "MSA"
  <2>1. S = <<"msa", "user", "xbox", "services", "launcher", "xboxProfile", "entitlements",
              "profile", "skin">>
    BY <1>1 DEF S, StepsOf
  <2>2. Len(S) = 9
    BY <2>1
  <2>3. /\ S[1] = "msa" /\ S[2] = "user" /\ S[3] = "xbox" /\ S[4] = "services"
        /\ S[5] = "launcher" /\ S[6] = "xboxProfile" /\ S[7] = "entitlements"
        /\ S[8] = "profile" /\ S[9] = "skin"
    BY <2>1
  <2>4. k \in {1, 2, 3, 4, 5, 6, 7, 8, 9}
    BY <2>2
  <2>5. \/ k = 2 /\ c[2] = "msa"
        \/ k \in {3, 4, 6} /\ c[2] = "user"
        \/ k = 5 /\ c[2] = "services"
        \/ k = 6 /\ c[2] = "xbox"
        \/ k \in {7, 8} /\ c[2] = "ygg"
    BY <2>3, <2>4 DEF Carries
  <2> HIDE DEF S
  <2>6. /\ Given[S[1]] = "msa" /\ Given[S[2]] = "user" /\ Given[S[3]] = "xbox"
        /\ Given[S[4]] = "services" /\ Given[S[5]] = "ygg"
        /\ \A j \in {1, 2, 3, 4, 5} : S[j] \in DOMAIN Given
    BY <2>3 DEF Given
  <2> QED BY <2>5, <2>6
<1>2. CASE type = "Mojang"
  <2>1. S = <<"yggdrasil", "profileMojang", "migration", "skin">>
    BY <1>2 DEF S, StepsOf
  <2>2. Len(S) = 4 /\ S[1] = "yggdrasil" /\ S[2] = "profileMojang" /\ S[3] = "migration" /\ S[4] = "skin"
    BY <2>1
  <2>3. k = 3 /\ c[2] = "ygg"
    BY <2>2 DEF Carries
  <2> QED BY <2>2, <2>3 DEF Given
<1>3. CASE type = "Authlib"
  <2>1. S = <<"injector", "yggdrasil", "profileMojang", "skin">>
    BY <1>3 DEF S, StepsOf
  <2>2. Len(S) = 4 /\ S[1] = "injector" /\ S[2] = "yggdrasil" /\ S[3] = "profileMojang" /\ S[4] = "skin"
    BY <2>1
  <2> QED BY <2>2 DEF Carries
<1>4. CASE type = "Offline"
  <2>1. S = <<"offline">>
    BY <1>4 DEF S, StepsOf
  <2> QED BY <2>1 DEF Carries
<1> QED BY <1>1, <1>2, <1>3, <1>4 DEF AllTypes

\* Taking the next step off the list of those to come.
LEMMA NextStep ==
    ASSUME NEW T, NEW s \in Seq(T), NEW k \in 1..Len(s), k < Len(s)
    PROVE  /\ Head(SubSeq(s, k + 1, Len(s))) = s[k + 1]
           /\ Tail(SubSeq(s, k + 1, Len(s))) = SubSeq(s, k + 2, Len(s))
<1>1. k + 1 \in 1..Len(s) /\ Len(s) \in (k + 1)..Len(s) /\ k + 1 + 1 = k + 2
  OBVIOUS
<1> QED BY <1>1, HeadTailOfSubSeq

-----------------------------------------------------------------------------
LEMMA StateOfTyped ==
    /\ Ended = {"SUCCEEDED", "OFFLINE", "DISABLED", "FAILED_SOFT", "FAILED_HARD", "FAILED_GONE"}
    /\ \A e \in Ended : StateOf[e] \in {StateOf[x] : x \in Ended}
    /\ "Online" \in {StateOf[x] : x \in Ended}
BY DEF Ended, StateOf

\* The tokens a step leaves have their types.
LEMMA WithTyped ==
    ASSUME AuthTypeOK, NEW t \in Tokens, NEW age \in Ages
    PROVE  /\ With(t, age) \in [Tokens -> Ages] /\ With(t, age)[t] = age
           /\ age \in Got(t) => \A u \in Tokens : token[u] \in Got(u) => With(t, age)[u] \in Got(u)
BY DEF AuthTypeOK, With

LEMMA AuthInitInv == ASSUME AuthAssumption, AuthInit PROVE AuthInv
<1>1. "none" \in Ages /\ "old" \in Ages
  BY DEF Ages
<1>2. token \in [Tokens -> Ages]
  <2>1. CASE listed
    <3>1. PICK main \in {"none", "old"} :
             token = [t \in Tokens |-> IF t = MainToken THEN main ELSE "old"]
      BY <2>1 DEF AuthInit
    <3> QED BY <3>1, <1>1
  <2>2. CASE ~listed
    <3>1. token = [t \in Tokens |-> "none"]
      BY <2>2 DEF AuthInit
    <3> QED BY <3>1, <1>1
  <2> QED BY <2>1, <2>2
<1>3. AuthTypeOK
  BY <1>2 DEF AuthInit, AuthTypeOK, AuthAssumption
<1> QED BY <1>3 DEF AuthInit, AuthInv, Position, Silent

\* A step that is not the last of its flow hands over to the next one: what it
\* had to obtain is new, and so is what the steps before it obtained.
LEMMA GoOnInv ==
    ASSUME AuthAssumption, AuthInv, NEW k \in 1..Len(S), At(k), wait = "reply" \/ k = 1,
           step \notin LastSteps, NEW tk \in [Tokens -> Ages],
           \A t \in Tokens : token[t] \in Got(t) => tk[t] \in Got(t),
           step \in DOMAIN Given => tk[Given[step]] \in Got(Given[step]),
           GoOn(tk), UNCHANGED <<type, client, flows>>
    PROVE  AuthInv'
<1>1. type \in AllTypes /\ S' = S
  BY DEF AuthAssumption, AuthInv, AuthTypeOK, AllTypes, S
<1>2. S \in Seq(AllSteps) /\ Len(S) \in Nat \ {0} /\ k < Len(S)
  BY <1>1, StepsTyped DEF At
<1>3. step' = S[k + 1] /\ steps' = SubSeq(S, k + 2, Len(S)) /\ wait' = "reply" /\ token' = tk
  BY <1>2, NextStep DEF GoOn, At
<1>4. \A j \in 1..k : S[j] \in DOMAIN Given => tk[Given[S[j]]] \in Got(Given[S[j]])
  <2>1. SUFFICES ASSUME NEW j \in 1..k, S[j] \in DOMAIN Given PROVE tk[Given[S[j]]] \in Got(Given[S[j]])
    OBVIOUS
  <2>2. CASE j = k
    BY <2>1, <2>2 DEF At
  <2>3. CASE j # k
    <3>1. j \in 1..(k - 1) /\ wait = "reply"
      BY <2>3
    <3>2. token[Given[S[j]]] \in Got(Given[S[j]])
      BY <2>1, <3>1 DEF At
    <3>3. Given[S[j]] \in Tokens
      BY <2>1 DEF Given, Tokens
    <3> QED BY <3>2, <3>3
  <2> QED BY <2>2, <2>3
<1>5. k + 1 \in 1..Len(S) /\ (k + 1) - 1 = k /\ (k + 1) + 1 = k + 2
  BY <1>2
<1>6. At(k + 1)'
  BY <1>1, <1>3, <1>4, <1>5 DEF At
<1>7. Position'
  BY <1>1, <1>3, <1>5, <1>6 DEF Position
<1>8. AuthTypeOK'
  BY <1>3 DEF GoOn, AuthInv, AuthTypeOK
<1> QED BY <1>7, <1>8 DEF AuthInv, Silent, GoOn

\* A report of an end leaves the flow where it is, or waiting at its first step.
LEMMA ConcludeInv ==
    ASSUME AuthAssumption, AuthInv, NEW told \in Ended, NEW left \in Ended,
           NEW tk \in [Tokens -> Ages], Conclude(told, left, tk), UNCHANGED <<type, client, flows>>,
           wait' = "nothing" \/ (wait' \in {"refresh", "late"} /\ At(1) /\ type = "MSA")
    PROVE  AuthInv'
<1>1. step' = step /\ steps' = steps /\ S' = S
  BY DEF Conclude, S
<1>2. Position'
  <2>1. CASE wait' = "nothing"
    BY <2>1 DEF Position
  <2>2. CASE wait' \in {"refresh", "late"} /\ At(1) /\ type = "MSA"
    <3>1. At(1)'
      BY <1>1, <2>2 DEF At
    <3>2. 1 \in 1..Len(S)
      BY StepsTyped, <2>2 DEF AllTypes
    <3> QED BY <1>1, <2>2, <3>1, <3>2 DEF Position
  <2> QED BY <2>1, <2>2
<1>3. token' \in [Tokens -> Ages]
  <2>1. [tk EXCEPT ![MainToken] = "none"] \in [Tokens -> Ages]
    BY DEF Ages
  <2> QED BY <2>1 DEF Conclude
<1>4. task' \in {"Inactive", "Running", "Succeeded", "Failed"} /\ listed' \in BOOLEAN
  BY DEF Conclude, Emit, AuthInv, AuthTypeOK
<1>5. validity_' \in {"None", "Assumed", "Certain"}
  BY DEF Conclude, AuthInv, AuthTypeOK
<1>6. accountState' \in {StateOf[e] : e \in Ended} /\ taskState' = told
  BY StateOfTyped DEF Conclude
<1>7. AuthTypeOK'
  BY <1>3, <1>4, <1>5, <1>6 DEF AuthInv, AuthTypeOK
<1>8. Silent'
  BY DEF Conclude, Emit, AuthInv, Silent
<1> QED BY <1>2, <1>7, <1>8 DEF AuthInv

LEMMA OverInv ==
    ASSUME AuthAssumption, AuthInv, NEW told \in Ended, NEW tk \in [Tokens -> Ages], Over(told, tk),
           UNCHANGED <<type, client, flows>>
    PROVE  AuthInv'
BY ConcludeInv DEF Over

\* The waits of the first step follow each other.
LEMMA AsksInv ==
    ASSUME AuthAssumption, AuthInv, NEW what, Asks(what),
           \/ what = "nothing"
           \/ what \in {"refresh", "device", "interval", "poll", "late"} /\ At(1) /\ type = "MSA"
           \/ what = "reply" /\ At(1)
    PROVE  AuthInv'
<1>1. wait' = what /\ step' = step /\ steps' = steps /\ S' = S /\ type' = type
  BY DEF Asks, dataVars, S
<1>2. AuthTypeOK' /\ Silent'
  BY DEF Asks, dataVars, AuthInv, AuthTypeOK, Silent
<1>3. 1 \in 1..Len(S)
  BY StepsTyped DEF AuthAssumption, AuthInv, AuthTypeOK, AllTypes
<1>4. At(1) => At(1)'
  BY <1>1 DEF At
<1>5. Position'
  BY <1>1, <1>3, <1>4 DEF Position
<1> QED BY <1>2, <1>5 DEF AuthInv

-----------------------------------------------------------------------------
\* Starting a flow puts it at its first step.
LEMMA StartInv == ASSUME AuthAssumption, AuthInv, Start PROVE AuthInv'
<1>1. S \in Seq(AllSteps) /\ Len(S) \in Nat \ {0}
  BY StepsTyped DEF AuthAssumption, AuthInv, AuthTypeOK, AllTypes
<1>2. 1 \in 1..Len(S) /\ Head(S) = S[1] /\ Tail(S) = SubSeq(S, 1 + 1, Len(S))
  BY <1>1
<1>3. S' = S
  BY DEF Start, S
<1>4. At(1)' /\ wait' = "perform"
  BY <1>2, <1>3 DEF Start, At, S
<1>5. Position'
  BY <1>2, <1>3, <1>4 DEF Position
<1>6. token' \in [Tokens -> Ages]
  BY DEF Start, Aged, Ages, AuthInv, AuthTypeOK
<1>7. AuthTypeOK'
  BY <1>6 DEF Start, AuthInv, AuthTypeOK, AuthAssumption
<1> QED BY <1>5, <1>7 DEF AuthInv, Silent, Start

\* perform() of each kind of first step.
LEMMA PerformInv == ASSUME AuthAssumption, AuthInv, Perform PROVE AuthInv'
<1>1. At(1) /\ token \in [Tokens -> Ages]
  BY DEF Perform, AuthInv, Position, AuthTypeOK
<1>2. "msa" \in Tokens /\ "none" \in Ages
  BY DEF Tokens, Ages
<1>3. NoMSA \in [Tokens -> Ages]
  BY <1>2, WithTyped DEF NoMSA, AuthInv
<1>4. {"FAILED_HARD", "DISABLED", "SUCCEEDED"} \subseteq Ended
  BY StateOfTyped
<1>5. CASE type = "MSA" /\ RefreshMSA
  <2> DEFINE held == token["msa"] # "none"
  <2>1. CASE client /\ held /\ Asks("refresh")
    BY <1>1, <1>5, <2>1, AsksInv
  <2>2. CASE client /\ ~held /\ Over("FAILED_HARD", NoMSA) /\ Untouched
    BY <1>3, <1>4, <2>2, OverInv DEF Untouched
  <2>3. CASE /\ ~client /\ Untouched
             /\ Conclude("DISABLED", IF held THEN "DISABLED" ELSE "FAILED_HARD", token)
             /\ wait' = IF held THEN "refresh" ELSE "nothing"
    BY <1>1, <1>4, <1>5, <2>3, ConcludeInv DEF Untouched
  <2> QED BY <1>5, <2>1, <2>2, <2>3 DEF RefreshMSA
<1>6. CASE type = "MSA" /\ LoginMSA
  <2>1. type' = type /\ step' = step /\ steps' = steps /\ wait' = "device" /\ S' = S
    BY <1>6 DEF LoginMSA, Untouched, S
  <2>2. At(1)'
    BY <1>1, <2>1 DEF At
  <2>3. 1 \in 1..Len(S)
    BY StepsTyped, <1>6 DEF AllTypes
  <2>4. Position'
    BY <1>6, <2>1, <2>2, <2>3 DEF Position
  <2>5. token' \in [Tokens -> Ages]
    BY <1>2, <1>6 DEF LoginMSA
  <2>6. AuthTypeOK'
    BY <1>6, <2>5 DEF LoginMSA, Untouched, AuthInv, AuthTypeOK
  <2> QED BY <1>6, <2>4, <2>6 DEF AuthInv, Silent, LoginMSA
<1>7. CASE Over("SUCCEEDED", token) /\ Untouched
  BY <1>1, <1>4, <1>7, OverInv DEF Untouched
<1>8. CASE Asks("reply")
  BY <1>1, <1>8, AsksInv
<1> QED BY <1>5, <1>6, <1>7, <1>8 DEF Perform

\* katabasis: every wait is one of the first step of a Microsoft account, and
\* the answer that lets the flow go on brings its token.
LEMMA KatabasisInv ==
    ASSUME AuthAssumption, AuthInv, RefreshEnds \/ DeviceCode \/ Poll \/ PollEnds \/ Expire \/ LatePoll
    PROVE  AuthInv'
<1>1. At(1) /\ type = "MSA" /\ token \in [Tokens -> Ages] /\ wait # "reply"
  BY DEF RefreshEnds, Granted, DeviceCode, Poll, PollEnds, Expire, LatePoll, AuthInv, Position, AuthTypeOK
<1>2. step = "msa" /\ 1 \in 1..Len(S)
  BY <1>1, StepsTyped DEF At, AllTypes
<1>3. "msa" \in Tokens /\ "none" \in Ages /\ Got("msa") \subseteq Ages
  BY DEF Tokens, Ages, Got
<1>4. NoMSA \in [Tokens -> Ages]
  BY <1>3, WithTyped DEF NoMSA, AuthInv
<1>5. {"FAILED_HARD", "FAILED_GONE", "OFFLINE"} \subseteq Ended
  BY StateOfTyped
<1>6. ASSUME NEW age \in Got("msa"), GoOn(With("msa", age)), Untouched PROVE AuthInv'
  <2>1. /\ With("msa", age) \in [Tokens -> Ages] /\ With("msa", age)["msa"] = age
        /\ \A u \in Tokens : token[u] \in Got(u) => With("msa", age)[u] \in Got(u)
    BY <1>3, WithTyped DEF AuthInv
  <2>2. step \notin LastSteps /\ Given[step] = "msa"
    BY <1>2 DEF LastSteps, Given
  <2> QED BY <1>1, <1>2, <1>6, <2>1, <2>2, GoOnInv DEF Untouched
<1>7. ASSUME NEW told \in {"FAILED_HARD", "FAILED_GONE", "OFFLINE"}, NEW tk \in {token, NoMSA},
             Over(told, tk), Untouched
      PROVE  AuthInv'
  BY <1>1, <1>4, <1>5, <1>7, OverInv DEF Untouched
<1>8. ASSUME NEW what \in {"nothing", "interval", "poll"}, Asks(what) PROVE AuthInv'
  BY <1>1, <1>8, AsksInv
<1>9. CASE RefreshEnds
  BY <1>6, <1>7, <1>9 DEF RefreshEnds, Granted
<1>10. CASE DeviceCode
  BY <1>7, <1>8, <1>10 DEF DeviceCode
<1>11. CASE Poll
  BY <1>8, <1>11 DEF Poll
<1>12. CASE PollEnds
  BY <1>6, <1>7, <1>8, <1>12 DEF PollEnds, Granted
<1>13. CASE Expire
  BY <1>1, <1>4, <1>5, <1>13, ConcludeInv DEF Expire, Untouched
<1>14. CASE LatePoll
  BY <1>6, <1>8, <1>14 DEF LatePoll, Granted
<1> QED BY <1>9, <1>10, <1>11, <1>12, <1>13, <1>14

\* The answer to a request: what it brings is what the step is there to obtain.
LEMMA AnswerInv == ASSUME AuthAssumption, AuthInv, Answer PROVE AuthInv'
<1>1. wait = "reply" /\ token \in [Tokens -> Ages]
  BY DEF Answer, TokenStep, XboxProfile, Skin, Injector, YggdrasilStep, ProfileStep, Optional, Replies,
         AuthInv, AuthTypeOK
<1>2. PICK k \in 1..Len(S) : At(k)
  BY <1>1 DEF AuthInv, Position
<1>3. Ended = {"SUCCEEDED", "OFFLINE", "DISABLED", "FAILED_SOFT", "FAILED_HARD", "FAILED_GONE"}
  BY StateOfTyped
<1>4. ASSUME step \notin LastSteps, step \notin DOMAIN Given, GoOn(token), Untouched PROVE AuthInv'
  BY <1>1, <1>2, <1>4, GoOnInv DEF Untouched
<1>5. ASSUME NEW t \in Tokens, step \notin LastSteps, step \in DOMAIN Given, Given[step] = t,
             GoOn(With(t, "new")), Untouched
      PROVE  AuthInv'
  <2>1. /\ With(t, "new") \in [Tokens -> Ages] /\ With(t, "new")[t] = "new"
        /\ \A u \in Tokens : token[u] \in Got(u) => With(t, "new")[u] \in Got(u)
    BY WithTyped DEF AuthInv, Ages, Got
  <2>2. "new" \in Got(t)
    BY DEF Got
  <2> QED BY <1>1, <1>2, <1>5, <2>1, <2>2, GoOnInv DEF Untouched
<1>6. ASSUME NEW told \in Ended, NEW tk \in [Tokens -> Ages], Over(told, tk), Untouched PROVE AuthInv'
  BY <1>6, OverInv DEF Untouched
<1>7. ASSUME NEW s \in DOMAIN Obtains, TokenStep(s) PROVE AuthInv'
  <2>1. step \notin LastSteps /\ step \in DOMAIN Given /\ Given[step] = Obtains[s] /\ Obtains[s] \in Tokens
    BY <1>7 DEF TokenStep, Replies, Obtains, Given, LastSteps, Tokens
  <2> QED BY <1>1, <1>3, <1>5, <1>6, <1>7, <2>1 DEF TokenStep
<1>8. CASE XboxProfile
  BY <1>1, <1>3, <1>4, <1>6, <1>8 DEF XboxProfile, Replies, LastSteps, Given
<1>9. CASE Skin
  BY <1>1, <1>3, <1>6, <1>9 DEF Skin
<1>10. CASE Injector
  BY <1>1, <1>3, <1>4, <1>6, <1>10 DEF Injector, Replies, LastSteps, Given
<1>11. CASE YggdrasilStep
  <2>1. "ygg" \in Tokens /\ step \notin LastSteps /\ step \in DOMAIN Given /\ Given[step] = "ygg"
    BY <1>11 DEF YggdrasilStep, Replies, LastSteps, Given, Tokens
  <2>2. With("ygg", "new") \in [Tokens -> Ages]
    BY <2>1, WithTyped DEF AuthInv, Ages
  <2>3. ASSUME NEW left \in {"FAILED_HARD", "FAILED_SOFT"}, Conclude("FAILED_GONE", left, token),
               wait' = "nothing", Untouched
        PROVE  AuthInv'
    BY <1>1, <1>3, <2>3, ConcludeInv DEF Untouched
  <2> QED BY <1>1, <1>3, <1>5, <1>6, <1>11, <2>1, <2>2, <2>3 DEF YggdrasilStep
<1>12. ASSUME NEW s \in {"profile", "profileMojang"}, ProfileStep(s) PROVE AuthInv'
  BY <1>1, <1>3, <1>4, <1>6, <1>12 DEF ProfileStep, Replies, LastSteps, Given
<1>13. ASSUME NEW s \in {"entitlements", "migration"}, Optional(s) PROVE AuthInv'
  BY <1>4, <1>13 DEF Optional, Replies, LastSteps, Given
<1> QED BY <1>7, <1>8, <1>9, <1>10, <1>11, <1>12, <1>13 DEF Answer

LEMMA AuthInvKept == ASSUME AuthAssumption, AuthInv, [AuthNext]_authVars PROVE AuthInv'
<1>1. CASE Start
  BY <1>1, StartInv
<1>2. CASE Perform
  BY <1>2, PerformInv
<1>3. CASE RefreshEnds \/ DeviceCode \/ Poll \/ PollEnds \/ Expire \/ LatePoll
  BY <1>3, KatabasisInv
<1>4. CASE Drop
  BY <1>4, AsksInv DEF Drop
<1>5. CASE Answer
  BY <1>5, AnswerInv
<1>6. CASE UNCHANGED authVars
  <2>1. S' = S
    BY <1>6 DEF authVars, dataVars, S
  <2>2. AuthTypeOK' /\ Silent'
    BY <1>6 DEF authVars, dataVars, flowVars, AuthInv, AuthTypeOK, Silent
  <2>3. Position'
    BY <1>6, <2>1 DEF authVars, dataVars, flowVars, AuthInv, Position, At
  <2> QED BY <2>2, <2>3 DEF AuthInv
<1> QED BY <1>1, <1>2, <1>3, <1>4, <1>5, <1>6 DEF AuthNext

-----------------------------------------------------------------------------
\* In an account of any type, over any number of sign-ins, whatever the servers
\* answer and in whatever order: a request carries the tokens of its own sign-in.
THEOREM SignInChained == AuthSpec => []Chained
<1> USE AuthAssumption
<1>1. AuthInit => AuthInv
  BY AuthInitInv
<1>2. AuthInv /\ [AuthNext]_authVars => AuthInv'
  BY AuthInvKept
<1>3. AuthInv => Chained
  <2>1. SUFFICES ASSUME AuthInv, wait = "reply", NEW c \in Carries, step = c[1]
                 PROVE  token[c[2]] \in Got(c[2])
    BY DEF AuthInv, Chained, Carried
  <2>2. type \in AllTypes
    BY <2>1 DEF AuthInv, AuthTypeOK, AuthAssumption, AllTypes
  <2>3. PICK k \in 1..Len(S) : At(k)
    BY <2>1 DEF AuthInv, Position
  <2>4. PICK j \in 1..(k - 1) : S[j] \in DOMAIN Given /\ Given[S[j]] = c[2]
    BY <2>1, <2>2, <2>3, CarriedBefore DEF At
  <2> QED BY <2>1, <2>3, <2>4 DEF At
<1> QED BY <1>1, <1>2, <1>3, PTL DEF AuthSpec

\* Each step of a sign-in is a start, an end, or nothing to who waits for it.
LEMMA StepsOfContract ==
    ASSUME AuthInv, [AuthNext]_authVars
    PROVE  [Contract!Next]_Contract!vars
<1>1. ASSUME NEW told, NEW left, NEW tk, Conclude(told, left, tk) PROVE [Contract!Next]_Contract!vars
  <2>1. CASE task = "Running"
    <3> DEFINE end == IF told = "SUCCEEDED" THEN "Succeeded" ELSE "Failed"
    <3>1. task' = end /\ emitted' = Append(emitted, end) /\ emitted = << >>
      BY <1>1, <2>1 DEF Conclude, Emit, AuthInv, Silent
    <3>2. emitted' = <<end>> /\ end \in Contract!Ends
      BY <3>1 DEF Contract!Ends
    <3> QED BY <2>1, <3>1, <3>2 DEF Contract!Next, Contract!End
  <2>2. CASE task # "Running"
    BY <1>1, <2>2 DEF Conclude, Contract!vars
  <2> QED BY <2>1, <2>2
<1>2. ASSUME NEW tk, GoOn(tk) PROVE [Contract!Next]_Contract!vars
  BY <1>2 DEF GoOn, Contract!vars
<1>3. ASSUME NEW what, Asks(what) PROVE [Contract!Next]_Contract!vars
  BY <1>3 DEF Asks, Contract!vars
<1>4. CASE Start
  BY <1>4 DEF Start, Contract!Next, Contract!Start
<1>5. CASE Perform
  <2>1. CASE LoginMSA
    BY <2>1 DEF LoginMSA, Contract!vars
  <2> QED BY <1>1, <1>3, <1>5, <2>1 DEF Perform, RefreshMSA, Over
<1>6. CASE RefreshEnds \/ DeviceCode \/ Poll \/ PollEnds \/ Expire \/ LatePoll \/ Drop
  BY <1>1, <1>2, <1>3, <1>6 DEF RefreshEnds, Granted, DeviceCode, Poll, PollEnds, Expire, LatePoll, Drop, Over
<1>7. CASE Answer
  BY <1>1, <1>2, <1>7
     DEF Answer, TokenStep, XboxProfile, Skin, Injector, YggdrasilStep, ProfileStep, Optional, Over
<1>8. CASE UNCHANGED authVars
  BY <1>8 DEF authVars, flowVars, Contract!vars
<1> QED BY <1>4, <1>5, <1>6, <1>7, <1>8 DEF AuthNext

\* A sign-in implements the contract of a task: AccountTask ends once for each
\* start, also when a step reports after the flow has ended.
THEOREM SignInIsATask == AuthSpec => ContractSpec
<1> USE AuthAssumption
<1>1. AuthInit => AuthInv /\ Contract!Init
  BY AuthInitInv DEF AuthInit, Contract!Init
<1>2. AuthInv /\ [AuthNext]_authVars => AuthInv' /\ [Contract!Next]_Contract!vars
  BY AuthInvKept, StepsOfContract
<1> QED BY <1>1, <1>2, PTL DEF AuthSpec, ContractSpec, Contract!Spec

-----------------------------------------------------------------------------
\* The steps that may end a sign-in with success come after the game token.
LEMMA GameTokenBefore ==
    ASSUME type \in AllTypes, NEW k \in 1..Len(S), S[k] \in {"skin", "profile", "profileMojang"}
    PROVE  \E j \in 1..(k - 1) : S[j] \in DOMAIN Given /\ Given[S[j]] = "ygg"
<1>1. CASE type = "MSA"
  <2>1. S = <<"msa", "user", "xbox", "services", "launcher", "xboxProfile", "entitlements",
              "profile", "skin">>
    BY <1>1 DEF S, StepsOf
  <2>2. Len(S) = 9
    BY <2>1
  <2>3. /\ S[1] = "msa" /\ S[2] = "user" /\ S[3] = "xbox" /\ S[4] = "services"
        /\ S[5] = "launcher" /\ S[6] = "xboxProfile" /\ S[7] = "entitlements"
    BY <2>1
  <2> HIDE DEF S
  <2>4. k > 5
    BY <2>2, <2>3
  <2>5. 5 \in 1..(k - 1) /\ S[5] \in DOMAIN Given /\ Given[S[5]] = "ygg"
    BY <2>2, <2>3, <2>4 DEF Given
  <2> QED BY <2>5
<1>2. CASE type = "Mojang"
  <2>1. S = <<"yggdrasil", "profileMojang", "migration", "skin">>
    BY <1>2 DEF S, StepsOf
  <2>2. Len(S) = 4 /\ S[1] = "yggdrasil"
    BY <2>1
  <2> QED BY <2>2 DEF Given
<1>3. CASE type = "Authlib"
  <2>1. S = <<"injector", "yggdrasil", "profileMojang", "skin">>
    BY <1>3 DEF S, StepsOf
  <2>2. Len(S) = 4 /\ S[1] = "injector" /\ S[2] = "yggdrasil"
    BY <2>1
  <2> QED BY <2>2 DEF Given
<1>4. CASE type = "Offline"
  <2>1. S = <<"offline">>
    BY <1>4 DEF S, StepsOf
  <2> QED BY <2>1
<1> QED BY <1>1, <1>2, <1>3, <1>4 DEF AllTypes

\* A refresh that is under way holds a refresh token.
RefreshHeld == wait = "refresh" => token["msa"] # "none"

LEMMA RefreshHeldInv == ASSUME AuthInv, RefreshHeld, [AuthNext]_authVars PROVE RefreshHeld'
<1>1. CASE Perform
  <2>1. CASE RefreshMSA
    BY <1>1, <2>1 DEF RefreshMSA, RefreshHeld, Asks, dataVars, Over, Conclude, Lost
  <2> QED BY <1>1, <2>1 DEF Perform, LoginMSA, Over, Asks, RefreshHeld
<1>2. CASE Start \/ RefreshEnds \/ DeviceCode \/ Poll \/ PollEnds \/ Expire \/ LatePoll \/ Drop
  BY <1>2 DEF Start, RefreshEnds, Granted, DeviceCode, Poll, PollEnds, Expire, LatePoll, Drop, GoOn, Over,
              Asks, RefreshHeld
<1>3. CASE Answer
  BY <1>3 DEF Answer, TokenStep, XboxProfile, Skin, Injector, YggdrasilStep, ProfileStep, Optional,
              GoOn, Over, RefreshHeld
<1>4. CASE UNCHANGED authVars
  BY <1>4 DEF authVars, dataVars, flowVars, RefreshHeld
<1> QED BY <1>1, <1>2, <1>3, <1>4 DEF AuthNext

\* What a report has to find for the account to be usable as it says.
LEMMA ConcludeUsable ==
    ASSUME AuthInv, task = "Running", NEW told \in Ended, NEW left \in Ended, NEW tk \in [Tokens -> Ages],
           Conclude(told, left, tk), UNCHANGED type,
           told = "SUCCEEDED" <=> left = "SUCCEEDED",
           told = "SUCCEEDED" => type = "Offline" \/ tk["ygg"] = "new",
           told \in {"OFFLINE", "FAILED_SOFT"} /\ type = "MSA" => tk["msa"] # "none"
    PROVE  Usable'
<1>1. /\ taskState' = told /\ accountState' = StateOf[left]
      /\ task' = (IF told = "SUCCEEDED" THEN "Succeeded" ELSE "Failed")
      /\ told # "FAILED_HARD" => token' = tk
      /\ told = "FAILED_HARD" => token' = [tk EXCEPT ![MainToken] = "none"] /\ validity_' = "None"
  BY DEF Conclude, Emit, Lost
<1>2. MainToken' = MainToken /\ MainToken \in Tokens
  BY DEF MainToken, Tokens
<1>3. accountState' \notin {"Unchecked", "Working"} /\ (accountState' = "Online" <=> left = "SUCCEEDED")
  BY <1>1, StateOfTyped DEF StateOf
<1>4. taskState' = "FAILED_HARD" => token'[MainToken'] = "none" /\ validity_' = "None"
  BY <1>1, <1>2
<1> QED BY <1>1, <1>3, <1>4 DEF Usable

\* Whatever ends a sign-in leaves an account that is what the report says.
LEMMA EndUsable ==
    ASSUME AuthAssumption, AuthInv, RefreshHeld, AuthNext, task = "Running", task' # "Running"
    PROVE  Usable'
<1>1. token \in [Tokens -> Ages] /\ type \in AllTypes
  BY DEF AuthInv, AuthTypeOK, AuthAssumption, AllTypes
<1>2. Ended = {"SUCCEEDED", "OFFLINE", "DISABLED", "FAILED_SOFT", "FAILED_HARD", "FAILED_GONE"}
  BY StateOfTyped
<1>3. NoMSA \in [Tokens -> Ages] /\ With("ygg", "new") \in [Tokens -> Ages]
  BY WithTyped DEF NoMSA, AuthInv, Tokens, Ages
<1>4. ASSUME NEW told \in Ended \ {"SUCCEEDED", "OFFLINE", "FAILED_SOFT"},
             NEW left \in Ended \ {"SUCCEEDED"}, NEW tk \in [Tokens -> Ages],
             Conclude(told, left, tk), Untouched
      PROVE  Usable'
  BY <1>4, ConcludeUsable DEF Untouched
<1>5. CASE Perform
  <2>1. CASE RefreshMSA
    BY <1>1, <1>2, <1>3, <1>4, <1>5, <2>1 DEF RefreshMSA, Over, Asks
  <2>2. CASE type = "Offline" /\ Over("SUCCEEDED", token) /\ Untouched
    BY <1>1, <1>2, <2>2, ConcludeUsable DEF Over, Untouched
  <2> QED BY <1>5, <2>1, <2>2 DEF Perform, LoginMSA, Asks
<1>6. CASE RefreshEnds
  <2>1. CASE Over("OFFLINE", token) /\ Untouched
    <3>1. token["msa"] # "none"
      BY <1>6 DEF RefreshEnds, RefreshHeld
    <3> QED BY <1>1, <1>2, <2>1, <3>1, ConcludeUsable DEF Over, Untouched
  <2> QED BY <1>2, <1>3, <1>4, <1>6, <2>1 DEF RefreshEnds, Granted, GoOn, Over
<1>7. CASE DeviceCode \/ Poll \/ PollEnds \/ Expire \/ LatePoll
  BY <1>2, <1>3, <1>4, <1>7 DEF Granted, DeviceCode, Poll, PollEnds, Expire, LatePoll, GoOn, Over, Asks
<1>8. CASE Answer
  <2>1. wait = "reply"
    BY <1>8 DEF Answer, TokenStep, XboxProfile, Skin, Injector, YggdrasilStep, ProfileStep, Optional,
                Replies
  <2>2. PICK k \in 1..Len(S) : At(k)
    BY <2>1 DEF AuthInv, Position
  <2>3. ASSUME step \in {"skin", "profile", "profileMojang"} PROVE token["ygg"] = "new"
    <3>1. PICK j \in 1..(k - 1) : S[j] \in DOMAIN Given /\ Given[S[j]] = "ygg"
      BY <1>1, <2>2, <2>3, GameTokenBefore DEF At
    <3> QED BY <2>1, <2>2, <3>1 DEF At, Got
  <2>4. ASSUME type = "MSA", step # "msa" PROVE token["msa"] # "none"
    <3>1. S[1] = "msa" /\ Len(S) \in Nat /\ k # 1
      BY <1>1, <2>2, <2>4, StepsTyped DEF At
    <3>2. 1 \in 1..(k - 1) /\ S[1] \in DOMAIN Given /\ Given[S[1]] = "msa"
      BY <3>1 DEF Given
    <3> QED BY <2>1, <2>2, <3>2 DEF At, Got
  <2>5. ASSUME NEW told \in {"OFFLINE", "FAILED_SOFT"}, Over(told, token), Untouched, step # "msa"
        PROVE  Usable'
    BY <1>1, <1>2, <2>4, <2>5, ConcludeUsable DEF Over, Untouched
  <2>6. ASSUME Over("SUCCEEDED", token), Untouched, step \in {"skin", "profile", "profileMojang"}
        PROVE  Usable'
    BY <1>1, <1>2, <2>3, <2>6, ConcludeUsable DEF Over, Untouched
  <2>7. ASSUME NEW s \in DOMAIN Obtains, TokenStep(s) PROVE Usable'
    BY <2>5, <2>7 DEF TokenStep, Replies, Obtains, GoOn
  <2>8. CASE XboxProfile
    BY <2>5, <2>8 DEF XboxProfile, Replies, GoOn
  <2>9. CASE Skin
    BY <2>6, <2>9 DEF Skin, Replies
  <2>10. CASE Injector
    BY <1>1, <1>2, <1>4, <2>10 DEF Injector, GoOn, Over
  <2>11. CASE YggdrasilStep
    <3>1. CASE Over("OFFLINE", token) /\ Untouched
      BY <2>5, <2>11, <3>1 DEF YggdrasilStep, Replies
    <3>2. ASSUME NEW tk \in {token, With("ygg", "new")}, Over("FAILED_HARD", tk), Untouched
          PROVE  Usable'
      BY <1>1, <1>2, <1>3, <1>4, <3>2 DEF Over
    <3>3. ASSUME NEW left \in {"FAILED_HARD", "FAILED_SOFT"},
                 Conclude("FAILED_GONE", left, token), Untouched
          PROVE  Usable'
      BY <1>1, <1>2, <1>4, <3>3
    <3> QED BY <2>11, <3>1, <3>2, <3>3 DEF YggdrasilStep, GoOn
  <2>12. ASSUME NEW s \in {"profile", "profileMojang"}, ProfileStep(s) PROVE Usable'
    BY <2>5, <2>6, <2>12 DEF ProfileStep, Replies, GoOn
  <2>13. ASSUME NEW s \in {"entitlements", "migration"}, Optional(s) PROVE Usable'
    BY <2>13 DEF Optional, GoOn
  <2> QED BY <1>8, <2>7, <2>8, <2>9, <2>10, <2>11, <2>12, <2>13 DEF Answer
<1>9. CASE Start \/ Drop
  BY <1>9 DEF Start, Drop, Asks
<1> QED BY <1>5, <1>6, <1>7, <1>8, <1>9 DEF AuthNext

\* The end of every sign-in leaves an account that can be used as it says.
THEOREM SignInUsable == AuthSpec => EndsUsable
<1> USE AuthAssumption
<1>1. AuthInit => AuthInv /\ RefreshHeld
  BY AuthInitInv DEF AuthInit, RefreshHeld
<1>2. AuthInv /\ RefreshHeld /\ [AuthNext]_authVars => AuthInv' /\ RefreshHeld'
  BY AuthInvKept, RefreshHeldInv
<1>3. AuthInv /\ RefreshHeld /\ [AuthNext]_authVars => [task = "Running" /\ task' # "Running" => Usable']_authVars
  BY EndUsable
<1> QED BY <1>1, <1>2, <1>3, PTL DEF AuthSpec, EndsUsable
=============================================================================
