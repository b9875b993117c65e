------------------------------ MODULE AccountList ------------------------------
(* minecraft/auth/AccountList.cpp and MinecraftAccount.cpp: the list of       *)
(* accounts, the background refresh of their tokens and its two timers, and   *)
(* the launches that sign in with an account and then claim it                *)
(* (LaunchController::login, ClaimAccount).                                   *)
EXTENDS Integers, Sequences, FiniteSets, SequencesExt

CONSTANTS Accounts,      \* the MinecraftAccount objects
          Offline,       \* those of type Offline: their refresh ends inside start()
          Profile,       \* the profile of each, by id and by name
          InternalId,    \* data.internalId of each: a Microsoft sign-in loses it,
                         \* so all accounts signed in like that share the empty one
          Loaded,        \* the sequence that loadList() reads
          Launches,      \* the LaunchControllers
          MaxRequests,   \* bound: refreshes that the user asks for
          None           \* nullptr

ASSUME AccountsAssumption ==
    /\ None \notin Accounts /\ IsFiniteSet(Accounts)
    /\ Offline \subseteq Accounts
    /\ Loaded \in Seq(Accounts)
    /\ MaxRequests \in Nat

VARIABLES
    list,          \* m_accounts
    dflt,          \* m_defaultAccount
    fresh,         \* accounts the user may still create by signing in
    busy,          \* accounts with a m_currentTask
    heard,         \* accounts whose task reports to the list as well
    current,       \* the account of the list's own m_currentTask
    queue,         \* m_refreshQueue
    nextTimer,     \* is m_nextTimer running
    refreshTimer,  \* is m_refreshTimer running
    activity,      \* m_activityCount
    validity,      \* data.validity_ and the expiry of the token
    state,         \* data.accountState
    uses,          \* m_useCount
    launch,        \* the launches
    requests,      \* how often the user asked for a refresh
    started,       \* did the application call fillQueue() after loading
    stray,         \* launches whose login() keeps a flow alive that has reported its
                   \* end and goes on, for their account
    strayed        \* history: accounts whose state such a flow wrote last

strayVars == <<stray, strayed>>
vars == <<list, dflt, fresh, busy, heard, current, queue, nextTimer, refreshTimer,
          activity, validity, state, uses, launch, requests, started, strayVars>>

Listed == {list[i] : i \in DOMAIN list}
Ids == {InternalId[a] : a \in Accounts}

\* AccountState as login() tells it apart: Errored is treated like Unchecked;
\* Expired, Disabled and Gone are Broken.
States == {"Unchecked", "Working", "Online", "Offline", "Broken"}

\* Validity as shouldRefresh() tells it apart: Certain is due in the last twelve
\* hours of a token and fresh before them.
Validities == {"none", "assumed", "due", "fresh"}
Phases == {"idle", "waiting", "told", "preparing", "playing"}

\* wants is m_online while login() is at work, online is whether the session that
\* it made is one that claims an account.
NoLaunch == [phase |-> "idle", account |-> None, wants |-> FALSE,
             online |-> FALSE, claim |-> None]

Init == /\ list = Loaded
        /\ dflt \in Listed \union {None}
        /\ fresh = Accounts \ Listed
        /\ busy = {} /\ heard = {} /\ current = None
        /\ queue = <<>> /\ nextTimer = FALSE /\ refreshTimer = FALSE
        /\ activity = 0
        /\ validity \in [Accounts -> {"none", "assumed"}]
        /\ \A a \in fresh : validity[a] = "none"
        /\ state = [a \in Accounts |-> "Unchecked"]
        /\ uses = [a \in Accounts |-> 0]
        /\ launch = [l \in Launches |-> NoLaunch]
        /\ requests = 0 /\ started = FALSE
        /\ stray = {} /\ strayed = {}

-----------------------------------------------------------------------------
(* The task of one account.                                                  *)

Waiting(l) == launch[l].phase = "waiting"
InLogin(l) == launch[l].phase \in {"waiting", "told"}
Quiet == \A l \in Launches : ~InLogin(l)   \* no modal dialog of a login is open

\* Does a launch keep the account object alive?
Held(a) == \E l \in Launches : a \in {launch[l].account, launch[l].claim}

\* beginActivity() and endActivity(), for an account on the list.
Begin(a) == activity' = IF a \in Listed THEN activity + 1 ELSE activity
End(a) == activity' = IF a \in Listed /\ activity > 0 THEN activity - 1 ELSE activity

\* AuthFlow::succeed() makes an offline account Certain and leaves the time of its
\* token, which nothing renews.
Certain(a) ==
    \E v \in IF validity[a] \in {"none", "assumed"} THEN {"due", "fresh"} ELSE {validity[a]} :
        validity' = [validity EXCEPT ![a] = v]

\* Faulty variant of Refresh: the activity is not announced.
RefreshSilently(a) ==
    IF a \in Offline
      THEN /\ Certain(a)
           /\ state' = [state EXCEPT ![a] = "Online"]
           /\ UNCHANGED <<busy, activity, strayed>>
      ELSE /\ busy' = busy \union {a}
           /\ state' = [state EXCEPT ![a] = "Working"]
           /\ strayed' = strayed \ {a}
           /\ UNCHANGED <<validity, activity>>

\* refresh() and start() of the task it returns: a running one is left alone,
\* that of an offline account succeeds before start() returns.
Refresh(a) ==
    IF a \in Offline
      THEN /\ Certain(a)
           /\ state' = [state EXCEPT ![a] = "Online"]
           /\ UNCHANGED <<busy, activity, strayed>>
      ELSE /\ IF a \in busy
                THEN UNCHANGED <<busy, state, activity, strayed>>
                ELSE /\ busy' = busy \union {a}
                     /\ state' = [state EXCEPT ![a] = "Working"]
                     /\ strayed' = strayed \ {a}
                     /\ Begin(a)
           /\ UNCHANGED validity

\* What changeState() and MinecraftAccount::authFailed() make of each end of
\* the authentication steps: the state of the account, and its new validity. The
\* last step of these flows ends them itself, so succeed() is not reached and the
\* validity stays what it was.
Ends == {<<"Online", "kept">>,        \* STATE_SUCCEEDED
         <<"Offline", "kept">>,       \* STATE_OFFLINE
         <<"Unchecked", "kept">>,     \* STATE_FAILED_SOFT
         <<"Broken", "kept">>,        \* STATE_DISABLED
         <<"Broken", "none">>,        \* STATE_FAILED_HARD, STATE_FAILED_GONE
         <<"Unchecked", "none">>}     \* STATE_FAILED_GONE, then an unreadable answer

\* Faulty variant of ListHears: a failed refresh does not schedule the next one.
ListHearsSuccess(a, end) ==
    IF a \in heard /\ end[1] = "Online"
      THEN current' = None /\ nextTimer' = TRUE
      ELSE UNCHANGED <<current, nextTimer>>

\* AccountList::authSucceeded() and authFailed()
ListHears(a, end) ==
    IF a \in heard
      THEN current' = None /\ nextTimer' = TRUE
      ELSE UNCHANGED <<current, nextTimer>>

\* Faulty variant of AccountEnds: STATE_DISABLED is not told to the account.
AccountEndsDisabled(a, end) ==
    /\ state' = IF end[1] = "Broken" /\ end[2] = "kept" THEN state ELSE [state EXCEPT ![a] = end[1]]
    /\ validity' = IF end[2] = "kept" THEN validity ELSE [validity EXCEPT ![a] = end[2]]

AccountEnds(a, end) ==
    /\ state' = [state EXCEPT ![a] = end[1]]
    /\ validity' = IF end[2] = "kept" THEN validity ELSE [validity EXCEPT ![a] = end[2]]

\* The launches that hold the task of a in login().
Waiters(a) == {l \in Launches : Waiting(l) /\ launch[l].account = a}

\* MSAStep::perform() reports another client (STATE_DISABLED) and refreshes all the
\* same. That happens inside start(): a flow that the list started is deleted
\* before a reply comes; one that a login() started stays until login() returns,
\* because deleteLater() waits for the event loop that login() was called from.
MayGoOn(a, end) ==
    \/ stray' = stray
    \/ /\ end = <<"Broken", "kept">> /\ a \notin heard
       /\ stray' = stray \union Waiters(a)

\* A step of the task of an account has ended the task.
TaskEnds(a) ==
    /\ a \in busy
    /\ busy' = busy \ {a} /\ heard' = heard \ {a}
    /\ \E end \in Ends : AccountEnds(a, end) /\ ListHears(a, end) /\ MayGoOn(a, end)
    /\ strayed' = strayed \ {a}
    /\ End(a)
    /\ UNCHANGED <<list, dflt, fresh, queue, refreshTimer, uses, launch, requests, started>>

\* A step of the task has ended and the next one begins: changeState() makes the
\* account Working, which it is unless a stray flow wrote something else.
TaskGoesOn(a) ==
    /\ a \in busy /\ a \in strayed
    /\ state' = [state EXCEPT ![a] = "Working"]
    /\ strayed' = strayed \ {a}
    /\ UNCHANGED <<list, dflt, fresh, busy, heard, current, queue, nextTimer, refreshTimer,
                   activity, validity, uses, launch, requests, started, stray>>

\* A reply to a flow that reported its end before, the first one under the message
\* that told the user: the next step begins, or changeState() writes an end that
\* nobody hears of, as the task is not running.
StrayReports(a) ==
    /\ \E l \in stray : /\ launch[l].account = a
                        /\ launch[l].phase = "told" \/ a \in strayed
    /\ \E reported \in States :
          /\ state' = [state EXCEPT ![a] = reported]
          /\ stray' = IF reported = "Working" THEN stray
                      ELSE {l \in stray : launch[l].account # a}
    /\ strayed' = strayed \union {a}
    /\ UNCHANGED <<list, dflt, fresh, busy, heard, current, queue, nextTimer, refreshTimer,
                   activity, validity, uses, launch, requests, started>>

\* The account was replaced and nobody holds its task any more: deleteLater().
TaskVanishes(a) ==
    /\ a \in busy /\ a \notin Listed /\ a # current /\ ~Held(a)
    /\ busy' = busy \ {a} /\ heard' = heard \ {a}
    /\ UNCHANGED <<list, dflt, fresh, current, queue, nextTimer, refreshTimer, activity,
                   validity, state, uses, launch, requests, started, strayVars>>

\* The token gets within twelve hours of its end.
Age(a) == /\ validity[a] = "fresh"
          /\ validity' = [validity EXCEPT ![a] = "due"]
          /\ UNCHANGED <<list, dflt, fresh, busy, heard, current, queue, nextTimer,
                         refreshTimer, activity, state, uses, launch, requests, started,
                         strayVars>>

-----------------------------------------------------------------------------
(* The refresh schedule.                                                     *)

ShouldRefresh(a) == uses[a] = 0 /\ validity[a] \in {"assumed", "due"}

Known(id) == \E row \in DOMAIN list : InternalId[list[row]] = id
IsFirstWith(id, row) == /\ InternalId[list[row]] = id
                        /\ \A i \in 1..(row - 1) : InternalId[list[i]] # id

\* tryNext() with queue q and the timers as they are when it is called: it skips
\* identifiers that are no longer on the list and refreshes the first that is;
\* if there is none it arms the hourly timer.
TryNext(q, next, refresh) ==
    \/ /\ \A i \in DOMAIN q : ~Known(q[i])
       /\ queue' = <<>>
       /\ refreshTimer' = TRUE /\ nextTimer' = next
       /\ UNCHANGED <<busy, heard, current, activity, validity, state, strayed>>
    \/ \E i \in DOMAIN q, row \in DOMAIN list :
         /\ \A j \in 1..(i - 1) : ~Known(q[j])
         /\ IsFirstWith(q[i], row)
         /\ queue' = SubSeq(q, i + 1, Len(q))
         /\ Refresh(list[row])
         /\ refreshTimer' = refresh
         /\ IF list[row] \in Offline
              THEN current' = None /\ nextTimer' = TRUE /\ UNCHANGED heard
              ELSE /\ current' = list[row] /\ nextTimer' = next
                   /\ heard' = heard \union {list[row]}

OutsideQueue == <<list, dflt, fresh, uses, launch, stray>>

\* The queue after the two loops of fillQueue(): the default account goes in
\* without a look at the queue, the others with queueRefresh().
Filled(q) ==
    LET first == IF dflt # None /\ ShouldRefresh(dflt) THEN Append(q, InternalId[dflt]) ELSE q
        QueueRefresh(ids, a) ==
            IF a # dflt /\ ShouldRefresh(a) /\ ~Contains(ids, InternalId[a])
              THEN Append(ids, InternalId[a]) ELSE ids
        after[n \in 0..Len(list)] ==
            IF n > 0 THEN QueueRefresh(after[n - 1], list[n]) ELSE first
    IN  after[Len(list)]

\* fillQueue(), called once after loading and then by m_refreshTimer.
FillQueue ==
    /\ ~started \/ refreshTimer
    /\ started' = TRUE
    /\ TryNext(Filled(queue), nextTimer, FALSE)
    /\ UNCHANGED OutsideQueue /\ UNCHANGED requests

NextTimerFires ==
    /\ nextTimer
    /\ TryNext(queue, FALSE, refreshTimer)
    /\ UNCHANGED OutsideQueue /\ UNCHANGED <<requests, started>>

ToFront(a) == <<InternalId[a]>> \o RemoveFirst(queue, InternalId[a])

\* requestRefresh(), by the button of the account page, which needs a selected
\* idle account that is not an offline one.
RequestRefresh(a) ==
    /\ started /\ Quiet /\ requests < MaxRequests
    /\ a \in Listed /\ a \notin busy \union Offline
    /\ requests' = requests + 1
    /\ IF activity = 0
         THEN TryNext(ToFront(a), nextTimer, refreshTimer)
         ELSE /\ queue' = ToFront(a)
              /\ UNCHANGED <<busy, heard, current, nextTimer, refreshTimer, activity,
                             validity, state, strayed>>
    /\ UNCHANGED OutsideQueue /\ UNCHANGED started

-----------------------------------------------------------------------------
(* The list.                                                                 *)

OutsideList == <<busy, heard, current, queue, nextTimer, refreshTimer, activity, uses,
                 launch, requests, started, strayVars>>

\* findAccountByProfileId() and getAccountByProfileName(): the first row with
\* the profile of b.
HasProfile(b) == \E i \in DOMAIN list : Profile[list[i]] = Profile[b]
IsRowOf(b, row) == /\ Profile[list[row]] = Profile[b]
                   /\ \A i \in 1..(row - 1) : Profile[list[i]] # Profile[b]

\* Faulty variant of NewDefault: the replaced account stays the default.
OldDefault(b, row) == dflt

\* The default account after b has replaced the account in a row.
NewDefault(b, row) == IF dflt = list[row] THEN b ELSE dflt

\* addAccount() of an account the user just signed in with: it replaces one with
\* the same profile. An account that is alone on the list becomes the default.
\* Only the sign-in of an offline account says how long it is valid.
AddAccount(b) ==
    /\ started /\ b \in fresh /\ fresh' = fresh \ {b}
    /\ \/ /\ ~HasProfile(b)
          /\ list' = Append(list, b)
          /\ dflt' = IF list = <<>> THEN b ELSE dflt
       \/ \E row \in DOMAIN list :
            /\ IsRowOf(b, row)
            /\ list' = [list EXCEPT ![row] = b]
            /\ dflt' = IF Len(list) = 1 THEN b ELSE NewDefault(b, row)
    /\ state' = [state EXCEPT ![b] = "Online"]
    /\ validity' = [validity EXCEPT ![b] = IF b \in Offline THEN "fresh" ELSE "none"]
    /\ UNCHANGED OutsideList

\* removeAccount(): its button is enabled for idle accounts only.
RemoveAccount(row) ==
    /\ started /\ Quiet /\ list[row] \notin busy
    /\ list' = RemoveAt(list, row)
    /\ dflt' = IF dflt = list[row] THEN None ELSE dflt
    /\ UNCHANGED <<fresh, validity, state>> /\ UNCHANGED OutsideList

SetDefaultAccount(a) ==
    /\ started /\ Quiet /\ a \in Listed \union {None} /\ a # dflt
    /\ dflt' = a
    /\ UNCHANGED <<list, fresh, validity, state>> /\ UNCHANGED OutsideList

-----------------------------------------------------------------------------
(* A launch: sign in, create the LaunchTask, claim the account, play.        *)

OutsideLogin == <<list, fresh, heard, current, queue, nextTimer, refreshTimer, uses,
                  requests, started>>

\* Faulty variant of ClaimOf: the account itself, if it is still there.
ClaimOfSame(a) == IF a \in Listed THEN a ELSE None

\* The constructor of ClaimAccount looks for the account by its profile name.
ClaimOf(a) == IF HasProfile(a)
                THEN list[CHOOSE row \in DOMAIN list : IsRowOf(a, row)] ELSE None

Unsigned == UNCHANGED <<busy, activity, validity, state, strayed>>

\* login() returns without a launch.
Idle(l) == launch' = [launch EXCEPT ![l] = NoLaunch] /\ stray' = stray \ {l} /\ Unsigned

\* launchInstance(): an online session will claim an account.
Prepare(l, a, online) ==
    /\ launch' = [launch EXCEPT ![l] = [NoLaunch EXCEPT !.phase = "preparing", !.account = a,
                       !.online = online, !.claim = IF online THEN ClaimOf(a) ELSE None]]
    /\ stray' = stray \ {l} /\ Unsigned

\* A dialog of login() is open: the progress of the task, or the message that
\* the account cannot be used.
Shows(l, phase, a, wants) ==
    /\ launch' = [launch EXCEPT ![l] = [NoLaunch EXCEPT !.phase = phase, !.account = a,
                                                       !.wants = wants]]
    /\ stray' = stray

\* One turn of the loop of login(), which an offline session was asked of
\* (~wants) or not. The user may have to choose a demo, or give up.
Login(l, a, wants) ==
    \/ a \in Offline /\ \E online \in {wants, FALSE} : Prepare(l, a, online)
    \/ /\ a \notin Offline /\ state[a] = "Online"
       /\ (\E online \in {wants, FALSE} : Prepare(l, a, online)) \/ Idle(l)
    \/ /\ a \notin Offline /\ state[a] = "Offline"
       /\ Prepare(l, a, FALSE) \/ Idle(l)
    \/ /\ a \notin Offline /\ state[a] = "Unchecked"
       /\ Refresh(a) /\ Shows(l, "waiting", a, wants)
    \/ a \notin Offline /\ state[a] = "Working" /\ Shows(l, "waiting", a, wants) /\ Unsigned
    \/ a \notin Offline /\ state[a] = "Broken" /\ Shows(l, "told", a, wants) /\ Unsigned

\* decideAccount(): the default, the one the instance names, or the one the
\* user picks and may make the default.
StartLaunch(l, a) ==
    /\ started /\ launch[l] = NoLaunch /\ a \in Listed
    /\ dflt' = dflt \/ (dflt = None /\ dflt' = a)
    /\ \E wants \in BOOLEAN : Login(l, a, wants)
    /\ UNCHANGED OutsideLogin

\* The progress dialog returns when the task has ended, or at once without a
\* task, and an offline launch can also leave it with Escape; from the third time
\* on the user may be asked whether to go on.
ResumeLogin(l) ==
    /\ Waiting(l) /\ (launch[l].account \in busy => ~launch[l].wants)
    /\ Login(l, launch[l].account, launch[l].wants) \/ Idle(l)
    /\ UNCHANGED OutsideLogin /\ UNCHANGED dflt

\* The user closes the message, and login() fails.
CloseMessage(l) ==
    /\ launch[l].phase = "told" /\ Idle(l)
    /\ UNCHANGED OutsideLogin /\ UNCHANGED dflt

OutsideGame == <<list, dflt, fresh, busy, heard, current, queue, nextTimer, refreshTimer,
                 activity, validity, state, requests, started, strayVars>>

\* ClaimAccount::executeTask(): the UseLock; an offline session has none. With
\* nothing to claim in an online session the step never ends.
Claim(l) ==
    LET a == launch[l].claim
    IN  /\ launch[l].phase = "preparing" /\ (launch[l].online => a # None)
        /\ launch' = [launch EXCEPT ![l].phase = "playing"]
        /\ uses' = IF a = None THEN uses ELSE [uses EXCEPT ![a] = @ + 1]
        /\ UNCHANGED OutsideGame

Release(l) == LET a == launch[l].claim
              IN  IF launch[l].phase = "playing" /\ a # None
                    THEN [uses EXCEPT ![a] = @ - 1] ELSE uses

\* The launch is over: the game ended, a step failed or the user aborted it.
FinishLaunch(l) ==
    /\ launch[l].phase \in {"preparing", "playing"}
    /\ uses' = Release(l)
    /\ launch' = [launch EXCEPT ![l] = NoLaunch]
    /\ UNCHANGED OutsideGame

-----------------------------------------------------------------------------
Next ==
    \/ FillQueue \/ NextTimerFires
    \/ \E a \in Accounts : \/ TaskEnds(a) \/ TaskGoesOn(a) \/ StrayReports(a)
                           \/ TaskVanishes(a) \/ Age(a)
                           \/ RequestRefresh(a) \/ AddAccount(a)
                           \/ \E l \in Launches : StartLaunch(l, a)
    \/ \E row \in DOMAIN list : RemoveAccount(row)
    \/ \E a \in Accounts \union {None} : SetDefaultAccount(a)
    \/ \E l \in Launches : ResumeLogin(l) \/ CloseMessage(l) \/ Claim(l) \/ FinishLaunch(l)

Spec == Init /\ [][Next]_vars

-----------------------------------------------------------------------------
(* Properties.                                                               *)

\* The use count and the activity count are counts of something.
TypeOK == /\ list \in Seq(Accounts) /\ queue \in Seq(Ids)
          /\ dflt \in Accounts \union {None} /\ current \in Accounts \union {None}
          /\ fresh \subseteq Accounts /\ busy \subseteq Accounts /\ heard \subseteq busy
          /\ nextTimer \in BOOLEAN /\ refreshTimer \in BOOLEAN /\ started \in BOOLEAN
          /\ activity \in Nat /\ requests \in 0..MaxRequests
          /\ validity \in [Accounts -> Validities] /\ state \in [Accounts -> States]
          /\ uses \in [Accounts -> Nat] /\ strayed \subseteq Accounts
          /\ stray \subseteq {l \in Launches : InLogin(l)}
          /\ launch \in [Launches -> [phase : Phases, account : Accounts \union {None},
                                      wants : BOOLEAN, online : BOOLEAN, claim : Accounts \union {None}]]

\* The schedule never stops: a timer of the list runs or the list holds a
\* running task whose end it will hear of, whatever was removed or replaced
\* meanwhile (AccountList.cpp:719-752).
ScheduleAlive ==
    started => nextTimer \/ refreshTimer \/ current \in busy \intersect heard

\* The default account is always one of the list (AccountList.cpp:110-217).
DefaultListed == dflt = None \/ dflt \in Listed

\* An account that somebody can sign in with says Working exactly while it has a
\* task, LaunchController.cpp:279: "refresh is in progress, we need to wait for it
\* to finish to proceed". login() would go round without waiting otherwise. The
\* exception is what the code breaks it with: a flow that goes on after it has
\* reported another client, until the account is refreshed again.
WorkingHasTask == \A a \in Accounts \ strayed :
    a \in Listed \/ (\E l \in Launches : launch[l].account = a)
        => (state[a] = "Working" <=> a \in busy)

\* Every end of an activity is matched by a begin: the count covers the tasks
\* that will still end (AccountList.cpp:764-768, "would become below zero").
ActivityCovers == activity >= Cardinality(busy \intersect Listed)

\* The members keep their types, and the activities their count.
Counted == TypeOK /\ ActivityCovers

\* An online launch always finds an account to lock, even when the one it signed
\* in with was replaced meanwhile (ClaimAccount.cpp:8-21).
ClaimFound == \A l \in Launches : launch[l].online => launch[l].claim # None

\* The schedule keeps off accounts in use, MinecraftAccount.cpp:279: "Never
\* refresh accounts that are being used by the game, it breaks the game session".
NoRefreshInUse == [][\A a \in heard' \ heard : uses[a] = 0]_vars
================================================================================
