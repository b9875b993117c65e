------------------------------- MODULE AuthFlow -------------------------------
(* The sign-in of one account: minecraft/auth/flows and steps, AccountTask,   *)
(* MinecraftAccount::login(), loginMSA(), refresh(), authSucceeded() and      *)
(* authFailed(), Yggdrasil, and katabasis (DeviceFlow, PollServer).           *)
EXTENDS Integers, Sequences

CONSTANTS Types,     \* the types of account looked at
          MaxFlows   \* bound: sign-ins of the account, one after the other

ASSUME AuthAssumption ==
    /\ Types \subseteq {"MSA", "Mojang", "Authlib", "Offline"}
    /\ MaxFlows \in Nat

VARIABLES
    type,       \* data.type
    listed,     \* is the account one of the list; a new one is not until it signed in
    client,     \* data.msaClientID is the client of this launcher
    accountState, \* data.accountState
    validity_,  \* data.validity_
    token,      \* the tokens in data, of this sign-in ("new") or of an earlier one
    task,       \* Task::m_state of the flow
    emitted,    \* terminal signals of the flow since its start
    taskState,  \* m_taskState of the flow, as authFailed() reads it
    steps,      \* m_steps: those to come
    step,       \* m_currentStep
    wait,       \* what the current step waits for
    flows       \* how many sign-ins were started

dataVars == <<type, listed, client, accountState, validity_, token>>
flowVars == <<task, emitted, taskState, steps, step, wait, flows>>
authVars == <<dataVars, flowVars>>

Tokens == {"msa", "user", "xbox", "services", "ygg"}

\* Whose sign-in wrote a token. An answer for a Microsoft account that lacks the
\* access token succeeds with an empty one; a refresh token is held all the same.
Ages == {"none", "old", "new", "empty"}
Got(t) == IF t = "msa" THEN {"new", "empty"} ELSE {"new"}

\* The constructors of the flows fill m_steps.
StepsOf == [MSA     |-> <<"msa", "user", "xbox", "services", "launcher", "xboxProfile",
                          "entitlements", "profile", "skin">>,
            Mojang  |-> <<"yggdrasil", "profileMojang", "migration", "skin">>,
            Authlib |-> <<"injector", "yggdrasil", "profileMojang", "skin">>,
            Offline |-> <<"offline">>]

\* The token a step obtains, and those its request carries.
Obtains == [user |-> "user", xbox |-> "xbox", services |-> "services", launcher |-> "ygg"]
Carries == {<<"user", "msa">>, <<"xbox", "user">>, <<"services", "user">>,
            <<"launcher", "services">>, <<"xboxProfile", "user">>, <<"xboxProfile", "xbox">>,
            <<"entitlements", "ygg">>, <<"profile", "ygg">>, <<"migration", "ygg">>}

MainToken == IF type = "MSA" THEN "msa" ELSE "ygg"

\* AccountTaskState of a flow that has ended, and AccountState it stands for.
StateOf == [SUCCEEDED |-> "Online", OFFLINE |-> "Offline", DISABLED |-> "Disabled",
            FAILED_SOFT |-> "Errored", FAILED_HARD |-> "Expired", FAILED_GONE |-> "Gone"]
Ended == DOMAIN StateOf

\* A new account, or one of accounts.json, whose tokens an earlier session may
\* have lost or got for another client.
AuthInit == /\ type \in Types /\ listed \in BOOLEAN /\ client \in BOOLEAN
            /\ (~listed \/ type # "MSA" => client)
            /\ accountState = "Unchecked"
            /\ IF listed
                 THEN /\ validity_ \in {"None", "Assumed"}
                      /\ \E main \in {"none", "old"} :
                            token = [t \in Tokens |-> IF t = MainToken THEN main ELSE "old"]
                 ELSE /\ validity_ = "None"
                      /\ token = [t \in Tokens |-> "none"]
            /\ task = "Inactive" /\ emitted = << >> /\ taskState = "CREATED"
            /\ steps = << >> /\ step = "none" /\ wait = "nothing" /\ flows = 0

-----------------------------------------------------------------------------
(* What a report of the current step does.                                   *)

\* Faulty variant of Lost: a soft failure drops the tokens too.
LostSoftly(told) == told \in {"FAILED_HARD", "FAILED_SOFT"}

\* Does MinecraftAccount::authFailed() drop the tokens?
Lost(told) == told = "FAILED_HARD"

\* emitSucceeded() or emitFailed() of a running flow, with the slots of the
\* account: authSucceeded() or authFailed().
Emit(told) ==
    LET end == IF told = "SUCCEEDED" THEN "Succeeded" ELSE "Failed"
    IN  /\ task' = end /\ emitted' = Append(emitted, end)
        /\ listed' = (listed \/ told = "SUCCEEDED")

\* Faulty variant of Conclude: it reports whether the flow runs or not.
ConcludeAnyway(told, left, tk) ==
    /\ Emit(told) /\ token' = tk /\ UNCHANGED validity_
    /\ taskState' = told /\ accountState' = StateOf[left] /\ UNCHANGED <<steps, step>>

\* finished(told): changeState() with the state of an end. tk are the tokens
\* the step leaves, left is what it makes of the account's state before it returns.
Conclude(told, left, tk) ==
    /\ IF task = "Running"
         THEN /\ Emit(told)
              /\ token' = IF Lost(told) THEN [tk EXCEPT ![MainToken] = "none"] ELSE tk
              /\ validity_' = IF told \in {"FAILED_HARD", "FAILED_GONE"} THEN "None"
                              ELSE IF step = "offline" THEN "Certain" ELSE validity_
         ELSE token' = tk /\ UNCHANGED <<task, emitted, listed, validity_>>
    /\ taskState' = told /\ accountState' = StateOf[left]
    /\ UNCHANGED <<steps, step>>

Over(told, tk) == Conclude(told, told, tk) /\ wait' = "nothing"

\* finished(STATE_WORKING): the next step sends its request, in a flow that
\* has ended as well.
GoOn(tk) ==
    /\ accountState' = "Working" /\ taskState' = "WORKING" /\ token' = tk
    /\ step' = Head(steps) /\ steps' = Tail(steps) /\ wait' = "reply"
    /\ UNCHANGED <<task, emitted, listed, validity_>>

With(t, age) == [token EXCEPT ![t] = age]
Granted == \E age \in Got("msa") : GoOn(With("msa", age))

-----------------------------------------------------------------------------
(* Starting a flow.                                                          *)

Aged(tk) == [t \in Tokens |-> IF tk[t] = "none" THEN "none" ELSE "old"]

\* login(), loginMSA() or refresh() of the account, and start() of the flow they
\* return: a new account signs in once, one of the list is refreshed again and again.
Start ==
    /\ task # "Running" /\ flows < MaxFlows /\ (listed \/ flows = 0)
    /\ flows' = flows + 1
    /\ task' = "Running" /\ emitted' = << >>
    /\ accountState' = "Working" /\ taskState' = "WORKING"
    /\ step' = Head(StepsOf[type]) /\ steps' = Tail(StepsOf[type]) /\ wait' = "perform"
    /\ token' = Aged(token)
    /\ UNCHANGED <<type, listed, client, validity_>>

Asks(what) == wait' = what /\ UNCHANGED <<dataVars, task, emitted, taskState, steps, step, flows>>
Untouched == UNCHANGED <<type, client, flows>>
NoMSA == With("msa", "none")

\* MSAStep::perform(), Refresh: another client is reported as disabled, and the
\* step goes on. Without a refresh token it fails at once, else it asks the server.
RefreshMSA ==
    LET held == token["msa"] # "none" IN
    \/ client /\ held /\ Asks("refresh")
    \/ client /\ ~held /\ Over("FAILED_HARD", NoMSA) /\ Untouched
    \/ /\ ~client /\ Untouched
       /\ Conclude("DISABLED", IF held THEN "DISABLED" ELSE "FAILED_HARD", token)
       /\ wait' = IF held THEN "refresh" ELSE "nothing"

\* MSAStep::perform(), Login: it begins with an empty AccountData.
LoginMSA ==
    /\ accountState' = "Unchecked" /\ validity_' = "None" /\ token' = [t \in Tokens |-> "none"]
    /\ wait' = "device"
    /\ UNCHANGED <<listed, task, emitted, taskState, steps, step>> /\ Untouched

\* perform() of the first step, still inside start(); that of an offline account
\* has nothing to do.
Perform ==
    /\ wait = "perform"
    /\ \/ type = "MSA" /\ listed /\ RefreshMSA
       \/ type = "MSA" /\ ~listed /\ LoginMSA
       \/ type = "Offline" /\ Over("SUCCEEDED", token) /\ Untouched
       \/ type \in {"Mojang", "Authlib"} /\ Asks("reply")

-----------------------------------------------------------------------------
(* katabasis: the first step of a Microsoft account.                         *)

\* DeviceFlow::onRefreshFinished(), onRefreshError() and updateActivity()
RefreshEnds ==
    /\ wait = "refresh"
    /\ \/ Granted
       \/ Over("OFFLINE", token)
       \/ \E told \in {"FAILED_HARD", "FAILED_GONE"} : Over(told, NoMSA)
    /\ Untouched

\* onDeviceAuthReplyFinished(): the code is shown and polling begins.
DeviceCode ==
    /\ wait = "device"
    /\ \/ Asks("interval")
       \/ Over("FAILED_HARD", NoMSA) /\ Untouched

Poll == wait = "interval" /\ Asks("poll")

\* PollServer::onReplyFinished() and onVerificationReceived(): while the user has
\* not answered, or when the request timed out, the timer starts again.
PollEnds ==
    /\ wait = "poll"
    /\ \/ Asks("interval")
       \/ Granted /\ Untouched
       \/ Over("FAILED_HARD", NoMSA) /\ Untouched

\* Faulty variant of Expire: polling stops, and nobody is told.
ExpireSilently == wait \in {"interval", "poll"} /\ Asks("nothing")

\* onExpiration(): the poll server goes; an answer that is queued already arrives.
Expire ==
    /\ wait \in {"interval", "poll"}
    /\ Conclude("FAILED_HARD", "FAILED_HARD", NoMSA)
    /\ wait' = IF wait = "poll" THEN "late" ELSE "nothing"
    /\ Untouched

\* A second hard failure is no change of activity.
LatePoll ==
    /\ wait = "late"
    /\ \/ Granted /\ Untouched
       \/ Asks("nothing")

\* The last owner lets go of a flow that has ended. A dialog that shows the failure,
\* or login() under a message box, holds it and an answer under way still arrives.
Drop == task # "Running" /\ wait # "nothing" /\ Asks("nothing")

-----------------------------------------------------------------------------
(* The other steps: one request each.                                        *)

Replies(s) == wait = "reply" /\ step = s

\* Faulty variant of TokenStep: a refused request does not end the flow.
TokenStepRefused(s) ==
    /\ Replies(s)
    /\ GoOn(With(Obtains[s], "new")) \/ GoOn(token) \/ Over("OFFLINE", token)
    /\ Untouched

\* XboxUserStep, XboxAuthorizationStep and LauncherLoginStep::onRequestDone()
TokenStep(s) ==
    /\ Replies(s)
    /\ \/ GoOn(With(Obtains[s], "new"))
       \/ \E told \in {"FAILED_SOFT", "OFFLINE"} : Over(told, token)
    /\ Untouched

XboxProfile ==
    /\ Replies("xboxProfile")
    /\ GoOn(token) \/ \E told \in {"FAILED_SOFT", "OFFLINE"} : Over(told, token)
    /\ Untouched

\* EntitlementsStep and MigrationEligibilityStep go on after a failed request.
Optional(s) == Replies(s) /\ GoOn(token) /\ Untouched

\* MinecraftProfileStep and MinecraftProfileStepMojang: an account without a
\* profile is all right, and needs no skin.
ProfileStep(s) ==
    /\ Replies(s)
    /\ GoOn(token) \/ \E told \in {"SUCCEEDED", "FAILED_SOFT", "OFFLINE"} : Over(told, token)
    /\ Untouched

\* GetSkinStep takes the flow for finished, whatever the answer is.
Skin == Replies("skin") /\ Over("SUCCEEDED", token) /\ Untouched

\* AuthlibInjectorStep
Injector ==
    /\ Replies("injector")
    /\ GoOn(token) \/ Over("FAILED_HARD", token)
    /\ Untouched

\* Yggdrasil::processReply(), processResponse(), processError() and
\* YggdrasilStep: a soft failure means offline; after a 410 the body is read
\* all the same, and what it says is the last word on the account's state.
YggdrasilStep ==
    /\ Replies("yggdrasil")
    /\ \/ GoOn(With("ygg", "new"))
       \/ Over("OFFLINE", token)
       \/ \E tk \in {token, With("ygg", "new")} : Over("FAILED_HARD", tk)
       \/ /\ \E left \in {"FAILED_HARD", "FAILED_SOFT"} : Conclude("FAILED_GONE", left, token)
          /\ wait' = "nothing"
    /\ Untouched

Answer ==
    \/ \E s \in DOMAIN Obtains : TokenStep(s)
    \/ XboxProfile \/ Skin \/ Injector \/ YggdrasilStep
    \/ \E s \in {"profile", "profileMojang"} : ProfileStep(s)
    \/ \E s \in {"entitlements", "migration"} : Optional(s)

-----------------------------------------------------------------------------
AuthNext == \/ Start \/ Perform \/ RefreshEnds \/ DeviceCode \/ Poll \/ PollEnds \/ Expire
            \/ LatePoll \/ Drop \/ Answer

AuthSpec == AuthInit /\ [][AuthNext]_authVars

\* Replies come or time out, timers run; the code expires however long the user waits.
FairAuthSpec == /\ AuthSpec
                /\ WF_authVars(Perform) /\ WF_authVars(RefreshEnds) /\ WF_authVars(DeviceCode)
                /\ WF_authVars(Expire) /\ WF_authVars(Answer)

-----------------------------------------------------------------------------
(* Properties.                                                               *)

AuthTypeOK == /\ type \in Types /\ listed \in BOOLEAN /\ client \in BOOLEAN
              /\ accountState \in {"Unchecked", "Working"} \union {StateOf[e] : e \in Ended}
              /\ validity_ \in {"None", "Assumed", "Certain"}
              /\ token \in [Tokens -> Ages]
              /\ task \in {"Inactive", "Running", "Succeeded", "Failed"}
              /\ taskState \in {"CREATED", "WORKING"} \union Ended
              /\ flows \in 0..MaxFlows

\* A flow promises what tasks promise (tasks/Task.h): one report per start, in the
\* state it leaves, whatever its steps report after that (steps/MSAStep.cpp:87-91,
\* steps/XboxAuthorizationStep.cpp:67-78, Yggdrasil.cpp:291-297).
Contract == INSTANCE TaskContract WITH m_state <- task
ContractSpec == Contract!Spec

\* A flow that ends leaves an account that can be used as it says: it is
\* Online exactly after a success, and then the game token is of this sign-in; a
\* soft failure keeps the token the next refresh needs, a hard one drops it
\* (AccountTask.h:37-46, MinecraftAccount.cpp:225-271).
Usable ==
    /\ accountState \notin {"Unchecked", "Working"}
    /\ task = "Succeeded" <=> accountState = "Online"
    /\ accountState = "Online" /\ type # "Offline" => token["ygg"] = "new"
    /\ taskState \in {"OFFLINE", "FAILED_SOFT"} /\ type = "MSA" => token["msa"] # "none"
    /\ taskState = "FAILED_HARD" => token[MainToken] = "none" /\ validity_ = "None"
EndsUsable == [][task = "Running" /\ task' # "Running" => Usable']_authVars

\* The state of an account is what its last sign-in reported, AccountTask.h:44:
\* "hard failure. main tokens are invalid, and the account no longer exists".
StateAsReported == task \in {"Succeeded", "Failed"} => accountState = StateOf[taskState]

\* Each request carries what this very sign-in obtained, never a token that an
\* earlier one left behind.
Carried == wait = "reply" => \A c \in Carries : step = c[1] => token[c[2]] \in Got(c[2])

Chained == AuthTypeOK /\ Carried

\* Every sign-in ends, also one whose user never enters the code.
SignInEnds == task = "Running" ~> task # "Running"
================================================================================
