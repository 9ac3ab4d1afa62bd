------------------------------ MODULE Account ------------------------------
(***************************************************************************)
(* PersonalAuth and DeviceCodeAuth: the user's account, from the device    *)
(* auth on disk or from a code confirmed in the browser, up to the         *)
(* exchange code with which Play starts the game. Everything runs on one   *)
(* thread, which waits; an Execute may fail at any time.                   *)
(***************************************************************************)
EXTENDS Integers

CONSTANTS TokenLife,   \* for how long the server takes an access token
          TokenZones   \* local time minus UTC

ASSUME AccAssumption == TokenLife \in Nat /\ TokenZones \subseteq Int

VARIABLES at,            \* where the thread is
          within,        \* what goes on when the PersonalAuth is constructed
          deviceAuth,    \* the file "auth"
          tokenValid,    \* time left until the server refuses AccessToken
          tokenBelieved, \* time left until ExpiresAt
          timeZone,
          refreshable,   \* the server still takes RefreshToken
          code,          \* the device code, as the server sees it
          firstAuthLaunched,
          launched       \* the last click on Play has started the game

accVars == <<at, within, deviceAuth, tokenValid, tokenBelieved, timeZone, refreshable,
             code, firstAuthLaunched, launched>>

AccTypeOK ==
    /\ at \in {"readAuth", "useAuth", "getToken", "getCode", "poll", "create", "save",
               "saving", "constructed", "ready", "update", "refresh", "exchange"}
    /\ within \in {"startup", "play", "update"}
    /\ deviceAuth \in {"absent", "partial", "good"}
    /\ tokenValid \in 0 .. TokenLife /\ tokenBelieved \in Nat \cup {-1}
    /\ timeZone \in TokenZones /\ refreshable \in BOOLEAN
    /\ code \in {"none", "pending", "confirmed", "expired"}
    /\ firstAuthLaunched \in BOOLEAN /\ launched \in BOOLEAN

NotNegative(x) == IF x < 0 THEN 0 ELSE x
LocalExpiry == NotNegative(TokenLife - timeZone)

\* ExpiresAt is not initialized: the past, or a future nobody lives to see.
Forever == -1
Unset == {0, Forever}
Later(time) == IF time = Forever THEN Forever ELSE NotNegative(time - 1)

AccInit ==
    /\ at = "readAuth" /\ within = "startup"
    /\ deviceAuth \in {"absent", "partial", "good"}
    /\ tokenValid = 0 /\ timeZone \in TokenZones
    /\ tokenBelieved \in Unset
    /\ refreshable = FALSE /\ code = "none"
    /\ firstAuthLaunched = FALSE /\ launched = FALSE

-----------------------------------------------------------------------------
GoTo(from, to) ==
    /\ at = from /\ at' = to
    /\ UNCHANGED timeZone

Tokens == <<tokenValid, tokenBelieved, refreshable>>
PlayState == <<within, firstAuthLaunched, launched>>

UseOAuthResp ==
    tokenValid' = TokenLife /\ tokenBelieved' = LocalExpiry /\ refreshable' = TRUE

(***************************************************************************)
(* The constructor: the device auth on disk, else a device code.           *)
(***************************************************************************)
\* A file that was cut off cannot be decrypted.
ReadDeviceAuth ==
    /\ GoTo("readAuth", IF deviceAuth = "good" THEN "useAuth" ELSE "getToken")
    /\ UNCHANGED <<Tokens, PlayState, deviceAuth, code>>

UseDeviceAuth ==
    /\ GoTo("useAuth", "constructed") /\ UseOAuthResp
    /\ UNCHANGED <<PlayState, deviceAuth, code>>

UseDeviceAuthFails ==
    /\ GoTo("useAuth", "getToken")
    /\ UNCHANGED <<Tokens, PlayState, deviceAuth, code>>

GetClientToken ==
    /\ GoTo("getToken", "getCode")
    /\ UNCHANGED <<Tokens, PlayState, deviceAuth, code>>

\* setupCb opens the browser.
GetDeviceCode ==
    /\ GoTo("getCode", "poll") /\ code' = "pending"
    /\ UNCHANGED <<Tokens, PlayState, deviceAuth>>

\* DeviceCodeAuth has no result; the constructor gives up with no token. In
\* Recreate the members of the new object, ExpiresAt not initialized, are
\* copied over those of the old one.
NoResult ==
    /\ at \in {"getToken", "getCode"} /\ at' = "constructed"
    /\ tokenValid' = 0 /\ tokenBelieved' \in Unset /\ refreshable' = FALSE
    /\ UNCHANGED <<PlayState, deviceAuth, code, timeZone>>

Confirm ==
    /\ at = "poll" /\ code = "pending" /\ code' = "confirmed"
    /\ UNCHANGED <<at, Tokens, PlayState, deviceAuth, timeZone>>

Expire ==
    /\ at = "poll" /\ code = "pending" /\ code' = "expired"
    /\ UNCHANGED <<at, Tokens, PlayState, deviceAuth, timeZone>>

\* 400 means not yet, or never: the loop goes on for ever then.
PollAgain ==
    /\ at = "poll" /\ code # "confirmed"
    /\ UNCHANGED accVars

PollAnswered ==
    /\ at = "poll" /\ code = "confirmed"
    /\ GoTo("poll", "create") /\ UseOAuthResp /\ code' = "none"
    /\ UNCHANGED <<PlayState, deviceAuth>>

\* CreateDeviceAuth has no return statement at its end: whether a success is
\* taken for one is a matter of the build.
CreateDeviceAuth ==
    /\ at = "create" /\ at' \in {"save", "constructed"}
    /\ UNCHANGED <<Tokens, PlayState, deviceAuth, code, timeZone>>

OpenAuthFile ==
    /\ GoTo("save", "saving") /\ deviceAuth' = "partial"
    /\ UNCHANGED <<Tokens, PlayState, code>>

SaveFails ==
    /\ GoTo("save", "constructed")
    /\ UNCHANGED <<Tokens, PlayState, deviceAuth, code>>

SaveDeviceAuth ==
    /\ GoTo("saving", "constructed") /\ deviceAuth' = "good"
    /\ UNCHANGED <<Tokens, PlayState, code>>

\* Back to where the account was constructed or recreated from.
Constructed ==
    /\ GoTo("constructed", CASE within = "startup" -> "ready"
                             [] within = "play" -> "update"
                             [] within = "update" -> "exchange")
    /\ UNCHANGED <<Tokens, PlayState, deviceAuth, code>>

-----------------------------------------------------------------------------
(***************************************************************************)
(* OnPlayClicked and GetExchangeCode.                                      *)
(***************************************************************************)
Play ==
    /\ GoTo("ready", IF firstAuthLaunched THEN "readAuth" ELSE "update")
    /\ within' = "play" /\ launched' = FALSE
    /\ UNCHANGED <<Tokens, deviceAuth, code, firstAuthLaunched>>

UpdateToken ==
    /\ GoTo("update", IF tokenBelieved # 0 THEN "exchange" ELSE "refresh")
    /\ UNCHANGED <<Tokens, PlayState, deviceAuth, code>>

UseRefreshToken ==
    /\ refreshable
    /\ GoTo("refresh", "exchange") /\ UseOAuthResp
    /\ UNCHANGED <<PlayState, deviceAuth, code>>

\* Mutant: no new authorization when the refresh token is refused.
AfterRefreshFailedOn == "exchange"

AfterRefreshFailed == "readAuth"

RefreshFails ==
    /\ GoTo("refresh", AfterRefreshFailed)
    /\ within' = "update"
    /\ UNCHANGED <<Tokens, deviceAuth, code, firstAuthLaunched, launched>>

Launch ==
    /\ tokenValid > 0
    /\ GoTo("exchange", "ready")
    /\ launched' = TRUE /\ firstAuthLaunched' = TRUE
    /\ UNCHANGED <<Tokens, within, deviceAuth, code>>

\* The failures of Execute; a token that is refused is one of them, and is
\* not renewed.
ExchangeFails ==
    /\ GoTo("exchange", "ready")
    /\ UNCHANGED <<Tokens, PlayState, deviceAuth, code>>

\* Hours: the requests of one click take minutes at most. The refresh token
\* outlives the access token.
PassTime ==
    /\ at \in {"ready", "poll"}
    /\ refreshable' \in IF tokenValid = 0 THEN {refreshable, FALSE} ELSE {refreshable}
    /\ tokenValid' = NotNegative(tokenValid - 1)
    /\ tokenBelieved' = Later(tokenBelieved)
    /\ UNCHANGED <<at, PlayState, deviceAuth, timeZone, code>>

\* The process is killed and started again.
Kill ==
    /\ at' = "readAuth" /\ within' = "startup"
    /\ tokenValid' = 0 /\ tokenBelieved' \in Unset /\ refreshable' = FALSE
    /\ code' = "none"
    /\ firstAuthLaunched' = FALSE /\ launched' = FALSE
    /\ UNCHANGED <<deviceAuth, timeZone>>

\* What the thread does when the requests are answered, and when they fail.
AccSucceed ==
    \/ UseDeviceAuth \/ GetClientToken \/ GetDeviceCode \/ PollAnswered
    \/ CreateDeviceAuth \/ OpenAuthFile \/ SaveDeviceAuth
    \/ UseRefreshToken \/ Launch
AccFail == UseDeviceAuthFails \/ NoResult \/ SaveFails \/ RefreshFails \/ ExchangeFails
AccLocal == ReadDeviceAuth \/ Constructed \/ Play \/ UpdateToken
AccStep == AccLocal \/ AccSucceed \/ AccFail

AccNext ==
    \/ ReadDeviceAuth \/ UseDeviceAuth \/ UseDeviceAuthFails \/ GetClientToken
    \/ GetDeviceCode \/ NoResult \/ Confirm \/ Expire \/ PollAgain \/ PollAnswered
    \/ CreateDeviceAuth \/ OpenAuthFile \/ SaveFails \/ SaveDeviceAuth \/ Constructed
    \/ Play \/ UpdateToken \/ UseRefreshToken \/ RefreshFails \/ Launch \/ ExchangeFails
    \/ PassTime \/ Kill

\* Without the conditions of fairness, which MCOnline adds.
AccSpec == AccInit /\ [][AccNext]_accVars

-----------------------------------------------------------------------------
(***************************************************************************)
(* Properties.                                                             *)
(***************************************************************************)

\* A player who clicks Play again and again gets the game started: a token
\* that has run out, in any time zone, a file cut off by a kill, requests that
\* fail do not lock the account out for good. Two things do, until the next
\* start: a device code that has run out, which is polled for ever
\* (DeviceCodeAuth.cpp:64-94), and an ExpiresAt that was never set because the
\* device code could not be got (PersonalAuth.cpp:143-146).
PlayStartsGame ==
    \/ []<>launched
    \/ <>[](at = "poll" /\ code = "expired")
    \/ <>[](tokenBelieved = Forever)
    \/ []<>(within = "startup")   \* restarted again and again
=============================================================================
