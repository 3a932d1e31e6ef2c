----------------------------- MODULE HostedSignIn -----------------------------
(***************************************************************************)
(* Hosted sign-in of the desktop, and the session that it stores.          *)
(*                                                                         *)
(* Every async function of App.tsx is a process of its own here, that      *)
(* others overtake between two awaits: the attempts to sign in             *)
(* (startHostedSignIn), the completions of a callback                      *)
(* (completeHostedSignInWithCallback), which the attempt or a pasted URL   *)
(* begins, and the restores of the two panels.  They share the pending     *)
(* verifier, the port of the native listener and the credential store.     *)
(*                                                                         *)
(* A callback of attempt a carries the state and the code of a; the page   *)
(* of a is up when the command that opens the browser has answered.  The   *)
(* provider redeems a code once, for its verifier.  It may rotate refresh  *)
(* tokens: then each is used once, and one that is used again revokes all  *)
(* that descend from the same sign-in, its family.                         *)
(***************************************************************************)
EXTENDS Naturals, Sequences

CONSTANTS
  MaxAttempts,     \* bound: presses of sign-in
  MaxCompletions,  \* bound: callbacks that are completed
  MaxCalls         \* bound: attempts, completions, restarts and development tokens together

ASSUME SignInAssumption == {MaxAttempts, MaxCompletions, MaxCalls} \subseteq Nat

Attempts == 1..MaxAttempts

Panels == {"live", "review"}

VARIABLES
  begun,        \* attempts begun
  waits,        \* what startHostedSignIn of each attempt waits for
  listener,     \* the attempt whose native listener has the port, or 0
  silent,       \* whether it accepted a connection that has sent nothing so far
  pendingAuth,  \* pendingHostedAuth: an attempt, or 0
  browser,      \* the page of each attempt in the browser
  completions,  \* runs of completeHostedSignInWithCallback
  renewals,     \* the restore of each panel
  stored,       \* the session in the credential store
  apiToken,     \* whether the review panel has a token
  restarts,     \* times the app was closed so far
  devTokens,    \* development tokens requested so far
  \* the provider and the API
  rotates,      \* whether the provider replaces a refresh token that is used
  sessions,     \* sessions that were issued
  redeemed,     \* codes that the provider exchanged, each with whose verifier was sent
  accepted,     \* refresh tokens that the provider accepts
  \* history
  lost,         \* families of a refresh token that was issued and not stored
  raced         \* families revoked since both panels used the same refresh token

port == <<listener, silent>>
history == <<lost, raced>>

signInVars == <<begun, waits, port, pendingAuth, browser, completions, renewals, stored,
                apiToken, restarts, devTokens, rotates, sessions, redeemed, accepted, history>>

provider == <<sessions, redeemed, accepted, history>>
panels == <<renewals, apiToken>>
counters == <<restarts, devTokens, rotates>>
signing == <<begun, waits, port, pendingAuth, browser, completions>>

\* A refresh token is numbered by the session of its family's sign-in and by its own.
NoToken == <<0, 0>>

Family(token) == token[1]

Session(id, refresh) == [id |-> id, refresh |-> refresh]

NoSession == Session(0, NoToken)

\* loaded: the session that a panel read.  renewed: the one that replaces it.
Renewal(step, loaded, renewed) == [step |-> step, loaded |-> loaded, renewed |-> renewed]

AtRest == Renewal("idle", NoSession, NoSession)

SignInInit ==
  /\ begun = 0
  /\ waits = [a \in Attempts |-> "nothing"]
  /\ listener = 0 /\ silent = FALSE /\ pendingAuth = 0
  /\ browser = [a \in Attempts |-> "closed"]
  /\ completions = <<>>
  /\ renewals = [p \in Panels |-> AtRest]
  /\ stored = NoSession
  /\ apiToken = FALSE
  /\ restarts = 0 /\ devTokens = 0
  /\ rotates \in BOOLEAN
  /\ sessions = 0 /\ redeemed = {} /\ accepted = {}
  /\ lost = {} /\ raced = {}

MayCall == begun + Len(completions) + restarts + devTokens < MaxCalls

-----------------------------------------------------------------------------
(* An attempt *)

\* startHostedSignIn: a fresh state and verifier, and the command of the native listener,
\* which fails if the port is taken; its answer is looked at later.
StartHostedSignIn ==
  /\ begun < MaxAttempts /\ MayCall
  /\ LET a == begun + 1 IN
     /\ begun' = a
     /\ pendingAuth' = a
     /\ IF listener = 0
        THEN listener' = a /\ waits' = [waits EXCEPT ![a] = "opening"]
        ELSE waits' = [waits EXCEPT ![a] = "refused"] /\ UNCHANGED listener
  /\ UNCHANGED <<silent, browser, completions, stored, panels, counters, provider>>

\* openHostedAuthBrowser has opened the page, or it fails: startHostedSignIn catches and the
\* attempt is over, but nothing stops its listener.
OpenHostedAuthBrowser(a) ==
  /\ waits[a] \in {"opening", "refused"}
  /\ \/ /\ browser' = [browser EXCEPT ![a] = "open"]
        /\ waits' = [waits EXCEPT ![a] = IF @ = "opening" THEN "callback" ELSE "nothing"]
        /\ pendingAuth' = IF waits[a] = "opening" THEN pendingAuth ELSE 0
     \/ /\ waits' = [waits EXCEPT ![a] = "nothing"]
        /\ pendingAuth' = 0
        /\ UNCHANGED browser
  /\ UNCHANGED <<begun, port, completions, stored, panels, counters, provider>>

\* The native command failed, and startHostedSignIn catches.
SignInFails(a) ==
  /\ waits[a] = "error"
  /\ waits' = [waits EXCEPT ![a] = "nothing"]
  /\ pendingAuth' = 0
  /\ UNCHANGED <<begun, port, browser, completions, stored, panels, counters, provider>>

\* The listener is over without a callback; its attempt may be over, too.
Failed(wait) ==
  CASE wait = "opening" -> "refused" [] wait = "callback" -> "error" [] OTHER -> wait

ListenerFails ==
  /\ waits' = [waits EXCEPT ![listener] = Failed(@)]
  /\ listener' = 0 /\ silent' = FALSE

\* Mutant: a listener that has passed its deadline waits for the next connection.
ExpireNever == FALSE /\ UNCHANGED signInVars

\* wait_for_callback is at its deadline, which it looks at while no connection is there.
Expire ==
  /\ listener # 0 /\ ~silent
  /\ ListenerFails
  /\ UNCHANGED <<begun, pendingAuth, browser, completions, stored, panels, counters, provider>>

\* Something else connects to the port, a browser ahead of its request or another program.
\* The first connection is all that the listener takes: what it sends, its end, or, where
\* an accepted socket does not block, that it has sent nothing yet, fails the command.
\* Otherwise its read has no deadline.
OtherConnection ==
  /\ listener # 0
  /\ \/ ~silent /\ silent' = TRUE /\ UNCHANGED <<waits, listener>>
     \/ ListenerFails
  /\ UNCHANGED <<begun, pendingAuth, browser, completions, stored, panels, counters, provider>>

Completion(a, url) == [by |-> a, url |-> url, step |-> "check", session |-> NoSession]

Over == [by |-> 0, url |-> <<0, "none">>, step |-> "over", session |-> NoSession]

\* The user agrees or refuses, and the browser is redirected to the port.  Whoever
\* listens there takes the first connection, and refuses it if the state is not its own,
\* or the request not there; behind a silent one it waits in vain.
Redirect(a) ==
  /\ browser[a] = "open"
  /\ \E answer \in {"code", "denied"} :
       /\ browser' = [browser EXCEPT ![a] = answer]
       /\ \/ /\ listener = a /\ Len(completions) < MaxCompletions /\ MayCall
             /\ waits' = [waits EXCEPT ![a] = "nothing"]
             /\ completions' = Append(completions, Completion(a, <<a, answer>>))
             /\ listener' = 0 /\ silent' = FALSE
          \/ listener # 0 /\ ListenerFails /\ UNCHANGED completions
          \/ (silent \/ listener = 0) /\ UNCHANGED <<waits, port, completions>>
  /\ UNCHANGED <<begun, pendingAuth, stored, panels, counters, provider>>

\* completeHostedSignIn, with a callback URL that the user copied from the browser.
CompleteHostedSignIn(a) ==
  /\ pendingAuth # 0 /\ browser[a] \in {"code", "denied"}
  /\ Len(completions) < MaxCompletions /\ MayCall
  /\ completions' = Append(completions, Completion(pendingAuth, <<a, browser[a]>>))
  /\ UNCHANGED <<begun, waits, port, pendingAuth, browser, stored, panels, counters, provider>>

-----------------------------------------------------------------------------
(* A completion, from one await to the next.  One that fails is over, and catches *)
(* without discarding the pending attempt.                                        *)

At(k, step) == k \in 1..Len(completions) /\ completions[k].step = step

Becomes(k, completion) == completions' = [completions EXCEPT ![k] = completion]

\* Mutant: the state of the callback is not compared.
AnyCallback(c) == c.url[2] = "code"

\* completeAuth0DesktopSignIn accepts the callback.
OwnCallback(c) == c.url[2] = "code" /\ c.url[1] = c.by

\* The code is sent to the provider with the verifier of the attempt, and what the
\* provider answers, with or without a refresh token, to the API, whose first
\* workspace is selected.  Either may fail.
ExchangeCode(k) ==
  /\ At(k, "check")
  /\ LET c == completions[k]
         code == c.url[1]
         new == sessions + 1
     IN \/ /\ OwnCallback(c)
           /\ \A r \in redeemed : r[1] # code
           /\ redeemed' = redeemed \cup {<<code, c.by>>}
           /\ sessions' = new
           /\ \E refresh \in {NoToken, <<new, new>>} :
                /\ accepted' = accepted \cup ({refresh} \ {NoToken})
                /\ \/ Becomes(k, [c EXCEPT !.step = "save", !.session = Session(new, refresh)])
                   \/ Becomes(k, Over)
        \/ /\ Becomes(k, Over)
           /\ redeemed' = IF OwnCallback(c) THEN redeemed \cup {<<code, c.by>>} ELSE redeemed
           /\ UNCHANGED <<sessions, accepted>>
  /\ UNCHANGED <<begun, waits, port, pendingAuth, browser, stored, panels, counters, history>>

\* saveApiSession, which may fail unnoticed.
SaveSignIn(k) ==
  /\ At(k, "save")
  /\ Becomes(k, [completions[k] EXCEPT !.step = "realtime", !.session = NoSession])
  /\ stored' \in {stored, completions[k].session}
  /\ UNCHANGED <<begun, waits, port, pendingAuth, browser, panels, counters, provider>>

\* requestRealtimeSessionToken
FinishSignIn(k) ==
  /\ At(k, "realtime")
  /\ Becomes(k, Over)
  /\ pendingAuth' \in {pendingAuth, 0}
  /\ UNCHANGED <<begun, waits, port, browser, stored, panels, counters, provider>>

-----------------------------------------------------------------------------
(* The stored session *)

\* serde writes an absent field as null, and readOptionalStringField refuses null.
Loadable(session) == session.refresh # NoToken

\* The panels load what is stored when the app starts; it is about to expire or not.
Load(p) ==
  /\ renewals[p].step = "load"
  /\ \/ /\ Loadable(stored)
        /\ \E next \in {"refresh", "use"} :
             renewals' = [renewals EXCEPT ![p] = Renewal(next, stored, NoSession)]
     \/ ~Loadable(stored) /\ renewals' = [renewals EXCEPT ![p] = AtRest]
  /\ UNCHANGED <<signing, stored, apiToken, counters, provider>>

\* The provider redeems a refresh token.
Redeem(token, next) ==
  /\ token \in accepted
  /\ sessions' = sessions + 1
  /\ accepted' = (accepted \ {token}) \cup {next}

\* The provider rotates, and knows the token as one that was used.
Revoke(p, token) ==
  /\ rotates /\ token \notin accepted
  /\ accepted' = {t \in accepted : Family(t) # Family(token)}
  /\ raced' = IF \E q \in Panels \ {p} : renewals[q].loaded.refresh = token
              THEN raced \cup {Family(token)} ELSE raced
  /\ UNCHANGED <<sessions, lost>>

\* The new refresh token of a rotation is not stored.
Lost(p) ==
  lost' = IF rotates THEN lost \cup {Family(renewals[p].loaded.refresh)} ELSE lost

\* refreshAuth0DesktopSignIn.  The provider's answer has a new refresh token if it
\* rotates them; otherwise the one that was used goes on.  The provider may refuse, and
\* its answer may be lost: then the panel goes on with the session it loaded.
Refresh(p) ==
  /\ renewals[p].step = "refresh"
  /\ LET old == renewals[p].loaded.refresh
         next == IF rotates THEN <<Family(old), sessions + 1>> ELSE old
     IN \/ /\ Redeem(old, next)
           /\ renewals' = [renewals EXCEPT ![p].step = "exchange",
                                            ![p].renewed = Session(sessions + 1, next)]
           /\ UNCHANGED history
        \/ /\ renewals' = [renewals EXCEPT ![p].step = "use"]
           /\ \/ Redeem(old, next) /\ Lost(p) /\ UNCHANGED raced
              \/ Revoke(p, old)
              \/ UNCHANGED <<sessions, accepted, history>>
  /\ UNCHANGED <<signing, stored, apiToken, counters, redeemed>>

\* exchangeProviderAuthToken of a renewal.  If it fails, or the user is in no workspace
\* any more, the panel goes on with the session it loaded and nothing is saved.
ExchangeRenewed(p) ==
  /\ renewals[p].step = "exchange"
  /\ \/ renewals' = [renewals EXCEPT ![p].step = "save"] /\ UNCHANGED lost
     \/ renewals' = [renewals EXCEPT ![p].step = "use", ![p].renewed = NoSession] /\ Lost(p)
  /\ UNCHANGED <<signing, stored, apiToken, counters, sessions, redeemed, accepted, raced>>

\* Mutant: the token that was used is kept, although the provider returned another.
KeptRefresh(p) == [renewals[p].renewed EXCEPT !.refresh = renewals[p].loaded.refresh]

Renewed(p) == renewals[p].renewed

SaveRenewed(p) ==
  /\ renewals[p].step = "save"
  /\ renewals' = [renewals EXCEPT ![p].step = "use"]
  /\ \/ stored' = Renewed(p) /\ UNCHANGED lost
     \/ Lost(p) /\ UNCHANGED stored
  /\ UNCHANGED <<signing, apiToken, counters, sessions, redeemed, accepted, raced>>

\* setApiToken in the review panel; the live panel only shows the workspace.
UseRestored(p) ==
  /\ renewals[p].step = "use"
  /\ renewals' = [renewals EXCEPT ![p].step = "idle", ![p].renewed = NoSession]
  /\ apiToken' = (apiToken \/ p = "review")
  /\ UNCHANGED <<signing, stored, counters, provider>>

\* requestReviewToken, and requestDevRealtimeToken without a stored session it can
\* use: a development session, which has no refresh token.
RequestDevToken(p) ==
  /\ MayCall
  /\ devTokens' = devTokens + 1
  /\ sessions' = sessions + 1
  /\ stored' \in {stored, Session(sessions + 1, NoToken)}
  /\ apiToken' = (apiToken \/ p = "review")
  /\ UNCHANGED <<signing, renewals, restarts, rotates, redeemed, accepted, history>>

\* clearReviewToken
ClearReviewToken ==
  /\ apiToken
  /\ apiToken' = FALSE
  /\ stored' \in {stored, NoSession}
  /\ UNCHANGED <<signing, renewals, counters, provider>>

\* The app is closed, at any await, and opened: both panels restore.
Restart ==
  /\ MayCall
  /\ restarts' = restarts + 1
  /\ waits' = [a \in Attempts |-> "nothing"]
  /\ listener' = 0 /\ silent' = FALSE /\ pendingAuth' = 0
  /\ completions' = [k \in 1..Len(completions) |-> Over]
  /\ renewals' = [p \in Panels |-> Renewal("load", NoSession, NoSession)]
  /\ apiToken' = FALSE
  /\ lost' = lost \cup {Family(renewals[p].loaded.refresh) :
                        p \in {q \in Panels : rotates /\ renewals[q].step \in {"exchange", "save"}}}
  /\ UNCHANGED <<begun, browser, stored, devTokens, rotates, sessions, redeemed, accepted, raced>>

-----------------------------------------------------------------------------
Complete(k) == ExchangeCode(k) \/ SaveSignIn(k) \/ FinishSignIn(k)

Restore(p) == Load(p) \/ Refresh(p) \/ ExchangeRenewed(p) \/ SaveRenewed(p) \/ UseRestored(p)

SignInNext ==
  \/ StartHostedSignIn \/ Expire \/ OtherConnection
  \/ \E a \in Attempts :
       OpenHostedAuthBrowser(a) \/ SignInFails(a) \/ Redirect(a) \/ CompleteHostedSignIn(a)
  \/ \E k \in 1..MaxCompletions : Complete(k)
  \/ \E p \in Panels : Restore(p) \/ RequestDevToken(p)
  \/ ClearReviewToken \/ Restart

\* A listener that no connection keeps has a deadline, and what the app itself asks for,
\* the browser among it, is answered or fails.
SignInFairness ==
  /\ WF_signInVars(Expire)
  /\ \A a \in Attempts : WF_signInVars(OpenHostedAuthBrowser(a)) /\ WF_signInVars(SignInFails(a))
  /\ \A k \in 1..MaxCompletions : WF_signInVars(Complete(k))
  /\ \A p \in Panels : WF_signInVars(Restore(p))

SignInSpec == SignInInit /\ [][SignInNext]_signInVars /\ SignInFairness

-----------------------------------------------------------------------------
(* Properties *)

\* Every variable stays in its range, and only a listener that has the port can be kept
\* by a silent connection.
SignInTypeOK ==
  /\ begun \in 0..MaxAttempts /\ listener \in 0..begun /\ pendingAuth \in 0..begun
  /\ waits \in [Attempts -> {"nothing", "opening", "refused", "callback", "error"}]
  /\ browser \in [Attempts -> {"closed", "open", "code", "denied"}]
  /\ Len(completions) <= MaxCompletions
  /\ \A p \in Panels : renewals[p].step \in {"idle", "load", "refresh", "exchange", "save", "use"}
  /\ {apiToken, rotates, silent} \subseteq BOOLEAN
  /\ stored.id \in 0..sessions
  /\ silent => listener # 0

\* A code only reaches the provider with the verifier of its own attempt, also when the
\* user pastes the URL of an earlier attempt or the browser answers late.
BoundToAttempt == \A r \in redeemed : r[1] = r[2]

\* The stored refresh token is one that the provider accepts whenever no renewal is on
\* its way, whatever another session that is stored, a sign-out or a restart between the
\* steps of the panels' renewals do to it.  Its family is lost when the new token of the
\* provider was not stored, and when both panels used the same token of a provider that
\* rotates, which revokes the family.
RefreshUsable ==
  /\ stored.refresh # NoToken /\ Family(stored.refresh) \notin lost \cup raced
  /\ \A p \in Panels : renewals[p].step \notin {"exchange", "save"}
  => stored.refresh \in accepted

\* An attempt does not wait for ever, and its port is free again for the next one, also when
\* the browser could not be opened; unless a connection that sends nothing keeps its listener.
SignInEnds ==
  \A a \in Attempts :
    waits[a] # "nothing" \/ listener = a
      ~> \/ waits[a] = "nothing" /\ listener # a
         \/ silent /\ listener = a
=============================================================================
