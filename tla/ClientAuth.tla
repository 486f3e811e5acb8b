----------------------------- MODULE ClientAuth -----------------------------
(***************************************************************************)
(* The session on a client: AuthProvider.tsx and storage.ts of the web app,*)
(* AuthContext.tsx of the mobile app.  A client holds a refresh token in   *)
(* memory and in storage, exchanges it once when the access token runs     *)
(* out, signs out locally before it tells the server, and forgets what it  *)
(* cached.  Answers are late or lost, and the app is reloaded or killed.   *)
(* The server's side of the exchange is the one Sessions.tla models: a     *)
(* token is exchanged once, and one presented again ends every session of  *)
(* its account.                                                            *)
(***************************************************************************)
EXTENDS Naturals, Sequences

CONSTANTS Clients,     \* which of "web" and "mobile" to follow
          Accounts,    \* accounts that sign in on this device
          None,        \* nobody
          MaxTokens,   \* bound: refresh tokens the server issues
          MaxKills     \* bound: reloads, or kills of the app

ASSUME ClientsKnown == Clients \subseteq {"web", "mobile"}
ASSUME NoneIsNobody == None \notin Accounts
ASSUME BoundsAreNat == MaxTokens \in Nat /\ MaxKills \in Nat

VARIABLES
  client,     \* which of the two apps runs
  issued,     \* server: the account of each refresh token, tokens are 1, 2, ...
  valid,      \* server: the tokens that can be exchanged
  old,        \* the tokens whose access token has run out
  held,       \* session.current: a token, or 0
  stored,     \* the token in localStorage or AsyncStorage, or 0
  user,       \* the account the screens show
  booting,    \* the stored session is being restored
  login,      \* phone: a token that is stored and not yet adopted, or 0
  refresh,    \* the refresh under way: refreshing.current and its request
  ending,     \* the token a sign-out is telling the server about, or 0
  cache,      \* the accounts whose answers are in the query cache
  kills, reused, faults   \* history

authVars == <<client, issued, valid, old, held, stored, user, booting, login,
              refresh, ending, cache, kills, reused, faults>>

server == <<issued, valid>>
history == <<client, kills, faults>>

Tokens == 1..Len(issued)
NoRefresh == [token |-> 0, phase |-> "none", next |-> 0]

AuthInit ==
  /\ client \in Clients
  /\ issued = <<>> /\ valid = {} /\ old = {}
  /\ held = 0 /\ stored = 0 /\ user = None /\ booting = TRUE /\ login = 0
  /\ refresh = NoRefresh /\ ending = 0 /\ cache = {}
  /\ kills = 0 /\ reused = FALSE /\ faults = {}

\* The server gives account a a new token.
Issue(a) ==
  /\ Len(issued) < MaxTokens
  /\ issued' = Append(issued, a)

\* What signOutLocally leaves.  On the web the provider of the socket clears
\* the cache whenever the user goes; on the phone only logout does.
SignOutLocally ==
  /\ held' = 0 /\ stored' = 0 /\ user' = None
  /\ booting' = FALSE

Forgotten == IF client = "web" THEN {} ELSE cache

----------------------------------------------------------------------------
(* Signing in and out.                                                     *)

\* login and register.  The phone waits for storage before it adopts.
SignIn(a) ==
  /\ ~booting /\ user = None /\ login = 0
  /\ Issue(a) /\ valid' = valid \cup {Len(issued')}
  /\ stored' = Len(issued')
  /\ IF client = "web"
     THEN held' = Len(issued') /\ user' = a /\ UNCHANGED login
     ELSE login' = Len(issued') /\ UNCHANGED <<held, user>>
  /\ UNCHANGED <<old, booting, refresh, ending, cache, reused, history>>

\* adopt, after the session is stored.
Adopt ==
  /\ login # 0
  /\ held' = login /\ user' = issued[login] /\ login' = 0
  /\ UNCHANGED <<server, old, stored, booting, refresh, ending, cache, reused, history>>

\* logout: locally first, then the server is told.
Logout ==
  /\ user # None /\ ending = 0
  /\ SignOutLocally
  /\ ending' = held
  /\ cache' = {}
  /\ faults' = IF refresh.phase # "none" THEN faults \cup {"left mid-refresh"} ELSE faults
  /\ UNCHANGED <<server, old, login, refresh, reused, client, kills>>

\* The server ends the session, if the token is still the one it would take;
\* or the call is lost.  The phone's mutation clears the cache once more.
LogoutSettles ==
  /\ ending # 0
  /\ valid' \in {valid, valid \ {ending}}
  /\ ending' = 0
  /\ cache' = IF client = "mobile" THEN {} ELSE cache
  /\ UNCHANGED <<issued, old, held, stored, user, booting, login, refresh, reused,
                 history>>

----------------------------------------------------------------------------
(* The single-flight refresh.                                              *)

Expire ==
  /\ held \in Tokens \ old
  /\ old' = old \cup {held}
  /\ UNCHANGED <<server, held, stored, user, booting, login, refresh, ending, cache,
                 reused, history>>

\* Mutant: every request that finds the token expired refreshes it.
GetToken_EachItsOwn ==
  /\ user # None \/ booting
  /\ held \in old
  /\ refresh' = [token |-> held, phase |-> "sent", next |-> 0]
  /\ UNCHANGED <<server, old, held, stored, user, booting, login, ending, cache,
                 reused, history>>

\* getToken with an expired token, and no refresh to wait for.
GetToken ==
  /\ user # None \/ booting
  /\ held \in old /\ refresh.phase = "none"
  /\ refresh' = [token |-> held, phase |-> "sent", next |-> 0]
  /\ UNCHANGED <<server, old, held, stored, user, booting, login, ending, cache,
                 reused, history>>

\* The server exchanges a token that is valid.
RefreshServed ==
  /\ refresh.phase = "sent" /\ refresh.token \in valid
  /\ Issue(issued[refresh.token])
  /\ valid' = (valid \ {refresh.token}) \cup {Len(issued')}
  /\ refresh' = [refresh EXCEPT !.phase = "answered", !.next = Len(issued')]
  /\ UNCHANGED <<old, held, stored, user, booting, login, ending, cache, reused, history>>

\* One that is not: every session of the account ends.
RefreshRefused ==
  /\ refresh.phase = "sent" /\ refresh.token \notin valid
  /\ valid' = {t \in valid : issued[t] # issued[refresh.token]}
  /\ reused' = TRUE
  /\ refresh' = [refresh EXCEPT !.phase = "failed"]
  /\ UNCHANGED <<issued, old, held, stored, user, booting, login, ending, cache, history>>

\* The request or its answer is lost.
RefreshLost ==
  /\ refresh.phase \in {"sent", "answered"}
  /\ refresh' = [refresh EXCEPT !.phase = "failed"]
  /\ UNCHANGED <<server, old, held, stored, user, booting, login, ending, cache,
                 reused, history>>

\* The phone stores the new session before it uses it.
RefreshSaved ==
  /\ client = "mobile" /\ refresh.phase = "answered"
  /\ stored' = refresh.next
  /\ refresh' = [refresh EXCEPT !.phase = "saved"]
  /\ UNCHANGED <<server, old, held, user, booting, login, ending, cache, reused, history>>

\* Mutant: the web keeps the new session in memory only.
RefreshDone_Unsaved ==
  /\ refresh.phase = IF client = "web" THEN "answered" ELSE "saved"
  /\ held' = refresh.next
  /\ refresh' = NoRefresh
  /\ UNCHANGED <<server, old, stored, user, booting, login, ending, cache, reused, history>>

\* Nothing asks whether the session that was refreshed is still the one held.
RefreshDone ==
  /\ refresh.phase = IF client = "web" THEN "answered" ELSE "saved"
  /\ held' = refresh.next
  /\ stored' = IF client = "web" THEN refresh.next ELSE stored
  /\ refresh' = NoRefresh
  /\ UNCHANGED <<server, old, user, booting, login, ending, cache, reused, history>>

\* Whatever the failure was, it signs the device out.
RefreshFailed ==
  /\ refresh.phase = "failed"
  /\ SignOutLocally
  /\ refresh' = NoRefresh
  /\ cache' = Forgotten
  /\ UNCHANGED <<server, old, login, ending, reused, history>>

----------------------------------------------------------------------------
(* Requests, restarts.                                                     *)

\* A query's answer is cached.
Fetch ==
  /\ user # None /\ held \in Tokens \ old
  /\ cache' = cache \cup {issued[held]}
  /\ UNCHANGED <<server, old, held, stored, user, booting, login, refresh, ending,
                 reused, history>>

\* A reload, or the system kills the app: only storage is left.
Kill ==
  /\ kills < MaxKills /\ kills' = kills + 1
  /\ held' = 0 /\ user' = None /\ booting' = TRUE /\ login' = 0
  /\ refresh' = NoRefresh /\ ending' = 0 /\ cache' = {}
  /\ faults' = IF refresh.phase # "none" THEN faults \cup {"killed mid-refresh"}
                                         ELSE faults
  /\ UNCHANGED <<client, server, old, stored, reused>>

\* Mutant: nothing to restore, and the splash stays.
Load_Forever ==
  /\ booting /\ held = 0
  /\ held' = stored /\ booting' = TRUE
  /\ UNCHANGED <<server, old, stored, user, login, refresh, ending, cache, reused, history>>

\* restore, loadSession: the stored session, if there is one, ...
Load ==
  /\ booting /\ held = 0
  /\ held' = stored /\ booting' = (stored # 0)
  /\ UNCHANGED <<server, old, stored, user, login, refresh, ending, cache, reused, history>>

\* ... is shown when the server says whose it is, ...
Restored ==
  /\ booting /\ held \in Tokens \ old /\ refresh.phase = "none"
  /\ user' = issued[held] /\ booting' = FALSE
  /\ UNCHANGED <<server, old, held, stored, login, refresh, ending, cache, reused, history>>

\* ... and given up when it does not answer.
NotRestored ==
  /\ booting /\ held \in Tokens \ old /\ refresh.phase = "none"
  /\ SignOutLocally
  /\ cache' = Forgotten
  /\ UNCHANGED <<server, old, login, refresh, ending, reused, history>>

AuthNext ==
  \/ \E a \in Accounts : SignIn(a)
  \/ Adopt \/ Logout \/ LogoutSettles
  \/ Expire \/ GetToken \/ RefreshServed \/ RefreshRefused \/ RefreshLost
  \/ RefreshSaved \/ RefreshDone \/ RefreshFailed
  \/ Fetch \/ Kill \/ Load \/ Restored \/ NotRestored

\* Promises settle, and restoring asks for a token itself.  On the web every
\* request does, and the inbox polls; on the phone the queries are given the
\* token they send, so nothing makes getToken run after an expiry.
Fairness ==
  /\ WF_authVars(Adopt) /\ WF_authVars(Load) /\ WF_authVars(Restored \/ NotRestored)
  /\ WF_authVars(RefreshServed \/ RefreshRefused \/ RefreshLost)
  /\ WF_authVars(RefreshSaved) /\ WF_authVars(RefreshDone) /\ WF_authVars(RefreshFailed)
  /\ WF_authVars((booting \/ client = "web") /\ GetToken)

AuthSpec == AuthInit /\ [][AuthNext]_authVars /\ Fairness

----------------------------------------------------------------------------
(* Properties.                                                             *)

\* The types of the state.
AuthTypeOK ==
  /\ client \in Clients
  /\ issued \in Seq(Accounts) /\ Len(issued) <= MaxTokens
  /\ valid \subseteq Tokens /\ old \subseteq Tokens
  /\ held \in 0..Len(issued) /\ stored \in 0..Len(issued)
  /\ login \in 0..Len(issued) /\ ending \in 0..Len(issued)
  /\ user \in Accounts \cup {None} /\ booting \in BOOLEAN
  /\ refresh \in [token : 0..Len(issued), next : 0..Len(issued),
                  phase : {"none", "sent", "answered", "saved", "failed"}]
  /\ cache \subseteq Accounts
  /\ kills \in 0..MaxKills /\ reused \in BOOLEAN
  /\ faults \subseteq {"left mid-refresh", "killed mid-refresh"}

\* "Five would invalidate each other, since refresh tokens are single-use":
\* however requests, sign-outs and sign-ins interleave, the client presents
\* no token twice, unless it was killed, or signed out, with a refresh under
\* way.
TokenSpentOnce == reused => faults # {}

\* Who the screens show is whose token is sent, and a reload would restore
\* the same session, unless somebody signed out with a refresh under way.
\* Types come first.
ShownIsHeld ==
  /\ AuthTypeOK
  /\ user # None /\ "left mid-refresh" \notin faults =>
       /\ held # 0 /\ issued[held] = user
       /\ stored = IF refresh.phase = "saved" THEN refresh.next ELSE held

\* Restoring a stored session ends, with somebody signed in or nobody; and on
\* the web an access token that has run out is replaced, or the session given up.
SessionSettles ==
  /\ booting ~> ~booting
  /\ (client = "web" /\ user # None /\ held \in old) ~> (held \notin old)
=============================================================================
