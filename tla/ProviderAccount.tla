--------------------------- MODULE ProviderAccount ---------------------------
(***************************************************************************)
(* The account of an OAuth provider: the row of provider_connections, the   *)
(* calls that read, refresh and give up its credentials, the authorization  *)
(* flow and the disconnect route.                                           *)
(*                                                                          *)
(* Spotify (spotify/auth.py, spotify/client.py) and Gmail (gmail/oauth.py,  *)
(* gmail/client.py) follow the same steps and differ in what a step writes: *)
(* `kind` says which of the two a behaviour is about.  A token set is a     *)
(* number, in the order of issue.  Each of the writers reads and updates    *)
(* the row in one transaction, which is one step here; the tokens are       *)
(* requested over the network between two such steps.  Scopes, encryption   *)
(* and configuration are left out: they are the same for every step of a    *)
(* process.  A Gmail poll fetches up to five messages at a time with one    *)
(* token manager; its requests are taken one after the other here.          *)
(***************************************************************************)
EXTENDS Naturals, FiniteSets

CONSTANTS Caller,          \* the poll task and the routes that call the API
          Poll,            \* the caller that the scheduler can cut off
          MaxTokens,       \* bound: token sets issued
          MaxStates,       \* bound: authorizations started
          NoCaller

ASSUME AccountAssumption ==
    /\ Poll \in Caller
    /\ NoCaller \notin Caller
    /\ MaxTokens \in Nat
    /\ MaxStates \in Nat

Kinds == {"spotify", "gmail"}
RowStatuses == {"none", "connected", "degraded", "disconnected"}
NoTokens == 0
TokenSets == 1 .. MaxTokens
OAuthStates == 1 .. MaxStates
CallStates == {"idle", "wait", "force", "post", "save", "mark", "send", "cached"}

VARIABLES kind,        \* the provider; never changes
          account,     \* status and encrypted_credentials of the row
          issued,      \* the number of token sets issued so far
          stale,       \* token sets that are about to expire or have expired
          lock,        \* the holder of SpotifyApiClient._refresh_lock
          call,        \* where each caller is, and the token set it holds
          oauth,       \* the authorizations: states and the exchange they lead to
          spent,       \* token sets that a stored refresh has replaced
          entitled     \* the user authorized the account after the last disconnect

accountVars == <<kind, account, issued, stale, lock, call, oauth, spent, entitled>>

Idle == [pc |-> "idle", tok |-> NoTokens, new |-> NoTokens, retried |-> FALSE]

AccountTypeOK ==
    /\ kind \in Kinds
    /\ account \in [status : RowStatuses, cred : {NoTokens} \cup TokenSets]
    /\ issued \in 0 .. MaxTokens
    /\ stale \in SUBSET TokenSets
    /\ lock \in Caller \cup {NoCaller}
    /\ call \in [Caller -> [pc : CallStates, tok : {NoTokens} \cup TokenSets,
                            new : {NoTokens} \cup TokenSets, retried : BOOLEAN]]
    /\ oauth \in [OAuthStates ->
                    [pc : {"new", "issued", "closed", "exchange", "save"},
                     new : {NoTokens} \cup TokenSets]]
    /\ spent \in SUBSET TokenSets
    /\ entitled \in BOOLEAN

AccountInit ==
    /\ kind \in Kinds
    /\ account = [status |-> "none", cred |-> NoTokens]
    /\ issued = 0
    /\ stale = {}
    /\ lock = NoCaller
    /\ call = [w \in Caller |-> Idle]
    /\ oauth = [s \in OAuthStates |-> [pc |-> "new", new |-> NoTokens]]
    /\ spent = {}
    /\ entitled = FALSE

-----------------------------------------------------------------------------
(* The writes of the row.                                                   *)

Usable(r) == r.status = "connected" /\ r.cred # NoTokens

\* save_tokens: the stored row is connected, whatever it was.
SavedBySpotify(r, t) == [status |-> "connected", cred |-> t]

\* Mutant of SavedByGmail: the refresh also sets the status.
SavedByGmailMutant(r, t) == [status |-> "connected", cred |-> t]
\* The refresh replaces the credentials and leaves the status alone.
SavedByGmail(r, t) == [r EXCEPT !.cred = t]

Saved(r, t) == IF kind = "spotify" THEN SavedBySpotify(r, t) ELSE SavedByGmail(r, t)

\* mark_reconnect_required: the credentials are dropped.
RefusedBySpotify(r) ==
    IF r.status = "none" THEN r ELSE [status |-> "degraded", cred |-> NoTokens]

\* reconnect_required: the credentials stay, the status keeps them from use.
RefusedByGmail(r) == IF r.status = "none" THEN r ELSE [r EXCEPT !.status = "degraded"]

Refused(r) == IF kind = "spotify" THEN RefusedBySpotify(r) ELSE RefusedByGmail(r)

Unlocked(w) == IF lock = w THEN NoCaller ELSE lock

-----------------------------------------------------------------------------
(* A call of the API.                                                       *)

Returns(w) == call' = [call EXCEPT ![w] = Idle]

\* _current_access_token, or the first access_token of a Gmail token manager: the
\* row is read; credentials about to expire are refreshed first.
Load(w) ==
    \/ ~ Usable(account) /\ Returns(w)
    \/ /\ Usable(account)
       /\ call' = [call EXCEPT ![w] =
                     [Idle EXCEPT !.tok = account.cred,
                                  !.pc = CASE account.cred \notin stale -> "send"
                                           [] account.cred \in stale /\ kind = "spotify" -> "wait"
                                           [] OTHER -> "post"]]

Begin(w) ==
    /\ call[w].pc = "idle"
    /\ Usable(account)
    /\ Load(w)
    /\ UNCHANGED <<kind, account, issued, stale, lock, oauth, spent, entitled>>

\* The next request of a Gmail poll: the manager's cached set if it lasts.
NextRequest(w) ==
    /\ call[w].pc = "cached"
    /\ \/ /\ call[w].tok \notin stale
          /\ call' = [call EXCEPT ![w].pc = "send", ![w].retried = FALSE]
       \/ call[w].tok \in stale /\ Load(w)
    /\ UNCHANGED <<kind, account, issued, stale, lock, oauth, spent, entitled>>

\* Mutant of Enter: the row is not read again once the lock is held.
EnterMutant(w) ==
    /\ call[w].pc = "wait"
    /\ lock = NoCaller
    /\ call' = [call EXCEPT ![w].pc = "post"]
    /\ lock' = w
    /\ UNCHANGED <<kind, account, issued, stale, oauth, spent, entitled>>
\* _refresh_if_needed and _refresh_after_unauthorized: under the lock the row is
\* read again, and a set that another caller has stored meanwhile is used as it is.
Enter(w) ==
    /\ call[w].pc = "wait"
    /\ lock = NoCaller
    /\ \/ /\ ~ Usable(account)
          /\ Returns(w)
          /\ UNCHANGED lock
       \/ /\ Usable(account)
          /\ account.cred # call[w].tok
          /\ account.cred \notin stale
          /\ call' = [call EXCEPT ![w].pc = "send", ![w].tok = account.cred]
          /\ UNCHANGED lock
       \/ /\ Usable(account)
          /\ account.cred = call[w].tok \/ account.cred \in stale
          /\ call' = [call EXCEPT ![w].pc = "post", ![w].tok = account.cred]
          /\ lock' = w
    /\ UNCHANGED <<kind, account, issued, stale, oauth, spent, entitled>>

\* access_token(force_refresh=True) of Gmail: always another refresh.
ForceRefresh(w) ==
    /\ call[w].pc = "force"
    /\ \/ ~ Usable(account) /\ Returns(w)
       \/ /\ Usable(account)
          /\ call' = [call EXCEPT ![w].pc = "post", ![w].tok = account.cred]
    /\ UNCHANGED <<kind, account, issued, stale, lock, oauth, spent, entitled>>

\* The token endpoint issues a new set.
Granted(w) ==
    /\ call[w].pc = "post"
    /\ issued < MaxTokens
    /\ issued' = issued + 1
    /\ call' = [call EXCEPT ![w].pc = "save", ![w].new = issued + 1]
    /\ UNCHANGED <<kind, account, stale, lock, oauth, spent, entitled>>

\* It answers that the grant is no longer valid.
InvalidGrant(w) ==
    /\ call[w].pc = "post"
    /\ call' = [call EXCEPT ![w].pc = "mark"]
    /\ UNCHANGED <<kind, account, issued, stale, lock, oauth, spent, entitled>>

\* It fails in another way: the call raises and stores nothing.
TokenEndpointFails(w) ==
    /\ call[w].pc = "post"
    /\ Returns(w)
    /\ lock' = Unlocked(w)
    /\ UNCHANGED <<kind, account, issued, stale, oauth, spent, entitled>>

\* The refreshed set is stored, whatever happened to the row since it was read.
SaveRefresh(w) ==
    /\ call[w].pc = "save"
    /\ account' = Saved(account, call[w].new)
    /\ spent' = spent \cup {call[w].tok}
    /\ call' = [call EXCEPT ![w].pc = "send", ![w].tok = call[w].new, ![w].new = NoTokens]
    /\ lock' = Unlocked(w)
    /\ UNCHANGED <<kind, issued, stale, oauth, entitled>>

\* mark_reconnect_required, after invalid_grant or a second 401.
MarkReconnect(w) ==
    /\ call[w].pc = "mark"
    /\ account' = Refused(account)
    /\ Returns(w)
    /\ lock' = Unlocked(w)
    /\ UNCHANGED <<kind, issued, stale, oauth, spent, entitled>>

\* The API answers: a result or an error other than 401 ends the request, a first
\* 401 refreshes, a second one gives the account up.
ApiAnswers(w) ==
    /\ call[w].pc = "send"
    /\ \/ Returns(w)
       \/ kind = "gmail" /\ call' = [call EXCEPT ![w].pc = "cached"]
       \/ /\ ~ call[w].retried
          /\ call' = [call EXCEPT ![w].retried = TRUE,
                                  ![w].pc = IF kind = "spotify" THEN "wait" ELSE "force"]
       \/ call[w].retried /\ call' = [call EXCEPT ![w].pc = "mark"]
    /\ UNCHANGED <<kind, account, issued, stale, lock, oauth, spent, entitled>>

\* The scheduler's timeout cancels the poll wherever it waits; a set that was issued
\* and not stored yet is gone.
CutOff ==
    /\ call[Poll].pc # "idle"
    /\ Returns(Poll)
    /\ lock' = Unlocked(Poll)
    /\ UNCHANGED <<kind, account, issued, stale, oauth, spent, entitled>>

-----------------------------------------------------------------------------
(* The user: authorization and disconnect; time; the process.               *)

\* /oauth/start issues a state.
StartAuthorization(s) ==
    /\ oauth[s].pc = "new"
    /\ oauth' = [oauth EXCEPT ![s].pc = "issued"]
    /\ UNCHANGED <<kind, account, issued, stale, lock, call, spent, entitled>>

\* The callback consumes the state; denied or without a code it ends there.  A state
\* that is not issued, or not any more, is refused.
Callback(s) ==
    /\ oauth[s].pc = "issued"
    /\ \E pc \in {"closed", "exchange"} : oauth' = [oauth EXCEPT ![s].pc = pc]
    /\ UNCHANGED <<kind, account, issued, stale, lock, call, spent, entitled>>

\* Ten minutes pass; or the process ends and its states with it.
StateExpires(s) ==
    /\ oauth[s].pc = "issued"
    /\ oauth' = [oauth EXCEPT ![s].pc = "closed"]
    /\ UNCHANGED <<kind, account, issued, stale, lock, call, spent, entitled>>

\* The code is exchanged, or refused.
ExchangeCode(s) ==
    /\ oauth[s].pc = "exchange"
    /\ \/ /\ issued < MaxTokens
          /\ issued' = issued + 1
          /\ oauth' = [oauth EXCEPT ![s] = [pc |-> "save", new |-> issued + 1]]
       \/ oauth' = [oauth EXCEPT ![s].pc = "closed"] /\ UNCHANGED issued
    /\ UNCHANGED <<kind, account, stale, lock, call, spent, entitled>>

\* The new credentials connect the account.
SaveAuthorization(s) ==
    /\ oauth[s].pc = "save"
    /\ account' = [status |-> "connected", cred |-> oauth[s].new]
    /\ oauth' = [oauth EXCEPT ![s] = [pc |-> "closed", new |-> NoTokens]]
    /\ entitled' = TRUE
    /\ UNCHANGED <<kind, issued, stale, lock, call, spent>>

\* Mutant of Disconnect: the status is left alone.
DisconnectMutant ==
    /\ account.status # "none"
    /\ account' = [account EXCEPT !.cred = NoTokens]
    /\ entitled' = FALSE
    /\ UNCHANGED <<kind, issued, stale, lock, call, oauth, spent>>
\* DELETE /connection.
Disconnect ==
    /\ account.status # "none"
    /\ account' = [status |-> "disconnected", cred |-> NoTokens]
    /\ entitled' = FALSE
    /\ UNCHANGED <<kind, issued, stale, lock, call, oauth, spent>>

\* A token set comes within a minute of its expiry.
TokensExpire ==
    /\ \E t \in (1 .. issued) \ stale : stale' = stale \cup {t}
    /\ UNCHANGED <<kind, account, issued, lock, call, oauth, spent, entitled>>

\* The process ends and starts again: only the row survives.
AccountRestart ==
    /\ call' = [w \in Caller |-> Idle]
    /\ lock' = NoCaller
    /\ oauth' = [s \in OAuthStates |->
                    IF oauth[s].pc = "new" THEN oauth[s]
                    ELSE [pc |-> "closed", new |-> NoTokens]]
    /\ UNCHANGED <<kind, account, issued, stale, spent, entitled>>

\* What the event loop and the network do for a call that was begun.
CallStep(w) ==
    \/ NextRequest(w) \/ Enter(w) \/ ForceRefresh(w)
    \/ Granted(w) \/ InvalidGrant(w) \/ TokenEndpointFails(w)
    \/ SaveRefresh(w) \/ MarkReconnect(w) \/ ApiAnswers(w)

AccountNext ==
    \/ \E w \in Caller : Begin(w) \/ CallStep(w)
    \/ \E s \in OAuthStates :
          StartAuthorization(s) \/ Callback(s) \/ StateExpires(s) \/ ExchangeCode(s)
             \/ SaveAuthorization(s)
    \/ CutOff \/ Disconnect \/ TokensExpire \/ AccountRestart

AccountSpec == AccountInit /\ [][AccountNext]_accountVars

-----------------------------------------------------------------------------
\* A connected row always has credentials, whatever calls, callbacks and
\* disconnects do to it at the same time: load_tokens and access_token need both.
ConnectedHasCredentials == account.status = "connected" => account.cred # NoTokens

\* "Refresh is serialized within the single process": a refresh never presents
\* credentials that an earlier refresh has replaced already, so callers that find the
\* same set expired share one refresh (SpotifyApiClient._refresh_if_needed).
NoSpentCredentials ==
    kind = "spotify" => \A w \in Caller : call[w].pc = "post" => call[w].tok \notin spent

\* Only a completed authorization connects a Gmail account: a refresh that ends
\* after the account was disconnected or given up does not (GmailTokenManager).
OnlyUserConnectsGmail ==
    [][kind = "gmail" /\ account.status # "connected" /\ account'.status = "connected"
          => \E s \in OAuthStates : oauth[s].pc = "save" /\ account'.cred = oauth[s].new]_accountVars

\* After a disconnect no credentials are stored until the user authorizes the account
\* again: the route "removes local tokens" (Spotify), "forgets local credentials"
\* (Gmail).
DisconnectStands == account.cred # NoTokens => entitled
=============================================================================
