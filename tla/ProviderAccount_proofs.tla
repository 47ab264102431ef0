----------------------- MODULE ProviderAccount_proofs ------------------------
(***************************************************************************)
(* The account keeps its promises for any number of callers, token sets and *)
(* authorizations.                                                          *)
(***************************************************************************)
EXTENDS ProviderAccount, TLAPS

\* Token sets that were issued and are not stored yet; a refresh has one to replace.
Waiting ==
    /\ \A w \in Caller : call[w].pc \in {"post", "save"} => call[w].tok # NoTokens
    /\ \A w \in Caller : call[w].new # NoTokens <=> call[w].pc = "save"
    /\ \A s \in OAuthStates : oauth[s].new # NoTokens <=> oauth[s].pc = "save"

\* Nothing holds a token set that was not issued.
Minted ==
    /\ account.cred <= issued
    /\ \A w \in Caller : call[w].tok <= issued /\ call[w].new <= issued
    /\ \A s \in OAuthStates : oauth[s].new <= issued
    /\ \A t \in spent : t <= issued

\* What is stored is not spent, and what waits to be stored is used nowhere.
Unused ==
    /\ account.cred # NoTokens => account.cred \notin spent
    /\ \A w \in Caller : call[w].pc = "save" =>
          /\ call[w].new \notin spent \cup {account.cred}
          /\ \A v \in Caller : call[v].tok # call[w].new
          /\ \A v \in Caller \ {w} : call[v].new # call[w].new
    /\ \A s \in OAuthStates : oauth[s].pc = "save" =>
          /\ oauth[s].new \notin spent \cup {account.cred}
          /\ \A v \in Caller : call[v].tok # oauth[s].new /\ call[v].new # oauth[s].new
          /\ \A r \in OAuthStates \ {s} : oauth[r].new # oauth[s].new

\* A Spotify refresh is under the lock until it is stored.
Exclusive ==
    kind = "spotify" => \A w \in Caller :
        /\ call[w].pc # "force"
        /\ call[w].pc \in {"post", "save"} => lock = w /\ call[w].tok \notin spent

AccountInv ==
    /\ AccountTypeOK
    /\ Waiting
    /\ Minted
    /\ Unused
    /\ Exclusive
    /\ ConnectedHasCredentials

\* The account begins well.
LEMMA AccountBegins == AccountInit => AccountInv
<1> SUFFICES ASSUME AccountInit PROVE AccountInv
  OBVIOUS
<1> USE AccountAssumption DEF NoTokens, TokenSets, OAuthStates, AccountInit, Idle
<1>1. AccountTypeOK
  <2>1. Idle \in [pc : CallStates, tok : {NoTokens} \cup TokenSets,
                  new : {NoTokens} \cup TokenSets, retried : BOOLEAN]
    BY DEF CallStates
  <2>2. call \in [Caller -> [pc : CallStates, tok : {NoTokens} \cup TokenSets,
                            new : {NoTokens} \cup TokenSets, retried : BOOLEAN]]
    BY <2>1
  <2>3. oauth \in [OAuthStates -> [pc : {"new", "issued", "closed", "exchange", "save"},
                                   new : {NoTokens} \cup TokenSets]]
    OBVIOUS
  <2>4. /\ account \in [status : RowStatuses, cred : {NoTokens} \cup TokenSets]
        /\ issued \in 0 .. MaxTokens
        /\ lock \in Caller \cup {NoCaller}
    BY DEF RowStatuses
  <2>5. stale \in SUBSET TokenSets /\ spent \in SUBSET TokenSets /\ entitled \in BOOLEAN
    OBVIOUS
  <2> QED BY <2>2, <2>3, <2>4, <2>5 DEF AccountTypeOK
<1>2. Waiting /\ Minted
  BY DEF Waiting, Minted
<1>3. Unused /\ Exclusive
  BY DEF Unused, Exclusive
<1>4. ConnectedHasCredentials
  BY DEF ConnectedHasCredentials
<1> QED BY <1>1, <1>2, <1>3, <1>4 DEF AccountInv

\* A step of a call that only moves the caller on, perhaps with the stored token set,
\* and perhaps takes or gives back the lock.
LEMMA CallMoves ==
    ASSUME AccountInv, NEW w \in Caller,
           UNCHANGED <<kind, account, issued, stale, oauth, spent, entitled>>,
           NEW c, call' = [call EXCEPT ![w] = c],
           c \in [pc : CallStates, tok : {NoTokens} \cup TokenSets,
                  new : {NoTokens}, retried : BOOLEAN],
           c.pc # "save",
           c.pc = "post" => c.tok # NoTokens,
           c.tok \in {NoTokens, account.cred, call[w].tok},
           lock' \in {lock, w, Unlocked(w)},
           lock' = w => lock \in {NoCaller, w},
           kind = "spotify" => c.pc # "force",
           kind = "spotify" /\ c.pc = "post" => lock' = w /\ c.tok \notin spent,
           lock = w => lock' = w \/ c.pc # "post"
    PROVE  AccountInv'
<1> USE AccountAssumption DEF AccountInv
<1>0. /\ call'[w] = c
      /\ \A v \in Caller : v # w => call'[v] = call[v]
  BY DEF AccountTypeOK
<1>1. AccountTypeOK'
  BY <1>0 DEF AccountTypeOK, Unlocked, NoTokens
<1>2. Waiting'
  BY <1>0 DEF Waiting
<1>3. Minted'
  BY <1>0 DEF Minted, NoTokens, AccountTypeOK, TokenSets
<1>4. Unused'
  BY <1>0 DEF Unused, Waiting, NoTokens
<1>5. Exclusive'
  BY <1>0 DEF Exclusive, Unlocked
<1>6. ConnectedHasCredentials'
  BY DEF ConnectedHasCredentials
<1> QED BY <1>1, <1>2, <1>3, <1>4, <1>5, <1>6

\* A call that ends, perhaps with the lock.
LEMMA CallEnds ==
    ASSUME AccountInv, NEW w \in Caller, Returns(w), lock' \in {lock, Unlocked(w)},
           UNCHANGED <<kind, account, issued, stale, oauth, spent, entitled>>
    PROVE  AccountInv'
<1>1. call' = [call EXCEPT ![w] = Idle]
  BY DEF Returns
<1>2. Idle \in [pc : CallStates, tok : {NoTokens} \cup TokenSets,
                new : {NoTokens}, retried : BOOLEAN]
  BY DEF Idle, CallStates
<1>3. Idle.pc = "idle" /\ Idle.tok = NoTokens
  BY DEF Idle
<1>4. lock' = w => lock \in {NoCaller, w}
  BY AccountAssumption DEF Unlocked
<1> QED BY <1>1, <1>2, <1>3, <1>4, CallMoves

\* Reading the row and moving on.
LEMMA LoadMoves ==
    ASSUME AccountInv, NEW w \in Caller, Load(w),
           UNCHANGED <<kind, account, issued, stale, lock, oauth, spent, entitled>>
    PROVE  AccountInv'
<1> DEFINE Next == CASE account.cred \notin stale -> "send"
                     [] account.cred \in stale /\ kind = "spotify" -> "wait"
                     [] OTHER -> "post"
           Read == [Idle EXCEPT !.tok = account.cred, !.pc = Next]
<1>1. account.cred \in {NoTokens} \cup TokenSets /\ NoTokens \in {NoTokens} \cup TokenSets
  BY DEF AccountInv, AccountTypeOK
<1>2. Next \in {"send", "wait", "post"} /\ (kind = "spotify" => Next # "post")
  OBVIOUS
<1> HIDE DEF Next
<1>3. CASE Returns(w)
  BY <1>3, CallEnds
<1>4. CASE Usable(account) /\ call' = [call EXCEPT ![w] = Read]
  <2>1. Read \in [pc : CallStates, tok : {NoTokens} \cup TokenSets,
                  new : {NoTokens}, retried : BOOLEAN]
    BY <1>1, <1>2 DEF Idle, CallStates
  <2>2. Read.pc = Next /\ Read.tok = account.cred
    BY DEF Idle
  <2>3. account.cred # NoTokens
    BY <1>4 DEF Usable
  <2> HIDE DEF Read
  <2> QED BY <1>2, <1>4, <2>1, <2>2, <2>3, CallMoves
<1> QED BY <1>3, <1>4 DEF Load, Next

\* The steps of a call that store nothing.
LEMMA CallReads ==
    ASSUME AccountInv, NEW w \in Caller,
           \/ Begin(w) \/ NextRequest(w) \/ Enter(w) \/ ForceRefresh(w) \/ InvalidGrant(w)
           \/ TokenEndpointFails(w) \/ ApiAnswers(w)
    PROVE  AccountInv'
<1> DEFINE Own == call[w]
           Callers == [pc : CallStates, tok : {NoTokens} \cup TokenSets,
                       new : {NoTokens}, retried : BOOLEAN]
<1>1. /\ account.cred \in {NoTokens} \cup TokenSets
      /\ Own \in [pc : CallStates, tok : {NoTokens} \cup TokenSets,
                  new : {NoTokens} \cup TokenSets, retried : BOOLEAN]
      /\ Own.pc # "save" => Own.new = NoTokens
  BY DEF AccountInv, AccountTypeOK, Waiting
<1>2. ASSUME Own.pc # "save",
             NEW pc \in CallStates \ {"save", "post"}, NEW retried \in BOOLEAN,
             NEW tok \in {account.cred, Own.tok},
             call' = [call EXCEPT ![w] = [Own EXCEPT !.pc = pc, !.tok = tok, !.retried = retried]],
             kind = "spotify" => pc # "force",
             UNCHANGED <<kind, account, issued, stale, lock, oauth, spent, entitled>>
      PROVE  AccountInv'
  <2> DEFINE c == [Own EXCEPT !.pc = pc, !.tok = tok, !.retried = retried]
  <2>1. c \in Callers /\ c.pc = pc /\ c.tok = tok
    BY <1>1, <1>2
  <2> HIDE DEF c
  <2> QED BY <1>2, <2>1, CallMoves DEF c
<1>3. ASSUME Own.pc # "save", kind # "spotify" \/ (lock = NoCaller /\ lock' = w),
             kind # "spotify" => lock' \in {lock, w} /\ (lock' = w => lock \in {NoCaller, w}),
             Usable(account),
             call' = [call EXCEPT ![w] = [Own EXCEPT !.pc = "post", !.tok = account.cred]],
             UNCHANGED <<kind, account, issued, stale, oauth, spent, entitled>>
      PROVE  AccountInv'
  <2> DEFINE c == [Own EXCEPT !.pc = "post", !.tok = account.cred]
  <2>1. c \in Callers /\ c.pc = "post" /\ c.tok = account.cred
    BY <1>1, <1>3 DEF CallStates
  <2>2. account.cred # NoTokens /\ account.cred \notin spent
    BY <1>3 DEF Usable, AccountInv, Unused
  <2> HIDE DEF c
  <2> QED BY <1>3, <2>1, <2>2, CallMoves DEF c
<1>4. CASE Begin(w)
  BY <1>4, LoadMoves DEF Begin
<1>5. CASE NextRequest(w)
  <2>1. CASE Load(w)
    BY <1>5, <2>1, LoadMoves DEF NextRequest
  <2>2. CASE call' = [call EXCEPT ![w].pc = "send", ![w].retried = FALSE]
    <3>1. call' = [call EXCEPT ![w] = [Own EXCEPT !.pc = "send", !.tok = Own.tok, !.retried = FALSE]]
      BY <2>2, <1>1 DEF AccountInv, AccountTypeOK
    <3>2. Own.pc # "save" /\ UNCHANGED <<kind, account, issued, stale, lock, oauth, spent, entitled>>
      BY <1>5 DEF NextRequest
    <3>3. "send" \in CallStates \ {"save", "post"}
      BY DEF CallStates
    <3> HIDE DEF Own
    <3> QED BY <1>2, <3>1, <3>2, <3>3
  <2> QED BY <1>5, <2>1, <2>2 DEF NextRequest
<1>6. CASE Enter(w)
  <2>1. CASE Returns(w) /\ UNCHANGED lock
    BY <1>6, <2>1, CallEnds DEF Enter
  <2>2. CASE /\ call' = [call EXCEPT ![w].pc = "send", ![w].tok = account.cred]
             /\ UNCHANGED lock
    <3>1. call' = [call EXCEPT ![w] = [Own EXCEPT !.pc = "send", !.tok = account.cred,
                                                  !.retried = Own.retried]]
      BY <2>2, <1>1 DEF AccountInv, AccountTypeOK
    <3>2. Own.retried \in BOOLEAN
      BY <1>1
    <3>3. Own.pc # "save" /\ UNCHANGED <<kind, account, issued, stale, lock, oauth, spent, entitled>>
      BY <1>6, <2>2 DEF Enter
    <3>4. "send" \in CallStates \ {"save", "post"}
      BY DEF CallStates
    <3> HIDE DEF Own
    <3> QED BY <1>2, <3>1, <3>2, <3>3, <3>4
  <2>3. CASE /\ Usable(account)
             /\ call' = [call EXCEPT ![w].pc = "post", ![w].tok = account.cred]
             /\ lock' = w
    <3>1. call' = [call EXCEPT ![w] = [Own EXCEPT !.pc = "post", !.tok = account.cred]]
      BY <2>3, <1>1 DEF AccountInv, AccountTypeOK
    <3> QED BY <1>6, <2>3, <1>3, <3>1 DEF Enter
  <2> QED BY <1>6, <2>1, <2>2, <2>3 DEF Enter
<1>7. CASE ForceRefresh(w)
  <2>1. CASE Returns(w)
    BY <1>7, <2>1, CallEnds DEF ForceRefresh
  <2>2. CASE /\ Usable(account)
             /\ call' = [call EXCEPT ![w].pc = "post", ![w].tok = account.cred]
    <3>1. call' = [call EXCEPT ![w] = [Own EXCEPT !.pc = "post", !.tok = account.cred]]
      BY <2>2, <1>1 DEF AccountInv, AccountTypeOK
    <3>2. kind # "spotify"
      BY <1>7 DEF ForceRefresh, AccountInv, Exclusive
    <3>3. Own.pc # "save" /\ UNCHANGED <<kind, account, issued, stale, lock, oauth, spent, entitled>>
      BY <1>7 DEF ForceRefresh
    <3>4. lock' = w => lock \in {NoCaller, w}
      BY <3>3
    <3> QED BY <2>2, <1>3, <3>1, <3>2, <3>3, <3>4
  <2> QED BY <1>7, <2>1, <2>2 DEF ForceRefresh
<1>8. CASE InvalidGrant(w)
  <2>1. call' = [call EXCEPT ![w] = [Own EXCEPT !.pc = "mark", !.tok = Own.tok,
                                                !.retried = Own.retried]]
    BY <1>8, <1>1 DEF InvalidGrant, AccountInv, AccountTypeOK
  <2>2. Own.retried \in BOOLEAN
    BY <1>1
  <2>3. Own.pc # "save" /\ UNCHANGED <<kind, account, issued, stale, lock, oauth, spent, entitled>>
    BY <1>8 DEF InvalidGrant
  <2>4. "mark" \in CallStates \ {"save", "post"}
    BY DEF CallStates
  <2> HIDE DEF Own
  <2> QED BY <1>2, <2>1, <2>2, <2>3, <2>4
<1>9. CASE TokenEndpointFails(w)
  BY <1>9, CallEnds DEF TokenEndpointFails
<1>10. CASE ApiAnswers(w)
  <2>1. CASE Returns(w)
    BY <1>10, <2>1, CallEnds DEF ApiAnswers
  <2>2. CASE \E pc \in {"cached", "wait", "force", "mark"}, retried \in BOOLEAN :
                /\ kind = "spotify" => pc # "force"
                /\ call' = [call EXCEPT ![w] = [Own EXCEPT !.pc = pc, !.tok = Own.tok,
                                                           !.retried = retried]]
    BY <1>10, <2>2, <1>2 DEF ApiAnswers, CallStates
  <2>3. Own.retried \in BOOLEAN
    BY <1>1
  <2>4. CASE call' = [call EXCEPT ![w].pc = "cached"]
    <3>1. call' = [call EXCEPT ![w] = [Own EXCEPT !.pc = "cached", !.tok = Own.tok,
                                                  !.retried = Own.retried]]
      BY <2>4, <1>1 DEF AccountInv, AccountTypeOK
    <3> QED BY <3>1, <2>2, <2>3
  <2>5. CASE call' = [call EXCEPT ![w].retried = TRUE,
                                  ![w].pc = IF kind = "spotify" THEN "wait" ELSE "force"]
    <3>1. call' = [call EXCEPT ![w] = [Own EXCEPT !.pc = IF kind = "spotify" THEN "wait" ELSE "force",
                                                  !.tok = Own.tok, !.retried = TRUE]]
      BY <2>5, <1>1 DEF AccountInv, AccountTypeOK
    <3> QED BY <3>1, <2>2
  <2>6. CASE call' = [call EXCEPT ![w].pc = "mark"]
    <3>1. call' = [call EXCEPT ![w] = [Own EXCEPT !.pc = "mark", !.tok = Own.tok,
                                                  !.retried = Own.retried]]
      BY <2>6, <1>1 DEF AccountInv, AccountTypeOK
    <3> QED BY <3>1, <2>2, <2>3
  <2> QED BY <1>10, <2>1, <2>4, <2>5, <2>6 DEF ApiAnswers
<1> QED BY <1>4, <1>5, <1>6, <1>7, <1>8, <1>9, <1>10

\* A new token set is unlike every other.
LEMMA GrantedStep ==
    ASSUME AccountInv, NEW w \in Caller, Granted(w)
    PROVE  AccountInv'
<1> USE DEF AccountInv
<1> DEFINE c == [call[w] EXCEPT !.pc = "save", !.new = issued + 1]
<1>1. /\ call[w].pc = "post"
      /\ issued < MaxTokens /\ issued' = issued + 1
      /\ UNCHANGED <<kind, account, stale, lock, oauth, spent, entitled>>
  BY DEF Granted
<1>2. issued \in Nat /\ issued + 1 \in TokenSets
  BY <1>1, AccountAssumption DEF AccountTypeOK, TokenSets
<1>3. /\ c.pc = "save" /\ c.new = issued + 1 /\ c.tok = call[w].tok
      /\ c \in [pc : CallStates, tok : {NoTokens} \cup TokenSets,
                new : {NoTokens} \cup TokenSets, retried : BOOLEAN]
  BY <1>2, ZenonT(60) DEF AccountTypeOK, CallStates
<1>4. call' = [call EXCEPT ![w] = c]
  BY DEF Granted, AccountTypeOK
<1> HIDE DEF c
<1>5. call'[w] = c /\ \A v \in Caller : v # w => call'[v] = call[v]
  BY <1>4 DEF AccountTypeOK
<1>6. /\ \A v \in Caller : call[v].tok \in Nat /\ call[v].new \in Nat
      /\ \A s \in OAuthStates : oauth[s].new \in Nat
      /\ account.cred \in Nat
  BY DEF AccountTypeOK, TokenSets, NoTokens
<1>7. AccountTypeOK'
  BY <1>1, <1>2, <1>3, <1>4, AccountAssumption DEF AccountTypeOK
<1>8. Waiting'
  BY <1>1, <1>2, <1>3, <1>5 DEF Waiting, NoTokens
<1>9. Minted'
  <2>1. \A t \in spent : t \in Nat
    BY DEF AccountTypeOK, TokenSets
  <2> QED BY <1>1, <1>2, <1>3, <1>5, <1>6, <2>1 DEF Minted
<1>10. Unused'
  <2>1. issued + 1 \notin spent \cup {account.cred}
    BY <1>2 DEF Minted
  <2>2. \A v \in Caller : call[v].tok # issued + 1 /\ call[v].new # issued + 1
    BY <1>2 DEF Minted
  <2>3. \A s \in OAuthStates : oauth[s].new # issued + 1
    BY <1>2 DEF Minted
  <2> QED BY <1>1, <1>3, <1>5, <2>1, <2>2, <2>3 DEF Unused
<1>11. Exclusive'
  BY <1>1, <1>3, <1>5 DEF Exclusive
<1>12. ConnectedHasCredentials'
  BY <1>1 DEF ConnectedHasCredentials
<1> QED BY <1>7, <1>8, <1>9, <1>10, <1>11, <1>12

\* Storing a refreshed set spends the old one.
LEMMA SaveRefreshStep ==
    ASSUME AccountInv, NEW w \in Caller, SaveRefresh(w)
    PROVE  AccountInv'
<1> USE DEF AccountInv
<1> DEFINE new == call[w].new
           c == [call[w] EXCEPT !.pc = "send", !.tok = new, !.new = NoTokens]
<1>1. /\ call[w].pc = "save"
      /\ spent' = spent \cup {call[w].tok}
      /\ lock' = Unlocked(w)
      /\ UNCHANGED <<kind, issued, stale, oauth, entitled>>
  BY DEF SaveRefresh
<1>2. new \in TokenSets /\ new # NoTokens
  BY <1>1 DEF AccountTypeOK, Waiting
<1>3. /\ account'.cred = new
      /\ account' \in [status : RowStatuses, cred : {NoTokens} \cup TokenSets]
  BY <1>2 DEF SaveRefresh, Saved, SavedBySpotify, SavedByGmail, AccountTypeOK, RowStatuses
<1>4. /\ c.pc = "send" /\ c.new = NoTokens /\ c.tok = new
      /\ c \in [pc : CallStates, tok : {NoTokens} \cup TokenSets,
                new : {NoTokens} \cup TokenSets, retried : BOOLEAN]
  BY <1>2, ZenonT(60) DEF AccountTypeOK, CallStates
<1>5. call' = [call EXCEPT ![w] = c]
  BY DEF SaveRefresh, AccountTypeOK
<1> HIDE DEF c
<1>6. call'[w] = c /\ \A v \in Caller : v # w => call'[v] = call[v]
  BY <1>5 DEF AccountTypeOK
<1>7. call[w].tok \in TokenSets /\ call[w].tok # new /\ call[w].tok <= issued
  BY <1>1 DEF Waiting, AccountTypeOK, Unused, Minted
<1>8. AccountTypeOK'
  BY <1>1, <1>3, <1>4, <1>5, <1>7 DEF AccountTypeOK, Unlocked
<1>9. Waiting'
  BY <1>1, <1>4, <1>6 DEF Waiting
<1>10. Minted'
  <2>1. new <= issued /\ NoTokens <= issued
    BY DEF Minted, AccountTypeOK, NoTokens
  <2> QED BY <1>1, <1>3, <1>4, <1>6, <1>7, <2>1 DEF Minted
<1>11. Unused'
  <2>1. new \notin spent'
    BY <1>1, <1>7 DEF Unused
  <2>2. \A v \in Caller \ {w} : call[v].pc = "save" =>
          /\ call[v].new \notin spent' \cup {new}
          /\ \A u \in Caller : call'[u].tok # call[v].new
          /\ \A u \in Caller \ {v} : call'[u].new # call[v].new
    BY <1>1, <1>4, <1>6 DEF Unused, Waiting
  <2>3. \A s \in OAuthStates : oauth[s].pc = "save" =>
          /\ oauth[s].new \notin spent' \cup {new}
          /\ \A u \in Caller : call'[u].tok # oauth[s].new /\ call'[u].new # oauth[s].new
    BY <1>1, <1>4, <1>6 DEF Unused, Waiting
  <2> QED BY <1>1, <1>3, <1>4, <1>6, <2>1, <2>2, <2>3 DEF Unused
<1>12. Exclusive'
  BY <1>1, <1>4, <1>6 DEF Exclusive, Unlocked
<1>13. ConnectedHasCredentials'
  BY <1>2, <1>3 DEF ConnectedHasCredentials
<1> QED BY <1>8, <1>9, <1>10, <1>11, <1>12, <1>13

\* Giving the account up takes credentials away, if anything.
LEMMA MarkReconnectStep ==
    ASSUME AccountInv, NEW w \in Caller, MarkReconnect(w)
    PROVE  AccountInv'
<1> USE DEF AccountInv
<1>1. /\ lock' = Unlocked(w)
      /\ UNCHANGED <<kind, issued, stale, oauth, spent, entitled>>
  BY DEF MarkReconnect
<1>2. /\ account' \in [status : RowStatuses, cred : {NoTokens} \cup TokenSets]
      /\ account'.cred \in {NoTokens, account.cred}
      /\ account'.status # "connected"
  BY DEF MarkReconnect, Refused, RefusedBySpotify, RefusedByGmail, AccountTypeOK, RowStatuses
<1>3. call' = [call EXCEPT ![w] = Idle]
  BY DEF MarkReconnect, Returns
<1>4. /\ Idle \in [pc : CallStates, tok : {NoTokens} \cup TokenSets,
                   new : {NoTokens} \cup TokenSets, retried : BOOLEAN]
      /\ Idle.pc = "idle" /\ Idle.tok = NoTokens /\ Idle.new = NoTokens
  BY DEF Idle, CallStates
<1>5. call'[w] = Idle /\ \A v \in Caller : v # w => call'[v] = call[v]
  BY <1>3 DEF AccountTypeOK
<1>6. AccountTypeOK'
  BY <1>1, <1>2, <1>3, <1>4 DEF AccountTypeOK, Unlocked
<1>7. Waiting'
  BY <1>1, <1>4, <1>5 DEF Waiting
<1>8. Minted'
  BY <1>1, <1>2, <1>4, <1>5 DEF Minted, AccountTypeOK, NoTokens
<1>9. Unused'
  BY <1>1, <1>2, <1>4, <1>5 DEF Unused, Waiting
<1>10. Exclusive'
  BY <1>1, <1>4, <1>5 DEF Exclusive, Unlocked
<1>11. ConnectedHasCredentials'
  BY <1>2 DEF ConnectedHasCredentials
<1> QED BY <1>6, <1>7, <1>8, <1>9, <1>10, <1>11

\* The steps of an authorization.
LEMMA AuthorizationStep ==
    ASSUME AccountInv, NEW s \in OAuthStates,
           \/ StartAuthorization(s) \/ Callback(s) \/ StateExpires(s) \/ ExchangeCode(s)
           \/ SaveAuthorization(s)
    PROVE  AccountInv'
<1> USE DEF AccountInv
<1> DEFINE Authorizations == [pc : {"new", "issued", "closed", "exchange", "save"},
                              new : {NoTokens} \cup TokenSets]
<1>1. oauth[s] \in Authorizations /\ oauth \in [OAuthStates -> Authorizations]
  BY DEF AccountTypeOK
<1>2. ASSUME UNCHANGED <<kind, account, issued, stale, lock, call, spent, entitled>>,
             oauth[s].pc # "save",
             NEW pc \in {"issued", "closed", "exchange"},
             oauth' = [oauth EXCEPT ![s].pc = pc]
      PROVE  AccountInv'
  <2>1. /\ oauth'[s].pc = pc /\ oauth'[s].new = oauth[s].new
        /\ \A r \in OAuthStates \ {s} : oauth'[r] = oauth[r]
        /\ oauth' \in [OAuthStates -> Authorizations]
    BY <1>1, <1>2
  <2>2. AccountTypeOK' /\ ConnectedHasCredentials' /\ Exclusive'
    BY <1>2, <2>1 DEF AccountTypeOK, ConnectedHasCredentials, Exclusive
  <2>3. Waiting' /\ Minted'
    BY <1>2, <2>1 DEF Waiting, Minted
  <2>4. Unused'
    BY <1>2, <2>1 DEF Unused
  <2> QED BY <2>2, <2>3, <2>4
<1>3. CASE StartAuthorization(s)
  BY <1>2, <1>3 DEF StartAuthorization
<1>4. CASE Callback(s)
  BY <1>2, <1>4 DEF Callback
<1>5. CASE StateExpires(s)
  BY <1>2, <1>5 DEF StateExpires
<1>6. CASE ExchangeCode(s)
  <2>1. CASE oauth' = [oauth EXCEPT ![s].pc = "closed"] /\ UNCHANGED issued
    BY <1>2, <1>6, <2>1 DEF ExchangeCode
  <2>2. CASE /\ issued < MaxTokens
             /\ issued' = issued + 1
             /\ oauth' = [oauth EXCEPT ![s] = [pc |-> "save", new |-> issued + 1]]
    <3>1. UNCHANGED <<kind, account, stale, lock, call, spent, entitled>>
      BY <1>6 DEF ExchangeCode
    <3>2. issued \in Nat /\ issued + 1 \in TokenSets /\ issued + 1 # NoTokens
      BY <2>2, AccountAssumption DEF AccountTypeOK, TokenSets, NoTokens
    <3>3. /\ oauth'[s].pc = "save" /\ oauth'[s].new = issued + 1
          /\ \A r \in OAuthStates \ {s} : oauth'[r] = oauth[r]
          /\ oauth' \in [OAuthStates -> Authorizations]
      BY <1>1, <2>2, <3>2
    <3>4. AccountTypeOK'
      BY <2>2, <3>1, <3>3, AccountAssumption DEF AccountTypeOK
    <3>5. Waiting' /\ ConnectedHasCredentials' /\ Exclusive'
      BY <3>1, <3>2, <3>3 DEF Waiting, ConnectedHasCredentials, Exclusive
    <3>6. Minted'
      <4>1. /\ \A v \in Caller : call[v].tok \in Nat /\ call[v].new \in Nat
            /\ \A r \in OAuthStates : oauth[r].new \in Nat
            /\ account.cred \in Nat /\ \A t \in spent : t \in Nat
        BY DEF AccountTypeOK, TokenSets, NoTokens
      <4> QED BY <2>2, <3>1, <3>2, <3>3, <4>1 DEF Minted
    <3>7. Unused'
      <4>1. /\ issued + 1 \notin spent \cup {account.cred}
            /\ \A v \in Caller : call[v].tok # issued + 1 /\ call[v].new # issued + 1
            /\ \A r \in OAuthStates : oauth[r].new # issued + 1
        BY <3>2 DEF Minted
      <4> QED BY <3>1, <3>3, <4>1 DEF Unused
    <3> QED BY <3>4, <3>5, <3>6, <3>7
  <2> QED BY <1>6, <2>1, <2>2 DEF ExchangeCode
<1>7. CASE SaveAuthorization(s)
  <2>1. /\ oauth[s].pc = "save"
        /\ account' = [status |-> "connected", cred |-> oauth[s].new]
        /\ oauth' = [oauth EXCEPT ![s] = [pc |-> "closed", new |-> NoTokens]]
        /\ entitled' = TRUE
        /\ UNCHANGED <<kind, issued, stale, lock, call, spent>>
    BY <1>7 DEF SaveAuthorization
  <2>2. oauth[s].new \in TokenSets /\ oauth[s].new # NoTokens
    BY <1>1, <2>1 DEF Waiting
  <2>3. /\ oauth'[s].pc = "closed" /\ oauth'[s].new = NoTokens
        /\ \A r \in OAuthStates \ {s} : oauth'[r] = oauth[r]
        /\ oauth' \in [OAuthStates -> Authorizations]
    BY <1>1, <2>1
  <2>4. AccountTypeOK'
    BY <2>1, <2>2, <2>3 DEF AccountTypeOK, RowStatuses
  <2>5. Waiting' /\ ConnectedHasCredentials' /\ Exclusive'
    BY <2>1, <2>2, <2>3 DEF Waiting, ConnectedHasCredentials, Exclusive
  <2>6. Minted'
    BY <2>1, <2>3 DEF Minted, AccountTypeOK, NoTokens
  <2>7. Unused'
    BY <2>1, <2>2, <2>3 DEF Unused, Waiting
  <2> QED BY <2>4, <2>5, <2>6, <2>7
<1> QED BY <1>3, <1>4, <1>5, <1>6, <1>7

\* Disconnecting, expiry and a restart.
LEMMA OtherStep ==
    ASSUME AccountInv, CutOff \/ Disconnect \/ TokensExpire \/ AccountRestart
    PROVE  AccountInv'
<1> USE DEF AccountInv
<1>1. CASE CutOff
  BY <1>1, CallEnds, AccountAssumption DEF CutOff
<1>2. CASE Disconnect
  <2>1. /\ account' = [status |-> "disconnected", cred |-> NoTokens]
        /\ entitled' = FALSE
        /\ UNCHANGED <<kind, issued, stale, lock, call, oauth, spent>>
    BY <1>2 DEF Disconnect
  <2>2. AccountTypeOK' /\ ConnectedHasCredentials'
    BY <2>1 DEF AccountTypeOK, RowStatuses, ConnectedHasCredentials
  <2>3. Waiting' /\ Exclusive'
    BY <2>1 DEF Waiting, Exclusive
  <2>4. Minted'
    BY <2>1 DEF Minted, NoTokens, AccountTypeOK
  <2>5. Unused'
    BY <2>1 DEF Unused, Waiting
  <2> QED BY <2>2, <2>3, <2>4, <2>5
<1>3. CASE TokensExpire
  <2>1. UNCHANGED <<kind, account, issued, lock, call, oauth, spent, entitled>>
    BY <1>3 DEF TokensExpire
  <2>2. stale' \in SUBSET TokenSets
    BY <1>3, AccountAssumption DEF TokensExpire, TokenSets, AccountTypeOK
  <2>3. AccountTypeOK' /\ ConnectedHasCredentials' /\ Waiting' /\ Exclusive'
    BY <2>1, <2>2 DEF AccountTypeOK, ConnectedHasCredentials, Waiting, Exclusive
  <2>4. Minted' /\ Unused'
    BY <2>1 DEF Minted, Unused
  <2> QED BY <2>3, <2>4
<1>4. CASE AccountRestart
  <2>1. /\ call' = [w \in Caller |-> Idle]
        /\ lock' = NoCaller
        /\ UNCHANGED <<kind, account, issued, stale, spent, entitled>>
    BY <1>4 DEF AccountRestart
  <2>2. /\ Idle \in [pc : CallStates, tok : {NoTokens} \cup TokenSets,
                     new : {NoTokens} \cup TokenSets, retried : BOOLEAN]
        /\ Idle.pc = "idle" /\ Idle.tok = NoTokens /\ Idle.new = NoTokens
    BY DEF Idle, CallStates
  <2>3. /\ oauth' \in [OAuthStates -> [pc : {"new", "issued", "closed", "exchange", "save"},
                                       new : {NoTokens} \cup TokenSets]]
        /\ \A s \in OAuthStates : oauth'[s].pc # "save" /\ oauth'[s].new = NoTokens
    BY <1>4 DEF AccountRestart, AccountTypeOK, Waiting
  <2>4. AccountTypeOK' /\ ConnectedHasCredentials'
    BY <2>1, <2>2, <2>3 DEF AccountTypeOK, ConnectedHasCredentials
  <2>5. Waiting' /\ Exclusive' /\ Unused'
    BY <2>1, <2>2, <2>3 DEF Waiting, Exclusive, Unused
  <2>6. Minted'
    BY <2>1, <2>2, <2>3 DEF Minted, NoTokens, AccountTypeOK
  <2> QED BY <2>4, <2>5, <2>6
<1> QED BY <1>1, <1>2, <1>3, <1>4

\* Every step keeps the invariant.
LEMMA AccountStep == AccountInv /\ [AccountNext]_accountVars => AccountInv'
<1> SUFFICES ASSUME AccountInv, [AccountNext]_accountVars PROVE AccountInv'
  OBVIOUS
<1>1. CASE UNCHANGED accountVars
  <2> USE <1>1 DEF accountVars, AccountInv
  <2>1. AccountTypeOK' /\ ConnectedHasCredentials'
    BY DEF AccountTypeOK, ConnectedHasCredentials
  <2>2. Waiting' /\ Minted' /\ Unused' /\ Exclusive'
    BY DEF Waiting, Minted, Unused, Exclusive
  <2> QED BY <2>1, <2>2
<1>2. CASE AccountNext
  BY <1>2, CallReads, GrantedStep, SaveRefreshStep, MarkReconnectStep, AuthorizationStep,
     OtherStep DEF AccountNext, CallStep
<1> QED BY <1>1, <1>2

LEMMA AccountInvariant == AccountSpec => []AccountInv
  BY AccountBegins, AccountStep, PTL DEF AccountSpec

-----------------------------------------------------------------------------
\* Type correctness of rows, calls and authorizations.
THEOREM AccountTypeCorrect == AccountSpec => []AccountTypeOK
<1>1. AccountInv => AccountTypeOK
  BY DEF AccountInv
<1> QED BY <1>1, AccountInvariant, PTL

\* A connected row has credentials whatever calls, callbacks and disconnects interleave.
THEOREM ConnectedIsUsable == AccountSpec => []ConnectedHasCredentials
<1>1. AccountInv => ConnectedHasCredentials
  BY DEF AccountInv
<1> QED BY <1>1, AccountInvariant, PTL

\* No Spotify refresh presents credentials that an earlier refresh has replaced, for any
\* number of callers: the lock, and reading the row again under it, are enough.
THEOREM RefreshesAreShared == AccountSpec => []NoSpentCredentials
<1>1. AccountInv => NoSpentCredentials
  BY DEF AccountInv, Exclusive, NoSpentCredentials
<1> QED BY <1>1, AccountInvariant, PTL

\* Only a completed authorization connects a Gmail account.
THEOREM GmailNeedsTheUser == AccountSpec => OnlyUserConnectsGmail
<1> DEFINE ByUser ==
        kind = "gmail" /\ account.status # "connected" /\ account'.status = "connected"
          => \E s \in OAuthStates : oauth[s].pc = "save" /\ account'.cred = oauth[s].new
<1>1. AccountInv /\ [AccountNext]_accountVars => [ByUser]_accountVars
  <2> SUFFICES ASSUME AccountInv, AccountNext, kind = "gmail",
                      account.status # "connected", account'.status = "connected"
               PROVE  \E s \in OAuthStates : oauth[s].pc = "save" /\ account'.cred = oauth[s].new
    OBVIOUS
  <2>1. account' # account
    OBVIOUS
  <2>2. \A w \in Caller : ~ SaveRefresh(w)
    BY DEF SaveRefresh, Saved, SavedByGmail, AccountInv, AccountTypeOK
  <2>3. \A w \in Caller : ~ MarkReconnect(w)
    BY DEF MarkReconnect, Refused, RefusedByGmail, AccountInv, AccountTypeOK
  <2>4. ~ Disconnect
    BY DEF Disconnect
  <2>5. \E s \in OAuthStates : SaveAuthorization(s)
    BY <2>1, <2>2, <2>3, <2>4
       DEF AccountNext, CallStep, Begin, NextRequest, Enter, ForceRefresh, Granted,
           InvalidGrant, TokenEndpointFails, ApiAnswers, StartAuthorization, Callback,
           StateExpires, ExchangeCode, CutOff, TokensExpire, AccountRestart
  <2> QED BY <2>5 DEF SaveAuthorization
<1>2. AccountSpec => [][ByUser]_accountVars
  <2> HIDE DEF ByUser
  <2> QED BY <1>1, AccountInvariant, PTL DEF AccountSpec
<1> QED BY <1>2 DEF OnlyUserConnectsGmail
=============================================================================
