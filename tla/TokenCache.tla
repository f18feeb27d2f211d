----------------------------- MODULE TokenCache -----------------------------
(***************************************************************************)
(* How the node keeps its access token for Tesla's API.  TeslaAPIProxy     *)
(* holds the token and its expiry in two fields that all goroutines use    *)
(* without a lock; the refresh token is in the database.  Whoever finds    *)
(* the access token about to expire refreshes it, also when others do so   *)
(* at the same time.                                                       *)
(*                                                                         *)
(* Tesla (external) numbers its grants: grant k is a refresh token and an  *)
(* access token.  A refresh token can be used once, which is why the node  *)
(* stores a new one with every refresh.                                    *)
(***************************************************************************)
EXTENDS Integers

CONSTANTS
    Caller,     \* goroutines of the node that call Tesla's API
    TokenLife,  \* minutes an access token is valid
    Lead,       \* a token is renewed that many minutes before it expires
    Delay,      \* bound: minutes from the choice of a token to its arrival at Tesla
    MaxTokens,  \* bound: grants
    Faults      \* bound: lost answers, outages and crashes, together

ASSUME TokenAssumption ==
    /\ TokenLife \in Nat /\ Lead \in Nat /\ Delay \in Nat
    /\ Lead < TokenLife /\ Delay <= Lead
    /\ MaxTokens \in Nat /\ Faults \in Nat

VARIABLES
    access,     \* TeslaAPIProxy.accessToken: its grant, 0 while empty
    expiry,     \* TeslaAPIProxy.expiry: the grant it was taken from
    stored,     \* the refresh token in the node's database
    grant,      \* Tesla: the newest grant
    life,       \* Tesla: minutes left of each access token, negative when expired
    call,       \* what each caller is doing
    grantLost,  \* auxiliary: a crash or a lost answer has cost the newest grant
    faults      \* bound: faults still to come

tokenVars == <<access, expiry, stored, grant, life>>

Token == 0..MaxTokens
Stage == {"idle", "expired", "asking", "granted", "cached", "dated", "ready", "sent"}

Tries == 1..3

Call == [pc : Stage, kind : {"command", "direct"}, tok : Token, with : Token,
         age : 0..Delay, try : Tries, body : BOOLEAN]

Idle == [pc |-> "idle", kind |-> "direct", tok |-> 0, with |-> 0,
         age |-> 0, try |-> 1, body |-> TRUE]

TokenInit ==
    /\ access = 0 /\ expiry = 0
    /\ stored = 0 /\ grant = 0
    /\ life = [k \in Token |-> 0]
    /\ call = [g \in Caller |-> Idle]
    /\ grantLost = FALSE
    /\ faults = Faults

At(g, pc) == call[g].pc = pc
Fault == faults > 0 /\ faults' = faults - 1
-----------------------------------------------------------------------------
\* GetCachedAccessToken returns the token.
CachedToTheEnd == access # 0 /\ life[expiry] > 0             \* mutant
Cached == access # 0 /\ life[expiry] > Lead

\* A call begins, and looks for a token in the cache.
Begin(g) ==
    /\ At(g, "idle")
    /\ \E k \in {"command", "direct"} :
          call' = [call EXCEPT ![g] = [Idle EXCEPT
                      !.pc = IF Cached THEN "ready" ELSE "expired",
                      !.tok = IF Cached THEN access ELSE 0,
                      !.kind = k]]
    /\ UNCHANGED <<tokenVars, grantLost, faults>>

ReadSetting(g) ==
    /\ At(g, "expired")
    /\ call' = [call EXCEPT ![g].pc = "asking", ![g].with = stored]
    /\ UNCHANGED <<tokenVars, grantLost, faults>>

\* RefreshToken succeeds: Tesla takes the refresh token and issues the next grant.
Granted(g) ==
    /\ At(g, "asking") /\ call[g].with = grant /\ grant < MaxTokens
    /\ grant' = grant + 1
    /\ life' = [life EXCEPT ![grant + 1] = TokenLife]

\* Mutant: the refresh token is stored before the access token is cached.
RefreshedStoring(g) ==
    /\ Granted(g)
    /\ stored' = grant + 1
    /\ call' = [call EXCEPT ![g].pc = "granted", ![g].tok = grant + 1, ![g].with = 0]
    /\ UNCHANGED <<access, expiry, grantLost, faults>>

Refreshed(g) ==
    /\ Granted(g)
    /\ call' = [call EXCEPT ![g].pc = "granted", ![g].tok = grant + 1, ![g].with = 0]
    /\ UNCHANGED <<access, expiry, stored, grantLost, faults>>

\* The error of RefreshToken is logged, and the request is sent without a token.
WithoutToken(g) == call' = [call EXCEPT ![g].pc = "ready", ![g].with = 0]

\* Tesla's answer is lost.  The repeats of RetryHTTPRequest have no body left, or
\* bring a refresh token that has been used.
AnswerLost(g) ==
    /\ Granted(g) /\ Fault
    /\ WithoutToken(g)
    /\ grantLost' = TRUE
    /\ UNCHANGED <<access, expiry, stored>>

\* Tesla knows the refresh token no more: the error that it answers has no
\* access token, which jwt.Parse does not accept.
Refused(g) ==
    /\ At(g, "asking") /\ call[g].with # grant
    /\ WithoutToken(g)
    /\ UNCHANGED <<tokenVars, grantLost, faults>>

AuthUnreachable(g) ==
    /\ At(g, "asking")
    /\ IF grant < MaxTokens THEN Fault ELSE UNCHANGED faults
    /\ WithoutToken(g)
    /\ UNCHANGED <<tokenVars, grantLost>>

\* What RefreshToken does with a new grant, field by field.
CacheToken(g) ==
    /\ At(g, "granted")
    /\ access' = call[g].tok
    /\ call' = [call EXCEPT ![g].pc = "cached"]
    /\ UNCHANGED <<expiry, stored, grant, life, grantLost, faults>>

CacheExpiry(g) ==
    /\ At(g, "cached")
    /\ expiry' = call[g].tok
    /\ call' = [call EXCEPT ![g].pc = "dated"]
    /\ UNCHANGED <<access, stored, grant, life, grantLost, faults>>

\* Mutant: the refresh token is stored only if there was none.
StoreFirstToken(g) ==
    /\ At(g, "dated")
    /\ stored' = IF stored = 0 THEN call[g].tok ELSE stored
    /\ call' = [call EXCEPT ![g].pc = "ready"]
    /\ UNCHANGED <<access, expiry, grant, life, grantLost, faults>>

StoreRefreshToken(g) ==
    /\ At(g, "dated")
    /\ stored' = call[g].tok
    /\ call' = [call EXCEPT ![g].pc = "ready"]
    /\ UNCHANGED <<access, expiry, grant, life, grantLost, faults>>

TokenNext(g) ==
    \/ ReadSetting(g) \/ Refreshed(g) \/ AnswerLost(g) \/ Refused(g)
    \/ AuthUnreachable(g) \/ CacheToken(g) \/ CacheExpiry(g) \/ StoreRefreshToken(g)

\* A goroutine holds a grant that is not in the database yet.
Writing(g) == call[g].pc \in {"granted", "cached", "dated"}

\* The node is restarted: the database is all that stays.
NodeRestart ==
    /\ Fault
    /\ access' = 0 /\ expiry' = 0
    /\ call' = [g \in Caller |-> Idle]
    /\ grantLost' = (grantLost \/ \E g \in Caller : Writing(g))
    /\ UNCHANGED <<stored, grant, life>>
-----------------------------------------------------------------------------
(***************************************************************************)
(* Only the newest refresh token is of use, so that the node must not lose *)
(* it: once the stored one is used up, every call fails until somebody     *)
(* replaces it by hand (the sanity check takes TESLA_REFRESH_TOKEN only if *)
(* the database holds none).  However many goroutines refresh at once, the *)
(* database has the newest, or one goroutine is about to write it, unless  *)
(* a restart or a lost answer has come in between.                         *)
(***************************************************************************)
GrantIsKept ==
    stored = grant \/ grantLost \/ \E g \in Caller : Writing(g) /\ call[g].tok = grant

(***************************************************************************)
(* The two fields are written one after the other while others read them,  *)
(* and by any goroutine.  They never make a token appear valid for longer  *)
(* than it is: two goroutines are never past a successful refresh at once, *)
(* since Tesla accepts a refresh token once, and the expiry is written     *)
(* after the token.                                                        *)
(***************************************************************************)
CacheNeverOverstates ==
    /\ access # 0 => life[expiry] <= life[access]
    /\ \A g, h \in Caller : Writing(g) /\ Writing(h) => g = h
=============================================================================
