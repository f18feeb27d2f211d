---------------------------- MODULE CommandServer ----------------------------
(***************************************************************************)
(* How a call of the node reaches Tesla.  The node posts it, with its      *)
(* token, to the server and tries up to three times; the server passes     *)
(* commands to the car through a session that it keeps for five minutes    *)
(* with the token it was made with, and everything else to Tesla's API.    *)
(* All calls here are about one vehicle; sessions of others are others.    *)
(*                                                                         *)
(* A try that the node has given up on may still be with the server, which *)
(* has a handler for each request that reaches it: the node's next try is  *)
(* another request, at work beside the first.                              *)
(***************************************************************************)
EXTENDS TokenCache

CONSTANTS
    SessionLife,    \* minutes for which the server keeps a session
    MaxTries        \* tries of each caller: three, or fewer as a bound

ASSUME SessionAssumption == SessionLife \in Nat \ {0} /\ MaxTries \in [Caller -> Tries]

VARIABLES
    session,    \* VINToSessionCache: the token of the session and its age
    handler,    \* the server's handler of each request
    carriedOut, \* requests of the latest calls whose command the car has carried out
    unanswered  \* auxiliary: requests of the latest calls the node has given up on

serverVars == <<session, handler, carriedOut, unanswered>>
nodeVars == <<tokenVars, call, grantLost>>
vars == <<nodeVars, faults, serverVars>>

\* A request is a try of a caller.
Request == Caller \X Tries
RequestOf(g) == <<g, call[g].try>>
RequestsOf(g) == {r \in Request : r[1] = g}

Step == {"none", "lookup", "init", "set", "command", "direct", "answer"}
Handler == [pc : Step, tok : Token, age : 0..Delay]
Session == [tok : Token, age : 0..SessionLife]

NoHandler == [pc |-> "none", tok |-> 0, age |-> 0]
NoSession == [tok |-> 0, age |-> SessionLife]

Init ==
    /\ TokenInit
    /\ session = NoSession
    /\ handler = [r \in Request |-> NoHandler]
    /\ carriedOut = {}
    /\ unanswered = {}

HandlerAt(r, pc) == handler[r].pc = pc
Awaited(r) == At(r[1], "sent") /\ RequestOf(r[1]) = r
To(r, pc) == handler' = [handler EXCEPT ![r].pc = pc]
Done(r) == handler' = [handler EXCEPT ![r] = [NoHandler EXCEPT !.pc = "answer"]]
-----------------------------------------------------------------------------
\* RetryHTTPRequest: a try has failed, the last of them for good.
After(g, last) == IF call[g].try = last THEN Idle ELSE [call[g] EXCEPT !.pc = "ready", !.try = @ + 1]
FailedLate(g) == After(g, MaxTries[g] + 1)                   \* mutant
Failed(g) == After(g, MaxTries[g])

\* The server cannot be reached, or a try that is not the first has no body to
\* send: all tries share one http.Request, whose body has been read by then,
\* and on a new connection nothing rewinds it.
TryFails(g) ==
    /\ At(g, "ready")
    /\ IF call[g].body THEN Fault ELSE UNCHANGED faults
    /\ call' = [call EXCEPT ![g] = Failed(g)]
    /\ UNCHANGED <<tokenVars, grantLost, serverVars>>

\* A caller that has given up on a request makes its next call when the server
\* is done with it; other callers do not wait for that.
BeginCall(g) ==
    /\ Begin(g) /\ \A r \in RequestsOf(g) : HandlerAt(r, "none")
    /\ carriedOut' = carriedOut \ RequestsOf(g)
    /\ unanswered' = unanswered \ RequestsOf(g)
    /\ UNCHANGED <<session, handler>>

\* The request arrives.  The server's validation asks for a token; after that
\* authenticateUserRequest lets the owner of the vehicle through.
Authenticated(c) ==
    IF c.tok = 0 THEN [NoHandler EXCEPT !.pc = "answer"]
    ELSE [pc |-> IF c.kind = "command" THEN "lookup" ELSE "direct", tok |-> c.tok, age |-> c.age]

\* The body of an earlier try makes no difference on a connection that has been
\* kept open (the poller's calls keep one): the transport finds that nothing
\* could be written, gets the body anew (GetBody) and sends the request in full.
Deliver(g) ==
    /\ At(g, "ready")
    /\ call' = [call EXCEPT ![g].pc = "sent", ![g].body = FALSE]
    /\ handler' = [handler EXCEPT ![RequestOf(g)] = Authenticated(call[g])]
    /\ UNCHANGED <<tokenVars, grantLost, faults, session, carriedOut, unanswered>>

\* After a minute without an answer, or when the connection breaks, the node
\* tries again.
TimeoutNever(g) == At(g, "sent") /\ UNCHANGED vars           \* mutant: waits on

Timeout(g) ==
    /\ At(g, "sent")
    /\ call' = [call EXCEPT ![g] = Failed(g)]
    /\ unanswered' = unanswered \cup {RequestOf(g)}
    /\ UNCHANGED <<tokenVars, grantLost, faults, session, handler, carriedOut>>
-----------------------------------------------------------------------------
\* InMemoryCache.Get.
Hit == session.age < SessionLife

\* getOrInitSession finds a session, or has to make one.
Lookup(r) ==
    /\ HandlerAt(r, "lookup")
    /\ handler' = [handler EXCEPT ![r].pc = IF Hit THEN "command" ELSE "init",
                                  ![r].tok = IF Hit THEN session.tok ELSE @]
    /\ UNCHANGED <<nodeVars, faults, session, carriedOut, unanswered>>

\* InitSession, which Tesla refuses with an expired token.
InitSession(r) ==
    /\ HandlerAt(r, "init")
    /\ \/ life[handler[r].tok] > 0 /\ To(r, "set") /\ UNCHANGED faults
       \/ life[handler[r].tok] <= 0 /\ Done(r) /\ UNCHANGED faults
       \/ Fault /\ Done(r)
    /\ UNCHANGED <<nodeVars, session, carriedOut, unanswered>>

\* InMemoryCache.Set.
SetSession(r) ==
    /\ HandlerAt(r, "set")
    /\ To(r, "command")
    /\ session' = [tok |-> handler[r].tok, age |-> 0]
    /\ UNCHANGED <<nodeVars, faults, carriedOut, unanswered>>

\* ChargeStart, ChargeStop and the like, through the session: refused with an
\* expired token, and carried out in spite of an error now and then.
Command(r) ==
    /\ HandlerAt(r, "command")
    /\ \/ life[handler[r].tok] > 0 /\ carriedOut' = carriedOut \cup {r}
       \/ UNCHANGED carriedOut
    /\ Done(r)
    /\ UNCHANGED <<nodeVars, faults, session, unanswered>>

\* vehicle_data, wake_up and the telemetry configuration, which the server may
\* ask Tesla for up to three times; nothing changes for being asked for again.
Direct(r) ==
    /\ HandlerAt(r, "direct")
    /\ Done(r)
    /\ UNCHANGED <<nodeVars, faults, session, carriedOut, unanswered>>

\* Mutant: an error that the server answers is a reason to try again.
AnswerOrRetry(r) ==
    /\ HandlerAt(r, "answer")
    /\ LET g == r[1] IN
          \/ call' = IF Awaited(r) THEN [call EXCEPT ![g] = Idle] ELSE call
          \/ Awaited(r) /\ call' = [call EXCEPT ![g] = Failed(g)]
    /\ handler' = [handler EXCEPT ![r] = NoHandler]
    /\ UNCHANGED <<tokenVars, grantLost, faults, session, carriedOut, unanswered>>

\* The answer arrives, or the node waits for it no more.  None of the codes
\* that the server answers is one that RetryHTTPRequest would try again for.
Answer(r) ==
    /\ HandlerAt(r, "answer")
    /\ call' = IF Awaited(r) THEN [call EXCEPT ![r[1]] = Idle] ELSE call
    /\ handler' = [handler EXCEPT ![r] = NoHandler]
    /\ UNCHANGED <<tokenVars, grantLost, faults, session, carriedOut, unanswered>>

Outdated == ~Hit /\ session # NoSession

\* The periodic cleanup deletes a session that is out of date.
Cleanup ==
    /\ Outdated
    /\ session' = NoSession
    /\ UNCHANGED <<nodeVars, faults, handler, carriedOut, unanswered>>

\* Get reads the map without the mutex of Set and cleanup: the runtime ends a
\* process in which one of them writes it meanwhile.
MapFault(r) ==
    /\ HandlerAt(r, "lookup")
    /\ Outdated \/ \E q \in Request : HandlerAt(q, "set")
    /\ handler' = [q \in Request |-> NoHandler]
    /\ session' = NoSession
    /\ UNCHANGED <<nodeVars, faults, carriedOut, unanswered>>
-----------------------------------------------------------------------------
\* Timeouts keep calls from taking longer than Delay, with all their tries: the
\* age of a token's choice counts until it is used or kept in a session.
InTime ==
    /\ \A g \in Caller : call[g].pc \in {"cached", "dated", "granted", "ready", "sent"}
                            => call[g].age < Delay
    /\ \A r \in Request : handler[r].pc \in {"lookup", "init", "set", "direct"}
                            => handler[r].age < Delay
    /\ \A r \in Request : ~HandlerAt(r, "command")   \* ten seconds

\* Bound: how long ago a token has expired is counted so far.
LifeFloor == -Delay

Older(c) == [c EXCEPT !.age = IF c.tok # 0 /\ @ < Delay THEN @ + 1 ELSE @]

Minute ==
    /\ InTime
    /\ life' = [k \in Token |-> IF k # 0 /\ life[k] > LifeFloor THEN life[k] - 1 ELSE life[k]]
    /\ session' = [session EXCEPT !.age = IF @ < SessionLife THEN @ + 1 ELSE @]
    /\ call' = [g \in Caller |-> Older(call[g])]
    /\ handler' = [r \in Request |-> Older(handler[r])]
    /\ UNCHANGED <<access, expiry, stored, grant, grantLost, faults, carriedOut, unanswered>>

Restart == NodeRestart /\ UNCHANGED serverVars

NodeNext(g) ==
    \/ TokenNext(g) /\ UNCHANGED serverVars
    \/ BeginCall(g) \/ TryFails(g) \/ Deliver(g) \/ Timeout(g)

ServerNext(r) ==
    \/ Lookup(r) \/ InitSession(r) \/ SetSession(r)
    \/ Command(r) \/ Direct(r) \/ Answer(r) \/ MapFault(r)

Next == \/ Minute \/ Restart \/ Cleanup
        \/ \E g \in Caller : NodeNext(g)
        \/ \E r \in Request : ServerNext(r)

Spec == Init /\ [][Next]_vars

(***************************************************************************)
(* A goroutine of the node goes on, its calls to Tesla's token service     *)
(* end, and http.Client gives up after a minute.  Nothing is assumed of    *)
(* the server, which may never answer.                                     *)
(***************************************************************************)
Fairness ==
    \A g \in Caller : /\ WF_vars(TokenNext(g) /\ UNCHANGED serverVars)
                      /\ WF_vars(Deliver(g)) /\ WF_vars(Timeout(g))

FairSpec == Spec /\ Fairness
-----------------------------------------------------------------------------
TypeOK ==
    /\ access \in Token /\ expiry \in Token /\ stored \in Token /\ grant \in Token
    /\ life \in [Token -> LifeFloor..TokenLife]
    /\ call \in [Caller -> Call] /\ \A g \in Caller : call[g].try <= MaxTries[g]
    /\ handler \in [Request -> Handler]
    /\ grantLost \in BOOLEAN /\ faults \in 0..Faults
    /\ session \in Session
    /\ carriedOut \subseteq Request /\ unanswered \subseteq Request

(***************************************************************************)
(* A command is repeated up to three times, by a node that cannot know     *)
(* what has become of a request without an answer, and may be carried out  *)
(* by the car as often.  But a repetition is never for nothing: the car    *)
(* has carried out an earlier request of the same call only if the node    *)
(* had to give that one up, late answers, restarts and crashes included.   *)
(***************************************************************************)
RepeatsWereUnanswered ==
    \A r, s \in carriedOut : r[1] = s[1] /\ r[2] < s[2] => r \in unanswered

(***************************************************************************)
(* The node renews a token five minutes before it expires, and the server  *)
(* goes on using one that it has in a session: for five minutes, whatever  *)
(* was left of it.  What is sent to Tesla directly or makes a session has  *)
(* a valid token; a command's may have run out, but for a shorter time     *)
(* than a call takes.                                                      *)
(***************************************************************************)
TokenStillGood ==
    \A r \in Request :
        /\ handler[r].pc \in {"direct", "init"} => life[handler[r].tok] > 0
        /\ HandlerAt(r, "command") => life[handler[r].tok] > -Delay

\* Every call ends, also when the server has crashed or never answers, when
\* the token service refuses the token, and when others refresh meanwhile.
CallsEnd == \A g \in Caller : call[g].pc # "idle" ~> call[g].pc = "idle"
=============================================================================
