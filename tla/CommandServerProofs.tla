------------------------ MODULE CommandServerProofs ------------------------
(***************************************************************************)
(* Proofs about CommandServer and TokenCache, for any number of callers,   *)
(* tries, grants and faults, and any spans of time.                        *)
(***************************************************************************)
EXTENDS CommandServer, TLAPS

USE DEF Token

LEMMA FloorIsLow == LifeFloor \in Int /\ LifeFloor <= 0 /\ LifeFloor = -Delay
BY TokenAssumption DEF LifeFloor

\* The parts of TypeOK.
StoreOK ==
    /\ access \in Token /\ expiry \in Token /\ stored \in Token /\ grant \in Token
    /\ life \in [Token -> LifeFloor..TokenLife]
CallsOK == call \in [Caller -> Call] /\ \A g \in Caller : call[g].try <= MaxTries[g]
HandlersOK == handler \in [Request -> Handler]
ServerOK == session \in Session /\ carriedOut \subseteq Request /\ unanswered \subseteq Request
FaultsOK == faults \in 0..Faults
LostOK == grantLost \in BOOLEAN

LEMMA TypeParts == TypeOK <=> StoreOK /\ CallsOK /\ HandlersOK /\ ServerOK /\ FaultsOK /\ LostOK
BY DEF TypeOK, StoreOK, CallsOK, HandlersOK, ServerOK, FaultsOK, LostOK

LEMMA InitType == Init => TypeOK
<1> SUFFICES ASSUME Init PROVE TypeOK
  OBVIOUS
<1> USE TokenAssumption, SessionAssumption, FloorIsLow DEF Init, TokenInit
<1>1. StoreOK /\ FaultsOK
  BY DEF StoreOK, FaultsOK
<1>2. CallsOK
  BY DEF CallsOK, Idle, Call, Stage, Tries
<1>3. HandlersOK
  BY DEF HandlersOK, NoHandler, Handler, Step
<1>4. ServerOK
  BY DEF ServerOK, NoSession, Session
<1>5. LostOK
  BY Zenon DEF LostOK
<1> QED
  BY <1>1, <1>2, <1>3, <1>4, <1>5, TypeParts

\* What a call begins with: no token, or a cached one.
LEMMA BeginChoice ==
  ASSUME StoreOK, NEW g \in Caller, Begin(g)
  PROVE  \E k \in {"command", "direct"}, pc \in {"ready", "expired"}, t \in Token :
            /\ call' = [call EXCEPT ![g] = [Idle EXCEPT !.pc = pc, !.tok = t, !.kind = k]]
            /\ pc = "expired" => t = 0
            /\ t # 0 => Cached /\ t = access
<1>1. access \in Token /\ 0 \in Token
  BY TokenAssumption DEF StoreOK
<1>2. CASE Cached
  BY <1>1, <1>2 DEF Begin
<1>3. CASE ~Cached
  BY <1>1, <1>3 DEF Begin
<1> QED
  BY <1>2, <1>3

LEMMA NextCalls == TypeOK /\ [Next]_vars => CallsOK'
<1> SUFFICES ASSUME TypeOK, [Next]_vars PROVE CallsOK'
  OBVIOUS
<1>0. CallsOK /\ StoreOK
  BY TypeParts
<1> USE TokenAssumption, SessionAssumption, <1>0
<1>i. Idle \in Call /\ Idle.try = 1
  BY DEF Idle, Call, Stage, Tries
<1>m. \A g \in Caller : MaxTries[g] \in 1..3 /\ call[g].try \in 1..3
  BY DEF CallsOK, Call, Tries
\* One goroutine's record changes.
<1>g. ASSUME NEW g \in Caller, NEW c \in Call, c.try <= MaxTries[g],
             call' = [call EXCEPT ![g] = c]
      PROVE  CallsOK'
  BY <1>g DEF CallsOK
<1>1. CASE Minute
  <2>1. ASSUME NEW g \in Caller PROVE Older(call[g]) \in Call /\ Older(call[g]).try = call[g].try
    BY DEF Older, CallsOK, Call
  <2> QED
    BY <1>1, <2>1 DEF Minute, CallsOK
<1>2. CASE Restart
  BY <1>2, <1>i, <1>m DEF Restart, NodeRestart, CallsOK
<1>3. ASSUME NEW g \in Caller, TokenNext(g) PROVE CallsOK'
  <2> DEFINE c == call[g]
  <2>1. c \in Call /\ c.pc \in Stage /\ c.try <= MaxTries[g]
    BY DEF CallsOK, Call
  <2> USE <2>1, <1>g DEF Call, Stage
  <2>2. CASE ReadSetting(g)
    <3> DEFINE d == [c EXCEPT !.pc = "asking", !.with = stored]
    <3>1. d \in Call /\ d.try = c.try
      BY DEF StoreOK
    <3>2. call' = [call EXCEPT ![g] = d]
      BY <2>2 DEF ReadSetting
    <3> HIDE DEF d
    <3> QED
      BY <3>1, <3>2
  <2>3. CASE Refreshed(g)
    <3>1. grant + 1 \in Token /\ 0 \in Token
      BY <2>3, SMTT(30) DEF Refreshed, Granted, StoreOK
    <3> DEFINE d == [c EXCEPT !.pc = "granted", !.tok = grant + 1, !.with = 0]
    <3>2. d \in Call /\ d.try = c.try
      BY <3>1
    <3>3. call' = [call EXCEPT ![g] = d]
      BY <2>3 DEF Refreshed
    <3> HIDE DEF d
    <3> QED
      BY <3>2, <3>3
  <2>4. ASSUME WithoutToken(g) PROVE CallsOK'
    <3>1. 0 \in Token
      OBVIOUS
    <3> DEFINE d == [c EXCEPT !.pc = "ready", !.with = 0]
    <3>2. d \in Call /\ d.try = c.try
      BY <3>1
    <3>3. call' = [call EXCEPT ![g] = d]
      BY <2>4 DEF WithoutToken
    <3> HIDE DEF d
    <3> QED
      BY <3>2, <3>3
  <2>5. ASSUME NEW pc \in Stage, call' = [call EXCEPT ![g].pc = pc] PROVE CallsOK'
    <3> DEFINE d == [c EXCEPT !.pc = pc]
    <3>1. d \in Call /\ d.try = c.try
      OBVIOUS
    <3>2. call' = [call EXCEPT ![g] = d]
      BY <2>5
    <3> HIDE DEF d
    <3> QED
      BY <3>1, <3>2
  <2> QED
    BY <1>3, <2>2, <2>3, <2>4, <2>5
    DEF TokenNext, AnswerLost, Refused, AuthUnreachable, CacheToken, CacheExpiry, StoreRefreshToken
<1>4. ASSUME NEW g \in Caller, BeginCall(g) PROVE CallsOK'
  <2>1. PICK k \in {"command", "direct"}, pc \in {"ready", "expired"}, t \in Token :
           call' = [call EXCEPT ![g] = [Idle EXCEPT !.pc = pc, !.tok = t, !.kind = k]]
    BY <1>4, BeginChoice DEF BeginCall
  <2> DEFINE c == [Idle EXCEPT !.pc = pc, !.tok = t, !.kind = k]
  <2>2. c \in Call /\ c.try = 1
    BY <1>i DEF Call, Stage
  <2>3. call' = [call EXCEPT ![g] = c]
    BY <2>1
  <2> HIDE DEF c
  <2>4. c.try <= MaxTries[g]
    BY <1>m, <2>2
  <2>5. c \in Call
    BY <2>2
  <2> QED
    BY <1>g, <2>3, <2>4, <2>5
<1>5. ASSUME NEW g \in Caller, TryFails(g) \/ Timeout(g) PROVE CallsOK'
  <2>0. call[g] \in Call /\ call[g].try <= MaxTries[g]
    BY DEF CallsOK
  <2>1. Failed(g) \in Call /\ Failed(g).try <= MaxTries[g]
    <3>1. CASE call[g].try = MaxTries[g]
      BY <1>i, <1>m, <3>1 DEF Failed, After
    <3>2. CASE call[g].try # MaxTries[g]
      <4> DEFINE c == [call[g] EXCEPT !.pc = "ready", !.try = @ + 1]
      <4>1. call[g].try + 1 \in 1..3 /\ call[g].try + 1 <= MaxTries[g]
        BY <1>m, <2>0, <3>2
      <4>2. c \in Call /\ c.try = call[g].try + 1
        BY <2>0, <4>1 DEF Call, Stage, Tries
      <4>3. Failed(g) = c
        BY <3>2 DEF Failed, After
      <4> QED
        BY <4>1, <4>2, <4>3
    <3> QED
      BY <3>1, <3>2
  <2>2. call' = [call EXCEPT ![g] = Failed(g)]
    BY <1>5 DEF TryFails, Timeout
  <2> QED
    BY <1>g, <2>1, <2>2
<1>6. ASSUME NEW g \in Caller, Deliver(g) PROVE CallsOK'
  <2> DEFINE c == [call[g] EXCEPT !.pc = "sent", !.body = FALSE]
  <2>1. call[g] \in Call /\ call[g].try <= MaxTries[g] /\ FALSE \in BOOLEAN
    BY DEF CallsOK
  <2>2. c \in Call /\ c.try <= MaxTries[g]
    BY <2>1 DEF Call, Stage
  <2>3. call' = [call EXCEPT ![g] = c]
    BY <1>6 DEF Deliver
  <2> HIDE DEF c
  <2> QED
    BY <1>g, <2>2, <2>3
<1>7. ASSUME NEW r \in Request, Answer(r) PROVE CallsOK'
  <2>1. r[1] \in Caller
    BY DEF Request
  <2>2. UNCHANGED call \/ call' = [call EXCEPT ![r[1]] = Idle]
    BY <1>7 DEF Answer
  <2>3. CASE UNCHANGED call
    BY <2>3 DEF CallsOK
  <2> QED
    BY <1>g, <1>i, <1>m, <2>1, <2>2, <2>3
<1>8. CASE UNCHANGED call
  BY <1>8 DEF CallsOK
<1> QED
  BY <1>1, <1>2, <1>3, <1>4, <1>5, <1>6, <1>7, <1>8
  DEF Next, NodeNext, ServerNext, vars, nodeVars, Cleanup, Lookup, InitSession, SetSession,
      Command, Direct, MapFault

LEMMA NextHandlers == TypeOK /\ [Next]_vars => HandlersOK'
<1> SUFFICES ASSUME TypeOK, [Next]_vars PROVE HandlersOK'
  OBVIOUS
<1>0. CallsOK /\ HandlersOK /\ ServerOK
  BY TypeParts
<1> USE TokenAssumption, SessionAssumption, <1>0 DEF HandlersOK, NoHandler, Handler, Step
<1>1. CASE Minute
  <2>1. ASSUME NEW r \in Request PROVE Older(handler[r]) \in Handler
    BY DEF Older
  <2> QED
    BY <1>1, <2>1 DEF Minute
<1>2. ASSUME NEW g \in Caller, Deliver(g) PROVE HandlersOK'
  <2>1. Authenticated(call[g]) \in Handler
    BY DEF Authenticated, CallsOK, Call
  <2>2. RequestOf(g) \in Request
    BY DEF RequestOf, Request, CallsOK, Call
  <2>3. handler' = [handler EXCEPT ![RequestOf(g)] = Authenticated(call[g])]
    BY <1>2 DEF Deliver
  <2> QED
    BY <2>1, <2>2, <2>3
<1>3. ASSUME NEW r \in Request, Lookup(r) PROVE HandlersOK'
  <2>1. session.tok \in Token
    BY DEF ServerOK, Session
  <2> QED
    BY <1>3, <2>1, ZenonT(30) DEF Lookup
<1>4. ASSUME NEW r \in Request, ServerNext(r), ~Lookup(r) PROVE HandlersOK'
  <2>1. ASSUME NEW pc \in Step, To(r, pc) PROVE HandlersOK'
    BY <2>1 DEF To
  <2>2. ASSUME Done(r) \/ Answer(r) \/ MapFault(r) PROVE HandlersOK'
    BY <2>2 DEF Done, Answer, MapFault
  <2> QED
    BY <1>4, <2>1, <2>2 DEF ServerNext, InitSession, SetSession, Command, Direct
<1>5. CASE UNCHANGED handler
  BY <1>5
<1> QED
  BY <1>1, <1>2, <1>3, <1>4, <1>5
  DEF Next, NodeNext, vars, serverVars, Restart, Cleanup, BeginCall, TryFails, Timeout

LEMMA NextStore == TypeOK /\ [Next]_vars => StoreOK'
<1> SUFFICES ASSUME TypeOK, [Next]_vars PROVE StoreOK'
  OBVIOUS
<1>0. CallsOK /\ StoreOK
  BY TypeParts
<1>1. \A g \in Caller : call[g].tok \in Token
  BY <1>0 DEF CallsOK, Call
<1> USE TokenAssumption, FloorIsLow, <1>0, <1>1 DEF StoreOK
<1>2. CASE Minute
  BY <1>2, SMTT(30) DEF Minute
<1>3. CASE Restart
  BY <1>3 DEF Restart, NodeRestart
<1>4. ASSUME NEW g \in Caller, Granted(g), UNCHANGED <<access, expiry, stored>> PROVE StoreOK'
  BY <1>4 DEF Granted
<1>5. ASSUME NEW g \in Caller, CacheToken(g) \/ CacheExpiry(g) \/ StoreRefreshToken(g) PROVE StoreOK'
  BY <1>5 DEF CacheToken, CacheExpiry, StoreRefreshToken
<1>6. CASE UNCHANGED tokenVars
  BY <1>6 DEF tokenVars
<1> QED
  BY <1>2, <1>3, <1>4, <1>5, <1>6
  DEF Next, NodeNext, TokenNext, ServerNext, vars, nodeVars, Cleanup, ReadSetting, Refreshed,
      AnswerLost, Refused, AuthUnreachable, BeginCall, Begin, TryFails, Deliver, Timeout,
      Lookup, InitSession, SetSession, Command, Direct, Answer, MapFault

LEMMA NextServer == TypeOK /\ [Next]_vars => ServerOK'
<1> SUFFICES ASSUME TypeOK, [Next]_vars PROVE ServerOK'
  OBVIOUS
<1>0. CallsOK /\ HandlersOK /\ ServerOK
  BY TypeParts
<1>1. \A r \in Request : handler[r].tok \in Token
  BY <1>0 DEF HandlersOK, Handler
<1> USE TokenAssumption, SessionAssumption, <1>0, <1>1 DEF ServerOK, Session
<1>2. CASE Minute
  <2>1. (IF session.age < SessionLife THEN session.age + 1 ELSE session.age) \in 0..SessionLife
    OBVIOUS
  <2> QED
    BY <1>2, <2>1 DEF Minute
<1>3. CASE Cleanup
  BY <1>3 DEF Cleanup, NoSession
<1>4. ASSUME NEW r \in Request, ServerNext(r) PROVE ServerOK'
  BY <1>4 DEF ServerNext, Lookup, InitSession, SetSession, Command, Direct, Answer, MapFault,
     NoSession
<1>5. ASSUME NEW g \in Caller, BeginCall(g) \/ Timeout(g) PROVE ServerOK'
  <2>1. RequestOf(g) \in Request
    BY DEF RequestOf, Request, CallsOK, Call
  <2> QED
    BY <1>5, <2>1 DEF BeginCall, Timeout
<1>6. CASE UNCHANGED <<session, carriedOut, unanswered>>
  BY <1>6
<1> QED
  BY <1>2, <1>3, <1>4, <1>5, <1>6
  DEF Next, NodeNext, vars, serverVars, Restart, TryFails, Deliver

LEMMA NextFaults == FaultsOK /\ [Next]_vars => FaultsOK'
<1> SUFFICES ASSUME FaultsOK, [Next]_vars PROVE faults' = faults \/ Fault
  BY TokenAssumption DEF FaultsOK, Fault
<1> QED
  BY DEF Next, NodeNext, TokenNext, ServerNext, vars, nodeVars, Minute, Restart, NodeRestart,
      Cleanup, ReadSetting, Refreshed, AnswerLost, Refused, AuthUnreachable, CacheToken,
      CacheExpiry, StoreRefreshToken, BeginCall, Begin, TryFails, Deliver, Timeout,
      Lookup, InitSession, SetSession, Command, Direct, Answer, MapFault

LEMMA NextLost == LostOK /\ [Next]_vars => LostOK'
BY Zenon DEF LostOK, Next, vars, nodeVars, Minute, Restart, NodeRestart, Cleanup, NodeNext,
   TokenNext, ReadSetting, Refreshed, AnswerLost, Refused, AuthUnreachable, CacheToken,
   CacheExpiry, StoreRefreshToken, BeginCall, Begin, TryFails, Deliver, Timeout, ServerNext,
   Lookup, InitSession, SetSession, Command, Direct, Answer, MapFault

LEMMA NextType == TypeOK /\ [Next]_vars => TypeOK'
<1> SUFFICES ASSUME TypeOK, [Next]_vars PROVE TypeOK'
  OBVIOUS
<1>1. (StoreOK /\ CallsOK /\ HandlersOK /\ ServerOK /\ FaultsOK /\ LostOK)'
  BY NextCalls, NextHandlers, NextStore, NextServer, NextFaults, NextLost, TypeParts
<1> QED
  BY <1>1 DEF TypeOK, StoreOK, CallsOK, HandlersOK, ServerOK, FaultsOK, LostOK

\* Token cache, calls, sessions and handlers keep their types.
THEOREM AccessTypeOK == Spec => []TypeOK
BY InitType, NextType, PTL DEF Spec
-----------------------------------------------------------------------------
(***************************************************************************)
(* The server gets to know a caller's requests one after the other: of an  *)
(* earlier try than the present one only if that has been given up, and of *)
(* none of them before the first is sent.                                  *)
(***************************************************************************)
Reached(r) == handler[r].pc # "none" \/ r \in carriedOut
GivenUp(r) == r[2] < call[r[1]].try /\ r \in unanswered

RepeatInv ==
    /\ \A r, s \in Request : r[1] = s[1] /\ r[2] < s[2] /\ Reached(r) /\ Reached(s)
                                => r \in unanswered
    /\ \A r \in Request : Reached(r) =>
          /\ call[r[1]].pc = "ready" => GivenUp(r)
          /\ call[r[1]].pc = "sent" => GivenUp(r) \/ r = RequestOf(r[1])
          /\ call[r[1]].pc \in {"idle", "ready", "sent"}

LEMMA InitRepeat == Init => RepeatInv
<1> SUFFICES ASSUME Init PROVE RepeatInv
  OBVIOUS
<1>1. \A r \in Request : ~Reached(r)
  BY DEF Init, NoHandler, Reached
<1> QED
  BY <1>1 DEF RepeatInv

\* Where nothing reaches the server and calls stay where they are, or end.
LEMMA RepeatFrame ==
  ASSUME RepeatInv, NEW S \in SUBSET Caller,
         \A r \in Request : Reached(r)' => Reached(r),
         unanswered \subseteq unanswered',
         \A g \in Caller : \/ call'[g].pc = "idle"
                           \/ call'[g].pc = call[g].pc /\ call'[g].try = call[g].try
                           \/ g \in S,
         \A r \in Request : r[1] \in S => ~Reached(r)
  PROVE  RepeatInv'
<1>1. \A r \in Request : r[1] \in Caller
  BY DEF Request
<1>2. ASSUME NEW r \in Request, Reached(r)'
      PROVE  /\ (call[r[1]].pc = "ready" => GivenUp(r))'
             /\ (call[r[1]].pc = "sent" => GivenUp(r) \/ r = RequestOf(r[1]))'
             /\ (call[r[1]].pc \in {"idle", "ready", "sent"})'
  <2>1. Reached(r) /\ r[1] \notin S
    BY <1>2
  <2>2. CASE call'[r[1]].pc = "idle"
    BY <2>2
  <2>3. CASE call'[r[1]].pc = call[r[1]].pc /\ call'[r[1]].try = call[r[1]].try
    BY <2>1, <2>3 DEF RepeatInv, GivenUp, RequestOf
  <2> QED
    BY <1>1, <2>1, <2>2, <2>3
<1>3. ASSUME NEW r \in Request, NEW s \in Request, r[1] = s[1], r[2] < s[2],
             Reached(r)', Reached(s)'
      PROVE  r \in unanswered'
  BY <1>3 DEF RepeatInv
<1> QED
  BY <1>2, <1>3 DEF RepeatInv

LEMMA NextRepeat == TypeOK /\ RepeatInv /\ [Next]_vars => RepeatInv'
<1> SUFFICES ASSUME TypeOK, RepeatInv, [Next]_vars PROVE RepeatInv'
  OBVIOUS
<1>0. CallsOK /\ HandlersOK /\ ServerOK
  BY TypeParts
<1>r. \A r \in Request : /\ r[1] \in Caller /\ r[2] \in 1..3 /\ r = <<r[1], r[2]>>
                         /\ \A g \in Caller : r \in RequestsOf(g) <=> r[1] = g
  BY DEF Request, RequestsOf, Tries
<1> USE <1>0 DEF CallsOK, HandlersOK, ServerOK
\* Requests do not come to the server, and no call goes on to its next try.
<1>f. ASSUME \A r \in Request : Reached(r)' => Reached(r), unanswered' = unanswered,
             \A g \in Caller : \/ call'[g].pc = "idle"
                               \/ call'[g].pc = call[g].pc /\ call'[g].try = call[g].try
      PROVE  RepeatInv'
  <2>1. {} \in SUBSET Caller /\ \A r \in Request : r[1] \in {} => ~Reached(r)
    OBVIOUS
  <2> HIDE DEF CallsOK, HandlersOK, ServerOK
  <2> QED
    BY <1>f, <2>1, RepeatFrame
<1>1. CASE Minute
  <2>1. ASSUME NEW g \in Caller
        PROVE  call'[g].pc = call[g].pc /\ call'[g].try = call[g].try
    BY <1>1 DEF Minute, Older, Call
  <2>2. ASSUME NEW r \in Request PROVE handler'[r].pc = handler[r].pc
    BY <1>1 DEF Minute, Older, Handler
  <2>3. UNCHANGED <<carriedOut, unanswered>>
    BY <1>1 DEF Minute
  <2> QED
    BY <1>f, <2>1, <2>2, <2>3 DEF Reached
<1>2. CASE Restart
  BY <1>2, <1>f DEF Restart, NodeRestart, serverVars, Idle, Reached
<1>3. ASSUME NEW g \in Caller, TokenNext(g), UNCHANGED serverVars PROVE RepeatInv'
  <2>1. call[g].pc \in {"expired", "asking", "granted", "cached", "dated"}
    BY <1>3 DEF TokenNext, At, ReadSetting, Refreshed, Granted, AnswerLost, Refused,
       AuthUnreachable, CacheToken, CacheExpiry, StoreRefreshToken
  <2>2. \A h \in Caller : h # g => call'[h] = call[h]
    BY <1>3, SMTT(30) DEF TokenNext, ReadSetting, Refreshed, AnswerLost, Refused,
       AuthUnreachable, WithoutToken, CacheToken, CacheExpiry, StoreRefreshToken
  <2>3. \A r \in Request : Reached(r)' <=> Reached(r)
    BY <1>3 DEF serverVars, Reached
  <2>4. \A r \in Request : r[1] \in {g} => ~Reached(r)
    BY <2>1 DEF RepeatInv
  <2>5. unanswered' = unanswered
    BY <1>3 DEF serverVars
  <2> QED
    BY <2>2, <2>3, <2>4, <2>5, RepeatFrame
<1>4. ASSUME NEW g \in Caller, BeginCall(g) PROVE RepeatInv'
  <2>1. \A h \in Caller : h # g => call'[h] = call[h]
    BY <1>4 DEF BeginCall, Begin
  <2>2. \A r \in Request : /\ Reached(r)' => Reached(r) /\ r[1] # g
                           /\ r[1] # g /\ r \in unanswered => r \in unanswered'
    BY <1>4, <1>r DEF BeginCall, HandlerAt, Reached
  <2>3. ASSUME NEW r \in Request, Reached(r)'
        PROVE  /\ (call[r[1]].pc = "ready" => GivenUp(r))'
               /\ (call[r[1]].pc = "sent" => GivenUp(r) \/ r = RequestOf(r[1]))'
               /\ (call[r[1]].pc \in {"idle", "ready", "sent"})'
    <3>1. Reached(r) /\ call'[r[1]] = call[r[1]] /\ (r \in unanswered => r \in unanswered')
      BY <1>r, <2>1, <2>2, <2>3
    <3> QED
      BY <3>1 DEF RepeatInv, GivenUp, RequestOf
  <2>4. ASSUME NEW r \in Request, NEW s \in Request, r[1] = s[1], r[2] < s[2],
               Reached(r)', Reached(s)'
        PROVE  r \in unanswered'
    BY <2>2, <2>4 DEF RepeatInv
  <2> QED
    BY <2>3, <2>4 DEF RepeatInv
<1>5. ASSUME NEW g \in Caller, TryFails(g) \/ Timeout(g) PROVE RepeatInv'
  <2>1. /\ call' = [call EXCEPT ![g] = Failed(g)]
        /\ \A r \in Request : Reached(r)' <=> Reached(r)
        /\ unanswered \subseteq unanswered'
        /\ call[g].pc = "sent" => RequestOf(g) \in unanswered'
        /\ call[g].pc \in {"ready", "sent"}
    BY <1>5 DEF TryFails, Timeout, At, Reached, serverVars
  <2>2. call[g].try \in Nat /\ (Failed(g).pc # "idle" => Failed(g).try = call[g].try + 1 /\ Failed(g).pc = "ready")
    BY DEF Failed, After, Idle, Call, Tries
  <2>3. ASSUME NEW r \in Request, Reached(r)'
        PROVE  /\ (call[r[1]].pc = "ready" => GivenUp(r))'
               /\ (call[r[1]].pc = "sent" => GivenUp(r) \/ r = RequestOf(r[1]))'
               /\ (call[r[1]].pc \in {"idle", "ready", "sent"})'
    <3>1. CASE r[1] = g
      <4>1. (GivenUp(r) \/ r = RequestOf(g)) /\ (r = RequestOf(g) => r \in unanswered' \/ GivenUp(r))
        BY <2>1, <2>3, <3>1 DEF RepeatInv
      <4>2. r[2] <= call[g].try /\ r \in unanswered'
        BY <1>r, <2>1, <2>2, <3>1, <4>1 DEF GivenUp, RequestOf
      <4>3. call'[g] = Failed(g)
        BY <2>1
      <4>4. call'[g].pc # "idle" => call'[g].pc = "ready" /\ r[2] < call'[g].try
        BY <1>r, <2>2, <4>2, <4>3
      <4> QED
        BY <3>1, <4>2, <4>4 DEF GivenUp
    <3>2. CASE r[1] # g
      <4>1. Reached(r) /\ call'[r[1]] = call[r[1]] /\ (r \in unanswered => r \in unanswered')
        BY <1>r, <2>1, <2>3, <3>2
      <4> QED
        BY <4>1 DEF RepeatInv, GivenUp, RequestOf
    <3> QED
      BY <3>1, <3>2
  <2>4. ASSUME NEW r \in Request, NEW s \in Request, r[1] = s[1], r[2] < s[2],
               Reached(r)', Reached(s)'
        PROVE  r \in unanswered'
    BY <2>1, <2>4 DEF RepeatInv
  <2> QED
    BY <2>3, <2>4 DEF RepeatInv
<1>6. ASSUME NEW g \in Caller, Deliver(g) PROVE RepeatInv'
  <2>1. /\ call[g].pc = "ready" /\ unanswered' = unanswered
        /\ call' = [call EXCEPT ![g].pc = "sent", ![g].body = FALSE]
        /\ handler' = [handler EXCEPT ![RequestOf(g)] = Authenticated(call[g])]
        /\ carriedOut' = carriedOut
    BY <1>6 DEF Deliver, At
  <2>2. /\ \A h \in Caller : call'[h].try = call[h].try /\ (h # g => call'[h].pc = call[h].pc)
        /\ call'[g].pc = "sent"
    BY <2>1 DEF Call
  <2>3. \A r \in Request : Reached(r)' => Reached(r) \/ r = RequestOf(g)
    BY <2>1 DEF Reached
  <2>4. RequestOf(g) = <<g, call[g].try>> /\ RequestOf(g)[1] = g /\ RequestOf(g)[2] = call[g].try
        /\ call[g].try \in 1..3
    BY DEF RequestOf, Call, Tries
  <2>5. \A r \in Request : Reached(r) /\ r[1] = g => GivenUp(r)
    BY <2>1 DEF RepeatInv
  <2>6. ASSUME NEW r \in Request, Reached(r)'
        PROVE  /\ (call[r[1]].pc = "ready" => GivenUp(r))'
               /\ (call[r[1]].pc = "sent" => GivenUp(r) \/ r = RequestOf(r[1]))'
               /\ (call[r[1]].pc \in {"idle", "ready", "sent"})'
    <3>1. CASE r[1] = g
      BY <2>1, <2>2, <2>3, <2>5, <2>6, <3>1 DEF GivenUp, RequestOf
    <3>2. CASE r[1] # g
      <4>1. Reached(r)
        BY <2>3, <2>4, <2>6, <3>2
      <4> QED
        BY <1>r, <2>1, <2>2, <3>2, <4>1 DEF RepeatInv, GivenUp, RequestOf
    <3> QED
      BY <3>1, <3>2
  <2>7. ASSUME NEW r \in Request, NEW s \in Request, r[1] = s[1], r[2] < s[2],
               Reached(r)', Reached(s)'
        PROVE  r \in unanswered'
    <3>1. CASE Reached(r) /\ Reached(s)
      BY <2>1, <2>7, <3>1 DEF RepeatInv
    <3>2. CASE Reached(r) /\ s = RequestOf(g)
      BY <2>1, <2>4, <2>5, <2>7, <3>2 DEF GivenUp
    <3>3. CASE r = RequestOf(g) /\ Reached(s)
      BY <1>r, <2>4, <2>5, <2>7, <3>3 DEF GivenUp
    <3>4. CASE r = RequestOf(g) /\ s = RequestOf(g)
      BY <2>4, <2>7, <3>4
    <3> QED
      BY <2>3, <2>7, <3>1, <3>2, <3>3, <3>4
  <2> QED
    BY <2>6, <2>7 DEF RepeatInv
<1>7. ASSUME NEW r \in Request, ServerNext(r) PROVE RepeatInv'
  <2> USE DEF HandlerAt, nodeVars
  <2>1. CASE Lookup(r) \/ InitSession(r) \/ SetSession(r)
    <3>1. \A q \in Request : Reached(q)' => Reached(q)
      BY <2>1 DEF Lookup, InitSession, SetSession, To, Done, NoHandler, Reached
    <3> QED
      BY <1>f, <2>1, <3>1 DEF Lookup, InitSession, SetSession
  <2>2. CASE Command(r) \/ Direct(r)
    <3>1. \A q \in Request : Reached(q)' => Reached(q)
      BY <2>2, SMTT(30) DEF Command, Direct, Done, NoHandler, Reached
    <3> QED
      BY <1>f, <2>2, <3>1 DEF Command, Direct
  <2>3. CASE Answer(r)
    <3>1. \A q \in Request : Reached(q)' => Reached(q)
      BY <2>3 DEF Answer, NoHandler, Reached
    <3>2. \A h \in Caller : call'[h] = call[h] \/ call'[h].pc = "idle"
      BY <2>3, <1>r DEF Answer, Idle
    <3> QED
      BY <1>f, <2>3, <3>1, <3>2 DEF Answer
  <2>4. CASE MapFault(r)
    <3>1. \A q \in Request : Reached(q)' => Reached(q)
      BY <2>4 DEF MapFault, NoHandler, Reached
    <3> QED
      BY <1>f, <2>4, <3>1 DEF MapFault
  <2> QED
    BY <1>7, <2>1, <2>2, <2>3, <2>4 DEF ServerNext
<1>8. CASE Cleanup \/ UNCHANGED vars
  <2>1. UNCHANGED <<call, handler, carriedOut, unanswered>>
    BY <1>8 DEF Cleanup, vars, nodeVars, serverVars
  <2> QED
    BY <1>f, <2>1 DEF Reached
<1> QED
  BY <1>1, <1>2, <1>3, <1>4, <1>5, <1>6, <1>7, <1>8 DEF Next, NodeNext

\* However often calls are tried, and whatever is late, restarted or lost: if
\* the car has carried out two requests of a call, the node has had to give up
\* on the earlier one.
THEOREM RepeatsNeedSilence == Spec => []RepeatsWereUnanswered
<1>1. TypeOK /\ RepeatInv => RepeatsWereUnanswered
  <2> SUFFICES ASSUME TypeOK, RepeatInv PROVE RepeatsWereUnanswered
    OBVIOUS
  <2>1. carriedOut \subseteq Request
    BY DEF TypeOK
  <2> QED
    BY <2>1 DEF RepeatInv, Reached, RepeatsWereUnanswered
<1> QED
  BY InitType, NextType, InitRepeat, NextRepeat, <1>1, PTL DEF Spec
-----------------------------------------------------------------------------
(***************************************************************************)
(* Tesla takes a refresh token once, so that at most one goroutine is past *)
(* a refresh and writes; the stored token is older until it is done.       *)
(***************************************************************************)
GrantInv ==
    /\ stored <= grant
    /\ \A g \in Caller : call[g].pc = "asking" => call[g].with <= stored
    /\ \A g \in Caller : Writing(g) => call[g].tok = grant /\ stored < grant
    /\ \A g, h \in Caller : Writing(g) /\ Writing(h) => g = h

Kept == stored = grant \/ grantLost \/ \E g \in Caller : Writing(g)

LEMMA InitGrant == Init => GrantInv /\ Kept
<1>1. Init => GrantInv
  BY TokenAssumption DEF Init, TokenInit, GrantInv, Writing, Idle
<1>2. Init => stored = grant
  BY DEF Init, TokenInit
<1> QED
  BY <1>1, <1>2 DEF Kept

\* What the steps that do not write leave as it is.
LEMMA GrantFrame ==
  ASSUME GrantInv, Kept, UNCHANGED <<stored, grant, grantLost>>,
         \A h \in Caller : Writing(h)' <=> Writing(h),
         \A h \in Caller : Writing(h) => call'[h].tok = call[h].tok,
         \A h \in Caller : call'[h].pc = "asking" => call'[h].with <= stored
  PROVE  GrantInv' /\ Kept'
<1>1. GrantInv'
  BY DEF GrantInv
<1>2. Kept'
  BY Zenon DEF Kept
<1> QED
  BY <1>1, <1>2

LEMMA NextGrant == TypeOK /\ GrantInv /\ Kept /\ [Next]_vars => GrantInv' /\ Kept'
<1> SUFFICES ASSUME TypeOK, GrantInv, Kept, [Next]_vars PROVE GrantInv' /\ Kept'
  OBVIOUS
<1>0. CallsOK /\ StoreOK
  BY TypeParts
<1> USE <1>0, TokenAssumption DEF CallsOK, StoreOK, Call
<1>i. Idle.pc = "idle"
  BY DEF Idle
\* A goroutine that neither writes nor asks before or after.
<1>f. ASSUME NEW g \in Caller, NEW c, call' = [call EXCEPT ![g] = c], ~Writing(g),
             c.pc \in {"idle", "expired", "ready", "sent"},
             UNCHANGED <<stored, grant, grantLost>>
      PROVE  GrantInv' /\ Kept'
  <2>1. \A h \in Caller : h # g => call'[h] = call[h]
    BY <1>f
  <2>2. call'[g] = c
    BY <1>f
  <2>3. \A h \in Caller : Writing(h)' <=> Writing(h)
    BY <1>f, <2>1, <2>2 DEF Writing
  <2>4. \A h \in Caller : Writing(h) => call'[h].tok = call[h].tok
    BY <1>f, <2>1
  <2>5. \A h \in Caller : call'[h].pc = "asking" => call'[h].with <= stored
    BY <1>f, <2>1, <2>2 DEF GrantInv
  <2> QED
    BY <1>f, <2>3, <2>4, <2>5, GrantFrame
<1>1. CASE Minute
  <2>1. ASSUME NEW h \in Caller
        PROVE  /\ call'[h].pc = call[h].pc
               /\ call'[h].tok = call[h].tok
               /\ call'[h].with = call[h].with
    BY <1>1 DEF Minute, Older
  <2>2. UNCHANGED <<stored, grant, grantLost>>
    BY <1>1 DEF Minute
  <2>3. \A h \in Caller : call'[h].pc = "asking" => call'[h].with <= stored
    BY <2>1 DEF GrantInv
  <2>4. \A h \in Caller : Writing(h)' <=> Writing(h)
    BY <2>1 DEF Writing
  <2> QED
    BY <2>1, <2>2, <2>3, <2>4, GrantFrame
<1>2. CASE Restart
  <2>1. GrantInv'
    BY <1>2 DEF Restart, NodeRestart, GrantInv, Writing, Idle
  <2>2. /\ grantLost' = (grantLost \/ \E g \in Caller : Writing(g))
        /\ stored' = stored /\ grant' = grant
    BY <1>2 DEF Restart, NodeRestart
  <2>3. Kept'
    BY <2>2, Zenon DEF Kept
  <2> QED
    BY <2>1, <2>3
<1>3. ASSUME NEW g \in Caller, ReadSetting(g) PROVE GrantInv' /\ Kept'
  <2>1. /\ call' = [call EXCEPT ![g] = [call[g] EXCEPT !.pc = "asking", !.with = stored]]
        /\ call[g].pc = "expired"
        /\ UNCHANGED <<stored, grant, grantLost>>
    BY <1>3 DEF ReadSetting, At, tokenVars
  <2>2. \A h \in Caller : Writing(h)' <=> Writing(h)
    BY <2>1 DEF Writing
  <2>3. \A h \in Caller : Writing(h) => call'[h].tok = call[h].tok
    BY <2>1 DEF Writing
  <2>4. stored <= stored
    BY <1>0, SMT DEF StoreOK
  <2>5. \A h \in Caller : call[h].pc = "asking" => call[h].with <= stored
    BY Zenon DEF GrantInv
  <2>6. \A h \in Caller : call'[h].pc = "asking" => call'[h].with <= stored
    <3> TAKE h \in Caller
    <3>1. CASE h = g
      BY <2>1, <2>4, <3>1 DEF CallsOK, Call
    <3>2. CASE h # g
      BY <2>1, <2>5, <3>2
    <3> QED
      BY <3>1, <3>2
  <2> QED
    BY <2>1, <2>2, <2>3, <2>6, GrantFrame
<1>4. ASSUME NEW g \in Caller, Granted(g)
      PROVE  \A h \in Caller : ~Writing(h)
  BY <1>4, SMTT(30) DEF Granted, At, GrantInv
<1>5. ASSUME NEW g \in Caller, Refreshed(g) PROVE GrantInv' /\ Kept'
  <2>1. /\ call' = [call EXCEPT ![g] = [call[g] EXCEPT !.pc = "granted", !.tok = grant + 1, !.with = 0]]
        /\ grant' = grant + 1 /\ stored' = stored
        /\ \A h \in Caller : ~Writing(h)
    BY <1>4, <1>5 DEF Refreshed, Granted
  <2>2. \A h \in Caller : Writing(h)' <=> h = g
    BY <2>1 DEF Writing
  <2>3. GrantInv'
    BY <2>1, <2>2, SMTT(30) DEF GrantInv
  <2> QED
    BY <2>2, <2>3 DEF Kept
<1>6. ASSUME NEW g \in Caller, AnswerLost(g) PROVE GrantInv' /\ Kept'
  <2>1. /\ call' = [call EXCEPT ![g] = [call[g] EXCEPT !.pc = "ready", !.with = 0]]
        /\ grant' = grant + 1 /\ stored' = stored /\ grantLost' = TRUE
        /\ \A h \in Caller : ~Writing(h)
    BY <1>4, <1>6 DEF AnswerLost, Granted, WithoutToken
  <2>2. \A h \in Caller : ~Writing(h)'
    BY <2>1 DEF Writing
  <2>3. GrantInv'
    BY <2>1, <2>2, SMTT(30) DEF GrantInv
  <2>4. Kept'
    BY <2>1, Zenon DEF Kept
  <2> QED
    BY <2>3, <2>4
<1>7. ASSUME NEW g \in Caller, Refused(g) \/ AuthUnreachable(g) PROVE GrantInv' /\ Kept'
  <2>1. /\ call' = [call EXCEPT ![g] = [call[g] EXCEPT !.pc = "ready", !.with = 0]]
        /\ UNCHANGED <<stored, grant, grantLost>> /\ ~Writing(g)
    BY <1>7 DEF Refused, AuthUnreachable, WithoutToken, At, tokenVars, Writing
  <2>2. [call[g] EXCEPT !.pc = "ready", !.with = 0].pc = "ready"
    OBVIOUS
  <2> QED
    BY <1>f, <2>1, <2>2
<1>8. ASSUME NEW g \in Caller, CacheToken(g) \/ CacheExpiry(g) PROVE GrantInv' /\ Kept'
  <2>1. PICK pc \in {"cached", "dated"} :
           /\ call' = [call EXCEPT ![g].pc = pc]
           /\ UNCHANGED <<stored, grant, grantLost>> /\ Writing(g)
    BY <1>8 DEF CacheToken, CacheExpiry, At, Writing
  <2>2. \A h \in Caller : Writing(h)' <=> Writing(h)
    BY <2>1 DEF Writing
  <2>3. \A h \in Caller : call'[h].tok = call[h].tok
    BY <2>1
  <2>4. \A h \in Caller : call'[h].pc = "asking" => call'[h].with <= stored
    BY <2>1 DEF GrantInv
  <2> QED
    BY <2>1, <2>2, <2>3, <2>4, GrantFrame
<1>9. ASSUME NEW g \in Caller, StoreRefreshToken(g) PROVE GrantInv' /\ Kept'
  <2>1. /\ Writing(g) /\ stored' = call[g].tok /\ grant' = grant
        /\ call' = [call EXCEPT ![g].pc = "ready"]
    BY <1>9 DEF StoreRefreshToken, At, Writing
  <2>2. \A h \in Caller : ~Writing(h)'
    BY <2>1 DEF GrantInv, Writing
  <2>3. stored' = grant'
    BY <2>1 DEF GrantInv
  <2>4. GrantInv'
    BY <2>1, <2>2, <2>3, SMTT(30) DEF GrantInv
  <2> QED
    BY <2>3, <2>4 DEF Kept
<1>10. ASSUME NEW g \in Caller, BeginCall(g) PROVE GrantInv' /\ Kept'
  <2>1. /\ UNCHANGED <<stored, grant, grantLost>> /\ ~Writing(g)
    BY <1>10 DEF BeginCall, Begin, At, tokenVars, Writing
  <2>2. PICK k \in {"command", "direct"}, pc \in {"ready", "expired"}, t \in Token :
           call' = [call EXCEPT ![g] = [Idle EXCEPT !.pc = pc, !.tok = t, !.kind = k]]
    BY <1>10, BeginChoice DEF BeginCall
  <2>3. [Idle EXCEPT !.pc = pc, !.tok = t, !.kind = k].pc = pc
    BY DEF Idle
  <2> QED
    BY <1>f, <2>1, <2>2, <2>3
<1>11. ASSUME NEW g \in Caller, TryFails(g) \/ Timeout(g) PROVE GrantInv' /\ Kept'
  <2>1. /\ UNCHANGED <<stored, grant, grantLost>> /\ ~Writing(g)
        /\ call' = [call EXCEPT ![g] = Failed(g)]
    BY <1>11 DEF TryFails, Timeout, At, tokenVars, Writing
  <2>2. Failed(g).pc \in {"idle", "ready"}
    BY <1>i DEF Failed, After
  <2> QED
    BY <1>f, <2>1, <2>2
<1>12. ASSUME NEW g \in Caller, Deliver(g) PROVE GrantInv' /\ Kept'
  <2>1. /\ UNCHANGED <<stored, grant, grantLost>> /\ ~Writing(g)
        /\ call' = [call EXCEPT ![g] = [call[g] EXCEPT !.pc = "sent", !.body = FALSE]]
    BY <1>12 DEF Deliver, At, tokenVars, Writing
  <2>2. [call[g] EXCEPT !.pc = "sent", !.body = FALSE].pc = "sent"
    OBVIOUS
  <2> QED
    BY <1>f, <2>1, <2>2
<1>13. ASSUME NEW r \in Request, Answer(r), Awaited(r) PROVE GrantInv' /\ Kept'
  <2> DEFINE g == r[1]
  <2>1. /\ UNCHANGED <<stored, grant, grantLost>> /\ ~Writing(g)
        /\ call' = [call EXCEPT ![g] = Idle] /\ g \in Caller
    BY <1>13 DEF Answer, Awaited, At, tokenVars, Writing, Request
  <2> HIDE DEF g
  <2> QED
    BY <1>f, <1>i, <2>1
<1>14. CASE UNCHANGED <<tokenVars, call, grantLost>>
  <2>1. UNCHANGED <<stored, grant, grantLost, call>>
    BY <1>14 DEF tokenVars
  <2>2. \A h \in Caller : Writing(h)' <=> Writing(h)
    BY <2>1 DEF Writing
  <2> QED
    BY <2>1, <2>2, GrantFrame DEF GrantInv
<1> QED
  BY <1>1, <1>2, <1>3, <1>5, <1>6, <1>7, <1>8, <1>9, <1>10, <1>11, <1>12, <1>13, <1>14
  DEF Next, NodeNext, TokenNext, ServerNext, vars, nodeVars, Cleanup,
      Lookup, InitSession, SetSession, Command, Direct, Answer, MapFault

\* The newest refresh token is stored, or about to be, unless an answer or the
\* process was lost in between, however many goroutines refresh at once.
THEOREM NewestGrantIsKept == Spec => []GrantIsKept
<1>1. GrantInv /\ Kept => GrantIsKept
  BY DEF GrantInv, Kept, GrantIsKept
<1> QED
  BY InitType, NextType, InitGrant, NextGrant, <1>1, PTL DEF Spec
-----------------------------------------------------------------------------
(***************************************************************************)
(* The two fields of the cache differ only while the one who writes is     *)
(* between them, and then hold the newest token with an older expiry.      *)
(***************************************************************************)
CacheInv ==
    /\ access <= grant /\ expiry <= grant
    /\ life[0] = 0
    /\ \A j, k \in 1..grant : j <= k => life[j] <= life[k]
    /\ access = expiry \/ \E g \in Caller : call[g].pc = "cached"
    /\ \A g \in Caller : call[g].pc = "cached" => access = grant
    /\ \A g \in Caller : Writing(g) => life[grant] >= TokenLife - call[g].age
    /\ \A g \in Caller : call[g].pc \in {"expired", "asking"} => call[g].tok = 0 /\ call[g].age = 0

LEMMA InitCache == Init => CacheInv
BY TokenAssumption DEF Init, TokenInit, CacheInv, Writing, Idle

LEMMA CacheFrame ==
  ASSUME CacheInv, UNCHANGED <<access, expiry, grant, life>>,
         \A h \in Caller : call'[h].pc = "cached" <=> call[h].pc = "cached",
         \A h \in Caller : Writing(h)' => Writing(h) /\ call'[h].age = call[h].age,
         \A h \in Caller : call'[h].pc \in {"expired", "asking"} => call'[h].tok = 0 /\ call'[h].age = 0
  PROVE  CacheInv'
BY DEF CacheInv

\* A minute takes at most a minute off every token.
LEMMA MinuteLife ==
  ASSUME TypeOK, Minute
  PROVE  /\ \A k \in Token : life'[k] >= life[k] - 1
         /\ \A j, k \in Token : j # 0 /\ k # 0 /\ life[j] <= life[k] => life'[j] <= life'[k]
         /\ life'[0] = life[0]
<1>1. StoreOK
  BY TypeParts
<1>2. 0 \in Token
  BY TokenAssumption
<1>3. ASSUME NEW k \in Token
      PROVE  /\ life[k] \in Int
             /\ life'[k] = IF k # 0 /\ life[k] > LifeFloor THEN life[k] - 1 ELSE life[k]
  BY <1>1, FloorIsLow, TokenAssumption DEF Minute, StoreOK
<1>4. \A k \in Token : life'[k] >= life[k] - 1
  BY <1>3, FloorIsLow
<1>5. \A j, k \in Token : j # 0 /\ k # 0 /\ life[j] <= life[k] => life'[j] <= life'[k]
  BY <1>3, FloorIsLow
<1> QED
  BY <1>2, <1>3, <1>4, <1>5

LEMMA MinuteAges ==
  ASSUME TypeOK, Minute, NEW h \in Caller
  PROVE  /\ call'[h].pc = call[h].pc /\ call'[h].tok = call[h].tok
         /\ call[h].tok = 0 => call'[h].age = call[h].age
         /\ call[h].pc \in {"cached", "dated", "granted", "ready", "sent"} =>
               (call[h].tok # 0 => call'[h].age = call[h].age + 1)
<1>1. CallsOK
  BY TypeParts
<1>2. call'[h] = Older(call[h]) /\ call[h] \in Call
  BY <1>1 DEF Minute, CallsOK
<1>3. call'[h].pc = call[h].pc /\ call'[h].tok = call[h].tok
  BY <1>2 DEF Older, Call
<1>4. call'[h].age = IF call[h].tok # 0 /\ call[h].age < Delay
                     THEN call[h].age + 1 ELSE call[h].age
  BY <1>2 DEF Older, Call
<1>5. call[h].pc \in {"cached", "dated", "granted", "ready", "sent"} => call[h].age < Delay
  BY DEF Minute, InTime
<1> QED
  BY <1>3, <1>4, <1>5

LEMMA MinuteHandlers ==
  ASSUME TypeOK, Minute, NEW r \in Request
  PROVE  /\ handler'[r].pc = handler[r].pc /\ handler'[r].tok = handler[r].tok
         /\ handler[r].pc \in {"lookup", "init", "set", "direct"} =>
               (handler[r].tok # 0 => handler'[r].age = handler[r].age + 1)
         /\ handler[r].pc # "command"
<1>1. HandlersOK
  BY TypeParts
<1>2. handler'[r] = Older(handler[r]) /\ handler[r] \in Handler
  BY <1>1 DEF Minute, HandlersOK
<1>3. handler'[r].pc = handler[r].pc /\ handler'[r].tok = handler[r].tok
  BY <1>2 DEF Older, Handler
<1>4. handler'[r].age = IF handler[r].tok # 0 /\ handler[r].age < Delay
                        THEN handler[r].age + 1 ELSE handler[r].age
  BY <1>2 DEF Older, Handler
<1>5. /\ handler[r].pc \in {"lookup", "init", "set", "direct"} => handler[r].age < Delay
      /\ handler[r].pc # "command"
  BY DEF Minute, InTime, HandlerAt
<1> QED
  BY <1>3, <1>4, <1>5

LEMMA NextCache == TypeOK /\ GrantInv /\ CacheInv /\ [Next]_vars => CacheInv'
<1> SUFFICES ASSUME TypeOK, GrantInv, CacheInv, [Next]_vars PROVE CacheInv'
  OBVIOUS
<1>0. CallsOK /\ StoreOK
  BY TypeParts
<1> USE <1>0, TokenAssumption DEF CallsOK, StoreOK, Call
<1>1. CASE Minute
  <2>1. UNCHANGED <<access, expiry, grant>>
    BY <1>1 DEF Minute
  <2>2. \A j, k \in 1..grant : j <= k => life'[j] <= life'[k]
    BY <1>1, MinuteLife DEF CacheInv
  <2>3. ASSUME NEW h \in Caller, Writing(h)'
        PROVE  life'[grant] >= TokenLife - call'[h].age
    <3>1. Writing(h) /\ call[h].tok # 0 /\ call'[h].age = call[h].age + 1
      BY <1>1, <2>3, MinuteAges DEF Writing, GrantInv
    <3>2. life'[grant] >= life[grant] - 1 /\ life[grant] \in Int
      BY <1>1, MinuteLife, FloorIsLow
    <3>3. life[grant] >= TokenLife - call[h].age /\ call[h].age \in Int
      BY <3>1 DEF CacheInv
    <3>4. life'[grant] \in Int
      BY <1>1, FloorIsLow, SMTT(30) DEF Minute
    <3> QED
      BY <3>1, <3>2, <3>3, <3>4, SMTT(30)
  <2>4. \A h \in Caller : call'[h].pc \in {"expired", "asking"} => call'[h].tok = 0 /\ call'[h].age = 0
    BY <1>1, MinuteAges DEF CacheInv
  <2>5. \A h \in Caller : call'[h].pc = call[h].pc
    BY <1>1, MinuteAges
  <2> QED
    BY <1>1, <2>1, <2>2, <2>3, <2>4, <2>5, MinuteLife DEF CacheInv
<1>2. CASE Restart
  BY <1>2 DEF Restart, NodeRestart, CacheInv, Writing, Idle
<1>3. ASSUME NEW g \in Caller, Granted(g), UNCHANGED <<access, expiry>>,
             NEW c, call' = [call EXCEPT ![g] = c],
             c.pc = "ready" \/ (c.pc = "granted" /\ c.age = 0)
      PROVE  CacheInv'
  <2>1. /\ grant' = grant + 1 /\ \A h \in Caller : ~Writing(h)
        /\ call[g].pc = "asking"
    BY <1>3, SMTT(30) DEF Granted, At, GrantInv
  <2>2. \A h \in Caller : call'[h] = IF h = g THEN c ELSE call[h]
    BY <1>3
  <2>3. \A h \in Caller : call[h].pc # "cached"
    BY <2>1 DEF Writing
  <2>4. \A k \in Token : life'[k] = IF k = grant + 1 THEN TokenLife ELSE life[k]
    BY <1>3 DEF Granted
  <2>5. grant + 1 \in Token /\ life[0] = 0
    BY <1>3 DEF Granted, CacheInv
  <2>6. \A j, k \in 1..(grant + 1) : j <= k => life'[j] <= life'[k]
    <3> TAKE j, k \in 1..(grant + 1)
    <3>1. life[j] \in Int /\ life[k] \in Int /\ life[j] <= TokenLife /\ j \in Token /\ k \in Token
      BY <2>5, FloorIsLow
    <3>2. j # grant + 1 /\ k # grant + 1 /\ j <= k => life[j] <= life[k]
      BY <2>5 DEF CacheInv
    <3> QED
      BY <2>4, <2>5, <3>1, <3>2
  <2>7. \A h \in Caller : Writing(h)' => life'[grant + 1] >= TokenLife - call'[h].age
    BY <1>3, <2>1, <2>2, <2>4, <2>5 DEF Writing
  <2>8. access = expiry
    BY <2>3 DEF CacheInv
  <2>9. \A h \in Caller : call'[h].pc \in {"expired", "asking"} => call'[h].tok = 0 /\ call'[h].age = 0
    BY <1>3, <2>2 DEF CacheInv
  <2>10. \A h \in Caller : call'[h].pc # "cached"
    BY <1>3, <2>2, <2>3
  <2> QED
    BY <1>3, <2>1, <2>4, <2>5, <2>6, <2>7, <2>8, <2>9, <2>10 DEF CacheInv
<1>4. ASSUME NEW g \in Caller, Refreshed(g) PROVE CacheInv'
  <2> DEFINE c == [call[g] EXCEPT !.pc = "granted", !.tok = grant + 1, !.with = 0]
  <2>1. c.pc = "granted" /\ c.age = 0
    BY <1>4 DEF Refreshed, Granted, At, CacheInv
  <2>2. Granted(g) /\ UNCHANGED <<access, expiry>> /\ call' = [call EXCEPT ![g] = c]
    BY <1>4 DEF Refreshed
  <2> HIDE DEF c
  <2> QED
    BY <1>3, <2>1, <2>2
<1>5. ASSUME NEW g \in Caller, AnswerLost(g) PROVE CacheInv'
  <2> DEFINE c == [call[g] EXCEPT !.pc = "ready", !.with = 0]
  <2>1. c.pc = "ready"
    OBVIOUS
  <2>2. Granted(g) /\ UNCHANGED <<access, expiry>> /\ call' = [call EXCEPT ![g] = c]
    BY <1>5 DEF AnswerLost, WithoutToken
  <2> HIDE DEF c
  <2> QED
    BY <1>3, <2>1, <2>2
<1>6. ASSUME NEW g \in Caller, CacheToken(g) PROVE CacheInv'
  <2>1. /\ Writing(g) /\ call[g].tok = grant /\ call[g].pc = "granted"
        /\ access' = grant /\ UNCHANGED <<expiry, grant, life>>
        /\ call' = [call EXCEPT ![g].pc = "cached"]
    BY <1>6 DEF CacheToken, At, Writing, GrantInv
  <2>2. \A h \in Caller : Writing(h)' <=> Writing(h)
    BY <2>1 DEF Writing
  <2>3. \A h \in Caller : call'[h].age = call[h].age /\ call'[h].tok = call[h].tok
    BY <2>1
  <2>4. call'[g].pc = "cached" /\ \A h \in Caller : h # g => call'[h].pc = call[h].pc
    BY <2>1
  <2> QED
    BY <2>1, <2>2, <2>3, <2>4, SMTT(30) DEF CacheInv
<1>7. ASSUME NEW g \in Caller, CacheExpiry(g) PROVE CacheInv'
  <2>1. /\ Writing(g) /\ call[g].tok = grant /\ access = grant
        /\ expiry' = grant /\ UNCHANGED <<access, grant, life>>
        /\ call' = [call EXCEPT ![g].pc = "dated"]
    BY <1>7 DEF CacheExpiry, At, Writing, GrantInv, CacheInv
  <2>2. \A h \in Caller : Writing(h)' <=> Writing(h)
    BY <2>1 DEF Writing
  <2>3. \A h \in Caller : call'[h].age = call[h].age /\ call'[h].tok = call[h].tok
    BY <2>1
  <2>4. \A h \in Caller : call'[h].pc = IF h = g THEN "dated" ELSE call[h].pc
    BY <2>1
  <2> QED
    BY <2>1, <2>2, <2>3, <2>4, ZenonT(30) DEF CacheInv
\* The steps that leave cache and grants alone.
<1>8. ASSUME NEW g \in Caller, NEW c, call' = [call EXCEPT ![g] = c],
             UNCHANGED <<access, expiry, grant, life>>, call[g].pc # "cached",
             c.pc \in {"idle", "ready", "sent"}
                \/ (c.pc \in {"expired", "asking"} /\ c.tok = 0 /\ c.age = 0)
      PROVE  CacheInv'
  <2>1. \A h \in Caller : call'[h] = IF h = g THEN c ELSE call[h]
    BY <1>8
  <2>2. \A h \in Caller : call'[h].pc = "cached" <=> call[h].pc = "cached"
    BY <1>8, <2>1
  <2>3. \A h \in Caller : Writing(h)' => Writing(h) /\ call'[h].age = call[h].age
    BY <1>8, <2>1 DEF Writing
  <2>4. \A h \in Caller : call'[h].pc \in {"expired", "asking"} => call'[h].tok = 0 /\ call'[h].age = 0
    BY <1>8, <2>1 DEF CacheInv
  <2> QED
    BY <1>8, <2>2, <2>3, <2>4, CacheFrame
<1>9. ASSUME NEW g \in Caller, ReadSetting(g) PROVE CacheInv'
  <2> DEFINE c == [call[g] EXCEPT !.pc = "asking", !.with = stored]
  <2>1. c.pc = "asking" /\ c.tok = 0 /\ c.age = 0 /\ call[g].pc # "cached"
    BY <1>9 DEF ReadSetting, At, CacheInv
  <2>2. UNCHANGED <<access, expiry, grant, life>> /\ call' = [call EXCEPT ![g] = c]
    BY <1>9 DEF ReadSetting, tokenVars
  <2> HIDE DEF c
  <2> QED
    BY <1>8, <2>1, <2>2
<1>10. ASSUME NEW g \in Caller, Refused(g) \/ AuthUnreachable(g) PROVE CacheInv'
  <2> DEFINE c == [call[g] EXCEPT !.pc = "ready", !.with = 0]
  <2>1. c.pc = "ready" /\ call[g].pc # "cached"
    BY <1>10 DEF Refused, AuthUnreachable, At
  <2>2. UNCHANGED <<access, expiry, grant, life>> /\ call' = [call EXCEPT ![g] = c]
    BY <1>10 DEF Refused, AuthUnreachable, WithoutToken, tokenVars
  <2> HIDE DEF c
  <2> QED
    BY <1>8, <2>1, <2>2
<1>11. ASSUME NEW g \in Caller, StoreRefreshToken(g) PROVE CacheInv'
  <2> DEFINE c == [call[g] EXCEPT !.pc = "ready"]
  <2>1. c.pc = "ready" /\ call[g].pc # "cached"
    BY <1>11 DEF StoreRefreshToken, At
  <2>2. UNCHANGED <<access, expiry, grant, life>> /\ call' = [call EXCEPT ![g] = c]
    BY <1>11 DEF StoreRefreshToken
  <2> HIDE DEF c
  <2> QED
    BY <1>8, <2>1, <2>2
<1>12. ASSUME NEW g \in Caller, BeginCall(g) PROVE CacheInv'
  <2>1. PICK k \in {"command", "direct"}, pc \in {"ready", "expired"}, t \in Token :
           /\ call' = [call EXCEPT ![g] = [Idle EXCEPT !.pc = pc, !.tok = t, !.kind = k]]
           /\ pc = "expired" => t = 0
    BY <1>12, BeginChoice DEF BeginCall
  <2> DEFINE c == [Idle EXCEPT !.pc = pc, !.tok = t, !.kind = k]
  <2>2. c.pc = pc /\ c.tok = t /\ c.age = 0
    BY DEF Idle
  <2>3. call' = [call EXCEPT ![g] = c]
    BY <2>1
  <2>4. UNCHANGED <<access, expiry, grant, life>> /\ call[g].pc # "cached"
    BY <1>12 DEF BeginCall, Begin, At, tokenVars
  <2> HIDE DEF c
  <2> QED
    BY <1>8, <2>1, <2>2, <2>3, <2>4
<1>13. ASSUME NEW g \in Caller, TryFails(g) \/ Timeout(g) PROVE CacheInv'
  <2>1. Failed(g).pc \in {"idle", "ready"}
    BY DEF Failed, After, Idle
  <2>2. /\ UNCHANGED <<access, expiry, grant, life>> /\ call[g].pc # "cached"
        /\ call' = [call EXCEPT ![g] = Failed(g)]
    BY <1>13 DEF TryFails, Timeout, At, tokenVars
  <2> QED
    BY <1>8, <2>1, <2>2
<1>14. ASSUME NEW g \in Caller, Deliver(g) PROVE CacheInv'
  <2> DEFINE c == [call[g] EXCEPT !.pc = "sent", !.body = FALSE]
  <2>1. c.pc = "sent"
    OBVIOUS
  <2>2. /\ UNCHANGED <<access, expiry, grant, life>> /\ call[g].pc # "cached"
        /\ call' = [call EXCEPT ![g] = c]
    BY <1>14 DEF Deliver, At, tokenVars
  <2> HIDE DEF c
  <2> QED
    BY <1>8, <2>1, <2>2
<1>15. ASSUME NEW r \in Request, Answer(r), Awaited(r) PROVE CacheInv'
  <2> DEFINE g == r[1]
  <2>1. Idle.pc = "idle"
    BY DEF Idle
  <2>2. /\ UNCHANGED <<access, expiry, grant, life>> /\ call[g].pc # "cached"
        /\ call' = [call EXCEPT ![g] = Idle] /\ g \in Caller
    BY <1>15 DEF Answer, Awaited, At, tokenVars, Request
  <2> HIDE DEF g
  <2> QED
    BY <1>8, <2>1, <2>2
<1>16. CASE UNCHANGED <<tokenVars, call>>
  BY <1>16 DEF tokenVars, CacheInv, Writing
<1> QED
  BY <1>1, <1>2, <1>4, <1>5, <1>6, <1>7, <1>9, <1>10, <1>11, <1>12, <1>13, <1>14, <1>15, <1>16
  DEF Next, NodeNext, TokenNext, ServerNext, vars, nodeVars, Cleanup,
      Lookup, InitSession, SetSession, Command, Direct, Answer, MapFault

LEMMA CacheIsTrue == TypeOK /\ CacheInv => (access # 0 => life[expiry] <= life[access])
<1> SUFFICES ASSUME TypeOK, CacheInv, access # 0 PROVE life[expiry] <= life[access]
  OBVIOUS
<1>0. CallsOK /\ StoreOK
  BY TypeParts
<1> USE <1>0, TokenAssumption DEF CallsOK, StoreOK, Call
<1>1. CASE access = expiry
  BY <1>1
<1>2. CASE access # expiry
  <2>1. PICK g \in Caller : call[g].pc = "cached"
    BY <1>2 DEF CacheInv
  <2>2. access = grant /\ life[grant] >= TokenLife - call[g].age /\ call[g].age <= Delay
    BY <2>1 DEF CacheInv, Writing
  <2>3. CASE expiry = 0
    BY <2>2, <2>3, SMTT(30) DEF CacheInv
  <2>4. CASE expiry # 0
    BY <2>2, <2>4 DEF CacheInv
  <2> QED
    BY <2>3, <2>4
<1> QED
  BY <1>1, <1>2

\* Without a lock, the two fields never make a token appear to be valid for
\* longer than it is, and one goroutine at a time writes them.
THEOREM CacheIsNeverAhead == Spec => []CacheNeverOverstates
<1>1. TypeOK /\ GrantInv /\ CacheInv => CacheNeverOverstates
  BY CacheIsTrue DEF CacheNeverOverstates, GrantInv
<1> QED
  BY InitType, NextType, InitGrant, NextGrant, InitCache, NextCache, <1>1, PTL DEF Spec
-----------------------------------------------------------------------------
(***************************************************************************)
(* How much is left of a token on its way: what it had when it was chosen, *)
(* less its age, and in a session less the session's.                      *)
(***************************************************************************)
CallGood(c, l) == c.pc \in {"ready", "sent"} /\ c.tok # 0 => l[c.tok] > Lead - c.age

HandlerGood(h, l) ==
    /\ h.pc \in {"lookup", "init", "set", "direct"} => h.tok # 0 /\ l[h.tok] > Lead - h.age
    /\ h.pc = "command" => h.tok # 0 /\ l[h.tok] > -Delay

SessionGood(x, l) == x.age < SessionLife => x.tok # 0 /\ l[x.tok] > Lead - Delay - x.age

GoodInv ==
    /\ \A g \in Caller : call[g].tok <= grant /\ CallGood(call[g], life)
    /\ \A r \in Request : handler[r].tok <= grant /\ HandlerGood(handler[r], life)
    /\ session.tok <= grant /\ SessionGood(session, life)

LEMMA InitGood == Init => GoodInv
<1> SUFFICES ASSUME Init PROVE GoodInv
  OBVIOUS
<1>1. /\ \A g \in Caller : call[g].pc = "idle" /\ call[g].tok = 0
      /\ \A r \in Request : handler[r].pc = "none" /\ handler[r].tok = 0
  BY DEF Init, TokenInit, Idle, NoHandler
<1>2. session.tok = 0 /\ session.age = SessionLife /\ grant = 0
  BY DEF Init, TokenInit, NoSession
<1> QED
  BY <1>1, <1>2, SessionAssumption DEF GoodInv, CallGood, HandlerGood, SessionGood

LEMMA NextGood ==
  ASSUME SessionLife <= Lead + 1
  PROVE  TypeOK /\ GrantInv /\ CacheInv /\ GoodInv /\ [Next]_vars => GoodInv'
<1> SUFFICES ASSUME TypeOK, GrantInv, CacheInv, GoodInv, [Next]_vars PROVE GoodInv'
  OBVIOUS
<1>0. CallsOK /\ StoreOK /\ HandlersOK /\ ServerOK
  BY TypeParts
<1>t. /\ \A g \in Caller : call[g] \in Call
      /\ \A r \in Request : handler[r] \in Handler
      /\ session \in Session /\ grant \in Token /\ grant \in Nat /\ 0 <= grant
      /\ \A k \in Token : life[k] \in Int /\ life[k] >= -Delay
  BY <1>0, FloorIsLow, TokenAssumption DEF CallsOK, HandlersOK, ServerOK, StoreOK
<1> USE TokenAssumption, SessionAssumption
<1>1. CASE Minute
  <2>1. UNCHANGED grant /\ session' = [session EXCEPT !.age = IF @ < SessionLife THEN @ + 1 ELSE @]
    BY <1>1 DEF Minute
  <2>2. \A k \in Token : life'[k] >= life[k] - 1 /\ life'[k] \in Int
    BY <1>1, <1>t, MinuteLife, FloorIsLow DEF Minute
  <2>3. ASSUME NEW g \in Caller
        PROVE  /\ CallGood(call'[g], life') /\ call'[g].tok <= grant
    <3>1. CASE call[g].pc \in {"ready", "sent"} /\ call[g].tok # 0
      <4>1. /\ call'[g].age = call[g].age + 1 /\ call'[g].tok = call[g].tok
            /\ call'[g].pc = call[g].pc
        BY <1>1, <3>1, MinuteAges
      <4>2. life[call[g].tok] > Lead - call[g].age /\ call[g].tok \in Token /\ call[g].age \in Nat
        BY <1>t, <3>1 DEF GoodInv, CallGood, Call
      <4> QED
        BY <1>t, <2>2, <3>1, <4>1, <4>2 DEF GoodInv, CallGood
    <3>2. CASE ~(call[g].pc \in {"ready", "sent"} /\ call[g].tok # 0)
      BY <1>1, <3>2, MinuteAges DEF GoodInv, CallGood
    <3> QED
      BY <3>1, <3>2
  <2>4. ASSUME NEW r \in Request
        PROVE  HandlerGood(handler'[r], life') /\ handler'[r].tok <= grant
    <3>1. /\ handler'[r].tok = handler[r].tok /\ handler'[r].pc = handler[r].pc
          /\ handler[r].pc # "command"
      BY <1>1, MinuteHandlers
    <3>2. CASE handler[r].pc \in {"lookup", "init", "set", "direct"}
      <4>1. /\ handler[r].tok # 0 /\ life[handler[r].tok] > Lead - handler[r].age
            /\ handler[r].tok \in Token /\ handler[r].age \in Nat
        BY <1>t, <3>2 DEF GoodInv, HandlerGood, Handler
      <4>2. handler'[r].age = handler[r].age + 1
        BY <1>1, <3>2, <4>1, MinuteHandlers
      <4> QED
        BY <1>t, <2>2, <3>1, <4>1, <4>2 DEF GoodInv, HandlerGood
    <3>3. CASE handler[r].pc \notin {"lookup", "init", "set", "direct"}
      BY <3>1, <3>3 DEF GoodInv, HandlerGood
    <3> QED
      BY <3>2, <3>3
  <2>5. SessionGood(session', life') /\ session'.tok <= grant
    <3>1. session'.tok = session.tok
          /\ session'.age = IF session.age < SessionLife THEN session.age + 1 ELSE session.age
      BY <1>t, <2>1 DEF Session
    <3>2. session.tok \in Token /\ session.age \in Nat
      BY <1>t DEF Session
    <3> QED
      BY <1>t, <2>2, <3>1, <3>2 DEF GoodInv, SessionGood
  <2> QED
    BY <2>1, <2>3, <2>4, <2>5 DEF GoodInv
<1>2. CASE Restart
  <2>1. UNCHANGED <<grant, life, handler, session>> /\ \A g \in Caller : call'[g] = Idle
    BY <1>2 DEF Restart, NodeRestart, serverVars
  <2>2. Idle.pc = "idle" /\ Idle.tok = 0
    BY DEF Idle
  <2> QED
    BY <1>t, <2>1, <2>2 DEF GoodInv, CallGood
\* A goroutine's step.
<1>3. ASSUME NEW g \in Caller, NEW c, call' = [call EXCEPT ![g] = c],
             UNCHANGED <<grant, life, session, handler>>,
             c.tok <= grant, CallGood(c, life)
      PROVE  GoodInv'
  <2>1. \A h \in Caller : call'[h] = IF h = g THEN c ELSE call[h]
    BY <1>0, <1>3 DEF CallsOK
  <2> QED
    BY <1>3, <2>1 DEF GoodInv
<1>4. ASSUME NEW g \in Caller, Granted(g), UNCHANGED serverVars,
             NEW c, call' = [call EXCEPT ![g] = c],
             c.tok = 0 \/ (c.pc = "granted" /\ c.tok = grant + 1)
      PROVE  GoodInv'
  <2>1. \A h \in Caller : call'[h] = IF h = g THEN c ELSE call[h]
    BY <1>0, <1>4 DEF CallsOK
  <2>2. /\ grant' = grant + 1
        /\ \A k \in Token : k <= grant => life'[k] = life[k]
    BY <1>0, <1>t, <1>4 DEF Granted, StoreOK
  <2>3. /\ \A h \in Caller : call[h].tok \in Token
        /\ \A r \in Request : handler[r].tok \in Token
        /\ session.tok \in Token
    BY <1>t DEF Call, Handler, Session
  <2>4. /\ \A h \in Caller : CallGood(call[h], life')
        /\ \A r \in Request : HandlerGood(handler[r], life')
    BY <2>2, <2>3 DEF GoodInv, CallGood, HandlerGood
  <2>5. SessionGood(session, life')
    BY <2>2, <2>3 DEF GoodInv, SessionGood
  <2>6. CallGood(c, life')
    BY <1>4 DEF CallGood
  <2>8. c.tok <= grant + 1
    BY <1>t, <1>4
  <2>7. UNCHANGED <<handler, session>>
    BY <1>4 DEF serverVars
  <2> QED
    BY <1>4, <1>t, <2>1, <2>2, <2>3, <2>4, <2>5, <2>6, <2>7, <2>8 DEF GoodInv
<1>5. ASSUME NEW g \in Caller, TokenNext(g), UNCHANGED serverVars PROVE GoodInv'
  <2>1. UNCHANGED <<session, handler>> /\ call[g] \in Call /\ call[g].tok <= grant
    BY <1>5, <1>t DEF serverVars, GoodInv
  <2>2. CASE ReadSetting(g)
    <3> DEFINE c == [call[g] EXCEPT !.pc = "asking", !.with = stored]
    <3>1. c.pc = "asking" /\ c.tok = call[g].tok
      BY <2>1 DEF Call
    <3>2. UNCHANGED <<grant, life>> /\ call' = [call EXCEPT ![g] = c]
      BY <2>2 DEF ReadSetting, tokenVars
    <3> HIDE DEF c
    <3> QED
      BY <1>3, <2>1, <3>1, <3>2 DEF CallGood
  <2>3. CASE Refreshed(g)
    <3> DEFINE c == [call[g] EXCEPT !.pc = "granted", !.tok = grant + 1, !.with = 0]
    <3>1. c.pc = "granted" /\ c.tok = grant + 1
      BY <2>1 DEF Call
    <3>2. Granted(g) /\ call' = [call EXCEPT ![g] = c]
      BY <2>3 DEF Refreshed
    <3> HIDE DEF c
    <3> QED
      BY <1>t, <1>4, <1>5, <3>1, <3>2
  <2>4. CASE AnswerLost(g)
    <3> DEFINE c == [call[g] EXCEPT !.pc = "ready", !.with = 0]
    <3>1. c.tok = 0 /\ c.pc = "ready"
      BY <2>1, <2>4 DEF Call, AnswerLost, Granted, At, CacheInv
    <3>2. Granted(g) /\ call' = [call EXCEPT ![g] = c]
      BY <2>4 DEF AnswerLost, WithoutToken
    <3> HIDE DEF c
    <3> QED
      BY <1>t, <1>4, <1>5, <3>1, <3>2
  <2>5. CASE Refused(g) \/ AuthUnreachable(g)
    <3> DEFINE c == [call[g] EXCEPT !.pc = "ready", !.with = 0]
    <3>1. c.tok = 0 /\ c.pc = "ready"
      BY <2>1, <2>5 DEF Call, Refused, AuthUnreachable, At, CacheInv
    <3>2. UNCHANGED <<grant, life>> /\ call' = [call EXCEPT ![g] = c]
      BY <2>5 DEF Refused, AuthUnreachable, WithoutToken, tokenVars
    <3>3. c.tok <= grant /\ CallGood(c, life)
      BY <1>t, <3>1 DEF CallGood
    <3> HIDE DEF c
    <3> QED
      BY <1>3, <2>1, <3>2, <3>3
  <2>6. CASE CacheToken(g) \/ CacheExpiry(g)
    <3>1. PICK pc \in {"cached", "dated"} : call' = [call EXCEPT ![g].pc = pc]
      BY <2>6 DEF CacheToken, CacheExpiry
    <3> DEFINE c == [call[g] EXCEPT !.pc = pc]
    <3>2. c.pc = pc /\ c.tok = call[g].tok
      BY <2>1 DEF Call
    <3>3. UNCHANGED <<grant, life>> /\ call' = [call EXCEPT ![g] = c]
      BY <2>6, <3>1 DEF CacheToken, CacheExpiry
    <3> HIDE DEF c
    <3> QED
      BY <1>3, <2>1, <3>2, <3>3 DEF CallGood
  <2>7. CASE StoreRefreshToken(g)
    <3> DEFINE c == [call[g] EXCEPT !.pc = "ready"]
    <3>1. c.tok = call[g].tok /\ c.age = call[g].age /\ c.pc = "ready"
      BY <2>1 DEF Call
    <3>2. UNCHANGED <<grant, life>> /\ call' = [call EXCEPT ![g] = c] /\ Writing(g)
      BY <2>7 DEF StoreRefreshToken, At, Writing
    <3>3. life[grant] >= TokenLife - call[g].age /\ call[g].tok = grant /\ call[g].age \in Nat
      BY <2>1, <3>2 DEF CacheInv, GrantInv, Call
    <3>4. CallGood(c, life)
      BY <1>t, <3>1, <3>3 DEF CallGood
    <3> HIDE DEF c
    <3> QED
      BY <1>3, <2>1, <3>1, <3>2, <3>4
  <2> QED
    BY <1>5, <2>2, <2>3, <2>4, <2>5, <2>6, <2>7 DEF TokenNext
<1>6. ASSUME NEW g \in Caller, BeginCall(g) PROVE GoodInv'
  <2>1. PICK k \in {"command", "direct"}, pc \in {"ready", "expired"}, t \in Token :
           /\ call' = [call EXCEPT ![g] = [Idle EXCEPT !.pc = pc, !.tok = t, !.kind = k]]
           /\ t # 0 => Cached /\ t = access
    BY <1>0, <1>6, BeginChoice DEF BeginCall
  <2> DEFINE c == [Idle EXCEPT !.pc = pc, !.tok = t, !.kind = k]
  <2>2. c.tok = t /\ c.age = 0 /\ c.pc = pc
    BY DEF Idle
  <2>3. call' = [call EXCEPT ![g] = c]
    BY <2>1
  <2>4. UNCHANGED <<grant, life, session, handler>>
    BY <1>6 DEF BeginCall, Begin, tokenVars
  <2>5. t # 0 => life[t] > Lead /\ t <= grant
    BY <1>0, <1>t, <2>1, CacheIsTrue, SMTT(30) DEF Cached, CacheInv, StoreOK
  <2>6. CallGood(c, life) /\ t <= grant
    BY <1>t, <2>2, <2>5 DEF CallGood
  <2> HIDE DEF c
  <2> QED
    BY <1>3, <2>2, <2>3, <2>4, <2>6
<1>7. ASSUME NEW g \in Caller, TryFails(g) \/ Timeout(g) PROVE GoodInv'
  <2> DEFINE c == call[g]
  <2>1. /\ UNCHANGED <<grant, life, session, handler>>
        /\ call' = [call EXCEPT ![g] = Failed(g)]
        /\ c.pc \in {"ready", "sent"}
    BY <1>7 DEF TryFails, Timeout, At, tokenVars, serverVars
  <2>2. c \in Call /\ c.tok <= grant /\ CallGood(c, life)
    BY <1>t DEF GoodInv
  <2>3. CASE c.try = MaxTries[g]
    <3>1. Failed(g).pc = "idle" /\ Failed(g).tok = 0
      BY <2>3 DEF Failed, After, Idle
    <3> QED
      BY <1>t, <1>3, <2>1, <3>1 DEF CallGood
  <2>4. CASE c.try # MaxTries[g]
    <3> DEFINE d == [c EXCEPT !.pc = "ready", !.try = @ + 1]
    <3>1. d.pc = "ready" /\ d.tok = c.tok /\ d.age = c.age
      BY <2>2 DEF Call
    <3>2. Failed(g) = d
      BY <2>4 DEF Failed, After
    <3>3. CallGood(d, life)
      BY <2>1, <2>2, <3>1 DEF CallGood
    <3> HIDE DEF c, d
    <3> QED
      BY <1>3, <2>1, <2>2, <3>1, <3>2, <3>3
  <2> QED
    BY <2>3, <2>4
<1>8. ASSUME NEW r \in Request, Answer(r) PROVE GoodInv'
  <2>1. UNCHANGED <<grant, life, session>>
    BY <1>8 DEF Answer, tokenVars
  <2>2. /\ Idle.pc = "idle" /\ Idle.tok = 0
        /\ NoHandler.pc = "none" /\ NoHandler.tok = 0
    BY DEF Idle, NoHandler
  <2>3. \A h \in Caller : call'[h] = call[h] \/ call'[h] = Idle
    BY <1>0, <1>8 DEF Answer, CallsOK
  <2>4. \A q \in Request : handler'[q] = IF q = r THEN NoHandler ELSE handler[q]
    BY <1>0, <1>8 DEF Answer, HandlersOK
  <2>5. ASSUME NEW h \in Caller
        PROVE  CallGood(call'[h], life) /\ call'[h].tok <= grant
    BY <1>t, <2>2, <2>3 DEF GoodInv, CallGood
  <2>6. ASSUME NEW q \in Request
        PROVE  HandlerGood(handler'[q], life) /\ handler'[q].tok <= grant
    BY <1>t, <2>2, <2>4 DEF GoodInv, HandlerGood
  <2> QED
    BY <2>1, <2>5, <2>6 DEF GoodInv
<1>9. ASSUME NEW g \in Caller, Deliver(g) PROVE GoodInv'
  <2> DEFINE c == [call[g] EXCEPT !.pc = "sent", !.body = FALSE]
  <2>1. c.pc = "sent" /\ c.tok = call[g].tok /\ c.age = call[g].age
    BY <1>t DEF Call
  <2>2. call' = [call EXCEPT ![g] = c] /\ UNCHANGED <<grant, life, session>>
    BY <1>9 DEF Deliver, tokenVars
  <2>3. \A h \in Caller : call'[h] = IF h = g THEN c ELSE call[h]
    BY <1>0, <2>2 DEF CallsOK
  <2>6. call[g].pc = "ready"
    BY <1>9 DEF Deliver, At
  <2>4. CallGood(c, life) /\ c.tok <= grant
    BY <2>1, <2>6 DEF CallGood, GoodInv
  <2>5. \A r \in Request : handler'[r] = IF r = RequestOf(g) THEN Authenticated(call[g]) ELSE handler[r]
    BY <1>0, <1>9 DEF Deliver, HandlersOK
  <2>7. HandlerGood(Authenticated(call[g]), life) /\ Authenticated(call[g]).tok <= grant
    BY <1>t, <2>6 DEF Authenticated, NoHandler, HandlerGood, GoodInv, CallGood
  <2> HIDE DEF c
  <2> QED
    BY <2>2, <2>3, <2>4, <2>5, <2>7 DEF GoodInv
\* A handler's step.
<1>10. ASSUME NEW r \in Request, NEW h, handler' = [handler EXCEPT ![r] = h],
              UNCHANGED <<grant, life, session, call>>,
              h.tok <= grant, HandlerGood(h, life)
       PROVE  GoodInv'
  <2>1. \A q \in Request : handler'[q] = IF q = r THEN h ELSE handler[q]
    BY <1>0, <1>10 DEF HandlersOK
  <2> QED
    BY <1>10, <2>1 DEF GoodInv
<1>11. ASSUME NEW r \in Request, Done(r), UNCHANGED <<grant, life, session, call>> PROVE GoodInv'
  <2> DEFINE h == [NoHandler EXCEPT !.pc = "answer"]
  <2>1. h.pc = "answer" /\ h.tok = 0
    BY DEF NoHandler
  <2>2. handler' = [handler EXCEPT ![r] = h]
    BY <1>11 DEF Done
  <2>3. h.tok <= grant /\ HandlerGood(h, life)
    BY <1>t, <2>1 DEF HandlerGood
  <2> HIDE DEF h
  <2> QED
    BY <1>10, <1>11, <2>2, <2>3
<1>12. ASSUME NEW r \in Request, Lookup(r) PROVE GoodInv'
  <2> DEFINE x == handler[r]
  <2>1. /\ x \in Handler /\ x.pc = "lookup" /\ x.tok <= grant
        /\ x.tok # 0 /\ life[x.tok] > Lead - x.age
    BY <1>12, <1>t DEF Lookup, HandlerAt, GoodInv, HandlerGood
  <2>2. UNCHANGED <<grant, life, session, call>>
    BY <1>12 DEF Lookup, nodeVars, tokenVars
  <2>3. CASE Hit
    <3> DEFINE h == [x EXCEPT !.pc = "command", !.tok = session.tok]
    <3>1. handler' = [handler EXCEPT ![r] = h]
      BY <1>12, <2>3 DEF Lookup
    <3>2. h.pc = "command" /\ h.tok = session.tok
      BY <2>1 DEF Handler
    <3>3. /\ session.tok # 0 /\ session.tok <= grant /\ session.tok \in Token
          /\ life[session.tok] > Lead - Delay - session.age
          /\ session.age \in Nat /\ session.age < SessionLife
      BY <1>t, <2>3 DEF Hit, GoodInv, SessionGood, Session
    <3>4. life[session.tok] > -Delay
      BY <1>t, <3>3
    <3>5. h.tok <= grant /\ HandlerGood(h, life)
      BY <3>2, <3>3, <3>4 DEF HandlerGood
    <3> HIDE DEF h
    <3> QED
      BY <1>10, <2>2, <3>1, <3>5
  <2>4. CASE ~Hit
    <3> DEFINE h == [x EXCEPT !.pc = "init", !.tok = x.tok]
    <3>1. handler' = [handler EXCEPT ![r] = h]
      BY <1>12, <2>4 DEF Lookup
    <3>2. h.pc = "init" /\ h.tok = x.tok /\ h.age = x.age
      BY <2>1 DEF Handler
    <3>3. h.tok <= grant /\ HandlerGood(h, life)
      BY <2>1, <3>2 DEF HandlerGood
    <3> HIDE DEF h
    <3> QED
      BY <1>10, <2>2, <3>1, <3>3
  <2> QED
    BY <2>3, <2>4
<1>13. ASSUME NEW r \in Request, InitSession(r) PROVE GoodInv'
  <2>1. UNCHANGED <<grant, life, session, call>>
    BY <1>13 DEF InitSession, nodeVars, tokenVars
  <2>2. CASE To(r, "set")
    <3> DEFINE h == [handler[r] EXCEPT !.pc = "set"]
    <3>1. handler[r] \in Handler /\ handler[r].pc = "init"
      BY <1>13, <1>t DEF InitSession, HandlerAt
    <3>2. h.pc = "set" /\ h.tok = handler[r].tok /\ h.age = handler[r].age
      BY <3>1 DEF Handler
    <3>3. h.tok <= grant /\ HandlerGood(h, life)
      BY <3>1, <3>2 DEF HandlerGood, GoodInv
    <3>4. handler' = [handler EXCEPT ![r] = h]
      BY <2>2 DEF To
    <3> HIDE DEF h
    <3> QED
      BY <1>10, <2>1, <3>3, <3>4
  <2>3. CASE Done(r)
    BY <1>11, <2>1, <2>3
  <2> QED
    BY <1>13, <2>2, <2>3 DEF InitSession
<1>14. ASSUME NEW r \in Request, SetSession(r) PROVE GoodInv'
  <2> DEFINE x == handler[r]
           h == [x EXCEPT !.pc = "command"]
  <2>1. /\ x \in Handler /\ x.tok # 0 /\ x.tok <= grant /\ life[x.tok] > Lead - x.age
        /\ x.tok \in Token /\ x.age \in 0..Delay
    BY <1>14, <1>t DEF SetSession, HandlerAt, GoodInv, HandlerGood, Handler
  <2>2. /\ UNCHANGED <<grant, life, call>> /\ handler' = [handler EXCEPT ![r] = h]
        /\ session' = [tok |-> x.tok, age |-> 0]
    BY <1>14 DEF SetSession, To, nodeVars, tokenVars
  <2>3. h.pc = "command" /\ h.tok = x.tok
    BY <2>1 DEF Handler
  <2>4. life[x.tok] > Lead - Delay /\ life[x.tok] > -Delay
    BY <1>t, <2>1
  <2>5. SessionGood(session', life) /\ session'.tok <= grant
    BY <2>1, <2>2, <2>4 DEF SessionGood
  <2>6. HandlerGood(h, life)
    BY <2>1, <2>3, <2>4 DEF HandlerGood
  <2>7. \A q \in Request : handler'[q] = IF q = r THEN h ELSE handler[q]
    BY <1>0, <2>2 DEF HandlersOK
  <2> HIDE DEF h, x
  <2> QED
    BY <2>1, <2>2, <2>3, <2>5, <2>6, <2>7 DEF GoodInv
<1>15. ASSUME NEW r \in Request, Command(r) \/ Direct(r) PROVE GoodInv'
  BY <1>11, <1>15 DEF Command, Direct, nodeVars, tokenVars
<1>16. ASSUME NEW r \in Request, MapFault(r) PROVE GoodInv'
  <2>1. /\ UNCHANGED <<grant, life, call>> /\ session' = NoSession
        /\ \A q \in Request : handler'[q] = NoHandler
    BY <1>16 DEF MapFault, nodeVars, tokenVars
  <2>2. /\ NoHandler.pc = "none" /\ NoHandler.tok = 0
        /\ NoSession.tok = 0 /\ NoSession.age = SessionLife
    BY DEF NoHandler, NoSession
  <2> QED
    BY <1>t, <2>1, <2>2 DEF GoodInv, HandlerGood, SessionGood
<1>17. CASE Cleanup
  <2>1. UNCHANGED <<grant, life, call, handler>> /\ session' = NoSession
    BY <1>17 DEF Cleanup, nodeVars, tokenVars
  <2>2. NoSession.tok = 0 /\ NoSession.age = SessionLife
    BY DEF NoSession
  <2> QED
    BY <1>t, <2>1, <2>2 DEF GoodInv, SessionGood
<1>18. CASE UNCHANGED vars
  BY <1>18 DEF vars, nodeVars, tokenVars, serverVars, GoodInv
<1> QED
  BY <1>1, <1>2, <1>5, <1>6, <1>7, <1>8, <1>9, <1>12, <1>13, <1>14, <1>15, <1>16, <1>17, <1>18
  DEF Next, NodeNext, ServerNext

\* If the server keeps a session no longer than the node's lead plus a minute
\* (five minutes both), every token is good when it is used: valid where a
\* session begins or Tesla is asked directly, and expired for less than a call
\* takes in a command.
THEOREM TokensInUseAreGood ==
  ASSUME SessionLife <= Lead + 1
  PROVE  Spec => []TokenStillGood
<1>1. TypeOK /\ GoodInv => TokenStillGood
  <2> SUFFICES ASSUME TypeOK, GoodInv, NEW r \in Request
               PROVE  /\ handler[r].pc \in {"direct", "init"} => life[handler[r].tok] > 0
                      /\ HandlerAt(r, "command") => life[handler[r].tok] > -Delay
    BY DEF TokenStillGood
  <2>1. handler[r] \in Handler /\ \A k \in Token : life[k] \in Int
    BY TypeParts, FloorIsLow DEF HandlersOK, StoreOK
  <2>2. HandlerGood(handler[r], life)
    BY DEF GoodInv
  <2> QED
    BY <2>1, <2>2, TokenAssumption DEF HandlerGood, HandlerAt, Handler
<1> QED
  BY InitType, NextType, InitGrant, NextGrant, InitCache, NextCache, InitGood, NextGood, <1>1, PTL
  DEF Spec
=============================================================================
