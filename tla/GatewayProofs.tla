--------------------------- MODULE GatewayProofs ---------------------------
(***************************************************************************)
(* Theorems about Gateway, for any number of calls, accounts and tokens.    *)
(***************************************************************************)
EXTENDS Gateway, FiniteSetTheorems, TLAPS

-----------------------------------------------------------------------------
\* Calls.

\* The call of an idle slot is a call.
LEMMA NoCallType == NoCall \in Calls /\ NoCall.at = 0 /\ NoCall.via = "http"
<1>1. (CHOOSE e \in Emails : TRUE) \in Emails
  BY GatewayAssumption
<1>2. (CHOOSE p \in Passwords : TRUE) \in Passwords
  BY GatewayAssumption
<1> QED
  BY <1>1, <1>2 DEF NoCall, Calls, Transports, Methods

\* When a slot becomes idle, no slot has a call from the future.
LEMMA IdleCall ==
    ASSUME NEW s \in Slots, call'[s] = NoCall, \A t \in Slots \ {s} : call'[t] = call[t],
           now \in Nat, now' = now, \A t \in Slots : call[t].at <= now
    PROVE  \A t \in Slots : call'[t].at <= now'
BY NoCallType

\* What clients send are calls that are made now, with the tokens there are.
LEMMA RequestType ==
    ASSUME tokens \in SUBSET Tokens, now \in Nat, NEW c \in Requests
    PROVE  c \in Calls /\ c.at <= now
<1>1. \A v \in Transports, m \in Methods : Plain(v, m) \in Calls /\ Plain(v, m).at = 0
  BY NoCallType DEF Calls, Plain
<1>2. \A v \in Transports, t \in tokens \cup {NoToken} : Bearer(v, t) \in Calls /\ Bearer(v, t).at = now
  <2>1. \A d \in Calls, t \in tokens \cup {NoToken} :
            [d EXCEPT !.token = t, !.at = now] \in Calls /\ [d EXCEPT !.token = t, !.at = now].at = now
    BY DEF Calls
  <2>2. \A v \in Transports : Plain(v, "orders") \in Calls
    BY <1>1 DEF Methods
  <2> QED
    BY <2>1, <2>2, Zenon DEF Bearer
<1>3. \A v \in Transports, m \in Methods, e \in Emails, p \in Passwords :
          Named(v, m, e, p) \in Calls /\ Named(v, m, e, p).at = 0
  <2>1. \A d \in Calls, e \in Emails, p \in Passwords :
            /\ [d EXCEPT !.email = e, !.password = p] \in Calls
            /\ d.at = 0 => [d EXCEPT !.email = e, !.password = p].at = 0
    BY DEF Calls
  <2> QED
    BY <1>1, <2>1, Zenon DEF Named
<1>4. CASE c = Plain("http", "public") \/ c = Plain("http", "unmatched")
  BY <1>1, <1>4 DEF Transports, Methods
<1>5. CASE \E v \in Transports, t \in tokens \cup {NoToken} : c = Bearer(v, t)
  BY <1>2, <1>5
<1>6. CASE \E v \in Transports, m \in {"signup", "login"}, e \in Emails, p \in Passwords :
               c = Named(v, m, e, p)
  BY <1>3, <1>6 DEF Methods
<1> QED
  BY <1>4, <1>5, <1>6 DEF Requests

\* The sets that are counted are finite.
LEMMA FiniteCalls ==
    ASSUME audited \in SUBSET Slots
    PROVE  /\ IsFiniteSet(GrpcCalls) /\ Cardinality(GrpcCalls) \in Nat
           /\ IsFiniteSet(audited) /\ Cardinality(audited) \in Nat
           /\ IsFiniteSet(CountedTwice) /\ Cardinality(CountedTwice) \in Nat
<1>1. IsFiniteSet(GrpcCalls) /\ IsFiniteSet(audited) /\ IsFiniteSet(CountedTwice)
  BY FS_Subset, GatewayAssumption DEF GrpcCalls, CountedTwice
<1> QED
  BY <1>1, FS_CardinalityType

\* A request is counted by as many layers as will count its response.
LEMMA Counted ==
    ASSUME IInv, NEW s \in Slots, s \notin audited, NEW c \in Calls, call'[s] = c,
           \A t \in Slots \ {s} : call'[t].method = call[t].method,
           CountRequest(s, c), panics' = panics
    PROVE  CountersBalance' /\ open' \in Nat
<1>1. /\ audited' = audited \cup {s} /\ open' = open + AuditLayers(c)
      /\ open = Cardinality(audited) + Cardinality(CountedTwice) + panics
      /\ audited \in SUBSET Slots /\ panics \in Nat
  BY DEF CountRequest, IInv, TypeOK, CountersBalance
<1>2. /\ s \notin CountedTwice
      /\ CountedTwice' = IF c.method = "unmatched" THEN CountedTwice \cup {s} ELSE CountedTwice
  BY <1>1 DEF CountedTwice
<1>3. /\ Cardinality(audited \cup {s}) = Cardinality(audited) + 1
      /\ Cardinality(CountedTwice \cup {s}) = Cardinality(CountedTwice) + 1
      /\ Cardinality(audited) \in Nat /\ Cardinality(CountedTwice) \in Nat
  BY <1>1, <1>2, FiniteCalls, FS_AddElement
<1> QED
  BY <1>1, <1>2, <1>3 DEF CountersBalance, AuditLayers

\* The balance of a call that goes on.
LEMMA NotCounted ==
    ASSUME IInv, \A t \in audited : call'[t].method = call[t].method, UNCHANGED <<audited, open, panics>>
    PROVE  CountersBalance' /\ open' \in Nat
<1>1. CountedTwice' = CountedTwice
  BY DEF CountedTwice
<1> QED
  BY <1>1 DEF CountersBalance, IInv, TypeOK

-----------------------------------------------------------------------------
\* The process.

\* The invariant holds initially.
LEMMA InitInv == Init => IInv
<1> SUFFICES ASSUME Init PROVE IInv
  OBVIOUS
<1>1. TypeOK
  BY NoCallType DEF Init, TypeOK, Answers
<1>2. \A s \in Slots : CallConsistent(s)
  <2>1. now = 0 /\ \A s \in Slots : call[s] = NoCall
    BY DEF Init
  <2>2. \A s \in Slots : call[s].at <= now
    BY <2>1, NoCallType
  <2> QED
    BY <2>2 DEF Init, CallConsistent
<1>3. OneCreator /\ CreatedOnce /\ TokenHolds
  <2>1. \A e \in Emails : created[e] = 0
    BY DEF Init
  <2>2. CreatedOnce
    BY <2>1 DEF CreatedOnce
  <2> QED
    BY <2>1, <2>2 DEF Init, OneCreator, Pending, TokenHolds
<1>4. GaugeExact /\ CountersBalance
  <2>1. Cardinality({}) = 0
    BY FS_EmptySet
  <2>2. audited = {} /\ open = 0 /\ panics = 0 /\ inFlight = 0
    BY DEF Init
  <2>3. GrpcCalls = {} /\ CountedTwice = {}
    BY <2>2 DEF Init, GrpcCalls, CountedTwice
  <2> QED
    BY <2>1, <2>2, <2>3 DEF GaugeExact, CountersBalance
<1> QED
  BY <1>1, <1>2, <1>3, <1>4 DEF IInv

\* A new process: what is in memory is gone, accounts and tokens stay.
LEMMA FreshInv ==
    ASSUME IInv, Fresh, UNCHANGED <<users, tokens, now, created>>
    PROVE  IInv'
<1>1. TypeOK'
  BY NoCallType DEF Fresh, IInv, TypeOK, Answers
<1>2. \A s \in Slots : CallConsistent(s)'
  <2>1. now' \in Nat /\ \A s \in Slots : call'[s] = NoCall
    BY DEF Fresh, IInv, TypeOK
  <2>2. \A s \in Slots : call'[s].at <= now'
    BY <2>1, NoCallType
  <2> QED
    BY <2>2 DEF Fresh, CallConsistent
<1>3. OneCreator' /\ CreatedOnce' /\ TokenHolds'
  BY DEF Fresh, IInv, OneCreator, Pending, CreatedOnce, TokenHolds
<1>4. GaugeExact' /\ CountersBalance'
  <2>1. Cardinality({}) = 0
    BY FS_EmptySet
  <2>2. audited' = {} /\ open' = 0 /\ panics' = 0 /\ inFlight' = 0
    BY DEF Fresh
  <2>3. GrpcCalls' = {} /\ CountedTwice' = {}
    BY <2>2 DEF Fresh, GrpcCalls, CountedTwice
  <2> QED
    BY <2>1, <2>2, <2>3 DEF GaugeExact, CountersBalance
<1> QED
  BY <1>1, <1>2, <1>3, <1>4 DEF IInv

\* A signal changes nothing for the calls.
LEMMA InterruptInv == IInv /\ Interrupt => IInv'
<1> SUFFICES ASSUME IInv, Interrupt PROVE IInv'
  OBVIOUS
<1> USE DEF Interrupt, IInv
<1>1. TypeOK' /\ \A s \in Slots : CallConsistent(s)'
  BY DEF TypeOK, CallConsistent
<1>2. OneCreator' /\ CreatedOnce' /\ TokenHolds'
  BY DEF OneCreator, Pending, CreatedOnce, TokenHolds
<1>3. GaugeExact' /\ CountersBalance'
  BY DEF GaugeExact, CountersBalance, GrpcCalls, CountedTwice
<1> QED
  BY <1>1, <1>2, <1>3

\* Time passes: a call does not become younger, and a handler that runs goes on.
LEMMA ClockInv ==
    ASSUME IInv, UNCHANGED <<users, tokens, process, created>>, now' \in Nat, now' >= now
    PROVE  IInv'
<1> USE DEF process, IInv
<1>1. TypeOK' /\ \A s \in Slots : CallConsistent(s)'
  <2>1. now \in Nat /\ call' = call /\ \A s \in Slots : call[s].at \in Nat /\ call[s].at <= now
    BY DEF TypeOK, CallConsistent, Calls
  <2>2. \A s \in Slots : call'[s].at <= now'
    BY <2>1
  <2> QED
    BY <2>2 DEF TypeOK, CallConsistent
<1>2. OneCreator' /\ CreatedOnce' /\ TokenHolds'
  BY DEF OneCreator, Pending, CreatedOnce, TokenHolds
<1>3. GaugeExact' /\ CountersBalance'
  BY DEF GaugeExact, CountersBalance, GrpcCalls, CountedTwice
<1> QED
  BY <1>1, <1>2, <1>3

-----------------------------------------------------------------------------
\* On the way in.

\* A new call is counted once, in each of the two ways.
LEMMA ArriveInv ==
    ASSUME IInv, NEW s \in Slots, NEW c \in Requests, Arrive(s, c)
    PROVE  IInv'
<1>1. c \in Calls /\ c.at <= now
  BY RequestType DEF IInv, TypeOK
<1>2. s \notin audited /\ s \notin GrpcCalls /\ answer[s] = ""
  BY DEF Arrive, IInv, CallConsistent, GrpcCalls
<1>3. /\ pc' \in [Slots -> {"idle", "auth", "handler", "create", "leave"}]
      /\ call' \in [Slots -> Calls]
      /\ pc'[s] \in {"auth", "handler"} /\ call'[s] = c
      /\ \A t \in Slots \ {s} : pc'[t] = pc[t] /\ call'[t] = call[t]
  BY <1>1 DEF Arrive, IInv, TypeOK
<1>4. GrpcCalls' = IF c.via = "grpc" THEN GrpcCalls \cup {s} ELSE GrpcCalls
  BY <1>2, <1>3 DEF GrpcCalls
<1>5. GaugeExact'
  BY <1>2, <1>4, FiniteCalls, FS_AddElement
     DEF Arrive, IInv, GaugeExact, IncRequestsInFlight, TypeOK
<1>6. \/ CountRequest(s, c)
      \/ audited' = audited /\ open' = open
  BY DEF Arrive
<1>7. CountersBalance' /\ open' \in Nat
  <2>1. \A t \in Slots \ {s} : call'[t].method = call[t].method
    BY <1>3
  <2>2. audited \in SUBSET Slots /\ panics' = panics
    BY DEF Arrive, IInv, TypeOK
  <2>3. CASE CountRequest(s, c)
    BY <1>1, <1>2, <1>3, <2>1, <2>2, <2>3, Counted
  <2>4. CASE audited' = audited /\ open' = open
    BY <1>2, <2>1, <2>2, <2>4, NotCounted
  <2> QED
    BY <1>6, <2>3, <2>4
<1>8. inFlight' \in Nat
  BY DEF Arrive, IncRequestsInFlight, IInv, TypeOK
<1>9. TypeOK'
  BY <1>3, <1>6, <1>7, <1>8 DEF Arrive, CountRequest, IInv, TypeOK
<1>10. \A t \in Slots : CallConsistent(t)'
  <2>1. \A t \in Slots : call'[t].at <= now'
    BY <1>1, <1>3 DEF Arrive, IInv, CallConsistent
  <2>2. pc'[s] = "handler" => s \in audited'
    BY DEF Arrive, CountRequest, IInv, TypeOK
  <2> QED
    BY <1>2, <1>3, <1>6, <2>1, <2>2 DEF Arrive, CountRequest, IInv, CallConsistent
<1>11. OneCreator' /\ CreatedOnce'
  <2>1. \A t \in Slots, e \in Emails : Pending(t, e)' => Pending(t, e)
    BY <1>2, <1>3 DEF Arrive, Pending
  <2> QED
    BY <2>1 DEF Arrive, IInv, OneCreator, CreatedOnce
<1>12. TokenHolds'
  <2>1. pc'[s] = "handler" => ~Protected(call'[s])
    BY <1>3 DEF Arrive, IInv, TypeOK
  <2> QED
    BY <1>3, <2>1 DEF Arrive, IInv, TokenHolds
<1> QED
  BY <1>5, <1>7, <1>9, <1>10, <1>11, <1>12 DEF IInv

\* A call goes on to step l, and changes neither its transport nor its e-mail.
LEMMA CallsInProgress ==
    ASSUME TypeOK, NEW s \in Slots, pc[s] # "idle",
           NEW l \in {"auth", "handler", "create", "leave"},
           pc' = [pc EXCEPT ![s] = l], call' = call
    PROVE  /\ GrpcCalls' = GrpcCalls
           /\ pc' \in [Slots -> {"idle", "auth", "handler", "create", "leave"}]
           /\ pc'[s] = l /\ \A t \in Slots \ {s} : pc'[t] = pc[t]
BY DEF TypeOK, GrpcCalls

\* The check of the token: a call that passes it is counted and bears a valid token.
LEMMA AuthorizeInv ==
    ASSUME IInv, NEW s \in Slots, Authorize(s)
    PROVE  IInv'
<1> USE DEF IInv
<1>1. PICK l \in {"handler", "leave"} : pc' = [pc EXCEPT ![s] = l] /\ (l = "handler" <=> Valid(call[s].token))
  BY DEF Authorize
<1>2. /\ GrpcCalls' = GrpcCalls
      /\ pc' \in [Slots -> {"idle", "auth", "handler", "create", "leave"}]
      /\ pc'[s] = l /\ \A t \in Slots \ {s} : pc'[t] = pc[t]
  BY <1>1, CallsInProgress DEF Authorize
<1>3. /\ UNCHANGED <<users, tokens, now, main, call, inFlight, panics, created>>
      /\ pc[s] = "auth" /\ (l = "handler" => s \in audited')
      /\ \/ s \notin audited /\ CountRequest(s, call[s])
         \/ audited' = audited /\ open' = open
      /\ audited' \in SUBSET Slots /\ audited' \subseteq audited \cup {s} /\ audited \subseteq audited'
      /\ answer' \in [Slots -> Answers]
      /\ \A t \in Slots \ {s} : answer'[t] = answer[t]
      /\ answer'[s] # "created" /\ (l = "handler" => answer'[s] = answer[s])
  BY <1>1 DEF Authorize, CountRequest, TypeOK, Answers, CallConsistent
<1>4. GaugeExact'
  BY <1>2, <1>3 DEF GaugeExact
<1>5. CountersBalance' /\ open' \in Nat
  <2>1. call'[s] \in Calls /\ call' = call
    BY <1>3 DEF TypeOK
  <2> QED
    BY <1>3, <2>1, Counted, NotCounted
<1>6. TypeOK'
  BY <1>2, <1>3, <1>5 DEF TypeOK
<1>7. \A t \in Slots : CallConsistent(t)'
  BY <1>2, <1>3 DEF CallConsistent
<1>8. OneCreator' /\ CreatedOnce'
  BY <1>3 DEF OneCreator, Pending, CreatedOnce
<1>9. TokenHolds'
  <2>1. l = "handler" => call[s].token \in tokens /\ call[s].at < call[s].token.exp
    <3> SUFFICES ASSUME l = "handler"
                 PROVE  call[s].token \in tokens /\ call[s].at < call[s].token.exp
      OBVIOUS
    <3>1. call[s].token \in tokens /\ now < call[s].token.exp
      BY <1>1 DEF Valid
    <3>2. call[s].at <= now /\ call[s].at \in Nat /\ now \in Nat
      BY DEF CallConsistent, TypeOK, Calls
    <3>3. call[s].token.exp \in Nat
      BY <3>1 DEF TypeOK, Tokens
    <3> QED
      BY <3>1, <3>2, <3>3
  <2> QED
    BY <1>2, <1>3, <2>1 DEF TokenHolds
<1> QED
  BY <1>4, <1>5, <1>6, <1>7, <1>8, <1>9

-----------------------------------------------------------------------------
\* Handlers.

\* A handler ends.  It may have made an account or a token; it says "created" only if
\* it is the one that made the account.
LEMMA FinishInv ==
    ASSUME IInv, NEW s \in Slots, pc[s] \in {"handler", "create"},
           NEW result \in Answers, Finish(s, result),
           users' \in [Emails -> Passwords \cup {NoUser}],
           \A e \in Emails : users[e] # NoUser => users'[e] # NoUser,
           tokens' \in SUBSET Tokens, tokens \subseteq tokens',
           \A t \in tokens' : users'[t.email] # NoUser,
           result = "created" => /\ users[call[s].email] = NoUser
                                 /\ users'[call[s].email] # NoUser
    PROVE  IInv'
<1> USE DEF Finish, IInv
<1>1. /\ GrpcCalls' = GrpcCalls
      /\ pc' \in [Slots -> {"idle", "auth", "handler", "create", "leave"}]
      /\ pc'[s] = "leave" /\ \A t \in Slots \ {s} : pc'[t] = pc[t]
  BY CallsInProgress
<1>2. GaugeExact' /\ CountersBalance'
  BY <1>1, NotCounted DEF GaugeExact
<1>3. TypeOK'
  BY <1>1 DEF TypeOK
<1>4. /\ answer'[s] = result
      /\ \A t \in Slots \ {s} : answer'[t] = answer[t]
  BY DEF TypeOK
<1>5. \A t \in Slots : CallConsistent(t)'
  BY <1>1, <1>4 DEF CallConsistent
<1>6. OneCreator' /\ CreatedOnce'
  <2>1. \A t \in Slots \ {s}, e \in Emails : Pending(t, e)' <=> Pending(t, e)
    BY <1>4 DEF Pending
  <2>2. \A e \in Emails : Pending(s, e)' => users[e] = NoUser /\ users'[e] # NoUser
    BY <1>4 DEF Pending
  <2>3. CreatedOnce'
    BY DEF CreatedOnce
  <2>4. \A e \in Emails : created'[e] = created[e] /\ created[e] \in Nat
    BY DEF TypeOK
  <2>5. ASSUME NEW e \in Emails
        PROVE  /\ users'[e] = NoUser => created'[e] = 0 /\ \A t \in Slots : ~Pending(t, e)'
               /\ created'[e] > 0 => \A t \in Slots : ~Pending(t, e)'
               /\ \A t, v \in Slots : Pending(t, e)' /\ Pending(v, e)' => t = v
    BY <2>1, <2>2, <2>4 DEF OneCreator
  <2> QED
    BY <2>3, <2>5 DEF OneCreator
<1>7. TokenHolds'
  BY <1>1 DEF TokenHolds
<1> QED
  BY <1>2, <1>3, <1>5, <1>6, <1>7

\* A handler that ends without touching accounts or tokens.
LEMMA RefuseInv ==
    ASSUME IInv, NEW s \in Slots, pc[s] \in {"handler", "create"},
           NEW result \in Answers \ {"created"}, Finish(s, result), UNCHANGED <<users, tokens>>
    PROVE  IInv'
BY FinishInv DEF IInv, TypeOK, TokenHolds

\* A signup finds no account yet, which says nothing of what comes next.
LEMMA RegisterCheckInv ==
    ASSUME IInv, NEW s \in Slots, RegisterCheck(s)
    PROVE  IInv'
<1>1. pc[s] = "handler"
  BY DEF RegisterCheck, Find, InHandler
<1>2. CASE Finish(s, "ErrUserAlreadyExists") \/ Finish(s, "ErrHashPassword")
  BY <1>1, <1>2, RefuseInv DEF RegisterCheck, Answers
<1>3. CASE /\ pc' = [pc EXCEPT ![s] = "create"]
           /\ UNCHANGED <<now, main, call, answer, audited, inFlight, open, panics, created>>
  <2> USE <1>3 DEF IInv
  <2>1. UNCHANGED <<users, tokens>>
    BY DEF RegisterCheck
  <2>2. /\ GrpcCalls' = GrpcCalls
        /\ pc' \in [Slots -> {"idle", "auth", "handler", "create", "leave"}]
        /\ pc'[s] = "create" /\ \A t \in Slots \ {s} : pc'[t] = pc[t]
    BY <1>1, CallsInProgress
  <2>3. GaugeExact' /\ CountersBalance'
    BY <2>2, NotCounted DEF GaugeExact
  <2>4. TypeOK' /\ \A t \in Slots : CallConsistent(t)'
    BY <1>1, <2>1, <2>2 DEF TypeOK, CallConsistent
  <2>5. OneCreator' /\ CreatedOnce' /\ TokenHolds'
    BY <2>1, <2>2 DEF OneCreator, Pending, CreatedOnce, TokenHolds
  <2> QED
    BY <2>3, <2>4, <2>5
<1> QED
  BY <1>2, <1>3 DEF RegisterCheck

\* The insert: only one signup for an e-mail finds no row, and only that one succeeds.
LEMMA CreateUserInv ==
    ASSUME IInv, NEW s \in Slots, CreateUser(s)
    PROVE  IInv'
<1>1. pc[s] = "create" /\ tokens' = tokens
  BY DEF CreateUser
<1>2. CASE users[call[s].email] = NoUser /\ Insert(s)
  <2>1. call[s].email \in Emails /\ call[s].password \in Passwords
    BY DEF IInv, TypeOK, Calls
  <2>2. /\ users' \in [Emails -> Passwords \cup {NoUser}]
        /\ users'[call[s].email] # NoUser
        /\ \A e \in Emails : users[e] # NoUser => users'[e] # NoUser
    BY <1>2, <2>1, GatewayAssumption DEF Insert, IInv, TypeOK
  <2>3. \A t \in tokens : t.email \in Emails /\ users'[t.email] # NoUser
    BY <2>2 DEF IInv, TypeOK, Tokens, TokenHolds
  <2>4. PICK result \in {"created", "ErrDatabase"} : Finish(s, result)
    BY DEF CreateUser
  <2> QED
    BY <1>1, <1>2, <2>2, <2>3, <2>4, FinishInv DEF IInv, TypeOK, Answers
<1>3. CASE UNCHANGED users /\ Finish(s, "ErrDatabase")
  BY <1>1, <1>3, RefuseInv DEF Answers
<1> QED
  BY <1>2, <1>3 DEF CreateUser

\* A login issues a token for an account there is.
LEMMA LoginInv ==
    ASSUME IInv, NEW s \in Slots, Login(s)
    PROVE  IInv'
<1> DEFINE token == [email |-> call[s].email, exp |-> now + TokenTTL]
<1>1. /\ pc[s] = "handler" /\ Finish(s, "ok") /\ users' = users
      /\ tokens' = tokens \cup {token}
      /\ users[call[s].email] = call[s].password
  BY DEF Login, Find, InHandler, PasswordMatches
<1>2. token \in Tokens /\ users[token.email] # NoUser
  BY <1>1, GatewayAssumption DEF IInv, TypeOK, Calls, Tokens
<1> HIDE DEF token
<1> QED
  BY <1>1, <1>2, FinishInv DEF IInv, TypeOK, TokenHolds, Answers

\* A handler panics over HTTP: its request was counted and its response is not.
LEMMA RecoveredPanicInv ==
    ASSUME IInv, NEW s \in Slots, RecoveredPanic(s)
    PROVE  IInv'
<1> USE DEF RecoveredPanic, Panics, Find, InHandler, IInv
<1>1. /\ pc' \in [Slots -> {"idle", "auth", "handler", "create", "leave"}]
      /\ call' \in [Slots -> Calls]
      /\ pc'[s] = "idle" /\ call'[s] = NoCall
      /\ \A t \in Slots \ {s} : pc'[t] = pc[t] /\ call'[t] = call[t]
  BY NoCallType DEF TypeOK
<1>2. GrpcCalls' = GrpcCalls
  BY <1>1 DEF GrpcCalls
<1>3. GaugeExact'
  BY <1>2 DEF GaugeExact
<1>4. s \in audited
  BY DEF CallConsistent
<1>5. CountersBalance'
  <2>1. /\ Cardinality(audited) \in Nat /\ panics \in Nat
        /\ Cardinality(audited \ {s}) = Cardinality(audited) - 1
    BY <1>4, FiniteCalls, FS_RemoveElement DEF TypeOK
  <2>2. CountedTwice' = CountedTwice /\ Cardinality(CountedTwice) \in Nat
    BY <1>1, FiniteCalls DEF CountedTwice, TypeOK
  <2> QED
    BY <2>1, <2>2 DEF CountersBalance
<1>6. TypeOK'
  BY <1>1 DEF TypeOK
<1>7. \A t \in Slots : CallConsistent(t)'
  <2>1. now' = now /\ now \in Nat /\ \A t \in Slots : call[t].at <= now
    BY DEF CallConsistent, TypeOK
  <2>2. \A t \in Slots : call'[t].at <= now'
    BY <1>1, <2>1, IdleCall
  <2> QED
    BY <1>1, <2>2 DEF CallConsistent
<1>8. OneCreator' /\ CreatedOnce'
  <2>1. \A t \in Slots, e \in Emails : Pending(t, e)' => Pending(t, e)
    BY <1>1 DEF Pending, CallConsistent
  <2> QED
    BY <2>1 DEF OneCreator, CreatedOnce
<1>9. TokenHolds'
  BY <1>1 DEF TokenHolds
<1> QED
  BY <1>3, <1>5, <1>6, <1>7, <1>8, <1>9

\* The one action that answers: the counters go down again, and a signup that
\* succeeded is answered.
LEMMA LeaveInv ==
    ASSUME IInv, NEW s \in Slots, Leave(s)
    PROVE  IInv'
<1> USE DEF Leave, IInv
<1>1. /\ pc' \in [Slots -> {"idle", "auth", "handler", "create", "leave"}]
      /\ call' \in [Slots -> Calls]
      /\ answer' \in [Slots -> Answers]
      /\ pc'[s] = "idle" /\ call'[s] = NoCall /\ answer'[s] = ""
      /\ \A t \in Slots \ {s} : pc'[t] = pc[t] /\ call'[t] = call[t] /\ answer'[t] = answer[t]
  BY NoCallType DEF TypeOK, Answers
<1>2. GrpcCalls' = GrpcCalls \ {s} /\ (s \in GrpcCalls <=> call[s].via = "grpc")
  BY <1>1 DEF GrpcCalls
<1>3. GaugeExact' /\ inFlight' \in Nat
  <2>1. /\ Cardinality(GrpcCalls) \in Nat
        /\ Cardinality(GrpcCalls \ {s}) = IF s \in GrpcCalls THEN Cardinality(GrpcCalls) - 1
                                                              ELSE Cardinality(GrpcCalls)
        /\ Cardinality(GrpcCalls') \in Nat
    BY <1>2, FiniteCalls, FS_RemoveElement, FS_CardinalityType DEF TypeOK
  <2> QED
    BY <1>2, <2>1 DEF GaugeExact, DecRequestsInFlight
<1>4. CountersBalance' /\ open' \in Nat
  <2>1. /\ Cardinality(audited) \in Nat /\ panics \in Nat
        /\ Cardinality(audited \ {s}) = IF s \in audited THEN Cardinality(audited) - 1
                                                          ELSE Cardinality(audited)
        /\ Cardinality(audited \ {s}) \in Nat
    BY FiniteCalls, FS_RemoveElement, FS_CardinalityType DEF TypeOK
  <2>2. /\ open = Cardinality(audited) + Cardinality(CountedTwice) + panics
        /\ panics' = panics /\ audited' = audited \ {s}
        /\ open' = IF s \in audited THEN open - AuditLayers(call[s]) ELSE open
    BY DEF CountersBalance, CountResponse
  <2>3. CountedTwice' = CountedTwice \ {s}
    BY <1>1 DEF CountedTwice, TypeOK
  <2>4. /\ Cardinality(CountedTwice) \in Nat /\ Cardinality(CountedTwice \ {s}) \in Nat
        /\ Cardinality(CountedTwice \ {s}) = IF s \in CountedTwice THEN Cardinality(CountedTwice) - 1
                                                                   ELSE Cardinality(CountedTwice)
    BY FiniteCalls, FS_RemoveElement, FS_CardinalityType DEF TypeOK
  <2> HIDE DEF Leave, IInv
  <2>5. IF call[s].method = "unmatched"
        THEN AuditLayers(call[s]) = 2 /\ (s \in CountedTwice <=> s \in audited)
        ELSE AuditLayers(call[s]) = 1 /\ s \notin CountedTwice
    BY DEF CountedTwice, AuditLayers
  <2> QED
    BY <2>1, <2>2, <2>3, <2>4, <2>5 DEF CountersBalance
<1>5. call[s].email \in Emails
  BY DEF TypeOK, Calls
<1>6. /\ created' \in [Emails -> Nat]
      /\ \A e \in Emails : created'[e] = IF Pending(s, e) THEN created[e] + 1 ELSE created[e]
  <2>1. created \in [Emails -> Nat]
    BY DEF TypeOK
  <2>2. created' = [created EXCEPT ![call[s].email] =
                       created[call[s].email] + (IF answer[s] = "created" THEN 1 ELSE 0)]
    OBVIOUS
  <2> HIDE DEF Leave, IInv
  <2> QED
    BY <1>5, <2>1, <2>2 DEF Pending
<1>7. TypeOK'
  BY <1>1, <1>3, <1>4, <1>6 DEF TypeOK
<1>8. \A t \in Slots : CallConsistent(t)'
  <2>1. now' = now /\ now \in Nat /\ \A t \in Slots : call[t].at <= now
    BY DEF CallConsistent, TypeOK
  <2>2. \A t \in Slots : call'[t].at <= now'
    BY <1>1, <2>1, IdleCall
  <2> QED
    BY <1>1, <2>2 DEF CallConsistent
<1>9. \A e \in Emails : /\ ~Pending(s, e)'
                        /\ \A t \in Slots \ {s} : Pending(t, e)' <=> Pending(t, e)
  BY <1>1 DEF Pending
<1>10. CreatedOnce'
  <2> SUFFICES ASSUME NEW e \in Emails PROVE created'[e] <= 1
    BY DEF CreatedOnce
  <2>1. created[e] \in Nat /\ created[e] <= 1 /\ (Pending(s, e) => ~(created[e] > 0))
    BY DEF TypeOK, CreatedOnce, OneCreator
  <2>2. created'[e] = IF Pending(s, e) THEN created[e] + 1 ELSE created[e]
    BY <1>6
  <2> HIDE DEF Leave, IInv
  <2> QED
    BY <2>1, <2>2
<1>11. OneCreator'
  <2> SUFFICES ASSUME NEW e \in Emails
               PROVE  /\ users[e] = NoUser => created'[e] = 0 /\ \A t \in Slots : ~Pending(t, e)'
                      /\ created'[e] > 0 => \A t \in Slots : ~Pending(t, e)'
                      /\ \A t, v \in Slots : Pending(t, e)' /\ Pending(v, e)' => t = v
    BY DEF OneCreator
  <2>1. CASE Pending(s, e)
    BY <1>9, <2>1 DEF OneCreator
  <2>2. CASE ~Pending(s, e)
    BY <1>6, <1>9, <2>2 DEF OneCreator
  <2> QED
    BY <2>1, <2>2
<1>12. TokenHolds'
  BY <1>1 DEF TokenHolds
<1> QED
  BY <1>3, <1>4, <1>7, <1>8, <1>10, <1>11, <1>12

\* Every step of a call keeps the invariant.
LEMMA CallInv ==
    ASSUME IInv, NEW s \in Slots, Step(s)
    PROVE  IInv'
<1>1. CASE Serve(s)
  BY <1>1, RefuseInv DEF Serve, Answers
<1>2. CASE NoRoute(s) \/ BadRequest(s) \/ FindFails(s) \/ LoginRefused(s)
  BY <1>2, RefuseInv DEF NoRoute, BadRequest, FindFails, LoginRefused, Find, InHandler, Answers
<1>3. CASE FatalPanic(s)
  BY <1>3, FreshInv DEF FatalPanic
<1> QED
  BY <1>1, <1>2, <1>3, AuthorizeInv, RegisterCheckInv, CreateUserInv, LoginInv,
     RecoveredPanicInv, LeaveInv
     DEF Step, Handler, Register, LoginSteps, Panic

\* Every step keeps the invariant.
LEMMA StepInv == IInv /\ [Next]_vars => IInv'
<1> SUFFICES ASSUME IInv, [Next]_vars PROVE IInv'
  OBVIOUS
<1>1. CASE Exit \/ Crash
  BY <1>1, FreshInv DEF Exit, Crash
<1>2. CASE Tick
  BY <1>2, ClockInv DEF Tick, IInv, TypeOK
<1>3. CASE UNCHANGED vars
  BY <1>3, ClockInv DEF vars, IInv, TypeOK
<1> QED
  BY <1>1, <1>2, <1>3, CallInv, ArriveInv, InterruptInv DEF Next

-----------------------------------------------------------------------------

\* The inductive invariant of the gateway.
THEOREM GatewayInvariant == Spec => []IInv
BY InitInv, StepInv, PTL DEF Spec

\* The variables keep their types: the gauge and the counters are never negative.
THEOREM TypeCorrect == Spec => []TypeOK
<1>1. IInv => TypeOK
  BY DEF IInv
<1> QED
  BY <1>1, GatewayInvariant, PTL

\* Of all signups for an e-mail at most one is answered with success.
THEOREM AccountsAreCreatedOnce == Spec => []CreatedOnce
<1>1. IInv => CreatedOnce
  BY DEF IInv
<1> QED
  BY <1>1, GatewayInvariant, PTL

\* No handler of orders runs without a token that a login issued and that was good
\* when the call came.
THEOREM HandlersAreAuthorized == Spec => []TokenHolds
<1>1. IInv => TokenHolds
  BY DEF IInv
<1> QED
  BY <1>1, GatewayInvariant, PTL

\* The gauge of MetricsInterceptor is the number of calls over gRPC.
THEOREM GaugeIsExact == Spec => []GaugeExact
<1>1. IInv => GaugeExact
  BY DEF IInv
<1> QED
  BY <1>1, GatewayInvariant, PTL

\* Requests and responses that AuditMiddleware and AuditInterceptor count balance.
THEOREM CountersAreBalanced == Spec => []CountersBalance
<1>1. IInv => CountersBalance
  BY DEF IInv
<1> QED
  BY <1>1, GatewayInvariant, PTL

\* No step replaces the password of an account.
THEOREM AccountsAreKept == Spec => AccountKept
<1> DEFINE Kept == \A e \in Emails : users[e] # NoUser => users'[e] = users[e]
<1>1. IInv /\ [Next]_vars => [Kept]_vars
  <2> SUFFICES ASSUME IInv, Next, NEW e \in Emails, users[e] # NoUser
               PROVE  users'[e] = users[e]
    OBVIOUS
  <2>1. ASSUME NEW s \in Slots, CreateUser(s) PROVE users'[e] = users[e]
    BY <2>1 DEF CreateUser, Insert, IInv, TypeOK
  <2>2. ASSUME NEW s \in Slots, Step(s), ~CreateUser(s) PROVE users' = users
    BY <2>2 DEF Step, Authorize, Handler, Leave, Serve, NoRoute, BadRequest, FindFails, Register,
                RegisterCheck, LoginSteps, Login, LoginRefused, Panic, RecoveredPanic, FatalPanic
  <2> QED
    BY <2>1, <2>2 DEF Next, Arrive, Interrupt, Exit, Crash, Tick
<1> QED
  BY <1>1, GatewayInvariant, PTL DEF Spec, AccountKept

=============================================================================
