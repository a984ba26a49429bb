------------------------------ MODULE Gateway ------------------------------
(***************************************************************************)
(* The way of a call through an API process, over HTTP and over gRPC: the   *)
(* middleware and the interceptors around the handlers, the accounts and    *)
(* the tokens (internal/router, middleware, transport/grpc, the auth        *)
(* handlers, service, repository and storage), the shutdown of main.        *)
(*                                                                         *)
(* The handlers of orders and reports are one step here; other modules open *)
(* them.  The audit events of a call go along with its counters, request    *)
(* with request and response with response.                                 *)
(***************************************************************************)
EXTENDS Integers, FiniteSets

CONSTANTS
    Slots,          \* calls that can be in progress at a time
    Emails,
    Passwords,
    ShortPasswords, \* of less than 8 characters
    LongPasswords,  \* of more than 72 bytes, which bcrypt refuses
    TokenTTL,       \* TokenExpiration
    MaxTime,        \* bounds the clock
    MaxPanics,      \* bounds the recovered panics after which a process is watched
    NoUser,
    NoToken         \* no token in the call, or one that was not issued here

ASSUME GatewayAssumption ==
    /\ IsFiniteSet(Slots)
    /\ ShortPasswords \subseteq Passwords /\ LongPasswords \subseteq Passwords
    /\ NoUser \notin Passwords
    /\ Emails # {} /\ Passwords # {}
    /\ TokenTTL \in Nat

Transports == {"http", "grpc"}

\* "public": /health and /metrics; "orders": everything about orders and reports;
\* "unmatched": an HTTP request for which there is no route.
Methods == {"signup", "login", "public", "orders", "unmatched"}

Tokens == [email : Emails, exp : Nat]

\* "at" is the time of the call.
Calls == [via : Transports, method : Methods, email : Emails, password : Passwords,
          token : Tokens \cup {NoToken}, at : Nat]

VARIABLES
    users,     \* the table "users": e-mail -> password (its hash)
    tokens,    \* the tokens there are
    now,
    main,      \* "running", or "stopping" since a SIGINT
    pc,        \* slot -> "idle", "auth", "handler", "create" or "leave"
    call,      \* slot -> its call
    answer,    \* slot -> the outcome of its handler
    audited,   \* slots whose request was counted
    inFlight,  \* the gauge api_requests_in_flight
    open,      \* requests counted minus responses counted
    panics,    \* calls of this process that ended in a recovered panic (history)
    created    \* e-mail -> signups that were answered with success (history)

process == <<main, pc, call, answer, audited, inFlight, open, panics>>
vars    == <<users, tokens, now, process, created>>

Answers == {"", "created", "ok", "ErrWrongJSON", "ErrUserAlreadyExists", "ErrHashPassword",
            "ErrInvalidCredentials", "ErrDatabase", "unauthorized", "not found"}

TypeOK ==
    /\ users    \in [Emails -> Passwords \cup {NoUser}]
    /\ tokens   \in SUBSET Tokens
    /\ now      \in Nat
    /\ main     \in {"running", "stopping"}
    /\ pc       \in [Slots -> {"idle", "auth", "handler", "create", "leave"}]
    /\ call     \in [Slots -> Calls]
    /\ answer   \in [Slots -> Answers]
    /\ audited  \in SUBSET Slots
    /\ inFlight \in Nat
    /\ open     \in Nat
    /\ panics   \in Nat
    /\ created  \in [Emails -> Nat]

NoCall == [via |-> "http", method |-> "public", email |-> CHOOSE e \in Emails : TRUE,
           password |-> CHOOSE p \in Passwords : TRUE, token |-> NoToken, at |-> 0]

\* A process starts: its memory is empty.
Fresh ==
    /\ main'     = "running"
    /\ pc'       = [s \in Slots |-> "idle"]
    /\ call'     = [s \in Slots |-> NoCall]
    /\ answer'   = [s \in Slots |-> ""]
    /\ audited'  = {}
    /\ inFlight' = 0
    /\ open'     = 0
    /\ panics'   = 0

Init ==
    /\ users    = [e \in Emails |-> NoUser]
    /\ tokens   = {}
    /\ now      = 0
    /\ main     = "running"
    /\ pc       = [s \in Slots |-> "idle"]
    /\ call     = [s \in Slots |-> NoCall]
    /\ answer   = [s \in Slots |-> ""]
    /\ audited  = {}
    /\ inFlight = 0
    /\ open     = 0
    /\ panics   = 0
    /\ created  = [e \in Emails |-> 0]

-----------------------------------------------------------------------------
\* Middleware and interceptors, on the way in.

\* The groups of the router that use AuthMiddleware; all methods but the two of
\* shouldSkipAuth.
Protected(c) == c.method = "orders"

\* MetricsInterceptor.
IncRequestsInFlight(c) == IF c.via = "grpc" THEN inFlight + 1 ELSE inFlight

\* main adds AuditMiddleware to the router once more, when the routes are there: gin
\* runs the second one for the requests without a route only.
AuditLayers(c) == IF c.method = "unmatched" THEN 2 ELSE 1

\* AuditMiddleware and AuditInterceptor before the handler.
CountRequest(s, c) == audited' = audited \cup {s} /\ open' = open + AuditLayers(c)

\* AuditMiddleware comes first, before AuthMiddleware; MetricsInterceptor comes
\* first, and AuditInterceptor only after AuthInterceptor.  GracefulStop refuses new
\* gRPC calls; the HTTP server serves until main returns.
Arrive(s, c) ==
    /\ pc[s] = "idle"
    /\ panics < MaxPanics
    /\ c.via = "grpc" => main = "running"
    /\ pc'       = [pc EXCEPT ![s] = IF Protected(c) THEN "auth" ELSE "handler"]
    /\ call'     = [call EXCEPT ![s] = c]
    /\ inFlight' = IncRequestsInFlight(c)
    /\ IF c.via = "http" \/ ~Protected(c) THEN CountRequest(s, c) ELSE UNCHANGED <<audited, open>>
    /\ UNCHANGED <<users, tokens, now, main, answer, panics, created>>

\* Mutant: the expiration is not checked.
AnyIssued(token) == token \in tokens

\* jwt.Parse: signed here, not expired.
Valid(token) == token \in tokens /\ now < token.exp

\* AuthMiddleware and AuthInterceptor.
Authorize(s) ==
    LET c == call[s] IN
    /\ pc[s] = "auth"
    /\ IF Valid(c.token)
       THEN /\ pc' = [pc EXCEPT ![s] = "handler"]
            /\ IF s \in audited THEN UNCHANGED <<audited, open>> ELSE CountRequest(s, c)
            /\ UNCHANGED answer
       ELSE /\ pc' = [pc EXCEPT ![s] = "leave"]
            /\ answer' = [answer EXCEPT ![s] = "unauthorized"]
            /\ UNCHANGED <<audited, open>>
    /\ UNCHANGED <<users, tokens, now, main, call, inFlight, panics, created>>

-----------------------------------------------------------------------------
\* Handlers.

InHandler(s, method) == pc[s] = "handler" /\ call[s].method = method

Finish(s, result) ==
    /\ pc'     = [pc EXCEPT ![s] = "leave"]
    /\ answer' = [answer EXCEPT ![s] = result]
    /\ UNCHANGED <<now, main, call, audited, inFlight, open, panics, created>>

\* The other handlers: OrderStore, OrderCache and Reports.
Serve(s) ==
    /\ pc[s] = "handler" /\ call[s].method \in {"public", "orders"}
    /\ \E result \in {"ok", "ErrDatabase"} : Finish(s, result)
    /\ UNCHANGED <<users, tokens>>

\* No route: 404.
NoRoute(s) ==
    /\ InHandler(s, "unmatched")
    /\ Finish(s, "not found")
    /\ UNCHANGED <<users, tokens>>

\* The bindings of the HTTP handlers (min=8); gRPC takes any password that is not empty.
Bound(c) == c.via = "http" => c.password \notin ShortPasswords

BadRequest(s) ==
    /\ pc[s] = "handler" /\ call[s].method \in {"signup", "login"}
    /\ ~Bound(call[s])
    /\ Finish(s, "ErrWrongJSON")
    /\ UNCHANGED <<users, tokens>>

\* GetUserByEmail, and a failure of the database.
Find(s, method) == InHandler(s, method) /\ Bound(call[s])

FindFails(s) ==
    /\ Find(s, "signup") \/ Find(s, "login")
    /\ Finish(s, "ErrDatabase")
    /\ UNCHANGED <<users, tokens>>

\* Register: is there such a user?  hashPassword refuses a long password.
RegisterCheck(s) ==
    LET c == call[s] IN
    /\ Find(s, "signup")
    /\ \/ users[c.email] # NoUser /\ Finish(s, "ErrUserAlreadyExists")
       \/ users[c.email] = NoUser /\ c.password \in LongPasswords /\ Finish(s, "ErrHashPassword")
       \/ /\ users[c.email] = NoUser /\ c.password \notin LongPasswords
          /\ pc' = [pc EXCEPT ![s] = "create"]
          /\ UNCHANGED <<now, main, call, answer, audited, inFlight, open, panics, created>>
    /\ UNCHANGED <<users, tokens>>

Insert(s) == users' = [users EXCEPT ![call[s].email] = call[s].password]

\* Mutants: INSERT ... ON CONFLICT DO UPDATE; ... DO NOTHING.
CreateOrReplace(s) ==
    /\ pc[s] = "create"
    /\ Insert(s) /\ Finish(s, "created")
    /\ UNCHANGED tokens

CreateOrKeep(s) ==
    /\ pc[s] = "create"
    /\ IF users[call[s].email] = NoUser THEN Insert(s) ELSE UNCHANGED users
    /\ Finish(s, "created")
    /\ UNCHANGED tokens

\* CreateUser: the INSERT, which the UNIQUE of users.email makes fail for the second
\* of two signups.  It may also fail, or succeed unnoticed.
CreateUser(s) ==
    /\ pc[s] = "create"
    /\ \/ users[call[s].email] = NoUser /\ Insert(s) /\ Finish(s, "created")
       \/ users[call[s].email] = NoUser /\ Insert(s) /\ Finish(s, "ErrDatabase")
       \/ UNCHANGED users /\ Finish(s, "ErrDatabase")
    /\ UNCHANGED tokens

\* compareHashAndPassword.
PasswordMatches(s) == users[call[s].email] = call[s].password

Login(s) ==
    LET c == call[s] IN
    /\ Find(s, "login")
    /\ PasswordMatches(s)
    /\ tokens' = tokens \cup {[email |-> c.email, exp |-> now + TokenTTL]}
    /\ Finish(s, "ok")
    /\ UNCHANGED users

LoginRefused(s) ==
    /\ Find(s, "login")
    /\ users[call[s].email] # NoUser /\ ~PasswordMatches(s)
    /\ Finish(s, "ErrInvalidCredentials")
    /\ UNCHANGED <<users, tokens>>

\* A login without a user: user.Password of a nil user panics.  So does ReturnOrder if
\* the order is gone when it is looked up a second time (OrderStore).
Panics(s) ==
    \/ Find(s, "login") /\ users[call[s].email] = NoUser
    \/ InHandler(s, "orders")

\* gin's Recovery answers with 500; the rest of the middleware is skipped.
RecoveredPanic(s) ==
    /\ Panics(s) /\ call[s].via = "http"
    /\ pc'      = [pc EXCEPT ![s] = "idle"]
    /\ call'    = [call EXCEPT ![s] = NoCall]
    /\ audited' = audited \ {s}
    /\ panics'  = panics + 1
    /\ UNCHANGED <<users, tokens, now, main, answer, inFlight, open, created>>

\* Nothing recovers in a gRPC server: the process dies, with all its calls.
FatalPanic(s) ==
    /\ Panics(s) /\ call[s].via = "grpc"
    /\ Fresh
    /\ UNCHANGED <<users, tokens, now, created>>

-----------------------------------------------------------------------------
\* On the way out.

\* Mutant: the gauge is decremented after the handler, not deferred: not for a call that
\* AuthInterceptor refuses.
DecServed(s) == IF call[s].via = "grpc" /\ s \in audited THEN inFlight - 1 ELSE inFlight

\* The deferred DecRequestsInFlight of MetricsInterceptor.
DecRequestsInFlight(s) == IF call[s].via = "grpc" THEN inFlight - 1 ELSE inFlight

\* Mutant: AuditInterceptor counts successful responses only.
CountSuccess(s) ==
    IF s \in audited /\ answer[s] \in {"ok", "created"} THEN open - AuditLayers(call[s]) ELSE open

\* AuditMiddleware and AuditInterceptor after the handler.
CountResponse(s) == IF s \in audited THEN open - AuditLayers(call[s]) ELSE open

\* The response is counted, and the client gets its answer.
Leave(s) ==
    /\ pc[s] = "leave"
    /\ pc'       = [pc EXCEPT ![s] = "idle"]
    /\ call'     = [call EXCEPT ![s] = NoCall]
    /\ answer'   = [answer EXCEPT ![s] = ""]
    /\ inFlight' = DecRequestsInFlight(s)
    /\ open'     = CountResponse(s)
    /\ audited'  = audited \ {s}
    /\ created'  = [created EXCEPT ![call[s].email] = @ + (IF answer[s] = "created" THEN 1 ELSE 0)]
    /\ UNCHANGED <<users, tokens, now, main, panics>>

-----------------------------------------------------------------------------
\* The process.

\* Calls in progress over gRPC.
GrpcCalls == {s \in Slots : pc[s] # "idle" /\ call[s].via = "grpc"}

Interrupt ==
    /\ main = "running"
    /\ main' = "stopping"
    /\ UNCHANGED <<users, tokens, now, pc, call, answer, audited, inFlight, open, panics, created>>

\* Mutant: the end waits for all calls, while the HTTP server takes new ones.
ExitWhenIdle ==
    /\ main = "stopping"
    /\ \A s \in Slots : pc[s] = "idle"
    /\ Fresh
    /\ UNCHANGED <<users, tokens, now, created>>

\* GracefulStop has waited for the calls over gRPC; main returns and ends the others.
\* A new process is started.
Exit ==
    /\ main = "stopping"
    /\ GrpcCalls = {}
    /\ Fresh
    /\ UNCHANGED <<users, tokens, now, created>>

\* The process is killed, and started again.
Crash ==
    /\ Fresh
    /\ UNCHANGED <<users, tokens, now, created>>

Tick ==
    /\ now < MaxTime
    /\ now' = now + 1
    /\ UNCHANGED <<users, tokens, process, created>>

-----------------------------------------------------------------------------

Register(s)    == RegisterCheck(s) \/ CreateUser(s)
LoginSteps(s)  == Login(s) \/ LoginRefused(s)
Panic(s)       == RecoveredPanic(s) \/ FatalPanic(s)
Handler(s)     == \/ Serve(s) \/ NoRoute(s) \/ BadRequest(s) \/ FindFails(s)
                  \/ Register(s) \/ LoginSteps(s) \/ Panic(s)
Step(s)        == Authorize(s) \/ Handler(s) \/ Leave(s)

\* A call of orders comes with a token, a signup or a login with e-mail and password.
Plain(v, m)       == [NoCall EXCEPT !.via = v, !.method = m]
Bearer(v, t)      == [Plain(v, "orders") EXCEPT !.token = t, !.at = now]
Named(v, m, e, p) == [Plain(v, m) EXCEPT !.email = e, !.password = p]

Requests ==
    {Plain("http", "public"), Plain("http", "unmatched")}
    \cup {Bearer(v, t) : v \in Transports, t \in tokens \cup {NoToken}}
    \cup {Named(v, m, e, p) : v \in Transports, m \in {"signup", "login"}, e \in Emails, p \in Passwords}

Next ==
    \/ \E s \in Slots : Step(s) \/ \E c \in Requests : Arrive(s, c)
    \/ Interrupt
    \/ Exit
    \/ Crash
    \/ Tick

Spec == Init /\ [][Next]_vars

\* Fairness: a call that is in progress goes on, and main ends when it can.
FairSpec == Spec /\ (\A s \in Slots : WF_vars(Step(s))) /\ WF_vars(Exit)

-----------------------------------------------------------------------------
(***************************************************************************)
(* Properties.                                                              *)
(***************************************************************************)

\* Of any number of signups for an e-mail, over both transports and at the same
\* time, at most one is answered with success.
CreatedOnce == \A e \in Emails : created[e] <= 1

\* Nobody's password is replaced, by whatever signups race.
AccountKept == [][\A e \in Emails : users[e] # NoUser => users'[e] = users[e]]_vars

\* Every token belongs to an account, and no handler of orders runs for a call
\* whose token was not issued by a login, or had expired before it came.
TokenHolds ==
    /\ \A t \in tokens : users[t.email] # NoUser
    /\ \A s \in Slots : pc[s] = "handler" /\ Protected(call[s])
          => call[s].token \in tokens /\ call[s].at < call[s].token.exp

\* The gauge is the number of calls over gRPC, refused ones included, and never
\* drifts.
GaugeExact == inFlight = Cardinality(GrpcCalls)

CountedTwice == {s \in audited : call[s].method = "unmatched"}

\* Every counted request gets its counted response, a request without a route both of
\* its two, save for the calls in progress and those that ended in a recovered panic.
CountersBalance == open = Cardinality(audited) + Cardinality(CountedTwice) + panics

\* Every call is answered, or ended by a panic or the end of its process; a shutdown
\* that waits for calls ends.
CallsEnd ==
    /\ \A s \in Slots : (pc[s] # "idle") ~> (pc[s] = "idle")
    /\ (main = "stopping") ~> (main = "running")

(***************************************************************************)
(* The inductive invariant.                                                 *)
(***************************************************************************)

\* A call came before now, has no answer before its handler is done, and is counted
\* by the audit only while it is in progress, and when its handler runs.
CallConsistent(s) ==
    /\ call[s].at <= now
    /\ pc[s] # "leave" => answer[s] = ""
    /\ pc[s] = "idle" => s \notin audited
    /\ pc[s] \in {"handler", "create"} => s \in audited

\* A signup that succeeded and is still to be answered.
Pending(s, e) == answer[s] = "created" /\ call[s].email = e

\* The row of an account is made by one signup, whose answer is still to come or has
\* come.
OneCreator ==
    \A e \in Emails :
        /\ users[e] = NoUser => created[e] = 0 /\ \A s \in Slots : ~Pending(s, e)
        /\ created[e] > 0 => \A s \in Slots : ~Pending(s, e)
        /\ \A s, t \in Slots : Pending(s, e) /\ Pending(t, e) => s = t

IInv ==
    /\ TypeOK
    /\ \A s \in Slots : CallConsistent(s)
    /\ OneCreator
    /\ CreatedOnce
    /\ TokenHolds
    /\ GaugeExact
    /\ CountersBalance

=============================================================================
