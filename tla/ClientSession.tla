--------------------------- MODULE ClientSession ---------------------------
(* cli.py: the authenticated requests of the command-line client.  Processes    *)
(* share one session file; the server may stop accepting its tokens at any      *)
(* moment, refuse, answer with a transient error, or lose its answer after the  *)
(* request took effect.  A token is known by the era it was issued in.          *)
EXTENDS Integers, FiniteSets

CONSTANTS
  Client,      \* processes of one user on one machine
  None,        \* no session
  MaxEra,      \* bound on the times the server drops its tokens
  MaxAttempts  \* the retries of a safe read

\* "central" stands for Google and for the identity service.
Method == {"password", "central"}
Session == [method : Method, era : 0 .. MaxEra]

ASSUME SessionAssumption == MaxEra \in Nat /\ MaxAttempts \in Nat /\ None \notin Session

VARIABLES
  file,        \* the session file, or None
  era,         \* tokens of earlier eras are rejected
  call,        \* the request each process is making
  applied      \* how often the server applied the request being made

sessionVars == <<file, era, call, applied>>

Kind == {"sql", "read", "write"}
\* 503 stands for 429 as well, and 0 for every other refusal or for no answer.
Status == {200, 401, 404, 503, 0}

Idle == [stage |-> "idle", kind |-> "read", session |-> None, cached |-> FALSE,
         status |-> 0, attempt |-> 0]

\* The type invariant of the sessions and the requests.
SessionTypeOK ==
  /\ file \in Session \cup {None} /\ era \in 0 .. MaxEra
  /\ call \in [Client -> [stage : {"idle", "load", "send", "answered", "done", "failed"},
                          kind : Kind, session : Session \cup {None}, cached : BOOLEAN,
                          status : Status, attempt : 0 .. MaxAttempts]]
  /\ applied \in [Client -> 0 .. MaxAttempts + 2]

SessionInit ==
  /\ era = 0
  /\ file \in {None} \cup [method : Method, era : {0}]
  /\ call = [c \in Client |-> Idle] /\ applied = [c \in Client |-> 0]

Set(c, r) == call' = [call EXCEPT ![c] = r]
Fails(c) == Set(c, [Idle EXCEPT !.stage = "failed", !.kind = call[c].kind])
Accepted(s) == s.era = era
Issued(method) == [method |-> method, era |-> era]

\* must: a request begins.
Ask(c, kind) ==
  /\ call[c].stage \in {"idle", "done", "failed"}
  /\ Set(c, [Idle EXCEPT !.stage = "load", !.kind = kind])
  /\ applied' = [applied EXCEPT ![c] = 0]
  /\ UNCHANGED <<file, era>>

\* auth_session: the new session is used, and saved if the state directory allows it.
SignedIn(c, s, cached) ==
  /\ Set(c, [call[c] EXCEPT !.stage = "send", !.session = s, !.cached = cached])
  /\ file' \in {file, s}
  /\ UNCHANGED <<era, applied>>

\* Nobody signed in: the password if one is configured, else the identity service.
FirstLogin(c) ==
  /\ call[c].stage = "load" /\ file = None
  /\ \E m \in Method : SignedIn(c, Issued(m), FALSE)

UseSession(c) ==
  /\ call[c].stage = "load" /\ file # None
  /\ Set(c, [call[c] EXCEPT !.stage = "send", !.session = file, !.cached = TRUE])
  /\ UNCHANGED <<file, era, applied>>

\* A central session that is about to expire is renewed by its own service.
Renew(c) ==
  /\ call[c].stage = "load" /\ file # None /\ file.method = "central"
  /\ SignedIn(c, Issued("central"), TRUE)

\* A sign-in or renewal is refused, or its answer is lost.
SignInFails(c) ==
  /\ call[c].stage = "load" /\ (file # None => file.method # "password")
  /\ Fails(c)
  /\ UNCHANGED <<file, era, applied>>

\* The server answers a request with an accepted token; a proxy may turn the answer
\* of what was applied into an error of its own, or the answer is lost.
Serve(c) ==
  /\ call[c].stage = "send" /\ Accepted(call[c].session)
  /\ \/ /\ \E s \in {404, 503, 0} : Set(c, [call[c] EXCEPT !.stage = "answered", !.status = s])
        /\ UNCHANGED applied
     \/ /\ \E s \in {200, 503, 0} : Set(c, [call[c] EXCEPT !.stage = "answered", !.status = s])
        /\ applied' = [applied EXCEPT ![c] = IF call[c].kind = "write" THEN @ + 1 ELSE @]
  /\ UNCHANGED <<file, era>>

\* SQL says 401 to a rejected token; the records API takes it for no token.
Reject(c) ==
  /\ call[c].stage = "send" /\ ~Accepted(call[c].session)
  /\ Set(c, [call[c] EXCEPT !.stage = "answered",
               !.status = IF call[c].kind = "sql" THEN 401 ELSE 404])
  /\ UNCHANGED <<file, era, applied>>

\* Only a refusal may hide a rejected token, and then the token itself is tried.
MaybeRejected(status) == status \in {401, 404}

RejectedToken(r) ==
  r.cached /\ MaybeRejected(r.status) /\ (r.status = 401 \/ ~Accepted(r.session))

\* A password session signs in again, with a configured password, and sends once more.
SignInAgain(c) ==
  /\ call[c].stage = "answered" /\ RejectedToken(call[c])
  /\ \/ call[c].session.method = "password" /\ SignedIn(c, Issued("password"), FALSE)
     \/ Fails(c) /\ UNCHANGED <<file, era, applied>>

\* A mutant: every request is repeated after a transient error.
RetryAny(r) == r.status = 503 /\ r.attempt < MaxAttempts

\* must repeats what only reads, and starts with the session file again.
Retry(r) == r.kind # "write" /\ r.status = 503 /\ r.attempt < MaxAttempts

Again(c) ==
  /\ call[c].stage = "answered" /\ ~RejectedToken(call[c]) /\ Retry(call[c])
  /\ Set(c, [call[c] EXCEPT !.stage = "load", !.session = None, !.cached = FALSE,
                            !.status = 0, !.attempt = @ + 1])
  /\ UNCHANGED <<file, era, applied>>

\* The answer is final; so is a 503 that names a limit, or that outlasts the wait.
Answered(c) ==
  /\ call[c].stage = "answered" /\ ~RejectedToken(call[c])
  /\ Retry(call[c]) => call[c].status = 503
  /\ Set(c, [Idle EXCEPT !.stage = IF call[c].status = 200 THEN "done" ELSE "failed",
                         !.kind = call[c].kind])
  /\ UNCHANGED <<file, era, applied>>

\* The process that asked goes on to something else.
Forget(c) ==
  /\ Set(c, Idle) /\ applied' = [applied EXCEPT ![c] = 0]
  /\ UNCHANGED <<file, era>>

\* login: through the browser, the identity service or a password; only a session
\* that was saved and read back counts.
LoginCommand ==
  /\ \E m \in Method : file' = Issued(m)
  /\ UNCHANGED <<era, call, applied>>

Logout ==
  /\ file' = None
  /\ UNCHANGED <<era, call, applied>>

\* The server drops every token: a changed password, a disabled account, an expiry.
Revoke ==
  /\ era < MaxEra /\ era' = era + 1
  /\ UNCHANGED <<file, call, applied>>

SessionNext ==
  \/ \E c \in Client :
       FirstLogin(c) \/ UseSession(c) \/ Renew(c) \/ SignInFails(c) \/ Serve(c)
         \/ Reject(c) \/ SignInAgain(c) \/ Again(c) \/ Answered(c)
  \/ Revoke

\* However often a command signs in again or repeats its request, what it asked to
\* write is applied once at most, and one that says so has been applied.
WritesOnce ==
  \A c \in Client : call[c].kind = "write" =>
    /\ applied[c] <= 1
    /\ call[c].stage = "done" => applied[c] = 1
=============================================================================
