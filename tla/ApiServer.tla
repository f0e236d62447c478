------------------------------ MODULE ApiServer ------------------------------
(***************************************************************************)
(* One API process: it loads its settings and secret files, composes its   *)
(* runtimes, starts the database lifecycle, proves the keyring and the     *)
(* signer before the socket is bound, serves requests, drains them and     *)
(* closes what it opened.  Requests run as tasks of one event loop: each   *)
(* action is what a request does between two awaits.                       *)
(***************************************************************************)
EXTENDS ApiRoutes, Sequences, TLC

CONSTANTS Requests,     \* requests that arrive, each once
          Secrets,      \* session secrets that can ever be issued
          Exercised,    \* the endpoints of Application that the requests use
          SecretFiles   \* what a configured secret path may hold

VARIABLES stage, step, exit, reports, blame, proofs, engine, client,
          sessions, device, req, evaluated, sinks

vars == <<stage, step, exit, reports, blame, proofs, engine, client,
          sessions, device, req, evaluated, sinks>>
process == <<stage, step, exit, reports, blame, proofs>>
accounts == <<sessions, device>>
work == <<client, evaluated, sinks>>

(***************************************************************************)
(* Secret files: the checks of read_secret_file, the first that fails.     *)
(***************************************************************************)

SecretFileError(f) ==
    IF ~f.exists THEN "missing"
    ELSE IF ~f.inRoot THEN "outside_root"
    ELSE IF ~f.regular THEN "invalid_type"
    ELSE IF f.large THEN "too_large"
    ELSE IF f.writable THEN "insecure_permissions"
    ELSE IF ~f.text THEN "invalid_encoding"
    ELSE IF f.blank THEN "empty"
    ELSE "none"

Loaders == <<"runtime", "api", "database", "password", "authentication",
             "keyring", "signing", "signer", "objectStorage">>
SecretReaders == {"password", "keyring", "signer", "objectStorage"}

(***************************************************************************)
(* What each composition builds: the R2 client its store opens lazily and  *)
(* the sink its policy evaluations are counted in.                         *)
(***************************************************************************)

Managed == {"smallFile", "multipart", "deviceSync", "conflicts"}
Sinks == {"shared", "own", "none"}
Composition(owned, sink) == [client |-> owned, sink |-> sink]

ComposeWebAuthentication == Composition("none", "none")
ComposeExclusionPolicy == Composition("none", "shared")
ComposeSmallFileSync == Composition("smallFile", "shared")
ComposeMultipartUpload == Composition("multipart", "shared")
ComposeSourceLifecycle == Composition("none", "shared")
ComposeDeviceSync == Composition("deviceSync", "none")
ComposeSourceConflicts == Composition("conflicts", "shared")

Runtime ==
    [health |-> Composition("none", "none"), web |-> ComposeWebAuthentication,
     policy |-> ComposeExclusionPolicy, smallFile |-> ComposeSmallFileSync,
     multipart |-> ComposeMultipartUpload, lifecycle |-> ComposeSourceLifecycle,
     deviceSync |-> ComposeDeviceSync, conflicts |-> ComposeSourceConflicts]

\* The always-mounted routes, then those of every runtime that was passed.
CreateApiApplication(given) ==
    LET When(runtime, routes) == IF runtime \in given THEN routes ELSE <<>>
    IN  HealthRoutes @@ SessionRoutes @@ TotpRoutes
        @@ DeviceAuthorizationRoutes @@ DeviceAdminRoutes
        @@ When("policy", PolicyRoutes @@ PolicyDiagnosticsRoutes @@ MetricsRoutes)
        @@ When("smallFile", SmallFileRoutes @@ SyncDiagnosticsRoutes)
        @@ When("multipart", MultipartRoutes)
        @@ When("lifecycle", LifecycleRoutes @@ LifecycleDiagnosticsRoutes)
        @@ When("deviceSync", DeviceSyncRoutes)
        @@ When("conflicts", ConflictRoutes)

Application == CreateApiApplication(DOMAIN Runtime)

(***************************************************************************)
(* Who may do what.                                                        *)
(***************************************************************************)

NoSecret == "absent"
Authenticated == {"active", "recent"}
SessionStates == {"unused", "challenge", "revoked"} \cup Authenticated

SafeMethods == {"GET", "HEAD"}

OriginAllowed(method, origin) ==
    \/ origin = "allowed"
    \/ origin = "absent" /\ method \in SafeMethods

\* The native client sends no Origin at all; a browser must send the right one.
NativeOrAllowedOrigin(method, origin) ==
    origin = "absent" \/ OriginAllowed(method, origin)

Resolves(secret, states) == secret \in Secrets /\ sessions[secret] \in states
Eligible(guard) ==
    CASE guard = "challenge" -> {"challenge"} \cup Authenticated
      [] guard = "recent"    -> {"recent"}
      [] OTHER               -> Authenticated
CookieGuards == {"session", "csrf", "challenge", "recent"}
PairGuards == {"csrf", "challenge", "recent"}

\* The identity behind the presented credential, right now.
Live(ep, c) ==
    CASE ep.guard \in CookieGuards     -> Resolves(c.secret, Eligible(ep.guard))
      [] ep.guard \in {"access", "bearer"} -> c.bearer = "device" /\ device = "active"
      [] OTHER                         -> TRUE

\* The dependency chain: origin, then the session, then the double-submitted
\* CSRF token; or the bearer, its device and its scope.
GuardAdmits(ep, c) ==
    CASE ep.guard = "open"         -> TRUE
      [] ep.guard = "origin"       -> OriginAllowed(ep.method, c.origin)
      [] ep.guard = "nativeOrigin" -> NativeOrAllowedOrigin(ep.method, c.origin)
      [] ep.guard = "bearer"       -> c.bearer # "absent"
      [] ep.guard = "access"       -> Live(ep, c)
      [] OTHER -> /\ OriginAllowed(ep.method, c.origin)
                  /\ Live(ep, c)
                  /\ ep.guard \in PairGuards => c.pair

\* Bound: what a guard does not look at is absent, and a browser request has at
\* most one thing wrong with its headers (the order of the checks only chooses
\* the error code).
Presentable(ep) ==
  {c \in
    [origin : IF ep.guard \in {"access", "bearer", "open"} THEN {"absent"}
                 ELSE {"absent", "allowed", "foreign"},
     secret : IF ep.guard \in CookieGuards
                 THEN {NoSecret} \cup {s \in Secrets : sessions[s] # "unused"}
                 ELSE {NoSecret},
     pair   : IF ep.guard \in PairGuards THEN BOOLEAN ELSE {FALSE},
     bearer : IF ep.guard \in {"access", "bearer"}
                 THEN {"absent", "device", "otherScope"} ELSE {"absent"}] :
    ep.guard \in PairGuards => c.pair \/ c.origin = "allowed"}

Idle == [state |-> "idle"]
Request(ep, c, dead) ==
    [state |-> "arrived", ep |-> ep, cred |-> c, dead |-> dead,
     acted |-> FALSE, observed |-> 0]
Pending == {"arrived", "admitted", "acting", "streaming"}
InFlight == {r \in Requests : req[r].state \in Pending}

Init ==
    /\ stage = "loading" /\ step = 1 /\ exit = "none" /\ reports = 0
    /\ blame = {} /\ proofs = {}
    /\ engine = "none"
    /\ client = [m \in Managed |-> "none"]
    /\ sessions = [s \in Secrets |->
                     IF s = (CHOOSE first \in Secrets : TRUE) THEN "recent" ELSE "unused"]
    /\ device = "active"
    /\ req = [r \in Requests |-> Idle]
    /\ evaluated = 0
    /\ sinks = [s \in Sinks |-> 0]

Exit(code) ==
    /\ stage' = "exited" /\ exit' = code
    /\ reports' = IF code = "0" THEN reports ELSE reports + 1

(***************************************************************************)
(* Start-up.                                                               *)
(***************************************************************************)

Loaded ==
    /\ IF step < Len(Loaders)
          THEN stage' = stage /\ step' = step + 1
          ELSE stage' = "composing" /\ step' = 1
    /\ UNCHANGED <<exit, reports>>

LoadSettings ==
    /\ stage = "loading" /\ Loaders[step] \notin SecretReaders
    /\ \/ Loaded
       \/ Exit("78") /\ UNCHANGED step
       \/ Exit("70") /\ UNCHANGED step
    /\ UNCHANGED <<blame, proofs, engine, accounts, req, work>>

LoadSecret ==
    /\ stage = "loading" /\ Loaders[step] \in SecretReaders
    /\ \E f \in SecretFiles :
          IF SecretFileError(f) = "none" THEN Loaded
                                         ELSE Exit("78") /\ UNCHANGED step
    /\ UNCHANGED <<blame, proofs, engine, accounts, req, work>>

\* Everything built between the logger and the server object: no connection
\* and no R2 client is opened, and a failure leaves an idle engine behind.
Compose ==
    /\ stage = "composing"
    /\ \/ /\ stage' = "starting" /\ engine' = "made"
          /\ UNCHANGED <<exit, reports>>
       \/ /\ engine' \in {"none", "made"}
          /\ Exit("70")
    /\ UNCHANGED <<step, blame, proofs, accounts, req, work>>

StartLifecycle ==
    /\ stage = "starting"
    /\ engine' = "started" /\ stage' = "proving"
    /\ UNCHANGED <<step, exit, reports, blame, proofs, accounts, req, work>>

\* Both proofs run inside the lifespan, before the socket exists; a refusal
\* leaves through the same closing sequence as a shutdown.
Prove(proof) ==
    /\ stage = "proving" /\ proof \notin proofs
    /\ proof = "signer" => "keyring" \in proofs
    /\ \/ /\ proofs' = proofs \cup {proof}
          /\ stage' = IF proof = "signer" THEN "binding" ELSE stage
          /\ UNCHANGED blame
       \/ /\ stage' = "closing" /\ blame' = blame \cup {"refused"}
          /\ UNCHANGED proofs
    /\ UNCHANGED <<step, exit, reports, engine, accounts, req, work>>

ProveKeyring == Prove("keyring")
ProveSigner == Prove("signer")

(***************************************************************************)
(* The server object (a library): bind, drain on a signal, give up on the  *)
(* second signal, run the lifespan's end otherwise.                        *)
(***************************************************************************)

Bind ==
    /\ stage = "binding"
    /\ \/ stage' = "serving" /\ UNCHANGED blame
       \/ stage' = "closing" /\ blame' = blame \cup {"bind"}
    /\ UNCHANGED <<step, exit, reports, proofs, engine, accounts, req, work>>

Signal ==
    /\ stage = "serving" /\ stage' = "draining"
    /\ UNCHANGED <<step, exit, reports, blame, proofs, engine, accounts, req, work>>

SecondSignal ==
    /\ stage = "draining"
    /\ blame' = blame \cup {"forced"}
    /\ Exit("0")
    /\ UNCHANGED <<step, proofs, engine, accounts, req, work>>

Drained ==
    /\ stage = "draining" /\ InFlight = {}
    /\ stage' = "closing"
    /\ UNCHANGED <<step, exit, reports, blame, proofs, engine, accounts, req, work>>

(***************************************************************************)
(* The lifespan's finally: four stores, then the engine; one that raises   *)
(* skips the ones after it.                                                *)
(***************************************************************************)

Closers == <<"smallFile", "multipart", "deviceSync", "conflicts", "engine">>

\* The reference is cleared before the close is awaited: a close that raises
\* is not tried again.
CloseOne ==
    /\ stage = "closing" /\ step <= Len(Closers)
    /\ \/ /\ step' = step + 1 /\ UNCHANGED blame
          /\ IF Closers[step] = "engine"
                THEN engine' = "disposed" /\ UNCHANGED client
                ELSE /\ client' = [client EXCEPT ![Closers[step]] = "none"]
                     /\ UNCHANGED engine
       \/ /\ Closers[step] # "engine" => client[Closers[step]] = "open"
          /\ step' = Len(Closers) + 1 /\ blame' = blame \cup {"closer"}
          /\ UNCHANGED <<client, engine>>
    /\ UNCHANGED <<stage, exit, reports, proofs, accounts, req, evaluated, sinks>>

\* run_server's translation of how the run of the server ended: a normal
\* return is a clean shutdown, a non-zero SystemExit an internal failure.
ServeEnds ==
    /\ stage = "closing" /\ step = Len(Closers) + 1
    /\ \/ "bind" \notin blame /\ Exit("0")
       \/ blame # {} /\ Exit("70")
    /\ UNCHANGED <<step, blame, proofs, engine, accounts, req, work>>

(***************************************************************************)
(* Requests.                                                               *)
(***************************************************************************)

Serving == stage \in {"serving", "draining"}
Set(r, field, value) == [req EXCEPT ![r][field] = value]
\* The correlation middleware observes every request whose response started.
Answered(r, how, did) ==
    [req EXCEPT ![r] = [@ EXCEPT !.state = how, !.acted = did,
                                 !.observed = @ + 1]]

Arrive(r) ==
    /\ stage = "serving" /\ req[r] = Idle
    /\ \E e \in Exercised :
          \E c \in Presentable(Application[e]) :
              req' = [req EXCEPT ![r] =
                        Request(Application[e], c, ~Live(Application[e], c))]
    /\ UNCHANGED <<process, engine, accounts, work>>

Guard(r) ==
    /\ Serving /\ req[r].state = "arrived"
    /\ req' = IF GuardAdmits(req[r].ep, req[r].cred)
                 THEN Set(r, "state", "admitted")
                 ELSE Answered(r, "rejected", FALSE)
    /\ UNCHANGED <<process, engine, accounts, work>>

\* The service resolves the session once more, before its own transaction.
ResolveAgain(r) ==
    /\ Serving /\ req[r].state = "admitted"
    /\ req[r].ep.recheck \in {"again", "recent"}
    /\ LET states == IF req[r].ep.recheck = "recent" THEN {"recent"}
                                                     ELSE Eligible(req[r].ep.guard)
       IN  req' = IF Resolves(req[r].cred.secret, states)
                     THEN Set(r, "state", "acting")
                     ELSE Answered(r, "rejected", FALSE)
    /\ UNCHANGED <<process, engine, accounts, work>>

ReadyToAct(r) ==
    /\ Serving
    /\ \/ req[r].state = "acting"
       \/ req[r].state = "admitted" /\ req[r].ep.recheck \in {"none", "locked"}

Issue(secret) == sessions[secret] = "unused"

\* What the service's transaction does to the accounts.
Effect(ep, c) ==
    CASE ep.effect = "login" ->
            /\ \E s \in Secrets : /\ Issue(s)
                                  /\ \E new \in {"challenge", "recent"} :
                                        sessions' = [sessions EXCEPT ![s] = new]
            /\ UNCHANGED device
      [] ep.effect \in {"rotate", "challengeRotate"} ->
            /\ \E s \in Secrets :
                  /\ Issue(s)
                  /\ sessions' = [sessions EXCEPT ![c.secret] = "revoked",
                        ![s] = IF ep.effect = "rotate" THEN "recent" ELSE "challenge"]
            /\ UNCHANGED device
      [] ep.effect = "revokeSession" ->
            sessions' = [sessions EXCEPT ![c.secret] = "revoked"] /\ UNCHANGED device
      [] ep.effect = "revokeDevice" -> device' = "revoked" /\ UNCHANGED sessions
      [] OTHER -> UNCHANGED accounts

\* An evaluation is counted in its runtime's sink; a store that needs R2
\* opens the runtime's one client at its first call.
Worked(ep) ==
    LET runtime == Runtime[ep.runtime]
    IN  /\ \E opened \in BOOLEAN :
              client' = IF opened /\ runtime.client # "none"
                           THEN [client EXCEPT ![runtime.client] = "open"] ELSE client
        /\ IF ep.effect = "evaluate"
              THEN /\ evaluated' = evaluated + 1
                   /\ sinks' = [sinks EXCEPT ![runtime.sink] = @ + 1]
              ELSE UNCHANGED <<evaluated, sinks>>

Act(r) ==
    /\ ReadyToAct(r) /\ req[r].ep.effect # "stream"
    /\ req[r].ep.recheck = "locked" => Live(req[r].ep, req[r].cred)
    /\ Effect(req[r].ep, req[r].cred)
    /\ Worked(req[r].ep)
    /\ req' = Answered(r, "done", TRUE)
    /\ UNCHANGED <<process, engine>>

\* The transaction reads the credential under its lock and refuses it.
RefuseLocked(r) ==
    /\ ReadyToAct(r) /\ req[r].ep.recheck = "locked"
    /\ ~Live(req[r].ep, req[r].cred)
    /\ req' = Answered(r, "rejected", FALSE)
    /\ UNCHANGED <<process, engine, accounts, work>>

\* A domain refusal, a dependency failure or an unexpected exception: one
\* closed error envelope, nothing done.
Fail(r) ==
    /\ ReadyToAct(r)
    /\ \E how \in {"rejected", "failed"} : req' = Answered(r, how, FALSE)
    /\ UNCHANGED <<process, engine, accounts, work>>

\* The first verified chunk is read before the response starts, so a missing
\* or corrupt object is still an error answer.
Prime(r) ==
    /\ ReadyToAct(r) /\ req[r].ep.effect = "stream"
    /\ req' = [req EXCEPT ![r].state = "streaming", ![r].acted = TRUE]
    /\ client' = [client EXCEPT ![Runtime[req[r].ep.runtime].client] = "open"]
    /\ UNCHANGED <<process, engine, accounts, evaluated, sinks>>

\* The body is sent to the end, or breaks off: a broken 200 is observed as a
\* failure.  Either way the reader is closed.
Streamed(r) ==
    /\ Serving /\ req[r].state = "streaming"
    /\ \E how \in {"done", "failed"} : req' = Answered(r, how, TRUE)
    /\ UNCHANGED <<process, engine, accounts, work>>

(***************************************************************************)
(* The rest of the world.                                                  *)
(***************************************************************************)

\* Ten minutes pass; a session runs out or is revoked from another browser.
Age(s) ==
    /\ Serving
    /\ \/ sessions[s] = "recent" /\ sessions' = [sessions EXCEPT ![s] = "active"]
       \/ sessions[s] \in {"challenge"} \cup Authenticated
          /\ sessions' = [sessions EXCEPT ![s] = "revoked"]
    /\ UNCHANGED <<process, engine, device, req, work>>

Unpair ==
    /\ Serving /\ device = "active" /\ device' = "revoked"
    /\ UNCHANGED <<process, engine, sessions, req, work>>

\* The process has ended and stays so.
Ended == stage = "exited" /\ UNCHANGED vars

Next ==
    \/ LoadSettings \/ LoadSecret \/ Compose \/ StartLifecycle
    \/ ProveKeyring \/ ProveSigner
    \/ Bind \/ Signal \/ SecondSignal \/ Drained \/ CloseOne \/ ServeEnds
    \/ \E r \in Requests :
          \/ Arrive(r) \/ Guard(r) \/ ResolveAgain(r) \/ Act(r)
          \/ RefuseLocked(r) \/ Fail(r) \/ Prime(r) \/ Streamed(r)
    \/ \E s \in Secrets : Age(s)
    \/ Unpair \/ Ended

Spec == Init /\ [][Next]_vars

(***************************************************************************)
(* Properties.                                                             *)
(***************************************************************************)

Asked == {r \in Requests : req[r] # Idle}

TypeOK ==
    /\ stage \in {"loading", "composing", "starting", "proving", "binding",
                  "serving", "draining", "closing", "exited"}
    /\ step \in 1..Len(Loaders) /\ exit \in {"none", "0", "70", "78"}
    /\ reports \in 0..1 /\ blame \subseteq {"refused", "bind", "forced", "closer"}
    /\ proofs \subseteq {"keyring", "signer"}
    /\ engine \in {"none", "made", "started", "disposed"}
    /\ client \in [Managed -> {"none", "open"}]
    /\ sessions \in [Secrets -> SessionStates] /\ device \in {"active", "revoked"}
    /\ \A r \in Asked : /\ req[r].state \in Pending \cup {"done", "rejected", "failed"}
                        /\ req[r].observed \in 0..1
    /\ evaluated \in 0..Cardinality(Requests)

\* The socket exists only after both proofs held on a started engine, and a
\* configuration failure leaves nothing behind but one emergency record.
FailBeforeBind ==
    /\ Serving => proofs = {"keyring", "signer"} /\ engine = "started"
    /\ Asked # {} => proofs = {"keyring", "signer"}
    /\ exit = "78" => engine = "none" /\ proofs = {}
    /\ reports = 1 <=> exit \in {"70", "78"}

\* A process that ended without a second signal and without a close that
\* raised left no R2 client open and no engine undisposed.
ClosedAtExit ==
    stage = "exited" /\ blame \cap {"forced", "closer"} = {} =>
        engine # "started" /\ \A m \in Managed : client[m] = "none"

\* A request whose identity was already revoked, rotated away or not eligible
\* when it arrived has no effect, whatever happens while it runs.
RevokedNeverActs ==
    \A r \in Asked : req[r].acted /\ ~req[r].ep.guard \in {"open", "origin", "nativeOrigin"} =>
        ~req[r].dead

\* Whatever a cookie session changed was asked for from the allowed origin
\* with the matching token pair, unless the method is safe and nothing changed.
WritesArePaired ==
    \A r \in Asked :
        /\ req[r].acted /\ req[r].ep.guard \in CookieGuards /\ req[r].ep.effect # "read" =>
              req[r].cred.pair /\ req[r].cred.origin = "allowed"
        /\ req[r].acted /\ req[r].ep.method \in SafeMethods =>
              req[r].ep.effect \in {"read", "stream"}

\* Every policy evaluation of every runtime shows in the one sink the metrics
\* exposition reads.
EvaluationsExposed == sinks["shared"] = evaluated

\* Every request that was answered is observed exactly once.
ObservedOnce ==
    \A r \in Asked : req[r].observed = IF req[r].state \in Pending THEN 0 ELSE 1

\* What the server owes at every moment: see its parts.
ServerSafe ==
    /\ FailBeforeBind /\ ClosedAtExit /\ RevokedNeverActs /\ WritesArePaired
    /\ EvaluationsExposed /\ ObservedOnce

\* The R2 clients are released only by the closing sequence, in its order and
\* only when nothing is in flight; an effect needs a serving process; and the
\* one that changes an account under its lock found its credential live.
ServerSteps ==
    [][/\ \A m \in Managed : client[m] = "open" /\ client'[m] = "none" =>
            stage = "closing" /\ InFlight = {} /\ engine = "started"
       /\ \A r \in Requests : req[r] # Idle /\ req'[r] # Idle
                              /\ ~req[r].acted /\ req'[r].acted =>
            /\ Serving /\ engine = "started"
            /\ req[r].ep.recheck = "locked" => Live(req[r].ep, req[r].cred)
       /\ engine' = "disposed" /\ engine # "disposed" =>
            InFlight = {} /\ \A m \in Managed : client[m] = "none"]_vars
=============================================================================
