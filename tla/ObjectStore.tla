---------------------------- MODULE ObjectStore ----------------------------
(***************************************************************************)
(* The content-addressed object store over R2: bounded spools with         *)
(* admission, the HEAD / conditional PUT / full-read verification, the     *)
(* single flight that lets concurrent stores of one digest share that      *)
(* work, and the runtime check that sweeps stale spools and probes the     *)
(* bucket.  Every await is a point where another call, a lost answer or a  *)
(* cancellation may come in between.                                       *)
(*                                                                         *)
(* All calls are about one digest, so they meet in the single flight, and  *)
(* every spool has size one.  A call is made once.                         *)
(***************************************************************************)
EXTENDS Naturals, FiniteSets

CONSTANTS Calls,        \* calls of the store in this process
          MaxPermits,   \* maximum_in_flight_operations
          MaxReserved,  \* maximum_reserved_size_bytes, in spools
          MaxAttempts,  \* RetryPolicy.maximum_attempts
          MaxCancels,   \* bound: how often one call is cancelled
          MaxFaults     \* bound: failures, denials, damage, crashes, cancellations

VARIABLES call,    \* the state of each call
          bucket,  \* the object under the canonical key
          spool,   \* permits and spools reserved
          flight,  \* the single-flight entry of the digest
          orphans, \* spool files a dead process left behind
          check,   \* the runtime check
          damaged, \* somebody else destroyed the stored bytes
          faults   \* faults so far

vars == <<call, bucket, spool, flight, orphans, check, damaged, faults>>

Media == {"text", "image"}
NoObject == [state |-> "none"]
Object(media, bytes) == [state |-> "stored", media |-> media, bytes |-> bytes]

\* The single-flight entry, with its owner standing for its future.
NoFlight == [owner |-> 0, waiters |-> 0]

Fault == faults < MaxFaults /\ faults' = faults + 1
NoFault == UNCHANGED faults

At(c, pc) == call[c].pc = pc

-----------------------------------------------------------------------------
(* Calls                                                                   *)

NoCall == [op |-> "none", media |-> "text", input |-> "none", attempt |-> 1, result |-> "none",
           future |-> "none", joined |-> 0, cancels |-> 0, shield |-> FALSE, pc |-> "idle"]

\* Calls are alike: they are made in the order of their numbers.
Ready(c) == At(c, "idle") /\ \A d \in Calls : d < c => call[d].pc # "idle"

\* store_stream declares a media type, a size and perhaps a digest.  One that does
\* not parse is refused before any byte is received.
BeginStore(c) ==
    /\ Ready(c)
    /\ \E media \in Media, input \in {"good", "mismatched", "refused"} :
          /\ (input = "good" /\ NoFault) \/ (input # "good" /\ Fault)
          /\ call' = [call EXCEPT ![c] =
                        IF input = "refused"
                        THEN [NoCall EXCEPT !.pc = "ended", !.result = "input_invalid"]
                        ELSE [NoCall EXCEPT !.pc = "admit", !.op = "store", !.media = media,
                                            !.input = input]]
    /\ UNCHANGED <<bucket, spool, flight, orphans, check, damaged>>

\* The other operations name an object they expect; resolve_verified_object is
\* verify_existing_object with absence as an answer.
BeginRead(c) ==
    /\ Ready(c)
    /\ \E media \in Media, op \in {"verify", "read"} :
          call' = [call EXCEPT ![c] = [NoCall EXCEPT !.pc = "vhead", !.op = op, !.media = media]]
    /\ UNCHANGED <<bucket, spool, flight, orphans, check, damaged, faults>>

\* Of a call that has ended only its answer is left, and the future it owned.
Moved(c, pc, result) ==
    IF pc = "ended"
    THEN [NoCall EXCEPT !.pc = "ended", !.result = result, !.media = call[c].media,
                        !.future = call[c].future, !.cancels = call[c].cancels]
    ELSE [call[c] EXCEPT !.pc = pc, !.result = result, !.shield = FALSE, !.attempt = 1]

Answer(c, result, pc) == call' = [call EXCEPT ![c] = Moved(c, pc, result)]
Goto(c, pc) == Answer(c, call[c].result, pc)

-----------------------------------------------------------------------------
(* Admission and release of spool capacity                                 *)

\* A verification spool needs no permit, only its share of the budget.
HasCapacity(permit) ==
    /\ permit => spool.permits < MaxPermits
    /\ spool.reserved + 1 <= MaxReserved

Acquired(permit) ==
    [permits |-> spool.permits + (IF permit THEN 1 ELSE 0), reserved |-> spool.reserved + 1]

Minus(n) == IF n > 0 THEN n - 1 ELSE 0

ReleaseAdmission(permit) ==
    spool' = [permits |-> IF permit THEN Minus(spool.permits) ELSE spool.permits,
              reserved |-> Minus(spool.reserved)]

AcquireAdmission(c) ==
    /\ \/ At(c, "admit") /\ HasCapacity(TRUE) /\ spool' = Acquired(TRUE) /\ Goto(c, "receive")
       \/ At(c, "vadmit") /\ HasCapacity(FALSE) /\ spool' = Acquired(FALSE) /\ Goto(c, "get")
    /\ UNCHANGED <<bucket, flight, orphans, check, damaged, faults>>

IsOwner(c) == call[c].joined = c

\* Where a call unwinds to: the owner completes its flight, a waiter detaches, a
\* store releases its input spool, anything else just ends.
Unwind(c) ==
    IF call[c].op # "store" THEN "ended"
    ELSE IF call[c].joined = 0 THEN "release"
    ELSE IF IsOwner(c) THEN "finish" ELSE "detach"

\* The free-space reserve is violated, or the ten-minute window lapses.
AdmissionDenied(c) ==
    /\ Fault
    /\ \/ At(c, "admit") /\ Answer(c, "busy", "ended")
       \/ At(c, "vadmit") /\ Answer(c, "busy", Unwind(c))
    /\ UNCHANGED <<bucket, spool, flight, orphans, check, damaged>>

-----------------------------------------------------------------------------
(* Single flight                                                           *)

\* The stream is drained into the input spool and hashed; a stream that breaks or
\* exceeds its size, or whose digest is not the claimed one, is refused.
InputRefused(c) == call[c].input = "mismatched"

\* Then owner or waiter, decided under the lock.
StoreSingleFlight(c) ==
    /\ At(c, "receive")
    /\ IF InputRefused(c) THEN Answer(c, "input_invalid", "release") /\ UNCHANGED flight
       ELSE IF flight = NoFlight
       THEN /\ flight' = [owner |-> c, waiters |-> 0]
            /\ call' = [call EXCEPT ![c].pc = "head", ![c].joined = c, ![c].future = "pending"]
       ELSE /\ flight' = [flight EXCEPT !.waiters = @ + 1]
            /\ call' = [call EXCEPT ![c].pc = "wait", ![c].joined = flight.owner]
    /\ UNCHANGED <<bucket, spool, orphans, check, damaged, faults>>

Typed == {"input_invalid", "busy", "unavailable", "missing", "metadata_conflict",
          "integrity_failed", "access_denied", "contract_invalid"}

\* What the future of the flight becomes: an untyped end of the owner, its
\* cancellation included, is an unavailable dependency to the waiters.
Shared(result, waiters) ==
    IF result = "receipt" THEN "receipt"
    ELSE IF waiters = 0 THEN "cancelled"
    ELSE IF result \in Typed THEN result ELSE "unavailable"

\* Mutant: the entry stays until the last waiter has gone, as a cache would.
FinishWhenAlone(c) ==
    /\ call' = [call EXCEPT ![c].pc = "release", ![c].shield = FALSE,
                            ![c].future = Shared(call[c].result, flight.waiters)]
    /\ flight' = IF flight.waiters > 0 THEN flight ELSE NoFlight

FinishSingleFlight(c) ==
    /\ call' = [call EXCEPT ![c].pc = "release", ![c].shield = FALSE,
                            ![c].future = Shared(call[c].result, flight.waiters)]
    /\ flight' = NoFlight

\* A waiter takes over the outcome, unless the owner stored another media type.
Await(c) ==
    LET owner == call[c].joined
        shared == call[owner].future IN
    /\ At(c, "wait") /\ shared # "pending"
    /\ Answer(c, IF shared = "receipt" /\ call[owner].media # call[c].media
                 THEN "metadata_conflict" ELSE shared, "detach")
    /\ UNCHANGED <<bucket, spool, flight, orphans, check, damaged, faults>>

\* A waiter leaves the entry it joined, not a later one of the same digest.
DetachWaiter(c) ==
    flight' = IF flight.owner = call[c].joined /\ flight.waiters > 0
              THEN [flight EXCEPT !.waiters = @ - 1] ELSE flight

-----------------------------------------------------------------------------
(* HEAD and conditional PUT under the retry policy                         *)

\* Every other end of a request: tried again from "pc" until the attempts are
\* used up, or a terminal answer of the provider.
RetryOrFail(c, pc, end) ==
    \/ /\ call[c].attempt < MaxAttempts
       /\ call' = [call EXCEPT ![c].pc = pc, ![c].attempt = @ + 1]
    \/ call[c].attempt = MaxAttempts /\ Answer(c, "unavailable", end)
    \/ Answer(c, "access_denied", end)

ResolveStoreMethod(c) ==
    /\ At(c, "head")
    /\ Goto(c, IF bucket = NoObject THEN "put" ELSE "vhead")
    /\ UNCHANGED <<bucket, spool, flight, orphans, check, damaged, faults>>

\* Created, or refused with 412 because the key exists: the winner is verified.
PutIfAbsent(c) ==
    bucket' = IF bucket = NoObject THEN Object(call[c].media, "good") ELSE bucket

PutObject(c) ==
    /\ At(c, "put")
    /\ PutIfAbsent(c)
    /\ Goto(c, "vhead")
    /\ UNCHANGED <<spool, flight, orphans, check, damaged, faults>>

\* A transient failure of HEAD, or of a PUT that may have been carried out: the
\* next attempt begins at HEAD.
StoreAttemptFails(c) ==
    /\ Fault
    /\ \/ At(c, "head") /\ UNCHANGED bucket
       \/ At(c, "put") /\ (PutIfAbsent(c) \/ UNCHANGED bucket)
    /\ RetryOrFail(c, "head", "finish")
    /\ UNCHANGED <<spool, flight, orphans, check, damaged>>

-----------------------------------------------------------------------------
(* Verification: HEAD, exact metadata, reservation, conditional full GET   *)

RequireExactMetadata(c) ==
    IF bucket.bytes = "short" THEN "integrity_failed"
    ELSE IF bucket.media # call[c].media THEN "metadata_conflict"
    ELSE "exact"

VerifyHead(c) ==
    /\ At(c, "vhead")
    /\ IF bucket = NoObject THEN Answer(c, "missing", Unwind(c))
       ELSE IF RequireExactMetadata(c) # "exact"
       THEN Answer(c, RequireExactMetadata(c), Unwind(c))
       ELSE Goto(c, "vadmit")
    /\ UNCHANGED <<bucket, spool, flight, orphans, check, damaged, faults>>

\* GET with If-Match into the spool; whatever is not the expected bytes fails
\* closed.  A reader then serves the spool.
VerifyToSpool(c) ==
    /\ At(c, "get")
    /\ IF bucket.bytes = "good"
       THEN IF call[c].op = "read" THEN Goto(c, "reading") ELSE Answer(c, "receipt", "close")
       ELSE Answer(c, "integrity_failed", "close")
    /\ UNCHANGED <<bucket, spool, flight, orphans, check, damaged, faults>>

\* HEAD and GET are retried; a body that breaks off while it is copied, or a
\* spool that cannot be written or opened again, ends the call untyped.
VerifyFails(c) ==
    /\ Fault
    /\ \/ At(c, "vhead") /\ RetryOrFail(c, "vhead", Unwind(c))
       \/ At(c, "get") /\ (RetryOrFail(c, "get", "close") \/ Answer(c, "raised", "close"))
    /\ UNCHANGED <<bucket, spool, flight, orphans, check, damaged>>

\* The consumer leaves the reader context.
CloseReader(c) ==
    /\ At(c, "reading")
    /\ Answer(c, "receipt", "close")
    /\ UNCHANGED <<bucket, spool, flight, orphans, check, damaged, faults>>

-----------------------------------------------------------------------------
(* Cleanup and cancellation                                                *)

Cleanups == {"close", "finish", "detach", "release"}

\* One shielded cleanup; the next one begins where it ends.
RunShielded(c) ==
    \/ /\ At(c, "close") /\ ReleaseAdmission(FALSE)
       /\ Goto(c, Unwind(c)) /\ UNCHANGED flight
    \/ At(c, "finish") /\ FinishSingleFlight(c) /\ UNCHANGED spool
    \/ At(c, "detach") /\ DetachWaiter(c) /\ Goto(c, "release") /\ UNCHANGED spool
    \/ At(c, "release") /\ ReleaseAdmission(TRUE) /\ Goto(c, "ended") /\ UNCHANGED flight

Cleanup(c) ==
    /\ RunShielded(c)
    /\ UNCHANGED <<bucket, orphans, check, damaged, faults>>

\* What the cancelled wait leaves: nothing was acquired yet, a spool to close, a
\* flight to complete or to leave, an input spool to release.
CancelTo(c) ==
    CASE At(c, "admit") -> "ended"
      [] At(c, "receive") -> "release"
      [] At(c, "get") \/ At(c, "reading") -> "close"
      [] OTHER -> Unwind(c)

\* The second cancellation that arrives while a cleanup is awaited is passed on to
\* the cleanup itself, which then never runs: the call goes on behind it.
Abandoned(c) ==
    IF At(c, "close") THEN Unwind(c)
    ELSE IF At(c, "release") THEN "ended" ELSE "release"

CancelCall(c, next) ==
    call' = [call EXCEPT ![c] = [Moved(c, next, "cancelled") EXCEPT
                !.cancels = call[c].cancels + 1, !.shield = At(c, next)]]

Cancel(c) ==
    /\ call[c].pc \notin {"idle", "ended"} /\ call[c].cancels < MaxCancels /\ Fault
    /\ \/ call[c].pc \notin Cleanups /\ CancelCall(c, CancelTo(c))
       \/ call[c].pc \in Cleanups /\ ~call[c].shield /\ CancelCall(c, call[c].pc)
       \/ call[c].pc \in Cleanups /\ call[c].shield /\ CancelCall(c, Abandoned(c))
    /\ \/ At(c, "put") /\ PutIfAbsent(c)
       \/ UNCHANGED bucket
    /\ UNCHANGED <<spool, flight, orphans, check, damaged>>

-----------------------------------------------------------------------------
(* Other writers, crashes, and the runtime check                           *)

\* Another process stores the same bytes, perhaps under another media type.
OtherWriter ==
    /\ bucket = NoObject
    /\ \E media \in Media : bucket' = Object(media, "good")
    /\ UNCHANGED <<call, spool, flight, orphans, check, damaged, faults>>

\* Somebody changes the object behind the store's back: its ETag and its bytes.
Damage ==
    /\ bucket # NoObject /\ ~damaged /\ Fault
    /\ bucket' = [bucket EXCEPT !.bytes = "bad"]
    /\ damaged' = TRUE
    /\ UNCHANGED <<call, spool, flight, orphans, check>>

\* Each reserved spool may have its file on disk, and there it stays.
Crash ==
    /\ \E c \in Calls : call[c].pc \notin {"idle", "ended"}
    /\ Fault
    /\ orphans' \in orphans .. orphans + spool.reserved
    /\ call' = [c \in Calls |-> IF call[c].pc \in {"idle", "ended"} THEN call[c]
                                ELSE Moved(c, "ended", "crashed")]
    /\ spool' = [permits |-> 0, reserved |-> 0]
    /\ flight' = NoFlight
    /\ UNCHANGED <<bucket, check, damaged>>

NewCheck == [pc |-> "janitor", attempt |-> 1, degraded |-> FALSE, exit |-> "none", up |-> TRUE]

Resting == \A c \in Calls : call[c].pc \in {"idle", "ended"}

\* A command of its own process: settings and secrets first.  It shares nothing with
\* the calls but the orphans, so it runs beside none.
StartCheck ==
    /\ check.pc = "idle" /\ Resting
    /\ \/ check' = NewCheck
       \/ check' = [NewCheck EXCEPT !.pc = "ended", !.exit = "config"]
    /\ UNCHANGED <<call, bucket, spool, flight, orphans, damaged, faults>>

\* The bounded sweep takes what is old enough; what it leaves, or could not scan,
\* is only a warning.
CleanupStaleSpools ==
    /\ check.pc = "janitor" /\ Resting
    /\ \E left \in 0 .. orphans :
          /\ orphans' = left
          /\ check' = [check EXCEPT !.pc = "probe", !.degraded = left > 0]
    /\ UNCHANGED <<call, bucket, spool, flight, damaged, faults>>

ExitAfterProbe == "ok"

HeadBucket ==
    /\ check.pc = "probe" /\ Resting
    /\ \/ check' = [check EXCEPT !.pc = "ended", !.exit = ExitAfterProbe] /\ NoFault
       \/ /\ Fault
          /\ \/ /\ check.attempt < MaxAttempts
                /\ check' = [check EXCEPT !.attempt = @ + 1]
             \/ /\ check.attempt = MaxAttempts
                /\ check' = [check EXCEPT !.pc = "ended", !.exit = "unavailable", !.up = FALSE]
             \/ \E exit \in {"unavailable", "software"} :
                   check' = [check EXCEPT !.pc = "ended", !.exit = exit, !.up = FALSE]
    /\ UNCHANGED <<call, bucket, spool, flight, orphans, damaged>>

-----------------------------------------------------------------------------
Init ==
    /\ call = [c \in Calls |-> NoCall]
    /\ bucket \in {NoObject} \union {Object("text", b) : b \in {"good", "bad", "short"}}
    /\ spool = [permits |-> 0, reserved |-> 0]
    /\ flight = NoFlight
    /\ orphans = 0
    /\ check = [NewCheck EXCEPT !.pc = "idle"]
    /\ damaged = FALSE
    /\ faults = 0

\* What a call does by itself once it has begun.
Proceed(c) ==
    \/ AcquireAdmission(c) \/ StoreSingleFlight(c) \/ Await(c)
    \/ ResolveStoreMethod(c) \/ PutObject(c) \/ VerifyHead(c) \/ VerifyToSpool(c)
    \/ CloseReader(c) \/ Cleanup(c)

Quiet == Resting /\ UNCHANGED vars

Next ==
    \/ \E c \in Calls :
          \/ BeginStore(c) \/ BeginRead(c) \/ Proceed(c) \/ AdmissionDenied(c) \/ StoreAttemptFails(c)
          \/ VerifyFails(c) \/ Cancel(c)
    \/ OtherWriter \/ Damage \/ Crash \/ StartCheck \/ CleanupStaleSpools \/ HeadBucket
    \/ Quiet

Spec == Init /\ [][Next]_vars

-----------------------------------------------------------------------------
Sequel == {"receive", "wait", "head", "put", "vhead", "vadmit", "get", "reading",
           "close", "finish", "detach", "release"}

\* Calls, capacity and the flight have their types; capacity stays in its budget.
TypeOK ==
    /\ \A c \in Calls :
          /\ call[c].pc \in {"idle", "ended", "admit"} \union Sequel
          /\ call[c].attempt \in 1 .. MaxAttempts
          /\ call[c].joined \in Calls \union {0}
    /\ spool.permits \in 0 .. MaxPermits /\ spool.reserved \in 0 .. MaxReserved

\* Store calls that hold a permit and their input spool, and calls that hold a
\* verification spool.
Holding == {c \in Calls : call[c].op = "store" /\ call[c].pc \in Sequel}
Verifying == {c \in Calls : call[c].pc \in {"get", "reading", "close"}}

\* Capacity is held by the calls that are using it and by nobody else, whichever
\* way calls ended: a reservation that outlives its call starves the later ones.
NothingLeaks ==
    /\ spool.permits = Cardinality(Holding)
    /\ spool.reserved = Cardinality(Holding) + Cardinality(Verifying)

\* The entry of the digest is there exactly while its owner works, and counts the
\* waiters that still rely on it.
FlightAlive ==
    /\ flight # NoFlight => call[flight.owner].future = "pending" /\ IsOwner(flight.owner)
    /\ \A c \in Calls :
          call[c].future = "pending" /\ call[c].pc # "ended" =>
             /\ flight.owner = c
             /\ flight.waiters = Cardinality({w \in Calls \ {c} : call[w].joined = c /\ call[w].pc # "release"})

\* A receipt, and an open reader, are for an object that is in the bucket with the
\* caller's media type and the bytes of its digest, unless somebody destroyed it since.
ReceiptProven ==
    \A c \in Calls : call[c].result = "receipt" \/ call[c].pc = "reading" =>
        /\ bucket # NoObject
        /\ bucket.media = call[c].media
        /\ bucket.bytes = "good" \/ damaged

\* A call that reports a cancellation was cancelled itself: a waiter never takes the
\* owner's cancellation for its own.
OwnCancellation ==
    \A c \in Calls : call[c].result = "cancelled" => call[c].cancels > 0

\* The exit code of the runtime check is the outcome of the probe alone.
CheckHonest == check.exit # "none" => (check.exit = "config" \/ (check.exit = "ok") = check.up)

\* Some call that has begun can go on by itself until all have ended, without the
\* ten-minute window: the budget has room for one verification beside all inputs, and
\* no waiter is left behind by its owner.  A call only moves forward, so each one ends.
NobodyStuck == Resting \/ \E c \in Calls : ENABLED Proceed(c)

\* The store as a whole, at any moment.
StoreSafe ==
    /\ TypeOK /\ NothingLeaks /\ FlightAlive /\ NobodyStuck
    /\ ReceiptProven /\ OwnCancellation /\ CheckHonest

\* An object under a canonical key is never written again by the store.
Immutable == [][bucket # NoObject => bucket' = bucket \/ damaged' # damaged]_vars
=============================================================================
