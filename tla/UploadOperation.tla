--------------------------- MODULE UploadOperation ---------------------------
(***************************************************************************)
(* The durable upload operation of one journal event: the row of           *)
(* small_file_upload_operations that fences both the single-part and the   *)
(* multipart publication.  Every operator is one statement, or one whole   *)
(* transaction, of small_file_sync_operations on that row; the state       *)
(* machines that interleave them are SmallFileUpload and MultipartUpload.  *)
(*                                                                         *)
(* The frozen identity (event, key, declared fingerprint, base) is the     *)
(* same in every request of the event, so the fingerprint comparison       *)
(* holds and is left out.  A result is the number of the version it names. *)
(***************************************************************************)
EXTENDS Naturals

\* The absent row, and the values of operation_state.
Absent == [state |-> "absent", token |-> 0, revision |-> 0, expired |-> FALSE,
           result |-> 0, changed |-> FALSE, error |-> "none"]

OperationStates == {"absent", "pending", "receiving", "committed", "failed"}

\* The errors a rejection of the bound content records.
Errors == {"integrity", "not_found", "mismatch", "state_invalid", "occupied", "retry"}

Rows(Tokens, Revisions, Results) ==
    [state : OperationStates, token : Tokens \cup {0}, revision : Revisions \cup {0},
     expired : BOOLEAN, result : Results \cup {0}, changed : BOOLEAN,
     error : Errors \cup {"none"}]

\* The terminal shape of the table: evidence of a result exactly on a committed row, an
\* error code exactly on a failed one (ck_small_file_upload_operations__terminal_shape).
OperationRow(row) ==
    /\ row.state \in {"pending", "receiving"} <=> row.result = 0 /\ row.error = "none"
    /\ row.state = "committed" <=> row.result # 0
    /\ row.state = "failed" <=> row.error # "none"
    /\ row.revision >= 1 /\ row.token # 0

Terminal(row) == row.state = "committed"

-------------------------------------------------------------------------------
(* Statements.                                                             *)

Insert(token, revision) ==
    [Absent EXCEPT !.state = "pending", !.token = token, !.revision = revision]

\* A new token; an expired operation also gets a new expiry.
RotateToken(row, token, revision) ==
    [row EXCEPT !.state = "pending", !.token = token, !.revision = revision,
                !.expired = FALSE, !.error = "none"]

RebindRevision(row, revision) == [row EXCEPT !.revision = revision]

ReceiveClaim(row) == [row EXCEPT !.state = "receiving"]

RecordResult(row, result, changed) ==
    [row EXCEPT !.state = "committed", !.result = result, !.changed = changed]

RecordFailure(row, error) == [row EXCEPT !.state = "failed", !.error = error]

-------------------------------------------------------------------------------
(* Transactions, each under the advisory lock of the operation's identity. *)

\* reserve_operation hands a token out unless the row is claimed or closed.
ReserveGrants(row) == row.state \in {"absent", "pending", "failed"}

\* A claimed row keeps its token: the revision just authorized is committed, and
\* the caller is told state_invalid so that it resumes with the token it has.
Reserve(row, token, revision) ==
    CASE row.state = "absent"                -> Insert(token, revision)
      [] row.state = "committed"             -> row
      [] row.state = "receiving"             -> RebindRevision(row, revision)
      [] row.state \in {"pending", "failed"} -> RotateToken(row, token, revision)

\* What resolve_bound_operation answers to a token; "bound" claims the row.
Resolve(row, token) ==
    IF row.token # token                             THEN "not_found"
    ELSE IF Terminal(row)                            THEN "replay"
    ELSE IF row.state = "failed"                     THEN "state_invalid"
    ELSE IF row.state = "pending" /\ row.expired     THEN "expired"
    ELSE "bound"

ResolveClaims(row, token) ==
    IF Resolve(row, token) = "bound" THEN ReceiveClaim(row) ELSE row

\* The bound operation still describes the row: its policy revision is compared too.
BoundMatches(row, revision) == row.revision = revision

\* The first statement of the publication transaction.
Fence(row, token, revision) ==
    IF row.token # token                                THEN "not_found"
    ELSE IF ~BoundMatches(row, revision)                THEN "mismatch"
    ELSE IF row.state \notin {"receiving", "committed"} THEN "state_invalid"
    ELSE "held"

\* Mutant: a rejection overwrites a result that was already recorded.
OverwriteFailure(row, token, revision, error) ==
    IF row.token = token /\ row.state \in {"receiving", "committed"}
    THEN RecordFailure(row, error)
    ELSE row

\* record_bound_terminal_failure: refused, and swallowed by its caller, unless the
\* row is the one that was bound and is still receiving.
BoundFailure(row, token, revision, error) ==
    IF row.token = token /\ BoundMatches(row, revision) /\ row.state = "receiving"
    THEN RecordFailure(row, error)
    ELSE row

\* record_bound_terminal_result, alone or inside the publication transaction.
BoundResultAccepted(row, token, revision, result, changed) ==
    /\ row.token = token
    /\ BoundMatches(row, revision)
    /\ \/ row.state = "receiving"
       \/ row.state = "committed" /\ row.result = result /\ row.changed = changed

BoundResult(row, token, revision, result, changed) ==
    IF BoundResultAccepted(row, token, revision, result, changed)
    THEN RecordResult(row, result, changed)
    ELSE row

\* record_terminal_result: the no-change verdict of a preflight on the row it reserved.
PreflightResultAccepted(row, token) ==
    row.token = token /\ row.state = "pending" /\ ~row.expired

=============================================================================
