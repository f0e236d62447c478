------------------------------ MODULE ApiRoutes ------------------------------
(***************************************************************************)
(* The HTTP surface of the API process: for every endpoint the guard its   *)
(* dependency runs, what its service call does, and when that call looks   *)
(* at the caller's identity again; for every registration the method.      *)
(*                                                                         *)
(* guard    what the FastAPI dependency demands before the body runs;      *)
(* effect   what the service call does to the state modelled by ApiServer; *)
(* recheck  "none": the call acts for the identity the guard resolved;     *)
(*          "again": the service resolves the session a second time and    *)
(*          then acts in another transaction; "recent": so, and demands a  *)
(*          recent authentication; "locked": the transaction that acts     *)
(*          reads the credential itself.                                   *)
(***************************************************************************)
EXTENDS Naturals, FiniteSets

Guards == {"open", "origin", "nativeOrigin", "session", "csrf", "challenge",
           "recent", "bearer", "access"}
Effects == {"read", "write", "evaluate", "stream", "login", "rotate",
            "challengeRotate", "revokeSession", "revokeDevice"}
Rechecks == {"none", "again", "recent", "locked"}

Ep(guard, effect, recheck) ==
    [guard |-> guard, effect |-> effect, recheck |-> recheck]

(***************************************************************************)
(* What the endpoint factories build.                                      *)
(***************************************************************************)

HealthEndpoints ==
    [live |-> Ep("open", "read", "none"), ready |-> Ep("open", "read", "none")]

SessionEndpoints ==
    [login           |-> Ep("origin", "login", "none"),
     get_session     |-> Ep("session", "read", "none"),
     logout          |-> Ep("challenge", "revokeSession", "locked"),
     reauthenticate  |-> Ep("csrf", "rotate", "locked"),
     change_password |-> Ep("csrf", "rotate", "locked")]

\* A pending enrolment and a fresh set of recovery codes are written by a
\* transaction that does not read the session it was asked for.
TotpEndpoints ==
    [verify_challenge          |-> Ep("challenge", "rotate", "locked"),
     submit_enrollment_action  |-> Ep("challenge", "write", "again"),
     verify_enrollment         |-> Ep("challenge", "rotate", "locked"),
     recover                   |-> Ep("challenge", "challengeRotate", "locked"),
     regenerate_recovery_codes |-> Ep("csrf", "write", "again"),
     disable                   |-> Ep("csrf", "rotate", "locked")]

\* Poll, refresh and self-revoke present a credential the guard only extracts:
\* the transaction resolves it. Lookup acts for the guard's user.
DeviceAuthorizationEndpoints ==
    [create_grant                |-> Ep("nativeOrigin", "write", "none"),
     lookup_grant                |-> Ep("csrf", "write", "none"),
     approve_grant               |-> Ep("csrf", "write", "recent"),
     deny_grant                  |-> Ep("csrf", "write", "again"),
     poll_grant                  |-> Ep("bearer", "write", "locked"),
     refresh_device_tokens       |-> Ep("bearer", "write", "locked"),
     revoke_current_device_token |-> Ep("bearer", "revokeDevice", "locked")]

DeviceAdminEndpoints ==
    [list_devices  |-> Ep("session", "read", "again"),
     revoke_device |-> Ep("csrf", "revokeDevice", "recent")]

PolicyEndpoints ==
    [get_policy_status |-> Ep("session", "read", "none"),
     replace_draft     |-> Ep("csrf", "write", "none"),
     create_preview    |-> Ep("csrf", "write", "none"),
     get_preview       |-> Ep("session", "read", "none"),
     publish           |-> Ep("recent", "write", "none"),
     list_keysets      |-> Ep("access", "read", "none"),
     get_snapshot      |-> Ep("access", "read", "none")]

PolicyDiagnosticsEndpoints == [get_policy_diagnostics |-> Ep("session", "read", "none")]
MetricsEndpoints == [get_metrics_exposition |-> Ep("session", "read", "none")]
SyncDiagnosticsEndpoints == [get_sync_rejections |-> Ep("session", "read", "none")]
LifecycleDiagnosticsEndpoints ==
    [get_lifecycle_rejections |-> Ep("session", "read", "none")]

SmallFileEndpoints ==
    [preflight_journal_event           |-> Ep("access", "evaluate", "none"),
     upload_content                    |-> Ep("access", "evaluate", "none"),
     upload_conflict_candidate_content |-> Ep("access", "evaluate", "none")]

MultipartEndpoints ==
    [create_session       |-> Ep("access", "evaluate", "none"),
     get_upload_session   |-> Ep("access", "read", "none"),
     issue_part_url       |-> Ep("access", "evaluate", "none"),
     complete_session     |-> Ep("access", "evaluate", "none"),
     abort_session        |-> Ep("access", "write", "none")]

LifecycleEndpoints == [commit_source_lifecycle_event |-> Ep("access", "write", "none")]

DeviceSyncEndpoints ==
    [pull_events             |-> Ep("access", "read", "none"),
     acknowledge_cursor      |-> Ep("access", "write", "none"),
     start_manifest          |-> Ep("access", "write", "none"),
     append_manifest_page    |-> Ep("access", "write", "none"),
     finalize_manifest       |-> Ep("access", "write", "none"),
     list_manifest_actions   |-> Ep("access", "read", "none"),
     complete_manifest       |-> Ep("access", "write", "none"),
     download_source_version |-> Ep("access", "stream", "none")]

ConflictEndpoints ==
    [list_conflicts    |-> Ep("access", "read", "none"),
     get_conflict      |-> Ep("access", "read", "none"),
     download_evidence |-> Ep("access", "stream", "none"),
     upload_candidate  |-> Ep("access", "evaluate", "none"),
     resolve_conflict  |-> Ep("access", "evaluate", "none")]

(***************************************************************************)
(* The registrations: a method, and the runtime that serves the endpoint.  *)
(***************************************************************************)

Register(runtime, endpoints, methods) ==
    [e \in DOMAIN endpoints |->
        [guard |-> endpoints[e].guard, effect |-> endpoints[e].effect,
         recheck |-> endpoints[e].recheck,
         method |-> methods[e], runtime |-> runtime]]

SessionRoutes ==
    Register("web", SessionEndpoints,
        [login |-> "POST", get_session |-> "GET", logout |-> "POST",
         reauthenticate |-> "POST", change_password |-> "PUT"])

TotpRoutes ==
    Register("web", TotpEndpoints,
        [e \in DOMAIN TotpEndpoints |-> IF e = "disable" THEN "DELETE" ELSE "POST"])

DeviceAuthorizationRoutes ==
    Register("web", DeviceAuthorizationEndpoints,
        [e \in DOMAIN DeviceAuthorizationEndpoints |-> "POST"])

DeviceAdminRoutes ==
    Register("web", DeviceAdminEndpoints,
        [list_devices |-> "GET", revoke_device |-> "POST"])

PolicyRoutes ==
    Register("policy", PolicyEndpoints,
        [get_policy_status |-> "GET", replace_draft |-> "PUT",
         create_preview |-> "POST", get_preview |-> "GET", publish |-> "POST",
         list_keysets |-> "GET", get_snapshot |-> "GET"])

PolicyDiagnosticsRoutes ==
    Register("policy", PolicyDiagnosticsEndpoints, [get_policy_diagnostics |-> "GET"])
MetricsRoutes == Register("policy", MetricsEndpoints, [get_metrics_exposition |-> "GET"])
SyncDiagnosticsRoutes ==
    Register("smallFile", SyncDiagnosticsEndpoints, [get_sync_rejections |-> "GET"])
LifecycleDiagnosticsRoutes ==
    Register("lifecycle", LifecycleDiagnosticsEndpoints,
        [get_lifecycle_rejections |-> "GET"])

SmallFileRoutes ==
    Register("smallFile", SmallFileEndpoints,
        [preflight_journal_event |-> "POST", upload_content |-> "PUT",
         upload_conflict_candidate_content |-> "PUT"])

MultipartRoutes ==
    Register("multipart", MultipartEndpoints,
        [e \in DOMAIN MultipartEndpoints |->
            IF e = "get_upload_session" THEN "GET" ELSE "POST"])

LifecycleRoutes ==
    Register("lifecycle", LifecycleEndpoints, [commit_source_lifecycle_event |-> "POST"])

DeviceSyncRoutes ==
    Register("deviceSync", DeviceSyncEndpoints,
        [pull_events |-> "GET", acknowledge_cursor |-> "POST",
         start_manifest |-> "POST", append_manifest_page |-> "PUT",
         finalize_manifest |-> "POST", list_manifest_actions |-> "GET",
         complete_manifest |-> "POST", download_source_version |-> "GET"])

ConflictRoutes ==
    Register("conflicts", ConflictEndpoints,
        [list_conflicts |-> "GET", get_conflict |-> "GET",
         download_evidence |-> "GET", resolve_conflict |-> "POST",
         upload_candidate |-> "PUT"])

HealthRoutes == Register("health", HealthEndpoints, [live |-> "GET", ready |-> "GET"])
=============================================================================
