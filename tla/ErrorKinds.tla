----------------------------- MODULE ErrorKinds -----------------------------
(***************************************************************************)
(* classify of src/error.rs: which of the nine kinds of the crate an error *)
(* of the SDK becomes.  Metrics and callers see nothing else of it.        *)
(***************************************************************************)
EXTENDS Integers

Kinds == {"network", "timeout", "auth", "not_found", "throttled",
          "server_error", "client_error", "config", "other"}

\* SdkError as far as classify looks at it: the status of a service error, and
\* whether its text contains "slowdown"; whether a dispatch failure timed out.
Details == {"none", "slowdown", "timed out"}
SdkErrors ==
  [variant : {"service", "timeout", "dispatch", "response", "construction"},
   status : Nat, detail : Details]
Service(status, detail) ==
  [variant |-> "service", status |-> status, detail |-> detail]
Unanswered(variant, detail) ==
  [variant |-> variant, status |-> 0, detail |-> detail]

Within(status, low, high) == low <= status /\ status <= high

\* Mutant of OfStatus: the arm of all the 5xx stands before the one of 503.
OfStatusRangesFirst(status, detail) ==
  IF status \in {401, 403}                     THEN "auth"
  ELSE IF status = 404                         THEN "not_found"
  ELSE IF status = 429                         THEN "throttled"
  ELSE IF Within(status, 500, 599)             THEN "server_error"
  ELSE IF status = 503 /\ detail = "slowdown"  THEN "throttled"
  ELSE IF Within(status, 400, 499)             THEN "client_error"
  ELSE "other"

\* The arms of `match status`, in their order: the ranges come last.
OfStatus(status, detail) ==
  IF status \in {401, 403}                     THEN "auth"
  ELSE IF status = 404                         THEN "not_found"
  ELSE IF status = 429                         THEN "throttled"
  ELSE IF status = 503 /\ detail = "slowdown"  THEN "throttled"
  ELSE IF Within(status, 500, 599)             THEN "server_error"
  ELSE IF Within(status, 400, 499)             THEN "client_error"
  ELSE "other"

Classify(e) ==
  IF e.variant = "service"                                 THEN OfStatus(e.status, e.detail)
  ELSE IF e.variant = "timeout"                            THEN "timeout"
  ELSE IF e.variant = "dispatch" /\ e.detail = "timed out" THEN "timeout"
  ELSE IF e.variant = "dispatch"                           THEN "network"
  ELSE "other"

-----------------------------------------------------------------------------

\* What the kinds are for: the caller that backs off on "throttled", gives up
\* on "auth" and "client_error" and tries "server_error" again does so for the
\* errors the store meant it for, and none is passed off as a configuration
\* error.
KindFits(e, kind) ==
  LET asked   == e.variant = "service"
      slowing == e.status = 429 \/ (e.status = 503 /\ e.detail = "slowdown")
  IN  /\ kind = "throttled" <=> asked /\ slowing
      /\ kind = "server_error" <=> asked /\ Within(e.status, 500, 599) /\ ~slowing
      /\ kind \in {"auth", "not_found", "client_error"}
           <=> asked /\ Within(e.status, 400, 499) /\ ~slowing
      /\ kind = "auth" <=> asked /\ e.status \in {401, 403}
      /\ kind \in {"timeout", "network"} => ~asked
      /\ kind # "config"
=============================================================================
