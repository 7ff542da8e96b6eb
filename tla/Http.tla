-------------------------------- MODULE Http --------------------------------
(***************************************************************************)
(* One call of HttpBackend (src/http_backend.cpp): complete, which talks   *)
(* to the provider, and respond_attempt, which reads an outcome from the   *)
(* reply.  Text is abstracted to what the two tell apart: an answer is the *)
(* outcome, or the first thing that went wrong, and what matters of a      *)
(* failure is its FailureKind, because that decides whom it blames.        *)
(* Backends of other kinds answer with the same failures.                  *)
(***************************************************************************)

\* No usable credential in the environment or the credential file.
Keyless == {"keyless"}

\* cancelled() before the transfer.
Stopped == {"stopped"}

\* The transfer ran into its deadline.
Late == {"late"}

\* The transfer broke: no connection, a body over the limit, a cancellation
\* seen by the progress callback; or the status is not 2xx.
Unreachable == {"disconnected", "oversized", "aborted", "status"}

\* A 2xx reply that echoes the credential, is not the provider's envelope, is
\* cut off or calls tools, or reports more tokens than the context has.
BadEnvelope == {"echo", "garbled", "incomplete", "overflowed"}

\* Content that is no JSON, or neither a transition nor an abstention.
BadContent == {"unparsable", "malformed"}

\* An abstention, one under the name "abstention", or a refusal by the provider.
Abstentions == {"abstention", "misnamed", "refusal"}

\* Anything else that is thrown.
Fault == {"fault"}

Failures == Keyless \cup Stopped \cup Late \cup Unreachable \cup BadEnvelope \cup BadContent \cup Fault

\* Mutant: a status that is not 2xx is read as a bad reply.
FailureKindByReply(answer) ==
    CASE answer \in Keyless -> "credentials"
      [] answer \in Late -> "timeout"
      [] answer \in BadEnvelope \cup BadContent \cup {"status"} -> "invalid_output"
      [] answer \in Unreachable -> "transport"
      [] OTHER -> "backend"

\* The BackendFailure that is thrown.
FailureKind(answer) ==
    CASE answer \in Keyless -> "credentials"
      [] answer \in Late -> "timeout"
      [] answer \in Unreachable -> "transport"
      [] answer \in BadEnvelope \cup BadContent -> "invalid_output"
      [] OTHER -> "backend"

\* Only an invalid output counts against the occasion.
failure_scope(kind) == IF kind = "invalid_output" THEN "occasion" ELSE "transient"
=============================================================================
