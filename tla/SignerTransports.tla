-------------------------- MODULE SignerTransports --------------------------
(***************************************************************************)
(* The three ways the adapter reaches a signer (signer/local,              *)
(* signer/execsigner, signer/grpcremote): what happens at the other end,   *)
(* and the signer error code the adapter is left with.                     *)
(***************************************************************************)

Transports == {"local", "exec", "grpc"}

Codes == {"KEY_NOT_FOUND", "SUMMARY_MISMATCH", "POLICY_REJECTED", "SIGNER_UNAVAILABLE",
          "INTERNAL"}

(* Bare gRPC statuses, of a service that attaches no SignerErrorDetail.    *)
Statuses == {"NotFound", "InvalidArgument", "PermissionDenied", "FailedPrecondition",
             "Unavailable", "DeadlineExceeded", "Canceled", "Internal", "Unknown"}

Happening(kind, code) == [kind |-> kind, code |-> code]

(* What can happen to a request (external).  "error": the signing system   *)
(* refuses with a code, of the kit or its own; "malformed": its answer has *)
(* the wrong shape; "crash": it ends without an answer.                    *)
Happenings(transport) ==
    {Happening("reply", ""), Happening("timeout", "")}
    \cup {Happening("error", c) : c \in Codes}
    \cup IF transport = "local" THEN {}
         ELSE {Happening(k, "") : k \in {"unreachable", "malformed", "crash"}}
              \cup {Happening("error", "OWN_CODE")}
              \cup IF transport = "exec" THEN {} ELSE {Happening("bare", s) : s \in Statuses}

(* The signer could not be asked, or did not answer in time, or says so.   *)
Outages == {Happening("unreachable", ""), Happening("timeout", ""),
            Happening("error", "SIGNER_UNAVAILABLE"), Happening("bare", "Unavailable"),
            Happening("bare", "DeadlineExceeded"), Happening("bare", "Canceled")}
-----------------------------------------------------------------------------
(* exec: one subprocess per request *)

(* The typed error of a non-zero exit: stdout's before stderr's, and       *)
(* INTERNAL for none or an unknown one.                                    *)
mapExitError(stdout, stderr) ==
    LET printed == IF stdout # "" THEN stdout ELSE stderr IN
    IF printed \in Codes THEN printed ELSE "INTERNAL"

roundTrip(h) ==
    CASE h.kind \in {"timeout", "unreachable"} -> "SIGNER_UNAVAILABLE"
      [] h.kind = "error" -> mapExitError(h.code, "")
      [] h.kind = "crash" -> mapExitError("", "")
      [] h.kind = "malformed" -> "INTERNAL"
-----------------------------------------------------------------------------
(* grpc-remote: a status with or without a typed detail *)

codeToGRPC(code) ==
    CASE code = "KEY_NOT_FOUND" -> "NotFound"
      [] code = "SUMMARY_MISMATCH" -> "InvalidArgument"
      [] code = "POLICY_REJECTED" -> "PermissionDenied"
      [] code = "SIGNER_UNAVAILABLE" -> "Unavailable"
      [] code = "INTERNAL" -> "Internal"

signerErrorToStatus(code) ==
    LET known == IF code \in Codes THEN code ELSE "INTERNAL" IN
    [status |-> codeToGRPC(known), detail |-> known]


(* The detail wins; a bare status has its best equivalent.                 *)
statusToSignerError(st) ==
    IF st.detail \in Codes THEN st.detail
    ELSE CASE st.status = "NotFound" -> "KEY_NOT_FOUND"
           [] st.status = "InvalidArgument" -> "SUMMARY_MISMATCH"
           [] st.status \in {"PermissionDenied", "FailedPrecondition"} -> "POLICY_REJECTED"
           [] st.status \in {"Unavailable", "DeadlineExceeded", "Canceled"} -> "SIGNER_UNAVAILABLE"
           [] OTHER -> "INTERNAL"

(* The status the gRPC library hands to the client (external): a deadline  *)
(* and a refused connection are statuses it makes itself.                  *)
StatusOf(h) ==
    CASE h.kind = "error" -> signerErrorToStatus(h.code)
      [] h.kind = "bare" -> [status |-> h.code, detail |-> ""]
      [] h.kind = "unreachable" -> [status |-> "Unavailable", detail |-> ""]
      [] h.kind = "timeout" -> [status |-> "DeadlineExceeded", detail |-> ""]
      [] h.kind = "crash" -> [status |-> "Unknown", detail |-> ""]

grpcCode(h) == IF h.kind = "malformed" THEN "INTERNAL" ELSE statusToSignerError(StatusOf(h))
-----------------------------------------------------------------------------
(* local: in the adapter's own process; only its context can run out       *)
localCode(h) == IF h.kind = "timeout" THEN "SIGNER_UNAVAILABLE" ELSE h.code

(* The code of the signer error the adapter sees, for anything but a reply *)
SignerCode(transport, h) ==
    CASE transport = "local" -> localCode(h)
      [] transport = "exec" -> roundTrip(h)
      [] transport = "grpc" -> grpcCode(h)
=============================================================================
