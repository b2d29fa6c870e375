---------------------------- MODULE BackendAdapter ----------------------------
(***************************************************************************)
(* What one call of a backend comes to: the reply to SearchRouterBackend.  *)
(* _post, the error BaseBackend makes of it (src/app/backends/base.py),    *)
(* and what is left of it for a search and for a health probe.  The mocks  *)
(* of src/app/backends/mocks.py make no call and always answer.            *)
(***************************************************************************)
EXTENDS Naturals

Statuses == {200, 302, 400, 401, 402, 403, 404, 429, 500, 503}

(* The length a reply declares and the one it has, against the cap; what   *)
(* its body is: no JSON, JSON but no object, an object whose items do not  *)
(* fit a result (a title that is no text), or one that does, be it empty.  *)
HttpReplies == [ends : {"reply"}, status : Statuses, declared : {"nothing", "within", "beyond"},
                size : {"within", "beyond"}, body : {"text", "list", "misfits", "results"}]

(* The call may also end without a reply.                                  *)
NoReplies == [ends : {"timeout", "transport error"}]

AllReplies == HttpReplies \cup NoReplies

MapTransportError(r) ==
    IF r.ends = "timeout" THEN "BackendTimeoutError" ELSE "BackendUnavailableError"

MapHttpError(status) ==
    CASE status \in {401, 403} -> "BackendAuthError"
      [] status \in {402, 429} -> "BackendQuotaError"
      [] status = 503          -> "BackendUnavailableError"
      [] status \in 500..599 \ {503} -> "BackendServerError"
      [] OTHER                 -> "BackendBadRequestError"

(* enforce_response_size: a length that is declared is believed.           *)
TooLarge(r) == r.declared = "beyond" \/ (r.declared = "nothing" /\ r.size = "beyond")

(* _post: the data of the reply or the BackendError that is raised.        *)
Post(r) ==
    IF r.ends # "reply" THEN MapTransportError(r)
    ELSE IF r.status >= 400 THEN MapHttpError(r.status)
    ELSE IF TooLarge(r) \/ r.body \in {"text", "list"} THEN "BackendBadResponseError"
    ELSE "data"

(* search_web and search_images: the results are validated outside of any  *)
(* translation of errors.                                                  *)
SearchEnd(r) ==
    IF Post(r) # "data" THEN "backend error"
    ELSE IF r.body = "misfits" THEN "other exception" ELSE "answer"

(* healthcheck, whose probe is a search of which nothing is validated.     *)
HealthCheck(r) == IF Post(r) = "data" THEN "ok" ELSE "down"
==============================================================================
