------------------------------- MODULE Handler -------------------------------
(***************************************************************************)
(* What the HTTP handlers of internal/api/handler.go make of the results   *)
(* of the cache service.  A handler that has parsed its request makes one  *)
(* call and answers at once, so its state is the request's in              *)
(* CacheService.  A body or a value that does not parse is answered 400    *)
(* before anything is called and is left out.                              *)
(***************************************************************************)
EXTENDS CacheService

StatusOK == 200
StatusNotFound == 404
StatusConflict == 409
StatusInternalServerError == 500
StatusServiceUnavailable == 503

AnyErrorIsUnavailable(status) ==
  CASE status = "ok"        -> StatusOK
    [] status = "notfound"  -> StatusNotFound
    [] status = "mismatch"  -> StatusConflict
    [] OTHER                -> StatusServiceUnavailable
\* The chain of errors.Is in Get, Set and Delete; only Get meets ErrKeyNotFound.
Code(status) ==
  CASE status = "ok"        -> StatusOK
    [] status = "notfound"  -> StatusNotFound
    [] status = "mismatch"  -> StatusConflict
    [] status = "unhealthy" -> StatusServiceUnavailable
    [] OTHER                -> StatusInternalServerError

\* What the client of the last request of p has been answered.
Answered(p, kinds, code) ==
  /\ pc[p] = "idle" /\ result[p].kind \in kinds
  /\ Code(result[p].status) = code

\* The table behind HEAD: a lookup that has no backends.
getBackendByID(b) == {}

\* Exists asks the memory backends it can find.
Exists(k) ==
  IF \E b \in {Local} : \E instance \in getBackendByID(b) : Has(instance, k)
    THEN StatusOK ELSE StatusNotFound

-----------------------------------------------------------------------------
(* Properties *)

\* The backends in which the value of the last Set of p is to be found.
Holders(p) == {b \in Backends : \E k \in Keys : store[b][k].op = req[p].op}

\* PROMPT.txt:15, an error tells where it comes from.  A Set or a Delete that is
\* answered 503 has left the backend the router named as it was, whatever flag has
\* changed between the lookup and the call.  The local cache may be changed by
\* then: Delete and setCacheAside go to it first.  But the value of the Set gets no
\* further, by no fill and no read, and only a cache-aside Set has left it there.
\* One that is answered 409 has left its value nowhere.  A call that may have been
\* carried out, such as one that timed out, is answered 500.
RefusedStaysLocal ==
  \A p \in Procs :
    /\ Answered(p, {"set", "delete"}, StatusServiceUnavailable) =>
         /\ req[p].op \notin written
         /\ Holders(p) \subseteq IF req[p].mode = "cache-aside" THEN {Local} ELSE {}
    /\ Answered(p, {"set"}, StatusConflict) =>
         req[p].op \notin written /\ Holders(p) = {}

-----------------------------------------------------------------------------
(* Documents promise, and the code does not keep *)

\* handler.go:81, HEAD on a key tells whether it is there, as GET does.
ExistsTellsTruth == \A k \in Keys : Has(Local, k) => Exists(k) = StatusOK
=============================================================================
