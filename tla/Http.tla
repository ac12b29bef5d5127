-------------------------------- MODULE Http --------------------------------
(***************************************************************************)
(* The response of one request as it passes through the middleware stack:  *)
(* the logger's statusRecorder around net/http's writer, the recoverer,    *)
(* and the domain-error middleware with the holder it puts into the        *)
(* request's context.  A response is a record:                             *)
(*   sent         status on the wire, 0 while the head is not written      *)
(*   bodies       the bodies written, named by what they say               *)
(*   status, wroteHeader   the fields of the statusRecorder                *)
(*   err          what the holder holds, "none" for nil                    *)
(*   logged       status in the log line, 0 before it                      *)
(***************************************************************************)
EXTENDS Naturals, Sequences

\* What loggerMiddleware and DomainErrorMiddleware make for each request.
NewResponse ==
    [sent |-> 0, bodies |-> <<>>, status |-> 200, wroteHeader |-> FALSE,
     err |-> "none", logged |-> 0]

\* The registry of the composition root.  The registered types are distinct
\* and none embeds another, so that the order of the entries says nothing; the
\* snake_case code stands for the type.
Registered(err) ==
    CASE err \in {"unauthorized_role", "unknown_action"} -> 403
      [] err \in {"book_not_found", "copy_not_found", "member_not_found",
                  "loan_not_found", "reservation_not_found", "fine_not_found",
                  "category_not_found"} -> 404
      [] err \in {"duplicate_isbn", "duplicate_email", "copy_unavailable",
                  "member_ineligible", "fine_already_paid",
                  "duplicate_category"} -> 409
      [] err \in {"invalid_book", "invalid_copy", "invalid_member",
                  "invalid_borrow", "invalid_reserve", "invalid_return",
                  "invalid_fine", "invalid_category", "empty_messages",
                  "invalid_categories_query", "invalid_chat_request"} -> 400
      [] err = "chat_gateway_error" -> 502
      [] OTHER -> 0

\* The first entry that matches the error, if there is one.
Lookup(err) == [status |-> Registered(err), ok |-> Registered(err) # 0]

\* net/http sends the first status it is given, and 200 before a body without one.
SendHead(w, code) == IF w.sent = 0 THEN [w EXCEPT !.sent = code] ELSE w

\* Mutant: records every status it is given.
WriteHeaderUnlatched(w, code) ==
    SendHead([w EXCEPT !.status = code, !.wroteHeader = TRUE], code)

\* statusRecorder.WriteHeader: the latch keeps the first status.
WriteHeader(w, code) ==
    SendHead(IF w.wroteHeader THEN w
             ELSE [w EXCEPT !.status = code, !.wroteHeader = TRUE], code)

\* statusRecorder.Write.
WriteBody(w, body) ==
    [SendHead(w, 200) EXCEPT !.wroteHeader = TRUE, !.bodies = Append(@, body)]

\* WriteJSON: the head is out before the body is encoded.
WriteJSON(w, code, body) == WriteBody(WriteHeader(w, code), body)

\* Handle stores the error its handler returned.
Handle(w, err) == [w EXCEPT !.err = err]

\* writeDomainErrorResponse: a registered error by its code, any other as a 500
\* that does not tell what it was.
WriteDomainError(w) ==
    IF Lookup(w.err).ok
    THEN WriteJSON(w, Lookup(w.err).status, w.err)
    ELSE WriteJSON(w, 500, "internal_error")

\* DomainErrorMiddleware once the handler has returned.
Translate(w) == IF w.err = "none" THEN w ELSE WriteDomainError(w)

\* Recoverer: the panic has passed the domain-error middleware by.
Recover(w) == WriteHeader(w, 500)

\* The log line of loggerMiddleware.
LogLine(w) == [w EXCEPT !.logged = w.status]

\* A handler that has written nothing is answered 200 by net/http.
FinishRequest(w) == SendHead(w, 200)
=============================================================================
