------------------------------ MODULE APIChain ------------------------------
(***************************************************************************)
(* One request through the middleware of the HTTP API, internal/api: each  *)
(* layer answers, or hands the request to the next one and looks at it     *)
(* again when that returns or panics.  Requests share nothing but the rate *)
(* limits (module RateTable), whose decision is a choice here.             *)
(*                                                                         *)
(* A body is its length, a status a name.  The size limit is what Load     *)
(* makes of the number and unit in REQUEST_SIZE_LIMIT, in integers of a    *)
(* given width.  What is logged is the set of lines written.               *)
(***************************************************************************)
EXTENDS Integers

CONSTANTS
    Half,      \* integers are -Half .. Half - 1
    Numbers,   \* numbers in REQUEST_SIZE_LIMIT
    Kilo,      \* bytes in the larger unit
    MaxBody    \* the longest body

ASSUME SizesAssumption ==
    /\ Half \in Nat \ {0} /\ Kilo \in Nat \ {0} /\ MaxBody \in 0..(Half - 1)
    /\ Numbers \subseteq 0..(Half - 1)

NoStatus == "none"
Statuses == {"ok", "client error", "unauthorized", "too large", "too many",
             "not allowed", "server error"}

Keys    == {"none", "unknown", "current", "old"}
Origins == {"none", "allowed", "other"}

\* What a client may send; declared is the Content-Length, -1 for a chunked
\* body.  A body that is cut ends early: before its declared length, or without
\* the last chunk.
Request == {q \in [key: Keys, origin: Origins, method: {"GET", "POST", "OPTIONS"},
                   health: BOOLEAN, id: BOOLEAN, body: 0..MaxBody,
                   declared: -1..(MaxBody + 1), cut: BOOLEAN] :
                /\ q.declared \in {-1, IF q.cut THEN q.body + 1 ELSE q.body}
                /\ q.method = "GET" => q.body = 0 /\ q.declared = 0 /\ ~q.cut}

VARIABLES
    size,      \* REQUEST_SIZE_LIMIT: number and unit
    req,       \* the request
    pc,        \* the layer it has come to
    wire,      \* the status sent to the client
    rw,        \* the status captured by the writer of Logging
    headers,   \* response headers: "cors", "security" and the request ids
    log,       \* lines written
    got,       \* the body handed on: its length, and whether it ends in an error
    panicking, \* a panic is on its way up
    written    \* history: the handler had answered when it panicked

vars == <<size, req, pc, wire, rw, headers, log, got, panicking, written>>

-----------------------------------------------------------------------------
(* Configuration.                                                          *)

\* Integers wrap around.
Wrapped(n) == ((n + Half) % (2 * Half)) - Half

\* parseSizeBytes
Limit(s) == Wrapped(s.number * s.unit)

\* The order in which api.New wraps the handlers, from the outside.
Inner == [cors |-> "security", security |-> "rate", rate |-> "size",
          size |-> "logging", logging |-> "root", auth |-> "audit",
          audit |-> "handler"]

-----------------------------------------------------------------------------

NoRequest == CHOOSE q \in Request : TRUE

Init ==
    /\ size \in [number: Numbers, unit: {1, Kilo}] /\ req = NoRequest
    /\ pc = "idle" /\ wire = NoStatus /\ rw = [status |-> "ok", wrote |-> FALSE]
    /\ headers = {} /\ log = {} /\ got = [body |-> 0, cut |-> FALSE]
    /\ panicking = FALSE /\ written = FALSE

Receive ==
    /\ pc = "idle"
    /\ req' \in Request
    /\ pc' = "cors"
    /\ got' = [body |-> req'.body, cut |-> req'.cut]
    /\ UNCHANGED <<size, wire, rw, headers, log, panicking, written>>

\* The answer has been sent.
Finish ==
    /\ pc = "done"
    /\ req' = NoRequest
    /\ pc' = "idle" /\ wire' = NoStatus /\ rw' = [status |-> "ok", wrote |-> FALSE]
    /\ headers' = {} /\ log' = {} /\ got' = [body |-> 0, cut |-> FALSE]
    /\ panicking' = FALSE /\ written' = FALSE
    /\ UNCHANGED size

\* http.ResponseWriter: the first status counts.
Send(s) == wire' = IF wire = NoStatus THEN s ELSE wire

\* A layer outside Logging answers.
Answer(s) ==
    /\ Send(s) /\ pc' = "done"
    /\ UNCHANGED <<size, req, rw, got, panicking, written>>

\* It hands the request on.
Proceed ==
    /\ pc' = Inner[pc]
    /\ UNCHANGED <<size, req, wire, rw, panicking, written>>

\* Only an allowed origin gets the headers, and its OPTIONS an answer here.
CORS ==
    /\ pc = "cors"
    /\ UNCHANGED log
    /\ headers' = IF req.origin = "allowed" THEN {"cors"} ELSE {}
    /\ IF req.origin = "allowed" /\ req.method = "OPTIONS"
       THEN Answer("ok") ELSE Proceed /\ UNCHANGED got

Security ==
    /\ pc = "security"
    /\ headers' = headers \cup {"security"}
    /\ Proceed /\ UNCHANGED <<log, got>>

\* Module RateTable says which.
RateLimit ==
    /\ pc = "rate"
    /\ \/ Answer("too many") /\ log' = log \cup {"rate limit exceeded"}
       \/ Proceed /\ UNCHANGED <<log, got>>
    /\ UNCHANGED headers

\* Faulty variant: one byte less is read than is needed to see an excess.
ReadShort(max) ==
    LET n == IF req.body < max THEN req.body ELSE max IN
    [body |-> n, cut |-> req.cut /\ n = req.body]

\* io.ReadAll of at most max + 1 bytes: it does not come to the end of a
\* longer body, and to nothing if max is the largest integer.
Read(max) ==
    LET most == IF Wrapped(max + 1) < 0 THEN 0 ELSE Wrapped(max + 1) IN
    IF req.body < most THEN [body |-> req.body, cut |-> req.cut]
                       ELSE [body |-> most, cut |-> FALSE]

\* Faulty variant: a chunked body, of unknown length, is taken for none.
SizeLimitByLength ==
    /\ pc = "size"
    /\ IF req.declared <= 0 \/ Limit(size) <= 0 \/ req.declared <= Limit(size)
       THEN Proceed /\ UNCHANGED <<log, got>>
       ELSE Answer("too large") /\ log' = log \cup {"body too large"}
    /\ UNCHANGED headers

\* No body or no limit; too long by its Content-Length; else it is read.
SizeLimit ==
    /\ pc = "size"
    /\ LET max == Limit(size) IN
       IF req.declared = 0 \/ max <= 0
       THEN Proceed /\ UNCHANGED <<log, got>>
       ELSE IF req.declared > max
       THEN Answer("too large") /\ log' = log \cup {"body too large"}
       ELSE \/ /\ ~Read(max).cut /\ Read(max).body <= max
               /\ got' = Read(max)
               /\ Proceed /\ UNCHANGED log
            \/ /\ Read(max).cut
               /\ Answer("server error") /\ log' = log \cup {"failed to read"}
            \/ /\ ~Read(max).cut /\ Read(max).body > max
               /\ Answer("too large") /\ log' = log \cup {"body too large"}
    /\ UNCHANGED headers

\* Logging makes an id if the request has none, and puts it into the response.
Id(own) == IF req.id THEN "id: sent" ELSE own

Logging ==
    /\ pc = "logging"
    /\ headers' = headers \cup {Id("id: logging")}
    /\ log' = log \cup {"started", Id("id: logging")}
    /\ Proceed /\ UNCHANGED got

-----------------------------------------------------------------------------
(* Inside Logging: answers go through its writer.                          *)

\* Faulty variant: it is not remembered that the header was written.
WriteHeaderForgets(s) ==
    IF rw.wrote THEN UNCHANGED <<wire, rw>>
    ELSE Send(s) /\ rw' = [status |-> s, wrote |-> FALSE]

\* responseWriter.WriteHeader
WriteHeader(s) ==
    IF rw.wrote THEN UNCHANGED <<wire, rw>>
    ELSE Send(s) /\ rw' = [status |-> s, wrote |-> TRUE]

Written(s) == WriteHeader(s) /\ UNCHANGED <<size, req, got>>

\* The handler writes its body, and with it "ok" if it has written no header.
\* A layer that has answered returns through it.
WriteBody ==
    /\ pc = "body"
    /\ pc' = "return"
    /\ WriteHeader("ok")
    /\ UNCHANGED <<size, req, headers, log, got, panicking, written>>

\* The mux: /health, which answers GET only, or the routes.
Root ==
    /\ pc = "root"
    /\ \/ /\ req.health
          /\ pc' = "body"
          /\ IF req.method = "GET" THEN UNCHANGED <<size, req, got, wire, rw>>
                                   ELSE Written("not allowed")
       \/ ~req.health /\ pc' = "auth" /\ UNCHANGED <<size, req, got, wire, rw>>
    /\ UNCHANGED <<headers, log, panicking, written>>

\* Faulty variant: an unknown key is answered and the request goes on.
APIKeyNoReturn ==
    /\ pc = "auth"
    /\ log' = log \cup {"auth success"}
    /\ pc' = Inner[pc]
    /\ IF req.key \in {"current", "old"} THEN UNCHANGED <<size, req, got, wire, rw>>
                                         ELSE Written("unauthorized")
    /\ UNCHANGED <<headers, panicking, written>>

\* Keys that have been rotated out are still good when they are listed as old.
APIKey ==
    /\ pc = "auth"
    /\ IF req.key \in {"current", "old"}
       THEN Proceed /\ log' = log \cup {"auth success", Id("id: auth")} /\ UNCHANGED got
       ELSE /\ pc' = "body"
            /\ log' = log \cup {Id("id: auth"),
                   IF req.key = "none" THEN "auth missing" ELSE "auth invalid"}
            /\ Written("unauthorized") /\ UNCHANGED <<panicking, written>>
    /\ UNCHANGED headers

\* Faulty variant: the header is added to, not set.
AuditAdds ==
    /\ pc = "audit"
    /\ headers' = headers \cup {Id("id: audit")}
    /\ Proceed /\ UNCHANGED <<log, got>>

\* The audit middleware sets the header again, to an id of its own making when
\* the request has none.
Audit ==
    /\ pc = "audit"
    /\ headers' = (headers \ {Id("id: logging")}) \cup {Id("id: audit")}
    /\ Proceed /\ UNCHANGED <<log, got>>

\* A route answers with a status and a body, or with a status alone.
Handler ==
    /\ pc = "handler"
    /\ \E s \in {"ok", "client error", "server error"} : Written(s)
    /\ pc' \in {"body", "return"}
    /\ UNCHANGED <<headers, log, panicking, written>>

\* It may panic before that, or after it.
Panic ==
    /\ pc \in {"handler", "body"} /\ "auth success" \in log
    /\ pc' = "recovery"
    /\ panicking' = TRUE /\ written' = (wire # NoStatus)
    /\ UNCHANGED <<size, req, wire, rw, headers, log, got>>

\* Logging has its last line after the call, not in a defer: a panic skips it.
Completed ==
    /\ pc = "return"
    /\ log' = log \cup {"completed"}
    /\ pc' = "recovery"
    /\ UNCHANGED <<size, req, wire, rw, headers, got, panicking, written>>

\* Recovery answers on the outer writer, where an earlier status stays.
Recovery ==
    /\ pc = "recovery"
    /\ pc' = "done" /\ panicking' = FALSE
    /\ IF panicking THEN log' = log \cup {"panic recovered"} /\ Send("server error")
                    ELSE UNCHANGED <<log, wire>>
    /\ UNCHANGED <<size, req, rw, headers, got, written>>

Next ==
    \/ Receive \/ Finish \/ CORS \/ Security \/ RateLimit \/ SizeLimit \/ Logging
    \/ Root \/ APIKey \/ Audit \/ Handler \/ WriteBody \/ Panic
    \/ Completed \/ Recovery

Spec == Init /\ [][Next]_vars
-----------------------------------------------------------------------------

Lines == {"rate limit exceeded", "body too large", "failed to read", "started",
          "auth missing", "auth invalid", "auth success", "completed",
          "panic recovered"}
Ids   == {"id: sent", "id: logging", "id: auth", "id: audit"}

TypeOK ==
    /\ size \in [number: Numbers, unit: {1, Kilo}]
    /\ req \in Request
    /\ pc \in {"cors", "security", "rate", "size", "logging", "root", "auth",
               "audit", "handler", "body", "return", "recovery", "done", "idle"}
    /\ wire \in Statuses \cup {NoStatus}
    /\ rw \in [status: Statuses, wrote: BOOLEAN]
    /\ headers \subseteq {"cors", "security"} \cup Ids
    /\ \A i, j \in headers \cap Ids : i = j
    /\ log \subseteq Lines \cup Ids
    /\ got \in [body: 0..MaxBody, cut: BOOLEAN]
    /\ panicking \in BOOLEAN /\ written \in BOOLEAN

\* A route runs only for a known key, before anything has been answered, and
\* the answer will carry the security headers: no layer lets pass what it has
\* refused.
RoutesGuarded == pc = "handler" =>
    /\ req.key \in {"current", "old"}
    /\ wire = NoStatus
    /\ "security" \in headers

\* A route gets the body the client sent, to its end or to its error: what the
\* size limit puts in its place is never a part of it, with any limit but the
\* largest integer.
BodyWhole == (pc = "handler" /\ Limit(size) # Half - 1) =>
    got = [body |-> req.body, cut |-> req.cut]

\* REQUEST_SIZE_LIMIT is the limit for every body, whatever length it declares,
\* as long as the product of its number and unit does not overflow.  (If it
\* does, the limit is another one, or none.)
LimitEnforced == pc = "handler" =>
    LET meant == size.number * size.unit IN
    meant \in 1..(Half - 1) => req.body <= meant

\* A request that Logging has seen is completed or has panicked, one of the two
\* is in the log, and it is answered: "request completed" has the status the
\* client got, and a panic before the answer makes it a server error.
LogTellsAnswer == (pc = "done" /\ "started" \in log) =>
    /\ wire # NoStatus
    /\ "completed" \in log <=> "panic recovered" \notin log
    /\ "completed" \in log => rw.status = wire
    /\ ("panic recovered" \in log /\ ~written) => wire = "server error"

=============================================================================
