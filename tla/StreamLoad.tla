------------------------------ MODULE StreamLoad ------------------------------
(***************************************************************************)
(* StreamLoadClient.load (write/stream_load.py): one HTTP PUT per call,   *)
(* followed through at most one front-end to back-end redirect, whose     *)
(* failures are sorted into "nothing was stored" and "unknown" by what    *)
(* the tracking connection saw leave the client, where there is one.      *)
(*                                                                         *)
(* The client's steps are the socket operations http.client performs for  *)
(* it: send(headers), send(body), getresponse, read.  Doris, whatever     *)
(* stands in front of it and the network are external: Doris runs one     *)
(* transaction per label, may go on after the client gave up, and every   *)
(* operation of the client may fail at any time.                          *)
(***************************************************************************)

CONSTANTS
    Requests,        \* the calls of load, each with its own payload
    Labels,          \* the labels DorisWriteOptions.label can draw
    NoLabel,         \* the label of a request before load has drawn one
    GatewayReplies,  \* the responses something other than Doris may write
    Secure,          \* the calls whose connection has http_secure
    PlainTargets     \* the schemes a call without it is redirected to

Codes == {"2xx", "3xx", "4xx", "5xx"}

(* A response body, as far as _parse_response tells bodies apart.
   "bad_counts" is a Success whose counters are missing, not numbers or do
   not fit the request, "odd_counts" one with a counter of digits that int()
   does not read, such as a superscript; "malformed" is not a JSON object with a textual
   status, or too large, or cut short; "statusless" is a JSON object that
   carries no Status at all. *)
Bodies == {"success", "publish_timeout", "fail", "label_exists",
           "bad_counts", "odd_counts", "malformed", "statusless"}

Replies == [code : Codes, body : Bodies]
NoReply == [code |-> "none", body |-> "none"]

ASSUME LabelAssumption == NoLabel \notin Labels
ASSUME GatewayAssumption == GatewayReplies \subseteq Replies

Schemes == {"http", "https"}
ASSUME SchemesAssumption == Secure \subseteq Requests /\ PlainTargets \subseteq Schemes

VARIABLES
    phase,     \* the socket operation each request performs next
    hop,       \* 1 at the configured endpoint, 2 after the redirect
    scheme,    \* the scheme of the present hop
    tracker,   \* the _RequestTransmission of the present hop
    label,     \* the label in the headers of each request
    sentAs,    \* the labels the payload of each request was sent under
    reply,     \* the response waiting on the present connection
    outcome,   \* what load returned or raised
    arrived,   \* how much of the request under a label its server has
    txn        \* the transaction Doris keeps under a label

clientVars == <<phase, hop, scheme, tracker, label, sentAs, outcome>>
vars == <<phase, hop, scheme, tracker, label, sentAs, reply, outcome, arrived, txn>>

Phases == {"idle", "headers", "body", "await", "read", "read_error", "done"}
Acknowledged == {"success", "publish_timeout"}
KnownFailures == {"write_error", "config_error"}
Outcomes == Acknowledged \cup KnownFailures
              \cup {"none", "ambiguous", "label_exists", "incomplete_read",
                    "value_error"}
Arrivals == {"nothing", "headers", "body", "redirected"}
Transactions == {"absent", "running", "committed", "visible", "aborted"}

Unsent == [header |-> FALSE, body |-> FALSE]
Taken == {label[r] : r \in Requests} \cup UNION {sentAs[r] : r \in Requests}
Committed(l) == txn[l] \in {"committed", "visible"}
Copies(r) == {l \in sentAs[r] : Committed(l)}

Endpoint(r) == IF r \in Secure THEN "https" ELSE "http"

Init ==
    /\ phase = [r \in Requests |-> "idle"]
    /\ hop = [r \in Requests |-> 1]
    /\ scheme = [r \in Requests |-> Endpoint(r)]
    /\ tracker = [r \in Requests |-> Unsent]
    /\ label = [r \in Requests |-> NoLabel]
    /\ sentAs = [r \in Requests |-> {}]
    /\ reply = [r \in Requests |-> NoReply]
    /\ outcome = [r \in Requests |-> "none"]
    /\ arrived = [l \in Labels |-> "nothing"]
    /\ txn = [l \in Labels |-> "absent"]

-------------------------------------------------------------------------------
(* How the client classifies what it sees *)

(* The tracking connection's send: the first call carries the headers, any
   later one the body, and the flag is set before the bytes leave. *)
Mark(t) == IF t.header THEN [t EXCEPT !.body = TRUE]
                       ELSE [t EXCEPT !.header = TRUE]

(* The opener always has the tracking handler for http and, with
   http_secure, the one for https.  Without it build_opener adds urllib's
   own handler, whose connections mark nothing. *)
Tracked(r) == scheme[r] = "http" \/ r \in Secure

(* The record of request r once its connection has sent once more. *)
Sent(r) == IF Tracked(r) THEN Mark(tracker[r]) ELSE tracker[r]

(* Mutated: a retained label taken for an earlier success of the load. *)
ParseResponseRetained(body) ==
    CASE body \in {"label_exists", "publish_timeout"} -> "publish_timeout"
      [] body = "success"                            -> "success"
      [] body \in {"fail", "statusless"}             -> "write_error"
      [] body = "odd_counts"                         -> "value_error"
      [] OTHER                                       -> "malformed"

ParseResponse(body) ==
    CASE body \in Acknowledged          -> body
      [] body = "label_exists"          -> "label_exists"
      [] body \in {"fail", "statusless"} -> "write_error"
      [] body = "odd_counts"            -> "value_error"
      [] OTHER                          -> "malformed"

(* Mutated: a lost connection is always a plain failure. *)
TransportErrorPlain(t) == "write_error"

TransportError(t) == IF t.body THEN "ambiguous" ELSE "write_error"

(* Mutated: any HTTP error status is a known rejection. *)
ResponseErrorByStatus(t, code) ==
    IF t.body /\ code = "2xx" THEN "ambiguous" ELSE "write_error"

ResponseError(t, code) ==
    IF t.body /\ code # "4xx" THEN "ambiguous" ELSE "write_error"

(* Mutated: the malformed response is not classified. *)
ResponseVerdictUnclassified(t, body) ==
    IF t.body THEN ParseResponse(body) ELSE "write_error"

(* The verdict on a body read from a 2xx response. *)
ResponseVerdict(t, body) ==
    LET parsed == ParseResponse(body)
    IN  IF parsed = "malformed" THEN ResponseError(t, "2xx") ELSE parsed

(* The verdict on a body read from an HTTPError: a result that parses is an
   error all the same. *)
HttpErrorVerdict(t, code, body) ==
    LET parsed == ParseResponse(body)
    IN  IF parsed = "malformed"    THEN ResponseError(t, code)
        ELSE IF parsed \in {"label_exists", "value_error"} THEN parsed
        ELSE "write_error"

Conclude(r, o) ==
    /\ phase' = [phase EXCEPT ![r] = "done"]
    /\ outcome' = [outcome EXCEPT ![r] = o]

-------------------------------------------------------------------------------
(* The client *)

Start(r) ==
    /\ phase[r] = "idle"
    /\ \E l \in Labels \ Taken : label' = [label EXCEPT ![r] = l]
    /\ phase' = [phase EXCEPT ![r] = "headers"]
    /\ UNCHANGED <<hop, scheme, tracker, sentAs, reply, outcome, arrived, txn>>

(* The label is too long or the password does not resolve. *)
Misconfigured(r) ==
    /\ phase[r] = "idle"
    /\ Conclude(r, "config_error")
    /\ UNCHANGED <<hop, scheme, tracker, label, sentAs, reply, arrived, txn>>

SendHeaders(r) ==
    /\ phase[r] = "headers"
    /\ tracker' = [tracker EXCEPT ![r] = Sent(r)]
    /\ sentAs' = [sentAs EXCEPT ![r] = @ \cup {label[r]}]
    /\ arrived' = [arrived EXCEPT ![label[r]] = "headers"]
    /\ phase' = [phase EXCEPT ![r] = "body"]
    /\ UNCHANGED <<hop, scheme, label, reply, outcome, txn>>

(* Connecting is part of the first send, so its failure lands here too. *)
SendHeadersFails(r) ==
    /\ phase[r] = "headers"
    /\ tracker' = [tracker EXCEPT ![r] = Sent(r)]
    /\ Conclude(r, TransportError(tracker'[r]))
    /\ UNCHANGED <<hop, scheme, label, sentAs, reply, arrived, txn>>

(* What a server that is not redirecting has got once the body was sent. *)
WholeRequest(l) ==
    [arrived EXCEPT ![l] = IF @ = "redirected" THEN @ ELSE "body"]

SendBody(r) ==
    /\ phase[r] = "body"
    /\ tracker' = [tracker EXCEPT ![r] = Sent(r)]
    /\ arrived' = WholeRequest(label[r])
    /\ phase' = [phase EXCEPT ![r] = "await"]
    /\ UNCHANGED <<hop, scheme, label, sentAs, reply, outcome, txn>>

(* An exception out of send does not tell how much of the body arrived. *)
SendBodyFails(r) ==
    /\ phase[r] = "body"
    /\ tracker' = [tracker EXCEPT ![r] = Sent(r)]
    /\ arrived' \in {arrived, WholeRequest(label[r])}
    /\ Conclude(r, TransportError(tracker'[r]))
    /\ UNCHANGED <<hop, scheme, label, sentAs, reply, txn>>

(* Mutated: a lost response sends the payload again under a fresh label. *)
NoResponseReplays(r) ==
    /\ phase[r] = "await"
    /\ \E l \in Labels \ Taken : label' = [label EXCEPT ![r] = l]
    /\ tracker' = [tracker EXCEPT ![r] = Unsent]
    /\ reply' = [reply EXCEPT ![r] = NoReply]
    /\ phase' = [phase EXCEPT ![r] = "headers"]
    /\ UNCHANGED <<hop, scheme, sentAs, outcome, arrived, txn>>

(* Mutated: no timeout, only a connection closed by the server is noticed. *)
NoResponseUntimed(r) ==
    /\ phase[r] = "await" /\ txn[label[r]] = "aborted"
    /\ Conclude(r, TransportError(tracker[r]))
    /\ UNCHANGED <<hop, scheme, tracker, label, sentAs, reply, arrived, txn>>

(* getresponse times out, or the connection closes before a status line. *)
NoResponse(r) ==
    /\ phase[r] = "await"
    /\ Conclude(r, TransportError(tracker[r]))
    /\ UNCHANGED <<hop, scheme, tracker, label, sentAs, reply, arrived, txn>>

(* urllib hands a 2xx response back and raises HTTPError for any other. *)
GetResponse(r) ==
    /\ phase[r] = "await"
    /\ reply[r] # NoReply
    /\ ~(reply[r].code = "3xx" /\ hop[r] = 1)
    /\ phase' = [phase EXCEPT ![r] =
                   IF reply[r].code = "2xx" THEN "read" ELSE "read_error"]
    /\ UNCHANGED <<hop, scheme, tracker, label, sentAs, reply, outcome, arrived, txn>>

(* What _validate_redirect_target lets through: http_secure excludes a
   downgrade, nothing excludes an upgrade. *)
Targets(r) == IF r \in Secure THEN {"https"} ELSE PlainTargets

(* Mutated: the redirected request goes on with the first hop's tracker. *)
FollowRedirectTracked(r) ==
    /\ phase[r] = "await"
    /\ hop[r] = 1 /\ reply[r].code = "3xx"
    /\ hop' = [hop EXCEPT ![r] = 2]
    /\ \E s \in Targets(r) : scheme' = [scheme EXCEPT ![r] = s]
    /\ reply' = [reply EXCEPT ![r] = NoReply]
    /\ phase' = [phase EXCEPT ![r] = "headers"]
    /\ UNCHANGED <<tracker, label, sentAs, outcome, arrived, txn>>

(* The same payload, headers and label to an allowlisted target, under a
   tracker of its own. *)
FollowRedirect(r) ==
    /\ phase[r] = "await"
    /\ hop[r] = 1 /\ reply[r].code = "3xx"
    /\ hop' = [hop EXCEPT ![r] = 2]
    /\ \E s \in Targets(r) : scheme' = [scheme EXCEPT ![r] = s]
    /\ tracker' = [tracker EXCEPT ![r] = Unsent]
    /\ reply' = [reply EXCEPT ![r] = NoReply]
    /\ phase' = [phase EXCEPT ![r] = "headers"]
    /\ UNCHANGED <<label, sentAs, outcome, arrived, txn>>

(* No Location, or one that _validate_redirect_target rejects. *)
RefuseRedirect(r) ==
    /\ phase[r] = "await"
    /\ hop[r] = 1 /\ reply[r].code = "3xx"
    /\ Conclude(r, "write_error")
    /\ UNCHANGED <<hop, scheme, tracker, label, sentAs, reply, arrived, txn>>

(* urlsplit raises ValueError for a Location with unmatched brackets. *)
RedirectUnreadable(r) ==
    /\ phase[r] = "await"
    /\ hop[r] = 1 /\ reply[r].code = "3xx"
    /\ Conclude(r, "value_error")
    /\ UNCHANGED <<hop, scheme, tracker, label, sentAs, reply, arrived, txn>>

ReadResponse(r) ==
    /\ phase[r] = "read"
    /\ Conclude(r, ResponseVerdict(tracker[r], reply[r].body))
    /\ UNCHANGED <<hop, scheme, tracker, label, sentAs, reply, arrived, txn>>

ReadFails(r) ==
    /\ phase[r] = "read"
    /\ Conclude(r, TransportError(tracker[r]))
    /\ UNCHANGED <<hop, scheme, tracker, label, sentAs, reply, arrived, txn>>

ReadErrorBody(r) ==
    /\ phase[r] = "read_error"
    /\ Conclude(r, HttpErrorVerdict(tracker[r], reply[r].code, reply[r].body))
    /\ UNCHANGED <<hop, scheme, tracker, label, sentAs, reply, arrived, txn>>

(* _read_error_body turns an OSError into an empty body... *)
ErrorBodyLost(r) ==
    /\ phase[r] = "read_error"
    /\ Conclude(r, HttpErrorVerdict(tracker[r], reply[r].code, "malformed"))
    /\ UNCHANGED <<hop, scheme, tracker, label, sentAs, reply, arrived, txn>>

(* ...but http.client.IncompleteRead is not one, and it is raised inside the
   handler of the HTTPError, so the handlers beside it do not see it. *)
ErrorBodyCutShort(r) ==
    /\ phase[r] = "read_error"
    /\ Conclude(r, "incomplete_read")
    /\ UNCHANGED <<hop, scheme, tracker, label, sentAs, reply, arrived, txn>>

Client(r) ==
    \/ Start(r) \/ Misconfigured(r)
    \/ SendHeaders(r) \/ SendHeadersFails(r)
    \/ SendBody(r) \/ SendBodyFails(r)
    \/ NoResponse(r) \/ GetResponse(r)
    \/ FollowRedirect(r) \/ RefuseRedirect(r) \/ RedirectUnreadable(r)
    \/ ReadResponse(r) \/ ReadFails(r)
    \/ ReadErrorBody(r) \/ ErrorBodyLost(r) \/ ErrorBodyCutShort(r)

-------------------------------------------------------------------------------
(* Doris, and what stands between it and the client *)

AwaitsReply(r) == phase[r] \in {"body", "await"} /\ reply[r] = NoReply

Answer(r, answer) ==
    /\ reply' = [reply EXCEPT ![r] = answer]
    /\ UNCHANGED clientVars

(* A node that redirects a request has not begun its load and drops it. *)
Redirect(r) ==
    /\ AwaitsReply(r)
    /\ txn[label[r]] = "absent"
    /\ arrived' = [arrived EXCEPT ![label[r]] = "redirected"]
    /\ Answer(r, [code |-> "3xx", body |-> "malformed"])
    /\ UNCHANGED txn

HasRequest(l) == arrived[l] \in {"headers", "body"}

Begin(l) ==
    /\ HasRequest(l) /\ txn[l] = "absent"
    /\ txn' = [txn EXCEPT ![l] = "running"]
    /\ UNCHANGED <<clientVars, reply, arrived>>

(* Refused at the headers, too many filtered rows, the connection gone. *)
Abort(l) ==
    /\ HasRequest(l) /\ txn[l] \in {"absent", "running"}
    /\ txn' = [txn EXCEPT ![l] = "aborted"]
    /\ UNCHANGED <<clientVars, reply, arrived>>

Commit(l) ==
    /\ arrived[l] = "body" /\ txn[l] = "running"
    /\ txn' = [txn EXCEPT ![l] = "committed"]
    /\ UNCHANGED <<clientVars, reply, arrived>>

Publish(l) ==
    /\ txn[l] = "committed"
    /\ txn' = [txn EXCEPT ![l] = "visible"]
    /\ UNCHANGED <<clientVars, reply, arrived>>

(* What Doris may say of the load under a label, or what is left of it on
   the way back.  "label_exists" answers a copy of the request that an
   intermediary delivered a second time. *)
Says(l, body) ==
    \/ body = "success" /\ txn[l] = "visible"
    \/ body = "publish_timeout" /\ txn[l] = "committed"
    \/ body \in {"bad_counts", "odd_counts"} /\ Committed(l)
    \/ body = "fail" /\ txn[l] = "aborted"
    \/ body \in {"label_exists", "malformed"} /\ txn[l] # "absent"

DorisReplies(r) ==
    /\ AwaitsReply(r)
    /\ \E body \in Bodies :
         /\ Says(label[r], body)
         /\ Answer(r, [code |-> "2xx", body |-> body])
    /\ UNCHANGED <<arrived, txn>>

(* An HTTP 4xx means that the request was rejected before Doris began it;
   any other response of an intermediary says nothing about the load. *)
GatewayReplies4xx(r) ==
    /\ AwaitsReply(r) /\ txn[label[r]] = "absent"
    /\ \E answer \in GatewayReplies : answer.code = "4xx" /\ Answer(r, answer)
    /\ txn' = [txn EXCEPT ![label[r]] = "aborted"]
    /\ UNCHANGED arrived

GatewayRepliesOther(r) ==
    /\ AwaitsReply(r)
    /\ \E answer \in GatewayReplies :
         answer.code \in {"2xx", "5xx"} /\ Answer(r, answer)
    /\ UNCHANGED <<arrived, txn>>

Environment ==
    \/ \E l \in Labels : Begin(l) \/ Abort(l) \/ Commit(l) \/ Publish(l)
    \/ \E r \in Requests : \/ Redirect(r) \/ DorisReplies(r)
                           \/ GatewayReplies4xx(r) \/ GatewayRepliesOther(r)

Finished == (\A r \in Requests : phase[r] = "done") /\ UNCHANGED vars

Next == (\E r \in Requests : Client(r)) \/ Environment \/ Finished

Spec == Init /\ [][Next]_vars

(* The call runs on a thread of its own, and every socket operation in it
   carries request_timeout_seconds: an operation that gets no answer raises
   TimeoutError.  Nothing is assumed of Doris or the network. *)
FairSpec == Spec /\ \A r \in Requests : WF_vars(Client(r) /\ phase[r] # "idle")

-------------------------------------------------------------------------------
(* Properties *)

(* Every variable keeps its type, and a call of load ends only with one of
   the results and errors that its classification knows. *)
TypeOK ==
    /\ phase \in [Requests -> Phases]
    /\ hop \in [Requests -> {1, 2}]
    /\ scheme \in [Requests -> Schemes]
    /\ tracker \in [Requests -> [header : BOOLEAN, body : BOOLEAN]]
    /\ label \in [Requests -> Labels \cup {NoLabel}]
    /\ sentAs \in [Requests -> SUBSET Labels]
    /\ reply \in [Requests -> Replies \cup {NoReply}]
    /\ outcome \in [Requests -> Outcomes]
    /\ arrived \in [Labels -> Arrivals]
    /\ txn \in [Labels -> Transactions]

(* A request reported as failed (any error but the ambiguous one and the
   retained label) has stored nothing, at that moment and ever after: the
   caller may send its rows again.  This is what _RequestTransmission and
   the response classification are for. *)
KnownFailureNeverCommits ==
    \A r \in Requests : outcome[r] \in KnownFailures => Copies(r) = {}

(* A request that returned a DorisLoadResult is committed under the label
   in that result, and one with status Success can be read. *)
AcknowledgedIsCommitted ==
    \A r \in Requests :
        /\ outcome[r] \in Acknowledged => Committed(label[r])
        /\ outcome[r] = "success" => txn[label[r]] = "visible"

(* Whatever fails, is redirected or is delivered again, Doris holds the rows
   of a request under at most one label: load never replays a payload under
   another label. *)
AtMostOnce ==
    \A r \in Requests : \A l, m \in Copies(r) : l = m

(* The ambiguous error is kept for requests whose body was handed to the
   socket on the hop that failed: one that fails while it connects, or sends
   its headers to the redirect target, is a plain failure although the first
   hop may have sent the whole body. *)
AmbiguousOnlyAfterBody ==
    [][\A r \in Requests :
         outcome'[r] = "ambiguous" /\ outcome[r] # "ambiguous"
           => phase[r] \in {"body", "await", "read", "read_error"}]_vars

(* load always comes back: with a timeout on every socket operation neither
   a silent server nor a redirect keeps a call alive for ever. *)
EveryLoadConcludes ==
    \A r \in Requests : phase[r] = "headers" ~> phase[r] = "done"

(* "Truncated [...] response bodies [...] are generally
   DorisAmbiguousWriteError": the exception of http.client does not leave
   load in its place. *)
TruncatedIsClassified == \A r \in Requests : outcome[r] # "incomplete_read"

(* The client keeps the promise of AtomicLoad. *)
Verdict(r) ==
    CASE outcome[r] \in Acknowledged  -> "stored"
      [] outcome[r] \in KnownFailures -> "failed"
      [] outcome[r] = "none"          -> IF phase[r] = "idle" THEN "idle"
                                                              ELSE "running"
      [] OTHER                        -> "unknown"

Promise == INSTANCE AtomicLoad
             WITH verdict <- [r \in Requests |-> Verdict(r)],
                  copies <- [r \in Requests |-> Copies(r)]

KeepsPromise == Promise!ASpec
===============================================================================
