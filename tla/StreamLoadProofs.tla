--------------------------- MODULE StreamLoadProofs ---------------------------
(***************************************************************************)
(* What holds of StreamLoad for every set of requests and labels.         *)
(* TypeCorrect assumes nothing; the other theorems assume that a response *)
(* written by an intermediary either rejects the request with an HTTP 4xx *)
(* or is malformed, which is what the response classification relies on.  *)
(* What a reported failure means depends on the body being tracked: it is *)
(* proved of each call whose last hop was tracked, and so of every call   *)
(* where no redirect leads from http to https.                            *)
(***************************************************************************)
EXTENDS StreamLoad, TLAPS

TrustedGateway ==
    \A g \in GatewayReplies : g.code # "4xx" => g.body = "malformed"

TrackedTargets == "https" \notin PlainTargets

(* A call draws its label before it sends anything. *)
LabelDrawn ==
    \A r \in Requests :
        /\ phase[r] = "idle" => label[r] = NoLabel
        /\ phase[r] \notin {"idle", "done"} => label[r] # NoLabel

(* A label belongs to the request that drew it, and to no other. *)
OwnLabels ==
    /\ \A r \in Requests : sentAs[r] \subseteq {label[r]}
    /\ \A r, s \in Requests : label[r] = label[s] /\ label[r] # NoLabel => r = s

(* Doris has heard of a label only from its owner. *)
FreshLabels ==
    \A l \in Labels :
        (\A r \in Requests : label[r] # l)
            => arrived[l] = "nothing" /\ txn[l] = "absent"

(* A transaction stands for a request that reached a node which keeps it,
   and a committed one for a request that arrived whole. *)
Loads ==
    \A l \in Labels :
        /\ txn[l] # "absent" => HasRequest(l)
        /\ Committed(l) => arrived[l] = "body"

(* What the position in the call says of the tracker and of the bytes. *)
Flow ==
    \A r \in Requests :
        /\ phase[r] \in {"idle", "headers"} => /\ tracker[r] = Unsent
                                              /\ reply[r] = NoReply
        /\ phase[r] = "headers" => arrived[label[r]] \in {"nothing", "redirected"}
        /\ phase[r] = "body" => /\ Tracked(r) => tracker[r].header
                                /\ label[r] \in sentAs[r]
                                /\ arrived[label[r]] \in {"headers", "redirected"}
        /\ phase[r] \in {"await", "read", "read_error"} =>
             (Tracked(r) => tracker[r].body) /\ label[r] \in sentAs[r]
        /\ phase[r] \in {"read", "read_error"} => reply[r] # NoReply
        /\ phase[r] = "read" => reply[r].code = "2xx"
        /\ phase[r] = "read_error" => reply[r].code # "2xx"
        /\ phase[r] # "done" => outcome[r] = "none"

(* What a response proves about the load it answers. *)
ReplyProves(r) ==
    LET l == label[r]
    IN  /\ label[r] # NoLabel
        /\ reply[r].code = "3xx" => arrived[l] = "redirected"
        /\ reply[r].code = "4xx" => txn[l] = "aborted"
        /\ reply[r].code = "5xx" => reply[r].body = "malformed"
        /\ reply[r].code = "2xx" =>
             /\ reply[r].body # "statusless"
             /\ reply[r].body = "fail" => txn[l] = "aborted"
             /\ reply[r].body = "success" => txn[l] = "visible"
             /\ reply[r].body = "publish_timeout" => Committed(l)

RepliesProve ==
    \A r \in Requests :
        /\ reply[r] # NoReply => ReplyProves(r)
        /\ AwaitsReply(r) => HasRequest(label[r])

(* Why a request that was given up can no longer commit: nothing was ever
   sent under a label, its transaction is aborted, or the body is missing. *)
Doomed(r) ==
    label[r] # NoLabel =>
        txn[label[r]] = "aborted" \/ arrived[label[r]] # "body"

Verdicts ==
    \A r \in Requests :
        /\ outcome[r] \in KnownFailures /\ Tracked(r) => Doomed(r)
        /\ outcome[r] \in Acknowledged =>
             /\ label[r] \in sentAs[r]
             /\ Committed(label[r])
             /\ outcome[r] = "success" => txn[label[r]] = "visible"

(* A hop has the scheme of the endpoint or one that a redirect may have. *)
Hops == \A r \in Requests : scheme[r] = Endpoint(r) \/ scheme[r] \in Targets(r)

IInv ==
    /\ TypeOK
    /\ Hops
    /\ LabelDrawn
    /\ OwnLabels
    /\ FreshLabels
    /\ Loads
    /\ Flow
    /\ RepliesProve
    /\ Verdicts
-------------------------------------------------------------------------------
(* Type correctness *)

(* The tracker only gains marks: send never forgets that a body left. *)
LEMMA MarkType ==
  ASSUME NEW t \in [header : BOOLEAN, body : BOOLEAN]
  PROVE  /\ Mark(t) \in [header : BOOLEAN, body : BOOLEAN]
         /\ Mark(t).header
         /\ Mark(t).body = (t.header \/ t.body)
BY DEF Mark

(* Nor does the record of a call, which stays as it is on an untracked hop. *)
LEMMA SentType ==
  ASSUME NEW r \in Requests, tracker[r] \in [header : BOOLEAN, body : BOOLEAN]
  PROVE  /\ Sent(r) \in [header : BOOLEAN, body : BOOLEAN]
         /\ Tracked(r) => Sent(r).header /\ Sent(r).body = (tracker[r].header \/ tracker[r].body)
         /\ ~tracker[r].header /\ ~tracker[r].body => ~Sent(r).body
BY MarkType DEF Sent

(* A call in progress has a label. *)
LEMMA LabelInUse ==
  ASSUME TypeOK, LabelDrawn, NEW r \in Requests, phase[r] \notin {"idle", "done"}
  PROVE  label[r] \in Labels
BY DEF TypeOK, LabelDrawn

(* TypeOK holds in every state of StreamLoad, whatever the gateway says; a
   call in progress always has a label. *)
THEOREM TypeCorrect == Spec => []TypeOK /\ []LabelDrawn
<1> USE DEF TypeOK, LabelDrawn, Phases, Outcomes, Acknowledged, KnownFailures, Arrivals,
            Transactions, Replies, Codes, Bodies, NoReply, Unsent, Conclude
<1>1. Init => TypeOK /\ LabelDrawn
  BY DEF Init, Endpoint, Schemes
<1>2. TypeOK /\ LabelDrawn /\ [Next]_vars => TypeOK' /\ LabelDrawn'
  <2> SUFFICES ASSUME TypeOK, LabelDrawn, [Next]_vars
               PROVE  TypeOK' /\ LabelDrawn'
    OBVIOUS
  <2>1. ASSUME NEW r \in Requests, Start(r) PROVE TypeOK' /\ LabelDrawn'
    BY <2>1, LabelAssumption DEF Start
  <2>2. ASSUME NEW r \in Requests, Misconfigured(r) PROVE TypeOK' /\ LabelDrawn'
    BY <2>2 DEF Misconfigured
  <2>3. ASSUME NEW r \in Requests, SendHeaders(r) PROVE TypeOK' /\ LabelDrawn'
    <3>1. label[r] \in Labels
      BY <2>3, LabelInUse DEF SendHeaders
    <3>2. Sent(r) \in [header : BOOLEAN, body : BOOLEAN]
      BY SentType
    <3>3. QED
      BY <2>3, <3>1, <3>2 DEF SendHeaders
  <2>4. ASSUME NEW r \in Requests, SendHeadersFails(r) PROVE TypeOK' /\ LabelDrawn'
    <3>1. Sent(r) \in [header : BOOLEAN, body : BOOLEAN]
      BY SentType
    <3>2. tracker' \in [Requests -> [header : BOOLEAN, body : BOOLEAN]]
      BY <2>4, <3>1 DEF SendHeadersFails
    <3>3. QED
      BY <2>4, <3>2 DEF SendHeadersFails, TransportError
  <2>5. ASSUME NEW r \in Requests, SendBody(r) PROVE TypeOK' /\ LabelDrawn'
    <3>1. Sent(r) \in [header : BOOLEAN, body : BOOLEAN]
      BY SentType
    <3>2. arrived' \in [Labels -> Arrivals]
      BY <2>5 DEF SendBody, WholeRequest
    <3>3. QED
      BY <2>5, <3>1, <3>2 DEF SendBody
  <2>6. ASSUME NEW r \in Requests, SendBodyFails(r) PROVE TypeOK' /\ LabelDrawn'
    <3>1. Sent(r) \in [header : BOOLEAN, body : BOOLEAN]
      BY SentType
    <3>2. arrived' \in [Labels -> Arrivals]
      BY <2>6 DEF SendBodyFails, WholeRequest
    <3>3. TransportError(tracker'[r]) \in Outcomes
      BY DEF TransportError
    <3>4. QED
      BY <2>6, <3>1, <3>2, <3>3 DEF SendBodyFails
  <2>7. ASSUME NEW r \in Requests, NoResponse(r) PROVE TypeOK' /\ LabelDrawn'
    BY <2>7 DEF NoResponse, TransportError
  <2>8. ASSUME NEW r \in Requests, GetResponse(r) PROVE TypeOK' /\ LabelDrawn'
    BY <2>8 DEF GetResponse
  <2>9. ASSUME NEW r \in Requests, FollowRedirect(r) PROVE TypeOK' /\ LabelDrawn'
    <3>1. Targets(r) \subseteq Schemes
      BY SchemesAssumption DEF Targets, Schemes
    <3>2. PICK s \in Targets(r) : scheme' = [scheme EXCEPT ![r] = s]
      BY <2>9 DEF FollowRedirect
    <3>3. scheme' \in [Requests -> Schemes]
      BY <3>1, <3>2
    <3>4. QED
      BY <2>9, <3>3 DEF FollowRedirect
  <2>10. ASSUME NEW r \in Requests, RefuseRedirect(r) PROVE TypeOK' /\ LabelDrawn'
    BY <2>10 DEF RefuseRedirect
  <2>26. ASSUME NEW r \in Requests, RedirectUnreadable(r) PROVE TypeOK' /\ LabelDrawn'
    BY <2>26 DEF RedirectUnreadable
  <2>11. ASSUME NEW r \in Requests, ReadResponse(r) PROVE TypeOK' /\ LabelDrawn'
    BY <2>11 DEF ReadResponse, ResponseVerdict, ResponseError, ParseResponse
  <2>12. ASSUME NEW r \in Requests, ReadFails(r) PROVE TypeOK' /\ LabelDrawn'
    BY <2>12 DEF ReadFails, TransportError
  <2>13. ASSUME NEW r \in Requests, ReadErrorBody(r) PROVE TypeOK' /\ LabelDrawn'
    BY <2>13 DEF ReadErrorBody, HttpErrorVerdict, ResponseError, ParseResponse
  <2>14. ASSUME NEW r \in Requests, ErrorBodyLost(r) PROVE TypeOK' /\ LabelDrawn'
    BY <2>14 DEF ErrorBodyLost, HttpErrorVerdict, ResponseError, ParseResponse
  <2>15. ASSUME NEW r \in Requests, ErrorBodyCutShort(r) PROVE TypeOK' /\ LabelDrawn'
    BY <2>15 DEF ErrorBodyCutShort
  <2>16. ASSUME NEW l \in Labels, Begin(l) PROVE TypeOK' /\ LabelDrawn'
    BY <2>16 DEF Begin, clientVars
  <2>17. ASSUME NEW l \in Labels, Abort(l) PROVE TypeOK' /\ LabelDrawn'
    BY <2>17 DEF Abort, clientVars
  <2>18. ASSUME NEW l \in Labels, Commit(l) PROVE TypeOK' /\ LabelDrawn'
    BY <2>18 DEF Commit, clientVars
  <2>19. ASSUME NEW l \in Labels, Publish(l) PROVE TypeOK' /\ LabelDrawn'
    BY <2>19 DEF Publish, clientVars
  <2>20. ASSUME NEW r \in Requests, Redirect(r) PROVE TypeOK' /\ LabelDrawn'
    BY <2>20, GatewayAssumption DEF Redirect, Answer, clientVars
  <2>21. ASSUME NEW r \in Requests, DorisReplies(r) PROVE TypeOK' /\ LabelDrawn'
    BY <2>21, GatewayAssumption DEF DorisReplies, Answer, clientVars
  <2>22. ASSUME NEW r \in Requests, GatewayReplies4xx(r) PROVE TypeOK' /\ LabelDrawn'
    <3>1. label[r] \in Labels
      BY <2>22, LabelInUse DEF GatewayReplies4xx, AwaitsReply
    <3>2. reply' \in [Requests -> Replies \cup {NoReply}]
      BY <2>22, GatewayAssumption DEF GatewayReplies4xx, Answer
    <3>3. QED
      BY <2>22, <3>1, <3>2 DEF GatewayReplies4xx, Answer, clientVars
  <2>23. ASSUME NEW r \in Requests, GatewayRepliesOther(r) PROVE TypeOK' /\ LabelDrawn'
    BY <2>23, GatewayAssumption DEF GatewayRepliesOther, Answer, clientVars
  <2>24. CASE UNCHANGED vars
    BY <2>24 DEF vars
  <2>25. QED
    BY <2>1, <2>2, <2>3, <2>4, <2>5, <2>6, <2>7, <2>8, <2>9, <2>10, <2>11, <2>12, <2>13, <2>14, <2>15, <2>16, <2>17, <2>18, <2>19, <2>20, <2>21, <2>22, <2>23, <2>24, <2>26
       DEF Next, Client, Environment, Finished
<1>3. QED
  BY <1>1, <1>2, PTL DEF Spec

-------------------------------------------------------------------------------
(* The inductive invariant *)

(* Only a redirect leads to another scheme, and only to one that it may have. *)
LEMMA HopsInductive == TypeOK /\ Hops /\ [Next]_vars => Hops'
<1> SUFFICES ASSUME TypeOK, Hops, [Next]_vars PROVE Hops'
  OBVIOUS
<1>1. ASSUME NEW r \in Requests, FollowRedirect(r) PROVE Hops'
  BY <1>1 DEF FollowRedirect, TypeOK, Hops, Endpoint, Targets
<1>2. CASE UNCHANGED scheme
  BY <1>2 DEF Hops, Endpoint, Targets
<1>3. ASSUME NEW r \in Requests, Client(r) PROVE FollowRedirect(r) \/ UNCHANGED scheme
  BY <1>3 DEF Client, Start, Misconfigured, SendHeaders, SendHeadersFails, SendBody,
     SendBodyFails, NoResponse, GetResponse, RefuseRedirect, RedirectUnreadable,
     ReadResponse, ReadFails, ReadErrorBody, ErrorBodyLost, ErrorBodyCutShort
<1>4. CASE Environment
  BY <1>2, <1>4 DEF Environment, Begin, Abort, Commit, Publish, Redirect, DorisReplies,
     GatewayReplies4xx, GatewayRepliesOther, Answer, clientVars
<1>5. QED
  BY <1>1, <1>2, <1>3, <1>4 DEF Next, Finished, vars

(* Every step of a call of load keeps the invariant. *)
LEMMA ClientInductive ==
  ASSUME TrustedGateway, IInv, TypeOK', LabelDrawn', Hops', NEW r \in Requests,
         Client(r)
  PROVE  IInv'
<1> USE DEF IInv, TypeOK, AwaitsReply, HasRequest, Committed, Conclude, Unsent,
            NoReply, Acknowledged, KnownFailures, OwnLabels, LabelDrawn,
            FreshLabels, Loads, Flow, RepliesProve, ReplyProves, Verdicts, Doomed,
            Tracked
<1>1. CASE Start(r)
  <2>1. PICK l \in Labels \ Taken : label' = [label EXCEPT ![r] = l]
    BY <1>1 DEF Start
  <2>2. arrived[l] = "nothing" /\ txn[l] = "absent"
    BY DEF Taken
  <2>3. OwnLabels' /\ FreshLabels'
    BY <1>1, <2>1, LabelAssumption DEF Start, Taken
  <2>4. Loads' /\ RepliesProve' /\ Verdicts'
    BY <1>1, <2>1, LabelAssumption DEF Start, Taken
  <2>5. Flow'
    BY <1>1, <2>1, <2>2 DEF Start
  <2>6. QED
    BY <2>3, <2>4, <2>5
<1>2. CASE Misconfigured(r)
  BY <1>2 DEF Misconfigured
<1>3. CASE SendHeaders(r)
  <2>1. label[r] \in Labels /\ ~Committed(label[r])
    BY <1>3, LabelInUse DEF SendHeaders
  <2>2. Tracked(r) => Sent(r).header
    BY SentType
  <2>3. Flow'
    BY <1>3, <2>1, <2>2 DEF SendHeaders
  <2>4. OwnLabels' /\ FreshLabels' /\ Loads' /\ RepliesProve' /\ Verdicts'
    BY <1>3, <2>1 DEF SendHeaders
  <2>5. QED
    BY <2>3, <2>4
<1>4. CASE SendHeadersFails(r)
  <2>1. outcome' = [outcome EXCEPT ![r] = "write_error"]
    <3>1. tracker'[r] = Sent(r)
      BY <1>4 DEF SendHeadersFails
    <3>2. /\ tracker[r] \in [header : BOOLEAN, body : BOOLEAN]
          /\ ~tracker[r].header /\ ~tracker[r].body
      BY <1>4 DEF SendHeadersFails
    <3>3. ~Sent(r).body
      BY <3>2, SentType
    <3>4. QED
      BY <1>4, <3>1, <3>3 DEF SendHeadersFails, TransportError
  <2>2. arrived[label[r]] # "body"
    BY <1>4 DEF SendHeadersFails
  <2>3. Verdicts'
    BY <1>4, <2>1, <2>2 DEF SendHeadersFails
  <2>4. OwnLabels' /\ FreshLabels' /\ Loads' /\ Flow' /\ RepliesProve'
    BY <1>4 DEF SendHeadersFails
  <2>5. QED
    BY <2>3, <2>4
<1>5. CASE SendBody(r)
  <2>1. Tracked(r) => Sent(r).body
    BY <1>5, SentType DEF SendBody
  <2>2. Verdicts'
    <3>1. ASSUME NEW s \in Requests, s # r, label[s] # NoLabel
          PROVE  arrived'[label[s]] = arrived[label[s]]
      BY <1>5, <3>1 DEF SendBody, WholeRequest
    <3>2. outcome[r] = "none" /\ UNCHANGED <<outcome, scheme, label, sentAs, txn>>
      BY <1>5 DEF SendBody
    <3>3. QED
      BY <3>1, <3>2
  <2>3. OwnLabels' /\ FreshLabels' /\ Loads' /\ Flow' /\ RepliesProve'
    BY <1>5, <2>1 DEF SendBody, WholeRequest
  <2>4. QED
    BY <2>2, <2>3
<1>6. CASE SendBodyFails(r)
  <2>1. Tracked(r) => Sent(r).body
    BY <1>6, SentType DEF SendBodyFails
  <2>2. Verdicts'
    <3>1. /\ outcome' = [outcome EXCEPT ![r] = TransportError(Sent(r))]
          /\ TransportError(Sent(r)) \notin Acknowledged
          /\ Tracked(r) => TransportError(Sent(r)) = "ambiguous"
      BY <1>6, <2>1 DEF SendBodyFails, TransportError
    <3>2. ASSUME NEW s \in Requests, s # r, label[s] # NoLabel
          PROVE  arrived'[label[s]] = arrived[label[s]]
      BY <1>6, <3>2 DEF SendBodyFails, WholeRequest
    <3>3. QED
      BY <1>6, <3>1, <3>2 DEF SendBodyFails
  <2>3. OwnLabels' /\ FreshLabels' /\ Loads' /\ Flow' /\ RepliesProve'
    BY <1>6, <2>1 DEF SendBodyFails, WholeRequest
  <2>4. QED
    BY <2>2, <2>3
<1>7. CASE NoResponse(r)
  BY <1>7 DEF NoResponse, TransportError
<1>8. CASE GetResponse(r)
  BY <1>8 DEF GetResponse
<1>9. CASE FollowRedirect(r)
  BY <1>9 DEF FollowRedirect
<1>10. CASE RefuseRedirect(r)
  BY <1>10 DEF RefuseRedirect
<1>17. CASE RedirectUnreadable(r)
  BY <1>17 DEF RedirectUnreadable
<1>11. CASE ReadResponse(r)
  <2>1. /\ phase[r] = "read" /\ phase' = [phase EXCEPT ![r] = "done"]
        /\ outcome' = [outcome EXCEPT ![r] = ResponseVerdict(tracker[r], reply[r].body)]
        /\ UNCHANGED <<hop, scheme, tracker, label, sentAs, reply, arrived, txn>>
    BY <1>11 DEF ReadResponse
  <2>2. OwnLabels' /\ FreshLabels' /\ Loads' /\ Flow' /\ RepliesProve'
    BY <1>11 DEF ReadResponse
  <2>3. Verdicts'
    BY <1>11, <2>1 DEF ResponseVerdict, ResponseError, ParseResponse
  <2>4. QED
    BY <2>2, <2>3
<1>12. CASE ReadFails(r)
  BY <1>12 DEF ReadFails, TransportError
<1>13. CASE ReadErrorBody(r)
  <2>1. Verdicts'
    <3>1. CASE reply[r].code = "5xx"
      <4>1. /\ outcome' = [outcome EXCEPT ![r] = ResponseError(tracker[r], "5xx")]
            /\ ResponseError(tracker[r], "5xx") \notin Acknowledged
            /\ Tracked(r) => ResponseError(tracker[r], "5xx") = "ambiguous"
        BY <1>13, <3>1 DEF ReadErrorBody, HttpErrorVerdict, ParseResponse,
                           ResponseError
      <4>2. QED
        BY <1>13, <4>1 DEF ReadErrorBody
    <3>2. CASE reply[r].code # "5xx"
      <4>1. Doomed(r)
        BY <1>13, <3>2 DEF ReadErrorBody, Replies, Codes
      <4>2. HttpErrorVerdict(tracker[r], reply[r].code, reply[r].body)
              \notin Acknowledged
        BY DEF HttpErrorVerdict, ParseResponse, ResponseError
      <4>3. QED
        BY <1>13, <4>1, <4>2 DEF ReadErrorBody
    <3>3. QED
      BY <3>1, <3>2
  <2>2. OwnLabels' /\ FreshLabels' /\ Loads' /\ Flow' /\ RepliesProve'
    BY <1>13 DEF ReadErrorBody
  <2>3. QED
    BY <2>1, <2>2
<1>14. CASE ErrorBodyLost(r)
  BY <1>14 DEF ErrorBodyLost, HttpErrorVerdict, ResponseError, ParseResponse
<1>15. CASE ErrorBodyCutShort(r)
  BY <1>15 DEF ErrorBodyCutShort
<1>16. QED
  BY <1>1, <1>2, <1>3, <1>4, <1>5, <1>6, <1>7, <1>8, <1>9, <1>10, <1>11,
     <1>12, <1>13, <1>14, <1>15, <1>17 DEF Client

(* Every step of a transaction keeps the invariant, whoever waits for it. *)
LEMMA DorisInductive ==
  ASSUME TrustedGateway, IInv, TypeOK', LabelDrawn', Hops', NEW l \in Labels,
         Begin(l) \/ Abort(l) \/ Commit(l) \/ Publish(l)
  PROVE  IInv'
<1> USE DEF IInv, TypeOK, AwaitsReply, HasRequest, Committed, Conclude, Unsent,
            NoReply, Acknowledged, KnownFailures, OwnLabels, LabelDrawn,
            FreshLabels, Loads, Flow, RepliesProve, ReplyProves, Verdicts, Doomed,
            Tracked
<1>1. CASE Begin(l)
  BY <1>1 DEF Begin, clientVars
<1>2. CASE Abort(l)
  BY <1>2 DEF Abort, clientVars
<1>3. CASE Commit(l)
  BY <1>3 DEF Commit, clientVars
<1>4. CASE Publish(l)
  BY <1>4 DEF Publish, clientVars
<1>5. QED
  BY <1>1, <1>2, <1>3, <1>4

(* Every response keeps the invariant. *)
LEMMA RepliesInductive ==
  ASSUME TrustedGateway, IInv, TypeOK', LabelDrawn', Hops', NEW r \in Requests,
         \/ Redirect(r) \/ DorisReplies(r)
         \/ GatewayReplies4xx(r) \/ GatewayRepliesOther(r)
  PROVE  IInv'
<1> USE DEF IInv, TypeOK, AwaitsReply, HasRequest, Committed, Conclude, Unsent,
            NoReply, Acknowledged, KnownFailures, OwnLabels, LabelDrawn,
            FreshLabels, Loads, Flow, RepliesProve, ReplyProves, Verdicts, Doomed,
            Tracked
<1>1. CASE Redirect(r)
  <2>1. label[r] \in Labels
    BY <1>1, LabelInUse DEF Redirect
  <2>2. OwnLabels' /\ FreshLabels' /\ Loads'
    BY <1>1, <2>1 DEF Redirect, Answer, clientVars
  <2>3. Flow'
    BY <1>1, <2>1 DEF Redirect, Answer, clientVars
  <2>4. RepliesProve'
    BY <1>1, <2>1 DEF Redirect, Answer, clientVars
  <2>5. Verdicts'
    BY <1>1, <2>1 DEF Redirect, Answer, clientVars
  <2>6. QED
    BY <2>2, <2>3, <2>4, <2>5
<1>2. CASE DorisReplies(r)
  BY <1>2 DEF DorisReplies, clientVars, Answer, Says
<1>3. CASE GatewayReplies4xx(r)
  BY <1>3, GatewayAssumption DEF GatewayReplies4xx, clientVars, Answer,
     TrustedGateway
<1>4. CASE GatewayRepliesOther(r)
  BY <1>4, GatewayAssumption DEF GatewayRepliesOther, clientVars, Answer,
     TrustedGateway
<1>5. QED
  BY <1>1, <1>2, <1>3, <1>4

(* The invariant holds in every state. *)
THEOREM Invariance == ASSUME TrustedGateway PROVE Spec => []IInv
<1>1. Init => IInv
  BY LabelAssumption
     DEF Init, IInv, TypeOK, Hops, Schemes, Endpoint, Phases, Outcomes, Acknowledged, KnownFailures,
         Arrivals, Transactions, Unsent, NoReply, LabelDrawn, OwnLabels,
         FreshLabels, Loads, Committed, Flow, RepliesProve, AwaitsReply, Verdicts
<1>2. IInv /\ [Next]_vars /\ TypeOK' /\ LabelDrawn' => IInv'
  <2> SUFFICES ASSUME IInv, [Next]_vars, TypeOK', LabelDrawn' PROVE IInv'
    OBVIOUS
  <2>5. Hops'
    BY HopsInductive DEF IInv
  <2>1. CASE \E r \in Requests : Client(r)
    BY <2>1, <2>5, ClientInductive
  <2>2. CASE Environment
    BY <2>2, <2>5, DorisInductive, RepliesInductive DEF Environment
  <2>3. CASE UNCHANGED vars
    BY <2>3, <2>5 DEF vars, Tracked, IInv, TypeOK, LabelDrawn, OwnLabels, FreshLabels, Loads,
                Flow, RepliesProve, ReplyProves, Verdicts, Doomed, Committed,
                AwaitsReply, HasRequest
  <2>4. QED
    BY <2>1, <2>2, <2>3 DEF Next, Finished
<1>3. QED
  BY <1>1, <1>2, TypeCorrect, PTL DEF Spec

-------------------------------------------------------------------------------
(* What the caller may rely on *)

(* Without upgrades every hop is tracked. *)
LEMMA AllTracked ==
  ASSUME TrackedTargets, Hops, NEW r \in Requests
  PROVE  Tracked(r)
BY SchemesAssumption DEF TrackedTargets, Schemes, Hops, Endpoint, Targets, Tracked

(* The request of a doomed call is not stored. *)
LEMMA DoomedHasNoCopy ==
  ASSUME TypeOK, OwnLabels, Loads, NEW r \in Requests, Doomed(r)
  PROVE  Copies(r) = {}
BY LabelAssumption DEF TypeOK, OwnLabels, Loads, Doomed, Copies, Committed

(* A call that reports a failure from a tracked hop has stored nothing and
   never will, whatever the redirects of other calls are. *)
THEOREM TrackedFailure ==
  ASSUME TrustedGateway
  PROVE  Spec => [](\A r \in Requests :
                      outcome[r] \in KnownFailures /\ Tracked(r) => Copies(r) = {})
<1>1. IInv => \A r \in Requests :
                outcome[r] \in KnownFailures /\ Tracked(r) => Copies(r) = {}
  BY DoomedHasNoCopy DEF IInv, Verdicts
<1>2. QED
  BY <1>1, Invariance, PTL

(* A request that load reported as failed is never stored, neither before
   nor after the report, if no redirect leads from http to https. *)
THEOREM KnownFailure ==
  ASSUME TrustedGateway, TrackedTargets PROVE Spec => []KnownFailureNeverCommits
<1>1. IInv => KnownFailureNeverCommits
  BY DoomedHasNoCopy, AllTracked DEF IInv, Verdicts, KnownFailureNeverCommits
<1>2. QED
  BY <1>1, Invariance, PTL

(* A request that load reported as stored is committed under its label. *)
THEOREM Acknowledgement ==
  ASSUME TrustedGateway PROVE Spec => []AcknowledgedIsCommitted
<1>1. IInv => AcknowledgedIsCommitted
  BY DEF IInv, Verdicts, Committed, Acknowledged, AcknowledgedIsCommitted
<1>2. QED
  BY <1>1, Invariance, PTL

(* The rows of a request are stored under one label at most. *)
THEOREM StoredOnce == ASSUME TrustedGateway PROVE Spec => []AtMostOnce
<1>1. IInv => AtMostOnce
  BY DEF IInv, OwnLabels, Copies, AtMostOnce
<1>2. QED
  BY <1>1, Invariance, PTL

(* No request is reported as unknown before its body was handed to the
   socket of the hop that failed. *)
THEOREM AmbiguityEarned ==
  ASSUME TrustedGateway PROVE Spec => AmbiguousOnlyAfterBody
<1> DEFINE Earned == \A r \in Requests :
                       outcome'[r] = "ambiguous" /\ outcome[r] # "ambiguous"
                         => phase[r] \in {"body", "await", "read", "read_error"}
<1>1. IInv /\ [Next]_vars => Earned
  <2> SUFFICES ASSUME IInv, [Next]_vars, NEW r \in Requests,
                      outcome'[r] = "ambiguous", outcome[r] # "ambiguous"
               PROVE  phase[r] \in {"body", "await", "read", "read_error"}
    OBVIOUS
  <2>1. PICK s \in Requests : Client(s)
    BY DEF Next, Environment, Finished, vars, Begin, Abort, Commit, Publish,
           Redirect, DorisReplies, GatewayReplies4xx, GatewayRepliesOther,
           Answer, clientVars
  <2>2. CASE SendHeadersFails(s)
    <3>1. ~tracker'[s].body
      BY <2>2, SentType DEF SendHeadersFails, IInv, TypeOK, Flow, Unsent
    <3>2. QED
      BY <2>2, <3>1 DEF SendHeadersFails, TransportError, Conclude, IInv, TypeOK
  <2>3. CASE ~SendHeadersFails(s)
    BY <2>1, <2>3
       DEF Client, Start, Misconfigured, SendHeaders, SendBody, SendBodyFails,
           NoResponse, GetResponse, FollowRedirect, RefuseRedirect,
           RedirectUnreadable, ReadResponse, ReadFails, ReadErrorBody, ErrorBodyLost, ErrorBodyCutShort, Conclude,
           IInv, TypeOK
  <2>4. QED
    BY <2>2, <2>3
<1>2. QED
  BY <1>1, Invariance, PTL DEF Spec, AmbiguousOnlyAfterBody

-------------------------------------------------------------------------------
(* The client implements AtomicLoad *)

(* Any step that ends a call in progress is a Conclude of the promise. *)
LEMMA ConcludeSimulated ==
  ASSUME TrackedTargets, IInv, IInv', NEW r \in Requests, NEW o \in Outcomes \ {"none"},
         phase[r] \notin {"idle", "done"}, Conclude(r, o), UNCHANGED <<sentAs, txn>>
  PROVE  Promise!ANext
<1>1. \A s \in Requests : Copies(s)' = Copies(s)
  BY DEF Copies, Committed
<1>2. \A s \in Requests \ {r} : Verdict(s)' = Verdict(s)
  BY DEF Conclude, Verdict, IInv, TypeOK
<1>3. outcome[r] = "none" /\ Verdict(r) = "running"
  BY DEF IInv, Flow, Verdict, Acknowledged, KnownFailures
<1>4. outcome'[r] = o /\ Verdict(r)' \in {"stored", "failed", "unknown"}
  BY DEF Conclude, IInv, TypeOK, Verdict, Outcomes, Acknowledged, KnownFailures
<1>5. Verdict(r)' = "failed" => Copies(r) = {}
  <2>1. SUFFICES ASSUME o \in KnownFailures PROVE Copies(r)' = {}
    BY <1>1, <1>4 DEF Verdict, Acknowledged, KnownFailures
  <2>2. Doomed(r)'
    <3>1. Tracked(r)'
      BY SchemesAssumption DEF TrackedTargets, Schemes, IInv, Hops, Endpoint, Targets, Tracked
    <3>2. QED
      BY <1>4, <2>1, <3>1 DEF IInv, Verdicts
  <2>3. QED
    BY <2>2, LabelAssumption
       DEF IInv, TypeOK, OwnLabels, Loads, Doomed, Copies, Committed
<1>6. Verdict(r)' = "stored" => Copies(r) # {}
  <2>1. SUFFICES ASSUME o \in Acknowledged PROVE Copies(r)' # {}
    BY <1>1, <1>4 DEF Verdict, Acknowledged, KnownFailures
  <2>2. (label[r] \in sentAs[r] /\ Committed(label[r]))'
    BY <1>4, <2>1 DEF IInv, Verdicts
  <2>3. QED
    BY <2>2 DEF Copies
<1>7. QED
  BY <1>1, <1>2, <1>3, <1>4, <1>5, <1>6
     DEF Promise!ANext, Promise!Conclude, Promise!Concluded

(* The variables of the promise, as the client's variables give them. *)
PromiseVars == <<[r \in Requests |-> Verdict(r)], [r \in Requests |-> Copies(r)]>>

(* A step of a call of load is a step of the promise or invisible to it. *)
LEMMA ClientSimulated ==
  ASSUME TrackedTargets, IInv, IInv', NEW r \in Requests, Client(r)
  PROVE  Promise!ANext \/ UNCHANGED PromiseVars
<1> DEFINE Ends(o) == /\ phase[r] \notin {"idle", "done"} /\ Conclude(r, o)
                      /\ UNCHANGED <<sentAs, txn>>
<1>1. CASE Start(r)
  <2>1. \A s \in Requests : Copies(s)' = Copies(s)
    BY <1>1 DEF Start, Copies, Committed
  <2>2. \A s \in Requests \ {r} : Verdict(s)' = Verdict(s)
    BY <1>1 DEF Start, Verdict, IInv, TypeOK
  <2>3. Verdict(r) = "idle" /\ Verdict(r)' = "running"
    BY <1>1 DEF Start, Verdict, IInv, TypeOK, Flow, Acknowledged, KnownFailures
  <2>4. QED
    BY <2>1, <2>2, <2>3 DEF Promise!ANext, Promise!Submit
<1>2. CASE Misconfigured(r)
  <2>1. \A s \in Requests : Copies(s)' = Copies(s)
    BY <1>2 DEF Misconfigured, Copies, Committed
  <2>2. \A s \in Requests \ {r} : Verdict(s)' = Verdict(s)
    BY <1>2 DEF Misconfigured, Conclude, Verdict, IInv, TypeOK
  <2>3. Verdict(r) = "idle" /\ Verdict(r)' = "failed"
    BY <1>2 DEF Misconfigured, Conclude, Verdict, IInv, TypeOK, Flow,
                Acknowledged, KnownFailures
  <2>4. QED
    BY <2>1, <2>2, <2>3 DEF Promise!ANext, Promise!Reject
<1>3. CASE SendHeaders(r)
  <2>1. \A s \in Requests : Verdict(s)' = Verdict(s)
    BY <1>3 DEF SendHeaders, Verdict, IInv, TypeOK
  <2>2. ~Committed(label[r])
    BY <1>3 DEF SendHeaders, IInv, TypeOK, LabelDrawn, Flow, Loads
  <2>3. \A s \in Requests : Copies(s)' = Copies(s)
    BY <1>3, <2>2 DEF SendHeaders, Copies, Committed, IInv, TypeOK
  <2>4. QED
    BY <2>1, <2>3 DEF PromiseVars
<1>4. CASE SendBody(r) \/ GetResponse(r) \/ FollowRedirect(r)
  <2>1. \A s \in Requests : Verdict(s)' = Verdict(s)
    BY <1>4 DEF SendBody, GetResponse, FollowRedirect, Verdict, IInv, TypeOK
  <2>2. \A s \in Requests : Copies(s)' = Copies(s)
    BY <1>4 DEF SendBody, GetResponse, FollowRedirect, Copies, Committed
  <2>3. QED
    BY <2>1, <2>2 DEF PromiseVars
<1>5. ASSUME \E o \in Outcomes \ {"none"} : Ends(o) PROVE Promise!ANext
  BY <1>5, ConcludeSimulated
<1>6. /\ \A t : TransportError(t) \in Outcomes \ {"none"}
      /\ \A t, b : ResponseVerdict(t, b) \in Outcomes \ {"none"}
      /\ \A t, c, b : HttpErrorVerdict(t, c, b) \in Outcomes \ {"none"}
  BY DEF TransportError, ResponseVerdict, HttpErrorVerdict, ResponseError,
         ParseResponse, Outcomes, Acknowledged, KnownFailures
<1>7. CASE SendHeadersFails(r) \/ SendBodyFails(r)
  <2>1. Ends(TransportError(tracker'[r]))
    BY <1>7 DEF SendHeadersFails, SendBodyFails
  <2>2. QED
    BY <1>5, <1>6, <2>1
<1>8. CASE NoResponse(r) \/ ReadFails(r)
  <2>1. Ends(TransportError(tracker[r]))
    BY <1>8 DEF NoResponse, ReadFails
  <2>2. QED
    BY <1>5, <1>6, <2>1
<1>9. CASE ReadResponse(r)
  <2>1. Ends(ResponseVerdict(tracker[r], reply[r].body))
    BY <1>9 DEF ReadResponse
  <2>2. QED
    BY <1>5, <1>6, <2>1
<1>10. CASE ReadErrorBody(r) \/ ErrorBodyLost(r)
  <2>1. \E b : Ends(HttpErrorVerdict(tracker[r], reply[r].code, b))
    BY <1>10 DEF ReadErrorBody, ErrorBodyLost
  <2>2. QED
    BY <1>5, <1>6, <2>1
<1>11. CASE RefuseRedirect(r) \/ RedirectUnreadable(r) \/ ErrorBodyCutShort(r)
  <2>1. Ends("write_error") \/ Ends("value_error") \/ Ends("incomplete_read")
    BY <1>11 DEF RefuseRedirect, RedirectUnreadable, ErrorBodyCutShort
  <2>2. QED
    BY <1>5, <2>1 DEF Outcomes, KnownFailures
<1>12. QED
  BY <1>1, <1>2, <1>3, <1>4, <1>7, <1>8, <1>9, <1>10, <1>11 DEF Client

(* So is a step of Doris or of an intermediary: only Commit is visible. *)
LEMMA EnvironmentSimulated ==
  ASSUME TrackedTargets, IInv, IInv', Environment
  PROVE  Promise!ANext \/ UNCHANGED PromiseVars
<1>1. \A s \in Requests : Verdict(s)' = Verdict(s)
  BY DEF Environment, Begin, Abort, Commit, Publish, Redirect, DorisReplies,
         GatewayReplies4xx, GatewayRepliesOther, Answer, clientVars, Verdict
<1>2. sentAs' = sentAs
  BY DEF Environment, Begin, Abort, Commit, Publish, Redirect, DorisReplies,
         GatewayReplies4xx, GatewayRepliesOther, Answer, clientVars
<1>3. ASSUME NEW l \in Labels, Commit(l)
      PROVE  Promise!ANext \/ UNCHANGED PromiseVars
  <2>1. \A m \in Labels : Committed(m)' <=> Committed(m) \/ m = l
    BY <1>3 DEF Commit, Committed, IInv, TypeOK
  <2>2. CASE \A s \in Requests : l \notin sentAs[s]
    <3>1. \A s \in Requests : Copies(s)' = Copies(s)
      BY <1>2, <2>1, <2>2 DEF Copies, IInv, TypeOK
    <3>2. QED
      BY <1>1, <3>1 DEF PromiseVars
  <2>3. ASSUME NEW r \in Requests, l \in sentAs[r] PROVE Promise!Store(r)
    <3>1. label[r] = l
      BY <2>3 DEF IInv, OwnLabels
    <3>2. \A s \in Requests \ {r} : l \notin sentAs[s]
      BY <2>3, LabelAssumption DEF IInv, OwnLabels
    <3>3. \A s \in Requests \ {r} : Copies(s)' = Copies(s)
      BY <1>2, <2>1, <3>2 DEF Copies, IInv, TypeOK
    <3>4. Copies(r) = {} /\ Copies(r)' = {l}
      BY <1>2, <1>3, <2>1, <2>3 DEF Copies, Commit, Committed, IInv, OwnLabels,
                                    TypeOK
    <3>5. Verdict(r) \in {"running", "unknown"}
      BY <1>3, <3>1, LabelAssumption, AllTracked
         DEF Verdict, IInv, Verdicts, Doomed, LabelDrawn, Commit, Committed
    <3>6. QED
      BY <1>1, <3>3, <3>4, <3>5 DEF Promise!Store
  <2>4. QED
    BY <2>2, <2>3 DEF Promise!ANext
<1>4. ASSUME NEW l \in Labels, Begin(l) \/ Abort(l) \/ Publish(l)
      PROVE  \A m \in Labels : Committed(m)' = Committed(m)
  BY <1>4 DEF Begin, Abort, Publish, Committed, IInv, TypeOK
<1>5. ASSUME NEW r \in Requests,
             \/ Redirect(r) \/ DorisReplies(r)
             \/ GatewayReplies4xx(r) \/ GatewayRepliesOther(r)
      PROVE  \A m \in Labels : Committed(m)' = Committed(m)
  BY <1>5 DEF Redirect, DorisReplies, GatewayReplies4xx, GatewayRepliesOther,
              Committed, IInv, TypeOK
<1>6. CASE \A m \in Labels : Committed(m)' = Committed(m)
  <2>1. \A s \in Requests : Copies(s)' = Copies(s)
    BY <1>2, <1>6 DEF Copies, IInv, TypeOK
  <2>2. QED
    BY <1>1, <2>1 DEF PromiseVars
<1>7. QED
  BY <1>3, <1>4, <1>5, <1>6 DEF Environment

(* The client of Stream Load implements the promise of AtomicLoad, if no
   redirect leads from http to https. *)
THEOREM Refinement ==
  ASSUME TrustedGateway, TrackedTargets PROVE Spec => KeepsPromise
<1>1. Init => Promise!AInit
  BY DEF Init, Promise!AInit, Verdict, Copies, Acknowledged, KnownFailures
<1>2. IInv /\ IInv' /\ [Next]_vars => [Promise!ANext]_(Promise!avars)
  <2> SUFFICES ASSUME IInv, IInv', [Next]_vars
               PROVE  Promise!ANext \/ UNCHANGED Promise!avars
    OBVIOUS
  <2>1. CASE \E r \in Requests : Client(r)
    BY <2>1, ClientSimulated DEF PromiseVars, Promise!avars
  <2>2. CASE Environment
    BY <2>2, EnvironmentSimulated DEF PromiseVars, Promise!avars
  <2>3. CASE UNCHANGED vars
    BY <2>3 DEF vars, Promise!avars, Verdict, Copies, Committed
  <2>4. QED
    BY <2>1, <2>2, <2>3 DEF Next, Finished
<1>3. QED
  BY <1>1, <1>2, Invariance, PTL DEF Spec, KeepsPromise, Promise!ASpec
===============================================================================
