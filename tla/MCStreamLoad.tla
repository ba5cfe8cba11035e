----------------------------- MODULE MCStreamLoad -----------------------------
(* Instances of StreamLoad for TLC. *)
EXTENDS StreamLoad

(* Intermediaries whose responses carry no JSON object of their own: an
   error page, or an empty body, with any status. *)
PlainGateway == [code : {"2xx", "4xx", "5xx"}, body : {"malformed"}]

(* An API gateway that reports its own time-out as a JSON object. *)
JsonGateway == PlainGateway \cup {[code |-> "5xx", body |-> "statusless"]}
===============================================================================
