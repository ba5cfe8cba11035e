------------------------------ MODULE AtomicLoad ------------------------------
(***************************************************************************)
(* What one call of StreamLoadClient.load promises its caller, without    *)
(* any HTTP: the rows of a request are stored at most once, a request     *)
(* reported as stored is stored, and one reported as failed is not stored *)
(* and never will be.  Only a request reported as unknown may still be    *)
(* stored after its caller was told.                                      *)
(***************************************************************************)

CONSTANTS
    Requests,   \* the calls of load
    Labels      \* the labels a copy of the rows can be stored under

VARIABLES
    verdict,    \* what the caller of each request has been told
    copies      \* the labels under which Doris holds the rows of each request

avars == <<verdict, copies>>

Concluded == {"stored", "failed", "unknown"}

AInit ==
    /\ verdict = [r \in Requests |-> "idle"]
    /\ copies = [r \in Requests |-> {}]

Submit(r) ==
    /\ verdict[r] = "idle"
    /\ verdict' = [verdict EXCEPT ![r] = "running"]
    /\ UNCHANGED copies

(* Refused before anything was sent. *)
Reject(r) ==
    /\ verdict[r] = "idle"
    /\ verdict' = [verdict EXCEPT ![r] = "failed"]
    /\ UNCHANGED copies

Store(r) ==
    /\ verdict[r] \in {"running", "unknown"}
    /\ copies[r] = {}
    /\ \E l \in Labels : copies' = [copies EXCEPT ![r] = {l}]
    /\ UNCHANGED verdict

Conclude(r) ==
    /\ verdict[r] = "running"
    /\ \E v \in Concluded :
         /\ v = "stored" => copies[r] # {}
         /\ v = "failed" => copies[r] = {}
         /\ verdict' = [verdict EXCEPT ![r] = v]
    /\ UNCHANGED copies

ANext == \E r \in Requests : Submit(r) \/ Reject(r) \/ Store(r) \/ Conclude(r)

ASpec == AInit /\ [][ANext]_avars
===============================================================================
