------------------------------ MODULE TaskThread ------------------------------
(***************************************************************************)
(* TaskThread (doris/transports/_thread.py): the one thread on which a    *)
(* reader runs the blocking operations of its driver, seen from the event *)
(* loop that submits them.  call() may be cancelled while it waits, and a *)
(* submitted close() may not.                                              *)
(*                                                                         *)
(* The steps of this module are parts of the steps of a reader: see       *)
(* StreamQuery.  ThreadPoolExecutor, wrap_future and shield are external. *)
(***************************************************************************)
EXTENDS Naturals, Sequences, SequencesExt

Operations == {"open", "fetch"}     \* _open and _fetch, submitted with call()
Jobs == Operations \cup {"close"}
NoAnswer == "none"

VARIABLES
    queue,      \* the jobs submitted and not yet taken by the thread
    running,    \* the jobs the executor's threads are running
    awaited,    \* the job whose future the coroutine awaits, or "none"
    answer,     \* the result of that future, once it has one
    closing,    \* _close_future: "none", "pending" or "done"
    executor    \* "up" until _shutdown

threadVars == <<queue, running, awaited, answer, closing, executor>>

ThreadInit ==
    /\ queue = <<>>
    /\ running = {}
    /\ awaited = "none"
    /\ answer = NoAnswer
    /\ closing = "none"
    /\ executor = "up"

(* run_in_executor, and the coroutine suspends on the future. *)
Submit(job) ==
    /\ executor = "up"
    /\ queue' = Append(queue, job)
    /\ awaited' = job
    /\ answer' = NoAnswer

Call(job) ==
    /\ Submit(job)
    /\ UNCHANGED <<running, closing, executor>>

(* Close is submitted once; a caller that comes later awaits the same
   future. *)
Close ==
    /\ closing = "none"
    /\ Submit("close")
    /\ closing' = "pending"
    /\ UNCHANGED <<running, executor>>

(* max_workers=1: the next job starts when the thread is free. *)
Take ==
    /\ queue # <<>> /\ running = {}
    /\ running' = running \cup {Head(queue)}
    /\ queue' = Tail(queue)
    /\ UNCHANGED <<awaited, answer, closing, executor>>

(* The job ends; a future that is no longer awaited keeps its result. *)
Finish(job, result) ==
    /\ job \in running
    /\ running' = running \ {job}
    /\ answer' = IF awaited = job THEN result ELSE answer
    /\ closing' = IF job = "close" THEN "done" ELSE closing
    /\ UNCHANGED <<queue, awaited, executor>>

(* The coroutine resumes with the future's result. *)
Resume ==
    /\ answer # NoAnswer
    /\ awaited' = "none"
    /\ answer' = NoAnswer
    /\ UNCHANGED <<queue, running, closing, executor>>

(* A job that is awaited is the last one that was submitted. *)
Withdrawn(job) == IF queue # <<>> /\ Last(queue) = job THEN Front(queue) ELSE queue

(* CancelledError out of call(): a job still queued is withdrawn unless the
   thread takes it first, one that runs goes on unattended. *)
CancelCall ==
    /\ awaited \in Operations
    /\ queue' \in {queue, Withdrawn(awaited)}
    /\ awaited' = "none"
    /\ answer' = NoAnswer
    /\ UNCHANGED <<running, closing, executor>>

(* Mutated: the close future is awaited without a shield. *)
CancelCloseUnshielded ==
    /\ awaited = "close"
    /\ queue' = Withdrawn("close")
    /\ awaited' = "none"
    /\ answer' = NoAnswer
    /\ UNCHANGED <<running, closing, executor>>

(* CancelledError out of close(): shield leaves the job alone. *)
CancelClose ==
    /\ awaited = "close"
    /\ awaited' = "none"
    /\ answer' = NoAnswer
    /\ UNCHANGED <<queue, running, closing, executor>>

(* The done callback of the close future, on the event loop. *)
Shutdown ==
    /\ closing = "done" /\ executor = "up"
    /\ executor' = "down"
    /\ UNCHANGED <<queue, running, awaited, answer, closing>>
===============================================================================
