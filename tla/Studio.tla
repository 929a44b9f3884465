-------------------------------- MODULE Studio --------------------------------
(***************************************************************************)
(* studio.py: the loopback server that owns the runtime lock, and its one   *)
(* worker, which runs the scheduled cycles and the jobs of HTTP requests.   *)
(*                                                                          *)
(* Three kinds of threads meet here.  The main thread sleeps until Ctrl+C   *)
(* and then closes the server.  The worker alternates between the schedule  *)
(* and the queue.  A request thread puts one job on the queue and waits for *)
(* its future; after 120 s it gives up and cancels it.  They share the      *)
(* queue, the futures and the stop event, each of which is atomic, and      *)
(* nothing else, so every access to one of them is an action.               *)
(*                                                                          *)
(* Time is abstracted: a cycle that is not due may become so, and a request *)
(* that waits may time out, at any moment.  A request is a handle that is   *)
(* used again once no trace of its last use is left in the queue.           *)
(***************************************************************************)
EXTENDS Naturals, Sequences, FiniteSets

CONSTANTS
    Requests,       \* handles of HTTP requests
    QueueSize,      \* Queue(maxsize=16)
    Slots,          \* BoundedSemaphore(16)
    Scheduled,      \* --every was given
    None

ASSUME StudioConstants ==
    /\ QueueSize \in Nat \ {0}
    /\ Slots \in Nat \ {0}
    /\ Scheduled \in BOOLEAN
    /\ None \notin Requests

VARIABLES
    main,       \* where serve() is; it holds RuntimeLock until it is "gone"
    stop,       \* the stop event
    at, job,    \* where the worker is, and the job it took from the queue
    due,        \* the next cycle: None, in the future or now
    schedule,   \* the text shown to the owner
    jobs,       \* the queue
    future,     \* the futures of the jobs
    caller      \* where the request threads are

vars == <<main, stop, at, job, due, schedule, jobs, future, caller>>

MainAt    == {"starting", "serving", "stopping", "shut", "gone"}
WorkerAt  == {"top", "look", "cycling", "looked", "get", "got", "ready", "running", "draining", "gone"}
CallerAt  == {"away", "connected", "checked", "waiting", "expired", "served", "busy"}
Futures   == {"none", "pending", "running", "finished", "cancelled"}
Schedules == {"on demand", "scheduled", "market closed", "halted"}
DueAt     == {"never", "later", "now"}

Active == {r \in Requests : caller[r] \in {"connected", "checked", "waiting", "expired"}}

(* Future.cancel(): no effect on a job that has started.                    *)
Cancel(fs, r) == IF fs[r] = "pending" THEN [fs EXCEPT ![r] = "cancelled"] ELSE fs

Init ==
    /\ main = "starting" /\ stop = FALSE
    /\ at = "top" /\ job = None
    /\ due = IF Scheduled THEN "now" ELSE "never"
    /\ schedule = IF Scheduled THEN "scheduled" ELSE "on demand"
    /\ jobs = <<>>
    /\ future = [r \in Requests |-> "none"]
    /\ caller = [r \in Requests |-> "away"]

-----------------------------------------------------------------------------
(* The worker *)

workerOnly == <<main, stop, caller>>

(* The loop condition.                                                      *)
Loop ==
    /\ at = "top"
    /\ at' = IF stop THEN "draining" ELSE "look"
    /\ UNCHANGED <<workerOnly, job, due, schedule, jobs, future>>

StartCycle ==
    /\ at = "look" /\ due = "now"
    /\ at' = "cycling"
    /\ UNCHANGED <<workerOnly, job, due, schedule, jobs, future>>

NoCycle ==
    /\ at = "look" /\ due # "now"
    /\ at' = "looked"
    /\ UNCHANGED <<workerOnly, job, due, schedule, jobs, future>>

(* Mutant: an exception is taken for a transient, and the cycle is retried. *)
EndCycleRetried(outcome) ==
    /\ at = "cycling"
    /\ at' = "looked"
    /\ schedule' = outcome
    /\ due' = IF outcome = "market closed" THEN "never" ELSE "later"
    /\ UNCHANGED <<workerOnly, job, jobs, future>>

(* Mutant: the queue has its turn only when no cycle is due.                *)
EndCycleAgain(outcome) ==
    /\ at = "cycling"
    /\ at' = "top"
    /\ schedule' = outcome
    /\ due' = IF outcome = "scheduled" THEN "later" ELSE "never"
    /\ UNCHANGED <<workerOnly, job, jobs, future>>

(* The cycle returned a report, or raised ("halted").                       *)
EndCycle(outcome) ==
    /\ at = "cycling"
    /\ at' = "looked"
    /\ schedule' = outcome
    /\ due' = IF outcome = "scheduled" THEN "later" ELSE "never"
    /\ UNCHANGED <<workerOnly, job, jobs, future>>

Looked ==
    /\ at = "looked"
    /\ at' = IF stop THEN "draining" ELSE "get"
    /\ UNCHANGED <<workerOnly, job, due, schedule, jobs, future>>

Get ==
    /\ at = "get" /\ jobs # <<>>
    /\ job' = Head(jobs) /\ jobs' = Tail(jobs)
    /\ at' = "got"
    /\ UNCHANGED <<workerOnly, due, schedule, future>>

(* Mutant: the worker waits for a job for ever.                             *)
GetNever == FALSE /\ UNCHANGED vars

GetTimesOut ==
    /\ at = "get" /\ jobs = <<>>
    /\ at' = "top"
    /\ UNCHANGED <<workerOnly, job, due, schedule, jobs, future>>

Got ==
    /\ at = "got"
    /\ \/ /\ stop
          /\ future' = Cancel(future, job)
          /\ at' = "draining" /\ job' = None
       \/ /\ ~stop
          /\ at' = "ready"
          /\ UNCHANGED <<job, future>>
    /\ UNCHANGED <<workerOnly, due, schedule, jobs>>

(* set_running_or_notify_cancel()                                           *)
StartJob ==
    /\ at = "ready" /\ future[job] = "pending"
    /\ future' = [future EXCEPT ![job] = "running"]
    /\ at' = "running"
    /\ UNCHANGED <<workerOnly, job, due, schedule, jobs>>

SkipJob ==
    /\ at = "ready" /\ future[job] # "pending"
    /\ at' = "top" /\ job' = None
    /\ UNCHANGED <<workerOnly, due, schedule, jobs, future>>

(* Mutant: the queue is emptied before the clock is looked at again.        *)
EndJobGreedy ==
    /\ at = "running"
    /\ future' = [future EXCEPT ![job] = "finished"]
    /\ at' = "get" /\ job' = None
    /\ UNCHANGED <<workerOnly, due, schedule, jobs>>

(* set_result or set_exception                                              *)
EndJob ==
    /\ at = "running"
    /\ future' = [future EXCEPT ![job] = "finished"]
    /\ at' = "top" /\ job' = None
    /\ UNCHANGED <<workerOnly, due, schedule, jobs>>

Drain ==
    /\ at = "draining"
    /\ \/ /\ jobs # <<>>
          /\ future' = Cancel(future, Head(jobs))
          /\ jobs' = Tail(jobs)
          /\ UNCHANGED at
       \/ /\ jobs = <<>>
          /\ at' = "gone"
          /\ UNCHANGED <<jobs, future>>
    /\ UNCHANGED <<workerOnly, job, due, schedule>>

(* Time passes: the next cycle is due.                                      *)
BecomeDue ==
    /\ due = "later" /\ due' = "now"
    /\ UNCHANGED <<workerOnly, at, job, schedule, jobs, future>>

-----------------------------------------------------------------------------
(* A request thread *)

callerOnly == <<main, stop, at, job, due, schedule>>

(* process_request: a slot is free, or the connection is shut down.  The    *)
(* listening socket is served until server.shutdown() returns.              *)
Connect(r) ==
    /\ main \in {"starting", "serving", "stopping"}
    /\ caller[r] = "away" /\ Cardinality(Active) < Slots
    /\ caller' = [caller EXCEPT ![r] = "connected"]
    /\ UNCHANGED <<callerOnly, jobs, future>>

(* route(): refused before it reaches call(), or call() finds stop set.     *)
Refuse(r) ==
    /\ caller[r] = "connected"
    /\ caller' = [caller EXCEPT ![r] = "busy"]
    /\ UNCHANGED <<callerOnly, jobs, future>>

Check(r) ==
    /\ caller[r] = "connected" /\ ~stop
    /\ caller' = [caller EXCEPT ![r] = "checked"]
    /\ UNCHANGED <<callerOnly, jobs, future>>

(* Mutant: the queue has no bound.                                          *)
PutUnbounded(r) ==
    /\ caller[r] = "checked"
    /\ jobs' = Append(jobs, r)
    /\ future' = [future EXCEPT ![r] = "pending"]
    /\ caller' = [caller EXCEPT ![r] = "waiting"]
    /\ UNCHANGED callerOnly

(* put_nowait: stop may have been set since the check.                      *)
Put(r) ==
    /\ caller[r] = "checked"
    /\ \/ /\ Len(jobs) < QueueSize
          /\ jobs' = Append(jobs, r)
          /\ future' = [future EXCEPT ![r] = "pending"]
          /\ caller' = [caller EXCEPT ![r] = "waiting"]
       \/ /\ Len(jobs) >= QueueSize
          /\ caller' = [caller EXCEPT ![r] = "busy"]
          /\ UNCHANGED <<jobs, future>>
    /\ UNCHANGED callerOnly

Answer(r) ==
    /\ caller[r] = "waiting" /\ future[r] \in {"finished", "cancelled"}
    /\ caller' = [caller EXCEPT ![r] = IF future[r] = "finished" THEN "served" ELSE "busy"]
    /\ UNCHANGED <<callerOnly, jobs, future>>

(* future.result(timeout=120) raises TimeoutError.                          *)
Expire(r) ==
    /\ caller[r] = "waiting" /\ future[r] \in {"pending", "running"}
    /\ caller' = [caller EXCEPT ![r] = "expired"]
    /\ UNCHANGED <<callerOnly, jobs, future>>

(* Mutant: the future is left in the queue as it is.                        *)
AbandonJob(r) ==
    /\ caller[r] = "expired"
    /\ caller' = [caller EXCEPT ![r] = "busy"]
    /\ UNCHANGED <<callerOnly, jobs, future>>

(* future.cancel(), then 503.  The job may have started since the time-out. *)
GiveUp(r) ==
    /\ caller[r] = "expired"
    /\ future' = Cancel(future, r)
    /\ caller' = [caller EXCEPT ![r] = "busy"]
    /\ UNCHANGED <<callerOnly, jobs>>

(* Nothing is left of the request, and its handle is free.                  *)
Forget(r) ==
    /\ caller[r] \in {"served", "busy"} /\ job # r
    /\ \A i \in DOMAIN jobs : jobs[i] # r
    /\ caller' = [caller EXCEPT ![r] = "away"]
    /\ future' = [future EXCEPT ![r] = "none"]
    /\ UNCHANGED <<callerOnly, jobs>>

-----------------------------------------------------------------------------
(* The main thread: serve() and close() *)

mainOnly == <<at, job, due, schedule, jobs, future, caller>>

Sleep ==
    /\ main = "starting"
    /\ main' = "serving"
    /\ UNCHANGED <<mainOnly, stop>>

(* Ctrl+C while main sleeps; close() sets the event.                        *)
Interrupt ==
    /\ main = "serving"
    /\ main' = "stopping" /\ stop' = TRUE
    /\ UNCHANGED mainOnly

(* server.shutdown(), server_close() and http.join().  The request threads  *)
(* are daemons: nobody waits for them.                                      *)
Shutdown ==
    /\ main = "stopping"
    /\ main' = "shut"
    /\ UNCHANGED <<mainOnly, stop>>

(* Mutant: nobody waits for the worker either.                              *)
LeaveAtOnce ==
    /\ main = "shut"
    /\ main' = "gone"
    /\ UNCHANGED <<mainOnly, stop>>

(* worker.join(), and then RuntimeLock.__exit__.                            *)
Leave ==
    /\ main = "shut" /\ at = "gone"
    /\ main' = "gone"
    /\ UNCHANGED <<mainOnly, stop>>

(* Ctrl+C once more, inside close().  It propagates through the `with' of   *)
(* RuntimeLock, and the interpreter then waits for the worker, which is no  *)
(* daemon.  (Between start() and the try of serve() the first has the same  *)
(* effect, and stop is not even set.)                                       *)
InterruptClose ==
    /\ main \in {"stopping", "shut"}
    /\ main' = "gone"
    /\ UNCHANGED <<mainOnly, stop>>

-----------------------------------------------------------------------------
Worker ==
    \/ Loop \/ StartCycle \/ NoCycle \/ Looked \/ Get \/ GetTimesOut \/ Got
    \/ StartJob \/ SkipJob \/ EndJob \/ Drain
    \/ \E outcome \in Schedules \ {"on demand"} : EndCycle(outcome)

Caller(r) ==
    Connect(r) \/ Refuse(r) \/ Check(r) \/ Put(r) \/ Answer(r) \/ Expire(r)
        \/ GiveUp(r) \/ Forget(r)

Main == Sleep \/ Interrupt \/ Shutdown \/ Leave

Next == Worker \/ BecomeDue \/ (\E r \in Requests : Caller(r)) \/ Main

(* Threads are scheduled, and cycles and jobs end: each of their network    *)
(* reads has a timeout.  The owner need not stop the server, no request     *)
(* need come, and a time-out need not fire.                                 *)
Fairness ==
    /\ WF_vars(Worker)
    /\ WF_vars(Shutdown) /\ WF_vars(Leave)

StudioSpec    == Init /\ [][Next]_vars /\ Fairness
ImpatientSpec == Init /\ [][Next \/ InterruptClose]_vars

-----------------------------------------------------------------------------
StudioTypeOK ==
    /\ main \in MainAt /\ stop \in BOOLEAN
    /\ at \in WorkerAt /\ job \in Requests \cup {None}
    /\ due \in DueAt /\ schedule \in Schedules
    /\ jobs \in Seq(Requests) /\ Len(jobs) <= QueueSize
    /\ future \in [Requests -> Futures]
    /\ caller \in [Requests -> CallerAt]

(* "do not release RuntimeLock while it runs" (studio.py:158): once the     *)
(* lock is free for another controller, neither a scheduled cycle nor a job *)
(* of this one runs, and the worker will start no other.                    *)
NothingRunsUnlocked == main = "gone" => at = "gone"

(* "queued diagnostics must not start after client timeout"                 *)
(* (studio.py:172): a job whose request was told Busy never starts later.   *)
NoLateStart ==
    [][\A r \in Requests :
          future[r] = "pending" /\ future'[r] = "running" => caller[r] \in {"waiting", "expired"}]_vars

(* An incident or the end of the session ends the schedule of this process  *)
(* ("does not resume by itself", README, tests/test_studio.py:274): no      *)
(* scheduled cycle starts after one that halted or found the market closed. *)
NoAutoRestart ==
    [][at # "cycling" /\ at' = "cycling" => schedule \notin {"halted", "market closed"}]_vars

(* Cycles that take longer than their interval do not shut out requests: a  *)
(* job in the queue is run, or cancelled, as long as the worker lives.      *)
JobsAreServed ==
    \A r \in Requests : future[r] = "pending" ~> future[r] # "pending" \/ at = "gone"

(* Requests do not shut out the schedule: a cycle that is due is run, unless *)
(* the server is stopped first.                                             *)
CyclesAreRun == due = "now" ~> at = "cycling" \/ stop

(* close() returns, and with it the lock is released, however busy or idle  *)
(* the worker is when Ctrl+C comes.                                         *)
CloseReturns == stop ~> main = "gone"
=============================================================================
