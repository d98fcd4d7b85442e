--------------------------- MODULE PlanningWorker ---------------------------
(***************************************************************************)
(* The worker processes of sdbr/planning_worker.py over the queue of       *)
(* PlanningRunQueue: a loop that claims a run, starts a heartbeat thread    *)
(* that renews the lease, waits for the answer of execute, stops the       *)
(* thread, and polls again.  Whatever a request raises (an answer of 409   *)
(* or 500, a lost connection, a timeout) leaves the loop and ends the       *)
(* process; in the heartbeat thread it ends only the thread.               *)
(*                                                                         *)
(* The other actors of the queue are planners.  Nothing in the code starts  *)
(* an ended worker again.                                                  *)
(***************************************************************************)
EXTENDS PlanningRunQueue

CONSTANTS
  Worker,             \* the worker processes, each with a WorkerID of its own
  HeartbeatSeconds,   \* how long the thread waits between two renewals
  MaxLateness         \* bound: seconds by which a renewal may come late

ASSUME WorkerAssumption ==
  /\ Worker \subseteq Actor
  /\ HeartbeatSeconds \in Nat \ {0} /\ MaxLateness \in Nat
  /\ HeartbeatSeconds + MaxLateness < LeaseSeconds   \* PlanningRunWorkerConfig

VARIABLES
  proc,    \* where each worker is in run_forever
  beats    \* the heartbeat threads

workerVars == <<run, executions, leases, proc, beats>>

NoAnswer == "none"

\* left: seconds until the thread's next renewal, negative when it is late;
\* stop: heartbeat_stop is set.
Heartbeat == [lease: Lease, left: -MaxLateness..HeartbeatSeconds, stop: BOOLEAN]

Process ==
  [phase: {"polling", "claimed", "executing", "ended"},
   held: SUBSET Lease,                     \* the lease of the run in hand
   answer: {NoAnswer, "ok", "error"},      \* the server's answer to execute
   stopping: BOOLEAN]                      \* stop_event, set by SIGINT or SIGTERM

Polling(p) == [p EXCEPT !.phase = "polling", !.held = {}, !.answer = NoAnswer]

WorkerInit ==
  /\ Init
  /\ proc = [w \in Worker |->
       [phase |-> "polling", held |-> {}, answer |-> NoAnswer, stopping |-> FALSE]]
  /\ beats = {}

BeatsOf(w) == {b \in beats : b.lease \in proc[w].held}

-----------------------------------------------------------------------------
(* run_forever and run_once.                                               *)

MayClaim(w) ==
  /\ proc[w].phase = "polling" /\ ~proc[w].stopping
  /\ \A r \in NextInQueue : run[r].version < MaxExecutions   \* bound

\* claim_next answers with a run: the heartbeat starts at once.
Claim(w) ==
  /\ MayClaim(w)
  /\ ClaimNext(w)
  /\ LET held == leases' \ leases
     IN  /\ proc' = [proc EXCEPT ![w].phase = "claimed", ![w].held = held]
         /\ beats' = beats \cup
              {[lease |-> c, left |-> HeartbeatSeconds, stop |-> FALSE] : c \in held}

\* The claim is made but its answer is lost: nobody has the lease.
ClaimAnswerLost(w) ==
  /\ MayClaim(w)
  /\ ClaimNext(w)
  /\ proc' = [proc EXCEPT ![w].phase = "ended"]
  /\ UNCHANGED beats

SendExecute(w) ==
  /\ proc[w].phase = "claimed"
  /\ \E c \in proc[w].held : ExecuteWithLease(c)
  /\ proc' = [proc EXCEPT ![w].phase = "executing"]
  /\ UNCHANGED beats

\* Deviation of WithoutThreadsOf: the heartbeat is not a daemon thread and
\* its stop event is only set when execute succeeds.
WithoutThreadsKept(w) == beats

\* What is left of the threads when the process has ended: they are daemons.
WithoutThreadsOf(w) == beats \ {b \in beats : b.lease.worker = w}

\* Deviation of Ended: run_forever catches what run_once raises and goes on.
EndedPollsAgain(w) == [proc EXCEPT ![w] = Polling(@)]

Ended(w) == [proc EXCEPT ![w].phase = "ended", ![w].held = {}, ![w].answer = NoAnswer]

\* run_once raises: execute is refused at once, its answer is an error, or no
\* answer comes within TimeLimitSeconds + 30.
Raise(w) ==
  /\ \/ /\ proc[w].phase = "claimed"
        /\ \A c \in proc[w].held :
             ~(run[c.run].status = "Running" /\ HoldsLease(c) /\ run[c.run].exec = NoToken)
     \/ proc[w].phase = "executing" /\ proc[w].answer \in {NoAnswer, "error"}
  /\ proc' = Ended(w)
  /\ beats' = WithoutThreadsOf(w)
  /\ UNCHANGED <<run, executions, leases>>

\* run_once returns: the stop event is set and the thread joined.  The join
\* has a timeout, so a renewal on its way does not hold the worker up.
ReturnFromRunOnce(w) ==
  /\ proc[w].phase = "executing" /\ proc[w].answer = "ok"
  /\ proc' = [proc EXCEPT ![w] = Polling(@)]
  /\ beats' = (beats \ BeatsOf(w)) \cup
       {[b EXCEPT !.stop = TRUE] : b \in {b \in BeatsOf(w) : b.left <= 0}}
  /\ UNCHANGED <<run, executions, leases>>

\* The signal handler; the loop looks at stop_event between two runs.
Signal(w) ==
  /\ proc[w].phase # "ended" /\ ~proc[w].stopping
  /\ proc' = [proc EXCEPT ![w].stopping = TRUE]
  /\ UNCHANGED <<run, executions, leases, beats>>

\* Deviation of LeaveLoop: the signal is only looked at when the queue is empty.
LeaveLoopWhenIdle(w) ==
  /\ proc[w].phase = "polling" /\ proc[w].stopping /\ NextInQueue = {}
  /\ proc' = Ended(w)
  /\ beats' = WithoutThreadsOf(w)
  /\ UNCHANGED <<run, executions, leases>>

\* run_forever finds stop_event set.
LeaveLoop(w) ==
  /\ proc[w].phase = "polling" /\ proc[w].stopping
  /\ proc' = Ended(w)
  /\ beats' = WithoutThreadsOf(w)
  /\ UNCHANGED <<run, executions, leases>>

\* The process is killed.
Kill(w) ==
  /\ proc[w].phase \in {"claimed", "executing"}
  /\ proc' = Ended(w)
  /\ beats' = WithoutThreadsOf(w)
  /\ UNCHANGED <<run, executions, leases>>

-----------------------------------------------------------------------------
(* _renew_lease_until_stopped                                              *)

\* The renewal succeeds; a thread that was stopped meanwhile ends.
Renew(b) ==
  /\ b.left <= 0
  /\ RenewLease(b.lease)
  /\ beats' = (beats \ {b}) \cup
       (IF b.stop THEN {} ELSE {[b EXCEPT !.left = HeartbeatSeconds]})
  /\ UNCHANGED proc

\* The renewal raises, refused by the server or lost before or after it took
\* effect: the thread ends and nobody notices.
RenewFails(b) ==
  /\ b.left <= 0
  /\ RenewLease(b.lease) \/ UNCHANGED <<run, executions, leases>>
  /\ beats' = beats \ {b}
  /\ UNCHANGED proc

-----------------------------------------------------------------------------
(* The server and its other clients.                                       *)

ServesWorker(e, w) == \E c \in proc[w].held : e.viaLease /\ e.lease = c.token /\ e.by = w

Answered(e, answer) ==
  [w \in Worker |-> IF ServesWorker(e, w) THEN [proc[w] EXCEPT !.answer = answer] ELSE proc[w]]

AnswerExecute(e) ==
  /\ \/ /\ \E v \in Verdict, err \in BOOLEAN : Finalize(e, v, err)
        /\ proc' = Answered(e, "ok")
     \/ RefuseFinalization(e) /\ proc' = Answered(e, "error")
     \/ FailFinalization(e) /\ proc' = Answered(e, "error")
     \/ Compensate(e) /\ UNCHANGED proc
  /\ UNCHANGED beats

\* Connections break with the server process.
RestartServer ==
  /\ ServerRestart
  /\ proc' = [w \in Worker |->
       IF proc[w].phase = "executing" /\ proc[w].answer = NoAnswer
       THEN [proc[w] EXCEPT !.answer = "error"] ELSE proc[w]]
  /\ UNCHANGED beats

\* Planners; a worker has no other request than those above.
Planner == Actor \ Worker
PlannerStep ==
  /\ \/ \E r \in Run : Create(r) \/ Enqueue(r) \/ Cancel(r) \/ Recover(r)
     \/ \E a \in Planner, r \in Run : ProcessQueued(a, r) \/ ExecuteDirect(a, r)
     \/ \E c \in leases : c.interactive /\ (ExecuteWithLease(c) \/ ForgetLease(c))
  /\ UNCHANGED <<proc, beats>>

\* A lease that neither a process nor a thread remembers.
Forget(c) ==
  /\ ~c.interactive
  /\ \A w \in Worker : c \notin proc[w].held
  /\ \A b \in beats : b.lease # c
  /\ ForgetLease(c)
  /\ UNCHANGED <<proc, beats>>

\* A second passes for the server and for the threads that wait.
TimePasses ==
  /\ \A b \in beats : b.left > -MaxLateness
  /\ Tick
  /\ beats' = {[b EXCEPT !.left = @ - 1] : b \in beats}
  /\ UNCHANGED proc

WorkerNext ==
  \/ \E w \in Worker :
       \/ Claim(w) \/ ClaimAnswerLost(w) \/ SendExecute(w) \/ Raise(w)
       \/ ReturnFromRunOnce(w) \/ Signal(w) \/ LeaveLoop(w) \/ Kill(w)
  \/ \E b \in beats : Renew(b) \/ RenewFails(b)
  \/ \E e \in executions : AnswerExecute(e)
  \/ \E c \in leases : Forget(c)
  \/ RestartServer \/ PlannerStep \/ TimePasses

WorkerSpec == WorkerInit /\ [][WorkerNext]_workerVars

\* Time passes, a thread renews at last, an execute request ends (the solver
\* has a time limit), and a worker goes on with its loop.  Nothing obliges
\* anybody to claim.
WorkerFairness ==
  /\ WF_workerVars(TimePasses)
  /\ WF_workerVars(\E b \in beats : Renew(b) \/ RenewFails(b))
  /\ WF_workerVars(\E e \in executions : AnswerExecute(e))
  /\ \A w \in Worker :
       WF_workerVars(SendExecute(w) \/ Raise(w) \/ ReturnFromRunOnce(w) \/ LeaveLoop(w))

FairWorkerSpec == WorkerSpec /\ WorkerFairness

-----------------------------------------------------------------------------
(* What a worker promises.                                                 *)

\* As long as the heartbeat thread of a lease is alive, neither the lease nor
\* the execution claim on it runs out: renewals come early enough, and move
\* both expiries.
HeartbeatKeepsClaim ==
  \A b \in beats :
    LET m == run[b.lease.run]
    IN  m.status = "Running" /\ m.lease = b.lease.token /\ ~b.stop =>
          m.leaseLeft > 0 /\ (m.exec # NoToken => m.execLeft > 0)

\* A worker has at most one solver working for it in the server, also after
\* requests that timed out or failed: a process that cannot know whether its
\* last request still runs makes no new one.
OneSolverPerWorker ==
  \A w \in Worker : Cardinality({e \in executions : e.by = w}) <= 1

\* While a worker lives, the claim it works under is kept for it and its solver
\* has no second one beside it.
ClaimsKept == HeartbeatKeepsClaim /\ OneSolverPerWorker

\* A worker that was told to stop ends, whatever it was doing.
StopHonoured ==
  \A w \in Worker : proc[w].stopping ~> proc[w].phase = "ended"

\* However a worker ends, after a while no lease of it is in force ever again:
\* nothing renews it any more, so the queue may give its run to somebody else.
EndedWorkersLetGo ==
  \A w \in Worker :
    proc[w].phase = "ended" ~>
      [](\A r \in Run : run[r].worker = w /\ run[r].status = "Running" => run[r].leaseLeft = 0)
=============================================================================
