------------------------------ MODULE RunLoop ------------------------------
(***************************************************************************)
(* daemon::run from the first frame to its return: the capture threads     *)
(* that feed a bounded channel, the biased select loop that drains it, the *)
(* enrichment task beside it, and the stop, in which the loop joins the    *)
(* threads and then the notifier.                                          *)
(*                                                                         *)
(* A thread whose send finds the channel full waits in blocking_send, and  *)
(* looks at the shutdown flag only when it comes back to the top of its    *)
(* loop.  The receiver lives in run and is dropped when run returns, that  *)
(* is after the join, so the branch for a closed channel is never taken    *)
(* and has no action here.  What an observation, a sweep or a poll does to *)
(* the device table is in the modules of those parts: here it is the fact  *)
(* that the table has something to flush.                                  *)
(***************************************************************************)
EXTENDS Naturals, Sequences, FiniteSets

CONSTANTS
  Threads,  \* one per capture source and interface
  Room,     \* capture.channel_capacity
  Results   \* the capacity of the channel the enrichment answers in

ASSUME RunLoopAssumption ==
  /\ IsFiniteSet(Threads) /\ Threads # {}
  /\ Room \in Nat \ {0} /\ Results \in Nat \ {0}

VARIABLES
  signalled,  \* the shutdown watch holds true
  thread,     \* opening, reading, sending (in blocking_send), stopped
  broken,     \* threads that ended with an error
  queued,     \* observations in the channel
  loop,       \* selecting, joining the threads, awaiting the notifier, returned
  unflushed,  \* the device table holds changes no flush has taken
  snapshot,   \* the slot of the channel of device lists is taken
  poller,     \* the enrichment task: waiting, polling, answering, gone
  answers,    \* enrichment rounds waiting for their arm
  over        \* the notifier has ended

loopVars == <<signalled, thread, broken, queued, loop, unflushed,
              snapshot, poller, answers, over>>

\* What may wake the loop at any time: the timers, of which "upkeep" is those of
\* maintenance, the status file, the learning window and the table on the
\* terminal, and an answer of the resolver.
Timers == {"signal", "sweep", "flush", "reconcile", "enrich", "upkeep"}

RunLoopTypeOK ==
  /\ signalled \in BOOLEAN /\ unflushed \in BOOLEAN /\ snapshot \in BOOLEAN
  /\ over \in BOOLEAN
  /\ thread \in [Threads -> {"opening", "reading", "sending", "stopped"}]
  /\ broken \subseteq {t \in Threads : thread[t] = "stopped"}
  /\ queued \in 0 .. Room /\ answers \in 0 .. Results
  /\ loop \in {"selecting", "joining", "awaiting", "returned"}
  /\ poller \in {"waiting", "polling", "answering", "gone"}

RunLoopInit ==
  /\ signalled = FALSE
  /\ thread = [t \in Threads |-> "opening"] /\ broken = {}
  /\ queued = 0
  /\ loop = "selecting"
  /\ unflushed = FALSE
  /\ snapshot = FALSE /\ poller = "waiting" /\ answers = 0
  /\ over = FALSE
-----------------------------------------------------------------------------
(* The environment: a signal from the system.                              *)

ShutdownSignal ==
  /\ ~signalled
  /\ signalled' = TRUE
  /\ UNCHANGED <<thread, broken, queued, loop, unflushed, snapshot,
                 poller, answers, over>>
-----------------------------------------------------------------------------
(* One capture thread.                                                     *)

MoveThread(t, state) ==
  /\ thread' = [thread EXCEPT ![t] = state]
  /\ UNCHANGED <<signalled, loop, unflushed, snapshot, poller, answers, over>>

OpenHandle(t) ==
  /\ thread[t] = "opening"
  /\ \/ MoveThread(t, "reading") /\ UNCHANGED broken
     \/ MoveThread(t, "stopped") /\ broken' = broken \cup {t}
  /\ UNCHANGED queued

\* Mutant: a loop whose read blocks until a packet turns up never comes back to the flag.
SeesNothing(t) == FALSE

SeesTheSignal(t) == thread[t] = "reading" /\ signalled

StopReading(t) ==
  /\ SeesTheSignal(t)
  /\ MoveThread(t, "stopped")
  /\ UNCHANGED <<broken, queued>>

ReadFrame(t) ==
  /\ thread[t] = "reading" /\ ~SeesTheSignal(t)
  /\ MoveThread(t, "sending")
  /\ UNCHANGED <<broken, queued>>

\* The capture file ends, or the handle fails.
EndReading(t) ==
  /\ thread[t] = "reading" /\ ~SeesTheSignal(t)
  /\ \/ broken' = broken
     \/ broken' = broken \cup {t}
  /\ MoveThread(t, "stopped")
  /\ UNCHANGED queued

\* Mutant: a full channel takes one more.
HasRoomForOneMore == queued =< Room

HasRoom == queued < Room

SendObservation(t) ==
  /\ thread[t] = "sending" /\ HasRoom
  /\ MoveThread(t, "reading")
  /\ queued' = queued + 1
  /\ UNCHANGED broken

AllStopped == \A t \in Threads : thread[t] = "stopped"
-----------------------------------------------------------------------------
(* The enrichment task.  A poll may take as long as it likes.              *)

BeginPoll ==
  /\ poller = "waiting" /\ snapshot
  /\ poller' = "polling" /\ snapshot' = FALSE
  /\ UNCHANGED <<signalled, thread, broken, queued, loop, unflushed, answers, over>>

FinishPoll ==
  /\ poller = "polling"
  /\ poller' = "answering"
  /\ UNCHANGED <<signalled, thread, broken, queued, loop, unflushed,
                 snapshot, answers, over>>

Answer ==
  /\ poller = "answering" /\ answers < Results
  /\ poller' = "waiting" /\ answers' = answers + 1
  /\ UNCHANGED <<signalled, thread, broken, queued, loop, unflushed,
                 snapshot, over>>
-----------------------------------------------------------------------------
(* The select loop.                                                        *)

\* Mutant: the arms with the timers in front of the shutdown.
TimersFirst ==
  <<"signal", "sweep", "flush", "reconcile", "enrich", "enriched", "upkeep", "stop",
    "observation">>

Arms ==
  <<"stop", "observation", "signal", "sweep", "flush", "reconcile", "enrich", "enriched",
    "upkeep">>

IsReady(arm) ==
  CASE arm = "stop" -> signalled
    [] arm = "observation" -> queued > 0 \/ AllStopped
    [] arm = "enriched" -> answers > 0
    [] arm \in Timers -> TRUE

\* The biased select takes the first arm that is ready; a timer is or is not.
Takes(arm) ==
  /\ loop = "selecting"
  /\ \E i \in DOMAIN Arms :
       /\ Arms[i] = arm /\ IsReady(arm)
       /\ \A j \in 1 .. i - 1 : Arms[j] \in Timers \/ ~IsReady(Arms[j])

\* Mutant: a stop that leaves the last changes to the next start.
BreakUnflushed ==
  /\ loop' = "joining"
  /\ poller' = "gone"
  /\ UNCHANGED <<signalled, thread, broken, queued, unflushed, snapshot,
                 answers, over>>

\* What follows the loop before the first await: the last flush, and the end
\* of the enrichment task, which nothing waits for.
Break ==
  /\ loop' = "joining"
  /\ unflushed' = FALSE
  /\ poller' = "gone"
  /\ UNCHANGED <<signalled, thread, broken, queued, snapshot, answers, over>>

Stop == Takes("stop") /\ Break

EverySourceStopped == Takes("observation") /\ queued = 0 /\ Break

HandleObservation ==
  /\ Takes("observation") /\ queued > 0
  /\ queued' = queued - 1
  /\ unflushed' = TRUE
  /\ UNCHANGED <<signalled, thread, broken, loop, snapshot, poller, answers, over>>

\* A sweep changes the table when a device has been silent long enough, and an
\* answer of the resolver when it names one; the reconcile changes the registry
\* and the upkeep nothing that is flushed.
Handle(arm, outcomes) ==
  /\ Takes(arm)
  /\ unflushed' \in {unflushed} \cup outcomes
  /\ UNCHANGED <<signalled, thread, broken, queued, loop, snapshot, poller, answers, over>>

HandleSignal == Handle("signal", {TRUE})
HandleSweep == Handle("sweep", {TRUE})
HandleReconcile == Handle("reconcile", {})
HandleUpkeep == Handle("upkeep", {})

HandleFlush ==
  /\ Takes("flush")
  /\ unflushed' = FALSE
  /\ UNCHANGED <<signalled, thread, broken, queued, loop, snapshot, poller, answers, over>>

\* try_send: while the task is busy and its slot is taken the offer is dropped.
OfferSnapshot ==
  /\ Takes("enrich")
  /\ snapshot' = TRUE
  /\ UNCHANGED <<signalled, thread, broken, queued, loop, unflushed, poller, answers, over>>

HandleEnriched ==
  /\ Takes("enriched")
  /\ answers' = answers - 1
  /\ unflushed' \in {unflushed, TRUE}
  /\ UNCHANGED <<signalled, thread, broken, queued, loop, snapshot, poller, over>>
-----------------------------------------------------------------------------
(* The stop.                                                               *)

JoinThreads ==
  /\ loop = "joining" /\ AllStopped
  /\ loop' = "awaiting"
  /\ UNCHANGED <<signalled, thread, broken, queued, unflushed, snapshot,
                 poller, answers, over>>

\* The bus lives as long as run does, so only the signal ends the notifier.
EndNotifier ==
  /\ signalled /\ ~over
  /\ over' = TRUE
  /\ UNCHANGED <<signalled, thread, broken, queued, loop, unflushed,
                 snapshot, poller, answers>>

Return ==
  /\ loop = "awaiting" /\ over
  /\ loop' = "returned"
  /\ UNCHANGED <<signalled, thread, broken, queued, unflushed, snapshot,
                 poller, answers, over>>

ThreadStep(t) == OpenHandle(t) \/ StopReading(t) \/ SendObservation(t)

Select ==
  \/ Stop \/ EverySourceStopped \/ HandleObservation
  \/ HandleSignal \/ HandleSweep \/ HandleFlush \/ HandleReconcile
  \/ OfferSnapshot \/ HandleEnriched \/ HandleUpkeep
  \/ JoinThreads \/ Return

RunLoopNext ==
  \/ ShutdownSignal
  \/ \E t \in Threads : ThreadStep(t) \/ ReadFrame(t) \/ EndReading(t)
  \/ BeginPoll \/ FinishPoll \/ Answer
  \/ Select
  \/ EndNotifier

\* The threads, the loop and the notifier are scheduled, and some timer ticks; no
\* frame and no answer of a controller is promised.
RunLoopFairness ==
  /\ \A t \in Threads : WF_loopVars(ThreadStep(t))
  /\ WF_loopVars(Select)
  /\ WF_loopVars(EndNotifier)

RunLoopSpec == RunLoopInit /\ [][RunLoopNext]_loopVars /\ RunLoopFairness
-----------------------------------------------------------------------------
(* Neither packets nor timers that are ready again and again keep the loop *)
(* from its stop: the shutdown is the first arm of the biased select       *)
(* (daemon.rs run).                                                        *)
SignalEndsTheLoop == signalled ~> loop # "selecting"

Waiting == {t \in Threads : thread[t] = "sending"}

\* The channel has room for the observation of every thread in blocking_send.
RoomForAll == queued + Cardinality(Waiting) =< Room

(* Once the loop has stopped, run returns if the channel has room for what *)
(* the threads are sending, however long a poll of a controller takes      *)
(* (daemon.rs run, capture/mod.rs capture_loop).                           *)
StopCompletes ==
  (signalled /\ loop # "selecting" /\ RoomForAll) ~> loop = "returned"

(* Nothing the loop did is missing from the last flush: no handler runs    *)
(* between it and the return (daemon.rs run).                              *)
StopLeavesNothing == loop # "selecting" => ~unflushed

(* The stop is clean: complete, and with everything written.               *)
StopIsClean == StopCompletes /\ []StopLeavesNothing

(* "Starts capture, processes observations, and returns when shutdown is   *)
(* signalled": the first line of the documentation of daemon.rs run.       *)
ReturnsWhenSignalled == signalled ~> loop = "returned"
=============================================================================
