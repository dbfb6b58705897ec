----------------------------- MODULE StopHandler -----------------------------
(***************************************************************************)
(* handleStopWithAck (src/unnamed/part_005): the daemon's side of stopping *)
(* a task.  Each handler sends task_stop with a fresh sequence number and  *)
(* waits up to ACK_TIMEOUT_MS for a task_stop_ack carrying that number,    *)
(* at most MAX_RETRIES times; after an ACK it waits up to                  *)
(* STOP_COMPLETE_TIMEOUT_MS for task_stopped_complete; then it patches the *)
(* task and the session, each patch able to throw.                         *)
(*                                                                         *)
(* The sessions service is an event emitter: an event reaches the          *)
(* listeners registered when it is emitted and is lost otherwise.  The     *)
(* executor answering the stop is not code of this repository; it is the   *)
(* environment here: it may receive a stop signal or not, ACK it, finish   *)
(* stopping (updating the task first, as the comment at 189 expects) and   *)
(* emit the completion, and every message either way may be lost or       *)
(* delayed, but not reordered: both events travel on the executor's one  *)
(* socket.  A handler's continuation after an await runs before the next  *)
(* event is dispatched, so "ACK heard" and "completion listener            *)
(* registered" are one step.                                               *)
(***************************************************************************)
EXTENDS Naturals, Sequences, SequencesExt

CONSTANTS
    Handlers,       \* concurrent handleStopWithAck calls for one task
    PatchMayFail    \* whether tasks.patch / sessions.patch may throw

(* part_005 line 39.                                                       *)
MAX_RETRIES == 3

Seqs == 1..MAX_RETRIES

VARIABLES
    h,          \* per handler: pc, attempt, sequence, ackReceived, result
    listeners,  \* listeners registered on the sessions service
    toExec,     \* task_stop signals on their way to the executor
    inflight,   \* task_stop_ack / task_stopped_complete events, in order, not yet emitted
    exec,       \* the executor: running, stopping or stopped
    task,       \* the task's status in the database
    session     \* the session's status in the database

vars == <<h, listeners, toExec, inflight, exec, task, session>>

Results == {"pending", "confirmed", "forced", "unconfirmed", "failed"}

(* The results returned with success: true (130-134, 182-185, 206).        *)
Success == {"confirmed", "forced", "unconfirmed"}

AckListener(x, s) == [h |-> x, ev |-> "ack", seq |-> s]
CompleteListener(x) == [h |-> x, ev |-> "complete", seq |-> 0]
AckEvent(s) == [ev |-> "ack", seq |-> s]
CompleteEvent == [ev |-> "complete", seq |-> 0]

PatchOutcomes == IF PatchMayFail THEN {TRUE, FALSE} ELSE {TRUE}

TypeOK ==
    /\ h \in [Handlers -> [pc : {"idle", "send", "waitAck", "waitComplete",
                                 "forceTask", "forceSession", "patchSession", "done"},
                           attempt : 0..MAX_RETRIES, sequence : 0..MAX_RETRIES,
                           ackReceived : BOOLEAN, result : Results]]
    /\ listeners \subseteq {AckListener(x, s) : x \in Handlers, s \in Seqs}
                              \cup {CompleteListener(x) : x \in Handlers}
    /\ toExec \subseteq Seqs
    /\ inflight \in Seq({AckEvent(s) : s \in Seqs} \cup {CompleteEvent})
    /\ exec \in {"running", "stopping", "stopped"}
    /\ task \in {"running", "stopped"}
    /\ session \in {"running", "idle"}

(* let sequence = 0; let ackReceived = false (60-61).                      *)
Init ==
    /\ h = [x \in Handlers |-> [pc |-> "idle", attempt |-> 0, sequence |-> 0,
                                ackReceived |-> FALSE, result |-> "pending"]]
    /\ listeners = {}
    /\ toExec = {}
    /\ inflight = <<>>
    /\ exec = "running"
    /\ task = "running"
    /\ session = "running"

(* The stop route calls handleStopWithAck (52-58).                         *)
Start(x) ==
    /\ h[x].pc = "idle"
    /\ h' = [h EXCEPT ![x].pc = "send"]
    /\ UNCHANGED <<listeners, toExec, inflight, exec, task, session>>

(* One iteration of the retry loop up to its await (64-97): sequence++,    *)
(* the ACK listener with its timer, then the task_stop emit.               *)
Send(x) ==
    /\ h[x].pc = "send"
    /\ h[x].attempt < MAX_RETRIES
    /\ LET s == h[x].sequence + 1 IN
         /\ h' = [h EXCEPT ![x].sequence = s, ![x].pc = "waitAck"]
         /\ listeners' = listeners \cup {AckListener(x, s)}
         /\ toExec' = toExec \cup {s}
    /\ UNCHANGED <<inflight, exec, task, session>>

(* Mutant: the ACK timer resolves without removeListener (74 dropped).  *)
AckTimeoutKeepsListener(x) ==
    /\ h[x].pc = "waitAck"
    /\ UNCHANGED listeners
    /\ h' = [h EXCEPT ![x].attempt = @ + 1,
                      ![x].pc = IF h[x].attempt + 1 < MAX_RETRIES THEN "send" ELSE "forceTask"]
    /\ UNCHANGED <<toExec, inflight, exec, task, session>>

(* The ACK timer (73-76), then the rest of the iteration (106) and the    *)
(* loop test (64).                                                         *)
AckTimeout(x) ==
    /\ h[x].pc = "waitAck"
    /\ listeners' = {l \in listeners : ~(l.h = x /\ l.ev = "ack")}
    /\ h' = [h EXCEPT ![x].attempt = @ + 1,
                      ![x].pc = IF h[x].attempt + 1 < MAX_RETRIES THEN "send" ELSE "forceTask"]
    /\ UNCHANGED <<toExec, inflight, exec, task, session>>

(* A task_stop_ack is emitted: every ACK listener whose closure's current *)
(* sequence equals the event's fires (78-85), and its handler resumes     *)
(* (99-104, 137-156): it leaves the loop and registers the completion     *)
(* listener.                                                               *)
DeliverAck(s) ==
    /\ inflight # <<>> /\ Head(inflight) = AckEvent(s)
    /\ LET hears == {x \in Handlers : AckListener(x, s) \in listeners /\ h[x].sequence = s}
       IN /\ listeners' = (listeners \ {AckListener(x, s) : x \in hears})
                            \cup {CompleteListener(x) : x \in hears}
          /\ h' = [x \in Handlers |->
                     IF x \in hears
                     THEN [h[x] EXCEPT !.ackReceived = TRUE, !.pc = "waitComplete"]
                     ELSE h[x]]
    /\ inflight' = Tail(inflight)
    /\ UNCHANGED <<toExec, exec, task, session>>

(* A task_stopped_complete is emitted: the completion listeners match on  *)
(* the task id alone (146-153); each handler resumes to its session patch *)
(* (188-197).                                                              *)
DeliverComplete ==
    /\ inflight # <<>> /\ Head(inflight) = CompleteEvent
    /\ LET hears == {x \in Handlers : CompleteListener(x) \in listeners}
       IN /\ listeners' = listeners \ {CompleteListener(x) : x \in hears}
          /\ h' = [x \in Handlers |->
                     IF x \in hears THEN [h[x] EXCEPT !.pc = "patchSession"] ELSE h[x]]
    /\ inflight' = Tail(inflight)
    /\ UNCHANGED <<toExec, exec, task, session>>

(* Mutant: the completion wait without its safety-net timer.            *)
CompleteTimeoutUnarmed(x) ==
    /\ h[x].pc = "waitComplete"
    /\ FALSE
    /\ listeners' = listeners \ {CompleteListener(x)}
    /\ h' = [h EXCEPT ![x].pc = "forceTask"]
    /\ UNCHANGED <<toExec, inflight, exec, task, session>>

(* The completion timer (141-144) and the resumption at 158-160.           *)
CompleteTimeout(x) ==
    /\ h[x].pc = "waitComplete"
    /\ listeners' = listeners \ {CompleteListener(x)}
    /\ h' = [h EXCEPT ![x].pc = "forceTask"]
    /\ UNCHANGED <<toExec, inflight, exec, task, session>>

(* The result a forced stop returns: without an ACK (130-134), after one  *)
(* (182-185).                                                              *)
ForcedResult(x) == IF h[x].ackReceived THEN "unconfirmed" ELSE "forced"

(* Mutant: each safety-net patch in a try of its own, so a failed task   *)
(* patch still goes on to the session patch.                              *)
ForceTaskPatchEachTry(x) ==
    /\ h[x].pc = "forceTask"
    /\ \E ok \in PatchOutcomes :
         /\ task' = IF ok THEN "stopped" ELSE task
         /\ h' = [h EXCEPT ![x].pc = "forceSession"]
    /\ UNCHANGED <<listeners, toExec, inflight, exec, session>>

(* The safety net's first patch (114-118, 166-170); a throw skips the      *)
(* session patch, the catch only logs (126-128, 178-180), and the handler  *)
(* returns success either way.                                             *)
ForceTaskPatch(x) ==
    /\ h[x].pc = "forceTask"
    /\ \E ok \in PatchOutcomes :
         /\ task' = IF ok THEN "stopped" ELSE task
         /\ h' = [h EXCEPT ![x].pc = IF ok THEN "forceSession" ELSE "done",
                           ![x].result = IF ok THEN "pending" ELSE ForcedResult(x)]
    /\ UNCHANGED <<listeners, toExec, inflight, exec, session>>

(* The safety net's session patch (120-123, 172-175) and the return.       *)
ForceSessionPatch(x) ==
    /\ h[x].pc = "forceSession"
    /\ \E ok \in PatchOutcomes :
         session' = IF ok THEN "idle" ELSE session
    /\ h' = [h EXCEPT ![x].pc = "done", ![x].result = ForcedResult(x)]
    /\ UNCHANGED <<listeners, toExec, inflight, exec, task>>

(* Phase 3 (193-213): only the session is patched; a throw returns        *)
(* success: false.                                                         *)
SessionPatch(x) ==
    /\ h[x].pc = "patchSession"
    /\ \E ok \in PatchOutcomes :
         /\ session' = IF ok THEN "idle" ELSE session
         /\ h' = [h EXCEPT ![x].pc = "done",
                           ![x].result = IF ok THEN "confirmed" ELSE "failed"]
    /\ UNCHANGED <<listeners, toExec, inflight, exec, task>>

-----------------------------------------------------------------------------
(* The executor and the connection (environment).                          *)

(* The executor receives task_stop s and ACKs it, "stopping" or           *)
(* "already_stopped" (StopAckData, 16-22).                                 *)
ExecReceive(s) ==
    /\ s \in toExec
    /\ toExec' = toExec \ {s}
    /\ inflight' = Append(inflight, AckEvent(s))
    /\ exec' = IF exec = "running" THEN "stopping" ELSE exec
    /\ UNCHANGED <<h, listeners, task, session>>

(* The executor stops, updates the task and reports completion.            *)
ExecFinish ==
    /\ exec = "stopping"
    /\ exec' = "stopped"
    /\ task' = "stopped"
    /\ inflight' = Append(inflight, CompleteEvent)
    /\ UNCHANGED <<h, listeners, toExec, session>>

(* A signal or an event is lost (a dropped socket).                        *)
LoseSignal(s) ==
    /\ s \in toExec
    /\ toExec' = toExec \ {s}
    /\ UNCHANGED <<h, listeners, inflight, exec, task, session>>

LoseEvent(i) ==
    /\ i \in DOMAIN inflight
    /\ inflight' = RemoveAt(inflight, i)
    /\ UNCHANGED <<h, listeners, toExec, exec, task, session>>

-----------------------------------------------------------------------------
Handler(x) ==
    \/ Send(x) \/ AckTimeout(x) \/ CompleteTimeout(x)
    \/ ForceTaskPatch(x) \/ ForceSessionPatch(x) \/ SessionPatch(x)

Next ==
    \/ \E x \in Handlers : Start(x) \/ Handler(x)
    \/ \E s \in Seqs : DeliverAck(s) \/ ExecReceive(s) \/ LoseSignal(s)
    \/ DeliverComplete \/ ExecFinish
    \/ \E i \in DOMAIN inflight : LoseEvent(i)

(* Timers fire and patches settle: every step a handler takes on its own  *)
(* is weakly fair.  The executor and the connection get no fairness.      *)
Spec == Init /\ [][Next]_vars /\ \A x \in Handlers : WF_vars(Handler(x))

-----------------------------------------------------------------------------
(* A stop request always returns, whatever the executor does: the ACK     *)
(* wait is retried at most MAX_RETRIES times and the completion wait has  *)
(* its own timer, so a hung or disconnected executor cannot hold the       *)
(* route open (part_005, 64-107 and 140-160).                              *)
StopReturns == \A x \in Handlers : h[x].pc # "idle" ~> h[x].pc = "done"

(* A returned handler leaves no listener on the long-lived sessions        *)
(* service: every exit of both waits, the timers' and the handlers', calls *)
(* removeListener (74, 81, 142, 149), so repeated stops do not pile up     *)
(* listeners.                                                              *)
NoListenerLeak ==
    \A x \in Handlers : h[x].pc = "done" => \A l \in listeners : l.h # x

(* The session is only ever made idle (and so open to the next prompt)    *)
(* once its task is stopped: the safety net patches the task before the   *)
(* session and skips the session when the task patch throws (114-128), and *)
(* the confirmed path runs after the executor updated the task (189).      *)
SessionIdleOnlyWhenStopped == session = "idle" => task = "stopped"

(* A handler that returns success: true has left the session idle: the    *)
(* comment at 131 says the force-stop was successful.                      *)
SuccessMeansIdle ==
    \A x \in Handlers : h[x].result \in Success => session = "idle"
=============================================================================
