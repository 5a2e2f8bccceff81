----------------------------- MODULE RunStream -----------------------------
(***************************************************************************)
(* server/app.py and web/src/lib/useRun.ts: the life of one run as its     *)
(* viewers see it.  The review task publishes through Watchers; each       *)
(* viewer has one generator (_stream) on the server and one EventSource in *)
(* the browser.  A state of the generator is an await or a yield, the only *)
(* places where the task and the other generators can run.                 *)
(***************************************************************************)
EXTENDS Watchers

VARIABLES outcome,  \* "running", then how the review task ended
          report,   \* Run.report has been assigned
          failed,   \* Run.failed: "" or the text of the error
          stream,   \* per viewer, where its generator is suspended
          client    \* per viewer, what its EventSource has come to

runVars == <<outcome, report, failed>>
allVars == <<vars, runVars, stream, client>>

Texts == {"", "why"}       \* str(error) may be empty: str(TimeoutError()) is
Done == outcome # "running"
Live == {"ready", "waiting", "sending", "idle"}

\* The last step of a run that completed or failed carries one of ENDS_A_RUN.
IsTerminal(step) == outcome \in {"completed", "failed"} /\ step = said

StreamTypeOK ==
    /\ TypeOK
    /\ outcome \in {"running", "completed", "failed", "cancelled"}
    /\ report \in BOOLEAN
    /\ failed \in Texts
    /\ stream \in [Viewers -> {"off", "closed"} \cup Live]
    /\ client \in [Viewers -> {"none", "open", "settled", "cutoff", "dropped", "left"}]

StreamInit ==
    /\ Init
    /\ outcome = "running" /\ report = FALSE /\ failed = ""
    /\ stream = [v \in Viewers |-> "off"]
    /\ client = [v \in Viewers |-> "none"]

-----------------------------------------------------------------------------
(* The review task *)

\* Any step before the last; one number is kept for the terminal step.
SayStep ==
    /\ ~Done
    /\ said + 1 < MaxSteps
    /\ Publish
    /\ UNCHANGED <<runVars, stream, client>>

\* Slip: completion is said while the report is still to be assigned.
CompleteFirst ==
    /\ ~Done
    /\ outcome' = "completed"
    /\ Publish
    /\ UNCHANGED <<report, failed, stream, client>>

\* The report is assigned, then said, with no await between the two.
Complete ==
    /\ ~Done
    /\ report' = TRUE
    /\ outcome' = "completed"
    /\ Publish
    /\ UNCHANGED <<failed, stream, client>>

\* The except clause; it covers the lines after the report is assigned too.
Fail ==
    /\ ~Done
    /\ report' \in BOOLEAN
    /\ failed' \in Texts
    /\ outcome' = "failed"
    /\ Publish
    /\ UNCHANGED <<stream, client>>

\* CancelledError is no Exception: the task ends without a terminal step.
Cancel ==
    /\ ~Done
    /\ outcome' = "cancelled"
    /\ UNCHANGED <<vars, report, failed, stream, client>>

-----------------------------------------------------------------------------
(* One viewer's generator *)

To(v, place) == stream' = [stream EXCEPT ![v] = place]

\* Slip: the generator ends without its finally clause.
CloseOnly(v) == To(v, "closed") /\ UNCHANGED vars

\* Leaving the generator by any path runs its finally clause.
Close(v) == To(v, "closed") /\ Unsubscribe(v)

Becomes(v, what) ==
    client' = [client EXCEPT ![v] = IF @ = "open" THEN what ELSE @]

Open(v) ==
    /\ stream[v] = "off"
    /\ Subscribe(v)
    /\ To(v, "ready")
    /\ client' = [client EXCEPT ![v] = "open"]
    /\ UNCHANGED runVars

\* queue.get() finds the queue empty and waits for a step or for 15 seconds.
Block(v) ==
    /\ stream[v] = "ready"
    /\ queue[v] = <<>>
    /\ To(v, "waiting")
    /\ UNCHANGED <<vars, runVars, client>>

Deliver(v) ==
    /\ stream[v] \in {"ready", "waiting"}
    /\ Take(v)
    /\ To(v, "sending")
    /\ UNCHANGED <<runVars, client>>

\* The yield returns; a terminal step ends the generator and the EventSource.
Sent(v) ==
    /\ stream[v] = "sending"
    /\ IF IsTerminal(heard[v])
       THEN Close(v) /\ Becomes(v, "settled")
       ELSE To(v, "ready") /\ UNCHANGED <<vars, client>>
    /\ UNCHANGED runVars

\* wait_for gives up -- a step may have arrived before the generator runs
\* again -- and the keepalive comment is yielded.
Timeout(v) ==
    /\ stream[v] = "waiting"
    /\ To(v, "idle")
    /\ UNCHANGED <<vars, runVars, client>>

\* Slip: after a keepalive the generator always goes round again.
ResumeAlways(v) ==
    /\ stream[v] = "idle"
    /\ To(v, "ready")
    /\ UNCHANGED <<vars, runVars, client>>

\* The keepalive has been sent: stop if the task is done, else go round.  A
\* response that ends without a terminal step is an error to the EventSource.
Resume(v) ==
    /\ stream[v] = "idle"
    /\ IF Done
       THEN Close(v) /\ Becomes(v, "cutoff")
       ELSE To(v, "ready") /\ UNCHANGED <<vars, client>>
    /\ UNCHANGED runVars

\* The connection is lost, or the page closes its EventSource.  onerror closes
\* it as well, so nothing opens it again.
Hangup(v) ==
    /\ client[v] = "open"
    /\ \E how \in {"dropped", "left"} : client' = [client EXCEPT ![v] = how]
    /\ UNCHANGED <<vars, runVars, stream>>

\* The server notices that nobody is reading and closes the generator.
Disconnect(v) ==
    /\ stream[v] \in Live
    /\ client[v] # "open"
    /\ Close(v)
    /\ UNCHANGED <<runVars, client>>

-----------------------------------------------------------------------------
StreamNext ==
    \/ SayStep \/ Complete \/ Fail \/ Cancel
    \/ \E v \in Viewers :
          \/ Open(v) \/ Block(v) \/ Deliver(v) \/ Sent(v)
          \/ Timeout(v) \/ Resume(v) \/ Hangup(v) \/ Disconnect(v)

\* The loop runs every ready coroutine, timers fire, sends to a reader return,
\* and the review ends: every stage of it is bounded.  Nothing obliges anyone
\* to open a stream, hang up, or cancel.
Fairness ==
    /\ WF_allVars(Complete \/ Fail)
    /\ \A v \in Viewers :
          /\ WF_allVars(Block(v)) /\ WF_allVars(Deliver(v)) /\ WF_allVars(Sent(v))
          /\ WF_allVars(Timeout(v)) /\ WF_allVars(Resume(v))
          /\ WF_allVars(Disconnect(v))

StreamSpec == StreamInit /\ [][StreamNext]_allVars /\ Fairness

-----------------------------------------------------------------------------
(* What the two endpoints answer *)

ReportStatus == IF failed # "" THEN 500 ELSE IF report THEN 200 ELSE 409
DocumentStatus == IF report THEN 200 ELSE 404

\* Safety.  A run holds a queue for exactly the generators that are still
\* running, whichever way they were left: ended, given up, or abandoned by
\* their reader.  (_stream's finally clause.)
NoLeakedQueue == \A v \in Viewers : v \in attached <=> stream[v] \in Live

\* Safety.  A viewer told that the review completed can fetch it, report and
\* document, whatever else happened to the run's state before.
CompletedIsServed ==
    \A v \in Viewers :
       client[v] = "settled" /\ outcome = "completed" =>
          ReportStatus = 200 /\ DocumentStatus = 200

\* Liveness.  A viewer that opens the stream of a finished run is told how the
\* run ended, through the replay alone, unless its own side hangs up.
LateViewerSettles ==
    \A v \in Viewers :
       (outcome \in {"completed", "failed"} /\ stream[v] = "ready" /\ heard[v] = 0)
          ~> client[v] \in {"settled", "dropped", "left"}

\* Liveness.  No generator outlives its run or its reader, even when the run
\* is cancelled and nothing terminal is ever said.
EveryStreamCloses ==
    \A v \in Viewers : stream[v] \in Live ~> stream[v] = "closed"

\* Safety, as _stream's docstring has it: a viewer watches a run "until it
\* ends or they leave".  The server must not end the response of a reader that
\* is still there before the step that says how the run ended.
WatchedToTheEnd ==
    \A v \in Viewers : client[v] = "cutoff" => outcome = "cancelled"

\* Safety.  A failed run says what broke: its report is not "still running".
FailureIsAnswered == outcome = "failed" => ReportStatus = 500

\* Liveness, as the events endpoint's docstring has it: a connection lost to a
\* closed laptop lid comes back by itself.
Reconnects == \A v \in Viewers : client[v] = "dropped" ~> client[v] # "dropped"
=============================================================================
