---------------------------- MODULE HelperTransport ----------------------------
(***************************************************************************)
(* The elevated helper: ElevatedHelperClient::Execute and what             *)
(* ActionExecutor makes of its result, the named pipe, the helper process  *)
(* (main, HandleElevatedRequest) and ServiceApi over the service control   *)
(* manager.                                                                *)
(*                                                                         *)
(* Every request has a client call, a pipe with a nonce of its own and a   *)
(* helper process.  The client makes one request after another; when it    *)
(* gives up or crashes, the helper of that request goes on beside the next *)
(* one.  A wait with a timeout may end at any moment.  Encoding is in      *)
(* HelperProtocol; policy decisions are left open here (ProtectionRules).  *)
(***************************************************************************)
EXTENDS Integers

CONSTANTS
  MaxRequests,            \* bound: requests of the sessions
  MaxFaults,              \* bound: crashes of client or helper
  MaxEdits,               \* bound: changes of the service by somebody else
  Anomalies               \* subset of {"write", "control"}: an operation that
                          \* reports failure has taken effect all the same

ASSUME TransportAssumption ==
  /\ MaxRequests \in Nat
  /\ MaxFaults \in Nat
  /\ MaxEdits \in Nat
  /\ Anomalies \subseteq {"write", "control"}

Requests == 1..MaxRequests
ServiceStates == {"Running", "StopPending", "Stopped", "StartPending", "Paused"}

\* A response has a status, one of Succeeded, Rejected, Failed and Uncertain,
\* and the state of the service after it, which may be Unknown.
NoResponse == [status |-> "none", after |-> "Unknown"]

VARIABLES
  client,                 \* where ElevatedHelperClient::Execute is: "idle",
                          \* "launch", "accept", "write" or "read"
  asked,                  \* requests made; the last one is the client's
  command,                \* what each request asks for, "stop" or "start"
  verdict,                \* state the executor gives the action in the end, or
                          \* "crashed"
  open,                   \* whether the client still holds its pipe end
  request,                \* whether the request lies in the pipe
  response,               \* the response on its way, in the helper or the pipe
  sent,                   \* whether it lies in the pipe
  helper,                 \* where the helper process of each request is
  expectedPid,            \* `service.pid` of HandleElevatedRequest
  changed,                \* `result.changed` of ServiceControlResult
  svc,                    \* state, host process and configuration identity
  effect,                 \* auxiliary: control calls of each request that worked
  alone,                  \* auxiliary: no earlier helper ran when it was made
  misreported,            \* auxiliary: requests with such an anomaly
  faults, edits           \* counters for the bounds

clientVars == <<client, asked, command, verdict, alone>>
pipeVars == <<open, request, response, sent>>
helperVars == <<helper, expectedPid, changed>>
serviceVars == <<svc, effect, misreported>>
vars == <<clientVars, pipeVars, helperVars, serviceVars, faults, edits>>

Init ==
  /\ client = "idle"
  /\ asked = 0
  /\ command = [n \in Requests |-> "none"]
  /\ verdict = [n \in Requests |-> "none"]
  /\ open = [n \in Requests |-> FALSE]
  /\ request = [n \in Requests |-> FALSE]
  /\ response = [n \in Requests |-> NoResponse]
  /\ sent = [n \in Requests |-> FALSE]
  /\ helper = [n \in Requests |-> "none"]
  /\ expectedPid = [n \in Requests |-> 0]
  /\ changed = [n \in Requests |-> FALSE]
  /\ svc = [state |-> "Running", pid |-> 1, token |-> "planned"]
  /\ effect = [n \in Requests |-> {}]
  /\ alone = [n \in Requests |-> FALSE]
  /\ misreported = {}
  /\ faults = 0
  /\ edits = 0

-----------------------------------------------------------------------------
(***************************************************************************)
(* The client.                                                             *)
(***************************************************************************)

\* A service is stopped when nothing is left to restore, and restored until
\* that has worked: Rollback skips records that are Failed, Rejected or
\* RolledBack; one that is Planned after a crash, Applied or Uncertain is not.
Settled ==
  asked = 0 \/ verdict[asked] \in {"Failed", "Rejected", "RolledBack"}

\* The call returns: HelperPipeServer or HelperPipeConnection is destroyed.
Return(v) ==
  /\ client' = "idle"
  /\ verdict' = [verdict EXCEPT ![asked] = v]
  /\ open' = [open EXCEPT ![asked] = FALSE]
  /\ UNCHANGED <<asked, command, alone>>

\* Mutant of Lost: Execute does not look at request_sent.
LostForgetsRequest(requestSent) ==
  IF command[asked] = "stop" THEN "Failed" ELSE "Uncertain"

\* No transport_success: a stop that was not sent is Failed, one that was sent
\* Uncertain; Rollback does not distinguish.
Lost(requestSent) ==
  IF command[asked] = "stop" /\ ~requestSent THEN "Failed" ELSE "Uncertain"

\* Mutant of Judge: A stop that the helper could not confirm counts as failed.
JudgeUncertainAsFailed(c, r) ==
  CASE c = "stop" /\ r.status = "Succeeded" /\ r.after = "Stopped" -> "Applied"
    [] c = "stop" /\ r.status = "Rejected"                         -> "Rejected"
    [] c = "stop"                                                  -> "Failed"
    [] c = "start" /\ r.status = "Succeeded" /\ r.after = "Running" -> "RolledBack"
    [] OTHER                                                        -> "Uncertain"

\* What Execute and Rollback make of an authenticated response.
Judge(c, r) ==
  CASE c = "stop" /\ r.status = "Succeeded" /\ r.after = "Stopped" -> "Applied"
    [] c = "stop" /\ r.status \in {"Rejected", "Failed"}           -> r.status
    [] c = "start" /\ r.status = "Succeeded" /\ r.after = "Running" -> "RolledBack"
    [] OTHER                                                        -> "Uncertain"

\* Pipe, nonce and request exist.
Begin ==
  /\ client = "idle"
  /\ asked < MaxRequests
  /\ asked' = asked + 1
  /\ command' = [command EXCEPT ![asked + 1] =
                   IF Settled THEN "stop" ELSE "start"]
  /\ open' = [open EXCEPT ![asked + 1] = TRUE]
  /\ alone' = [alone EXCEPT ![asked + 1] =
                 \A n \in Requests : helper[n] \in {"none", "gone"}]
  /\ client' = "launch"
  /\ UNCHANGED <<verdict, request, response, sent, helperVars, serviceVars,
                 faults, edits>>

Launch ==
  /\ client = "launch"
  /\ helper' = [helper EXCEPT ![asked] = "started"]
  /\ client' = "accept"
  /\ UNCHANGED <<asked, command, verdict, alone, pipeVars, expectedPid, changed,
                 serviceVars, faults, edits>>

\* Random numbers, pipe, encoding, executable or UAC fail; or the helper runs
\* and its handle or PID cannot be had.
LaunchFails ==
  /\ client = "launch"
  /\ helper' \in {helper, [helper EXCEPT ![asked] = "started"]}
  /\ Return(Lost(FALSE))
  /\ UNCHANGED <<request, response, sent, expectedPid, changed, serviceVars,
                 faults, edits>>

\* The peer is the helper, from the right path and elevated.
Accept ==
  /\ client = "accept"
  /\ helper[asked] = "reading"
  /\ client' = "write"
  /\ UNCHANGED <<asked, command, verdict, alone, pipeVars, helperVars, serviceVars,
                 faults, edits>>

\* Nobody connects in time, or the peer cannot be verified.
AcceptFails ==
  /\ client = "accept"
  /\ Return(Lost(FALSE))
  /\ UNCHANGED <<request, response, sent, helperVars, serviceVars, faults, edits>>

Write ==
  /\ client = "write"
  /\ helper[asked] = "reading"
  /\ request' = [request EXCEPT ![asked] = TRUE]
  /\ client' = "read"
  /\ UNCHANGED <<asked, command, verdict, alone, open, response, sent, helperVars,
                 serviceVars, faults, edits>>

\* On a timeout WaitForOverlapped cancels the write, waits for its end and
\* reports the timeout, whether or not the write had completed.
WrittenAllTheSame ==
  /\ "write" \in Anomalies
  /\ request' = [request EXCEPT ![asked] = TRUE]
  /\ misreported' = misreported \cup {asked}

\* The helper has gone, or the write times out.
WriteFails ==
  /\ client = "write"
  /\ WrittenAllTheSame \/ UNCHANGED <<request, misreported>>
  /\ Return(Lost(FALSE))
  /\ UNCHANGED <<response, sent, helperVars, svc, effect, faults, edits>>

Read ==
  /\ client = "read"
  /\ sent[asked]
  /\ sent' = [sent EXCEPT ![asked] = FALSE]
  /\ Return(Judge(command[asked], response[asked]))
  /\ UNCHANGED <<request, response, helperVars, serviceVars, faults, edits>>

\* The helper ended without a response, or the time is up.
ReadFails ==
  /\ client = "read"
  /\ Return(Lost(TRUE))
  /\ UNCHANGED <<request, response, sent, helperVars, serviceVars, faults, edits>>

ClientCrash ==
  /\ client # "idle"
  /\ faults < MaxFaults
  /\ faults' = faults + 1
  /\ Return("crashed")
  /\ UNCHANGED <<request, response, sent, helperVars, serviceVars, edits>>

-----------------------------------------------------------------------------
(***************************************************************************)
(* The helper process up to the service control call.                      *)
(***************************************************************************)

Helper(n, from, to) ==
  /\ helper[n] = from
  /\ helper' = [helper EXCEPT ![n] = to]
  /\ UNCHANGED <<clientVars, faults>>

Respond(n, from, status, after) ==
  /\ Helper(n, from, "replying")
  /\ response' = [response EXCEPT ![n] = [status |-> status, after |-> after]]
  /\ UNCHANGED <<open, request, sent, expectedPid, changed, serviceVars, edits>>

HelperConnects(n) ==
  /\ open[n]
  /\ Helper(n, "started", "reading")
  /\ UNCHANGED <<pipeVars, expectedPid, changed, serviceVars, edits>>

\* Bad arguments, no elevation, no pipe, or a parent that cannot be verified.
HelperRejectsParent(n) ==
  /\ Helper(n, "started", "gone")
  /\ UNCHANGED <<pipeVars, expectedPid, changed, serviceVars, edits>>

\* What the client has written can be read after it has closed its end.
HelperReads(n) ==
  /\ request[n]
  /\ Helper(n, "reading", "deciding")
  /\ request' = [request EXCEPT ![n] = FALSE]
  /\ UNCHANGED <<open, response, sent, expectedPid, changed, serviceVars, edits>>

\* Nothing to read: the client has closed the pipe, or the time is up.
HelperReadFails(n) ==
  /\ ~request[n]
  /\ Helper(n, "reading", "gone")
  /\ UNCHANGED <<pipeVars, expectedPid, changed, serviceVars, edits>>

\* Configuration, collection or Query fail, or the inventory is incomplete.
HelperCannotDecide(n) == Respond(n, "deciding", "Failed", "Unknown")

\* The identity token, a hash of the service's configuration, is the planned one.
Identified == svc.token = "planned"

\* The identity has changed, or the policy refuses.  CanStopTemporary demands a
\* running service.
HelperRefuses(n) ==
  /\ ~(command[n] = "start" /\ svc.state = "Running" /\ Identified)
  /\ Respond(n, "deciding", "Rejected", svc.state)

HelperFindsRunning(n) ==
  /\ command[n] = "start"
  /\ Identified
  /\ svc.state = "Running"
  /\ Respond(n, "deciding", "Succeeded", "Running")

HelperAllows(n) ==
  /\ Identified
  /\ \/ /\ command[n] = "stop"
        /\ svc.state = "Running"
        /\ Helper(n, "deciding", "stopping")
        /\ expectedPid' = [expectedPid EXCEPT ![n] = svc.pid]
     \/ /\ command[n] = "start"
        /\ svc.state # "Running"
        /\ Helper(n, "deciding", "starting")
        /\ UNCHANGED expectedPid
  /\ UNCHANGED <<pipeVars, changed, serviceVars, edits>>

-----------------------------------------------------------------------------
(***************************************************************************)
(* ServiceApi::StopTemporary and StartForRestore.                          *)
(***************************************************************************)

Goes(n, from, to) ==
  /\ Helper(n, from, to)
  /\ UNCHANGED <<pipeVars, expectedPid, changed, serviceVars, edits>>

\* Identity, host process, running, stoppable, no active dependents, and
\* status and host process once more.
StopChecked(n) ==
  /\ Identified
  /\ svc.state = "Running"
  /\ svc.pid = expectedPid[n]
  /\ Goes(n, "stopping", "controlling")

\* Opening fails, or one of the checks does.
StopNotAllowed(n) == Respond(n, "stopping", "Failed", svc.state)

\* ControlService: the state may have changed since the last check.
ControlStop(n) ==
  /\ svc.state = "Running"
  /\ Helper(n, "controlling", "stopWait")
  /\ svc' = [svc EXCEPT !.state = "StopPending"]
  /\ effect' = [effect EXCEPT ![n] = @ \cup {"stop"}]
  /\ changed' = [changed EXCEPT ![n] = TRUE]
  /\ UNCHANGED <<pipeVars, expectedPid, misreported, edits>>

ControlStopFails(n) ==
  /\ Helper(n, "controlling", "replying")
  /\ response' = [response EXCEPT ![n] = [status |-> "Failed", after |-> "Running"]]
  /\ \/ UNCHANGED <<serviceVars>>
     \/ /\ "control" \in Anomalies
        /\ svc.state = "Running"
        /\ svc' = [svc EXCEPT !.state = "StopPending"]
        /\ effect' = [effect EXCEPT ![n] = @ \cup {"stop"}]
        /\ misreported' = misreported \cup {n}
  /\ UNCHANGED <<open, request, sent, expectedPid, changed, edits>>

StopSeen(n) ==
  /\ svc.state = "Stopped"
  /\ Respond(n, "stopWait", "Succeeded", "Stopped")

\* Mutant of StopNotSeen: The helper waits for ever for a service that does not stop.
StopNotSeenWithoutTimeout(n) == FALSE

\* The time is up or the status cannot be read; `last_state` is the state read
\* last, or the one before the stop if there is none.
StopNotSeen(n) ==
  \E s \in {svc.state, "Running"} \ {"Stopped"} :
    Respond(n, "stopWait", "Uncertain", s)

\* Mutant of StartReads: A service that is about to stop counts as running.
StartReadsIgnoresStopPending(n) ==
  /\ Identified
  /\ \/ /\ svc.state \in {"Running", "StopPending"}
        /\ Respond(n, "starting", "Succeeded", "Running")
     \/ svc.state = "StartPending" /\ Goes(n, "starting", "startWait")
     \/ svc.state = "Stopped" /\ Goes(n, "starting", "startNow")

\* StartForRestore reads the state once and branches on it.
StartReads(n) ==
  /\ Identified
  /\ \/ svc.state = "Running" /\ Respond(n, "starting", "Succeeded", "Running")
     \/ svc.state = "StartPending" /\ Goes(n, "starting", "startWait")
     \/ svc.state = "StopPending" /\ Goes(n, "starting", "stopFirst")
     \/ svc.state = "Stopped" /\ Goes(n, "starting", "startNow")

StartNotAllowed(n) == Respond(n, "starting", "Failed", svc.state)

StoppedFirst(n) ==
  /\ svc.state = "Stopped"
  /\ Goes(n, "stopFirst", "startNow")

NotStoppedFirst(n) == Respond(n, "stopFirst", "Failed", svc.state)

ControlStart(n) ==
  /\ svc.state = "Stopped"
  /\ Helper(n, "startNow", "startWait")
  /\ svc' = [svc EXCEPT !.state = "StartPending", !.pid = @ + 1]
  /\ effect' = [effect EXCEPT ![n] = @ \cup {"start"}]
  /\ changed' = [changed EXCEPT ![n] = TRUE]
  /\ UNCHANGED <<pipeVars, expectedPid, misreported, edits>>

\* ERROR_SERVICE_ALREADY_RUNNING: wait without having changed anything.
AlreadyRunning(n) ==
  /\ svc.state # "Stopped"
  /\ Goes(n, "startNow", "startWait")

ControlStartFails(n) == Respond(n, "startNow", "Failed", "Stopped")

StartSeen(n) ==
  /\ svc.state = "Running"
  /\ Respond(n, "startWait", "Succeeded", "Running")

\* `outcome_uncertain = changed`; the state may be from an earlier reading.
StartNotSeen(n) ==
  \E s \in {svc.state, "Stopped", "StartPending"} \ {"Running"} :
    Respond(n, "startWait", IF changed[n] THEN "Uncertain" ELSE "Failed", s)

\* The response stays in the pipe after the helper has exited; without a
\* client it cannot be written.
Reply(n) ==
  /\ Helper(n, "replying", "gone")
  /\ sent' \in {sent} \cup (IF open[n] THEN {[sent EXCEPT ![n] = TRUE]} ELSE {})
  /\ UNCHANGED <<open, request, response, expectedPid, changed, serviceVars, edits>>

HelperDies(n) ==
  /\ helper[n] \notin {"none", "gone"}
  /\ faults < MaxFaults
  /\ faults' = faults + 1
  /\ helper' = [helper EXCEPT ![n] = "gone"]
  /\ UNCHANGED <<clientVars, pipeVars, expectedPid, changed, serviceVars, edits>>

-----------------------------------------------------------------------------
(***************************************************************************)
(* The service control manager, and other programs.                        *)
(***************************************************************************)

ServiceSettles ==
  /\ \/ svc.state = "StopPending" /\ svc' = [svc EXCEPT !.state = "Stopped"]
     \/ svc.state = "StartPending" /\ svc' = [svc EXCEPT !.state = "Running"]
  /\ UNCHANGED <<clientVars, pipeVars, helperVars, effect, misreported, faults, edits>>

\* Somebody starts, stops, pauses, continues or reconfigures the service, or
\* its process ends.
ServiceEdited ==
  /\ edits < MaxEdits
  /\ edits' = edits + 1
  /\ \/ svc.state # "Stopped" /\ svc' = [svc EXCEPT !.state = "Stopped"]
     \/ svc.state = "Stopped" /\ svc' = [svc EXCEPT !.state = "Running", !.pid = @ + 1]
     \/ svc.state = "Running" /\ svc' = [svc EXCEPT !.state = "Paused"]
     \/ svc.state = "Paused" /\ svc' = [svc EXCEPT !.state = "Running"]
     \/ svc' = [svc EXCEPT !.token = "other"]
  /\ UNCHANGED <<clientVars, pipeVars, helperVars, effect, misreported, faults>>

ClientStep ==
  \/ Launch \/ LaunchFails \/ Accept \/ AcceptFails
  \/ Write \/ WriteFails \/ Read \/ ReadFails

Decide(n) ==
  \/ HelperConnects(n) \/ HelperRejectsParent(n)
  \/ HelperReads(n) \/ HelperReadFails(n)
  \/ HelperCannotDecide(n) \/ HelperRefuses(n) \/ HelperFindsRunning(n)
  \/ HelperAllows(n)

Control(n) ==
  \/ StopChecked(n) \/ StopNotAllowed(n)
  \/ ControlStop(n) \/ ControlStopFails(n) \/ StopSeen(n) \/ StopNotSeen(n)
  \/ StartReads(n) \/ StartNotAllowed(n) \/ StoppedFirst(n) \/ NotStoppedFirst(n)
  \/ ControlStart(n) \/ AlreadyRunning(n) \/ ControlStartFails(n)
  \/ StartSeen(n) \/ StartNotSeen(n)
  \/ Reply(n)

Next ==
  \/ Begin
  \/ ClientStep
  \/ ClientCrash
  \/ \E n \in Requests : Decide(n) \/ Control(n) \/ HelperDies(n)
  \/ ServiceSettles
  \/ ServiceEdited

Spec == Init /\ [][Next]_vars

\* Both processes run; every wait has a timeout.  Of the service nothing is
\* assumed, and of the user nothing either.
FairSpec ==
  /\ Spec
  /\ WF_vars(ClientStep)
  /\ \A n \in Requests : WF_vars(Decide(n) \/ Control(n))

-----------------------------------------------------------------------------
(***************************************************************************)
(* Properties.                                                             *)
(***************************************************************************)

\* A stop recorded as Failed or Rejected has not stopped the service and its
\* helper never will: Rollback skips these records (optimization.cpp:387), so
\* nothing would start the service again.  The exception are requests whose own
\* write or ControlService failed after it had taken effect.
RefusalIsFinal ==
  \A n \in Requests :
    verdict[n] \in {"Failed", "Rejected"} /\ n \notin misreported
      => "stop" \notin effect[n]

\* The answers of the client relate to the service as HelperPromise says.
Promise == INSTANCE HelperPromise
  WITH answer <- verdict,
       acted <- [n \in Requests |-> effect[n] # {} /\ n \notin misreported]
PromiseSpec == Promise!Spec

\* When a restore was recorded as RolledBack, no helper of an earlier request
\* was left when it was made, and nobody else has touched the service, then it
\* runs: StartForRestore must not take a service for running that is about to
\* stop, or report a start that it has not seen.
GivenBackRuns ==
  /\ asked > 0
  /\ verdict[asked] = "RolledBack"
  /\ alone[asked]
  /\ edits = 0
  => svc.state = "Running"

\* Every call of ElevatedHelperClient::Execute returns, and every helper that
\* was started ends, also when its client is gone: neither waits for ever for
\* the other, or for a service that does not get where it was sent.
BothEnd ==
  /\ client # "idle" ~> client = "idle"
  /\ \A n \in Requests : helper[n] # "none" ~> helper[n] = "gone"

=============================================================================
