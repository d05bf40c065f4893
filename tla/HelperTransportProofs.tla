------------------------- MODULE HelperTransportProofs -------------------------
(***************************************************************************)
(* The safety of the helper protocol, proved for any number of requests,   *)
(* faults and edits, and with or without the anomalies.                    *)
(*                                                                         *)
(* What a request may still do depends on where it is: before the helper   *)
(* has read it nothing has happened to the service (NotYet), while the     *)
(* helper works on it the client has an answer that leaves this open       *)
(* (Pending), and afterwards the response tells the truth (Truthful).      *)
(***************************************************************************)
EXTENDS HelperTransport, TLAPS

Clients == {"idle", "launch", "accept", "write", "read"}
Commands == {"none", "stop", "start"}
Verdicts == {"none", "Failed", "Rejected", "Uncertain", "Applied", "RolledBack",
             "crashed"}
Statuses == {"none", "Succeeded", "Rejected", "Failed", "Uncertain"}
StopPhases == {"stopping", "controlling", "stopWait"}
StartPhases == {"starting", "stopFirst", "startNow", "startWait"}
Waiting == {"none", "started", "reading"}
Working == {"deciding", "replying"} \cup StopPhases \cup StartPhases
Services == [state : ServiceStates, pid : Nat, token : {"planned", "other"}]
Responses == [status : Statuses, after : ServiceStates \cup {"Unknown"}]

TypeOK ==
  /\ client \in Clients /\ asked \in 0 .. MaxRequests
  /\ command \in [Requests -> Commands]
  /\ verdict \in [Requests -> Verdicts]
  /\ open \in [Requests -> BOOLEAN]
  /\ request \in [Requests -> BOOLEAN]
  /\ response \in [Requests -> Responses]
  /\ sent \in [Requests -> BOOLEAN]
  /\ helper \in [Requests -> Waiting \cup Working \cup {"gone"}]
  /\ expectedPid \in [Requests -> Nat]
  /\ changed \in [Requests -> BOOLEAN]
  /\ svc \in Services
  /\ effect \in [Requests -> SUBSET {"stop", "start"}]
  /\ alone \in [Requests -> BOOLEAN]
  /\ misreported \subseteq Requests
  /\ faults \in Nat /\ edits \in Nat

\* Where the client is, and what cannot have happened to its request by then.
ClientInv ==
  /\ client # "idle" => asked > 0 /\ verdict[asked] = "none"
  /\ client = "launch" => helper[asked] = "none"
  /\ client \in {"launch", "accept", "write"} =>
       /\ helper[asked] \in Waiting \cup {"gone"}
       /\ ~request[asked] /\ ~sent[asked]
       /\ effect[asked] = {} /\ asked \notin misreported

\* A request that was not made yet.
Fresh(n) ==
  /\ verdict[n] = "none" /\ helper[n] = "none"
  /\ ~request[n] /\ ~sent[n]
  /\ effect[n] = {} /\ n \notin misreported

\* Effects come with the step of the helper that has them.
NotYet(n) ==
  /\ helper[n] \in Waiting => effect[n] = {}
  /\ helper[n] \in Waiting \cup Working => ~sent[n]
  /\ helper[n] \in Working => ~request[n] /\ n <= asked
  /\ sent[n] => ~request[n]
  /\ helper[n] \in StopPhases => command[n] = "stop"
  /\ helper[n] \in StartPhases => command[n] = "start"
  /\ helper[n] \in {"deciding", "stopping", "controlling", "starting", "stopFirst",
                    "startNow"} => effect[n] = {}
  /\ helper[n] = "stopWait" => effect[n] # {}

\* What the helper has read or can still read.
Received(n) == request[n] \/ helper[n] \in Working
Open(n) == verdict[n] \in {"none", "Uncertain", "crashed"}

Pending(n) ==
  Received(n) /\ n \notin misreported =>
    /\ Open(n)
    /\ verdict[n] = "none" => n = asked /\ client = "read"

\* Mutual consistency of the response with what was done.
Truthful(n) ==
  /\ (helper[n] = "replying" \/ sent[n]) /\ command[n] = "stop" =>
       /\ response[n].status \in {"Failed", "Rejected"} /\ n \notin misreported
            => effect[n] = {}
       /\ response[n].status = "Succeeded" /\ response[n].after = "Stopped"
            => effect[n] # {}
  /\ n = asked /\ client = "read" /\ n \in misreported =>
       /\ helper[n] \in {"replying", "gone"}
       /\ response[n].status = "Failed"

\* A refusal is one.
Refused(n) ==
  verdict[n] \in {"Failed", "Rejected"} /\ n \notin misreported =>
    effect[n] = {} /\ ~Received(n)

RequestInv(n) ==
  /\ n > asked => Fresh(n)
  /\ NotYet(n) /\ Pending(n) /\ Truthful(n) /\ Refused(n)

IInv ==
  /\ TypeOK
  /\ ClientInv
  /\ \A n \in Requests : RequestInv(n)

\* A restore that was alone when it was made is the only one that acts, so that
\* the service stays running from the moment its helper has seen it so.
SeenRunning ==
  \/ verdict[asked] = "RolledBack"
  \/ /\ helper[asked] = "replying" \/ sent[asked]
     /\ response[asked].status = "Succeeded" /\ response[asked].after = "Running"

RunsInv ==
  asked > 0 /\ alone[asked] =>
    /\ \A n \in 1 .. asked - 1 : helper[n] \in {"none", "gone"}
    /\ verdict[asked] = "RolledBack" => helper[asked] = "gone"
    /\ edits = 0 /\ SeenRunning => svc.state = "Running"
-----------------------------------------------------------------------------
\* The groups of variables, which every step below needs.
USE TransportAssumption DEF Requests, ServiceStates, clientVars, pipeVars,
  helperVars, serviceVars

LEMMA TypeInit == Init => TypeOK
BY DEF Init, TypeOK, Clients, Commands, Verdicts, Statuses, Responses, Services,
  Waiting, NoResponse

\* What happens to the service.
LEMMA ServiceType ==
  ASSUME NEW state \in ServiceStates, TypeOK
  PROVE  /\ [svc EXCEPT !.state = state] \in Services
         /\ [svc EXCEPT !.state = state, !.pid = @ + 1] \in Services
         /\ [svc EXCEPT !.token = "other"] \in Services
<1>1. svc \in Services /\ svc.pid + 1 \in Nat
  BY DEF TypeOK, Services
<1>2. \A pid \in Nat : [svc EXCEPT !.state = state, !.pid = pid] \in Services
  BY <1>1 DEF Services
<1>3. QED
  BY <1>1, <1>2 DEF Services

\* The helper of n moves on, and perhaps has a response.
LEMMA HelperType ==
  ASSUME TypeOK, NEW n \in Requests, NEW from,
         NEW to \in Waiting \cup Working \cup {"gone"}, Helper(n, from, to)
  PROVE  helper' \in [Requests -> Waiting \cup Working \cup {"gone"}]
BY DEF TypeOK, Helper

LEMMA RespondType ==
  ASSUME TypeOK, NEW n \in Requests, NEW from, NEW status \in Statuses,
         NEW after \in ServiceStates \cup {"Unknown"},
         Respond(n, from, status, after)
  PROVE  TypeOK'
<1>1. [status |-> status, after |-> after] \in Responses
  BY DEF Responses
<1>2. response' \in [Requests -> Responses]
  BY <1>1 DEF TypeOK, Respond
<1>3. helper' \in [Requests -> Waiting \cup Working \cup {"gone"}]
  BY HelperType DEF Respond, Working
<1>4. QED
  BY <1>2, <1>3 DEF TypeOK, Respond, Helper

LEMMA TypeStep ==
  ASSUME TypeOK, ClientInv, [Next]_vars
  PROVE  TypeOK'
<1>1. svc.state \in ServiceStates /\ svc.pid \in Nat /\ svc.token \in {"planned", "other"}
  BY DEF TypeOK, Services
<1>2. CASE Begin
  BY <1>2 DEF TypeOK, Begin, Clients, Commands
<1>3. CASE ClientStep \/ ClientCrash
  <2>1. client # "idle" /\ asked \in Requests
    <3>1. client # "idle"
      BY <1>3 DEF ClientStep, ClientCrash, Launch, LaunchFails, Accept, AcceptFails,
        Write, WriteFails, Read, ReadFails
    <3>2. asked > 0 /\ asked \in 0 .. MaxRequests
      BY <3>1 DEF TypeOK, ClientInv
    <3>3. QED
      BY <3>1, <3>2
  <2>2. ASSUME NEW v \in Verdicts, Return(v)
        PROVE  /\ client' \in Clients /\ verdict' \in [Requests -> Verdicts]
               /\ open' \in [Requests -> BOOLEAN]
               /\ UNCHANGED <<asked, command, alone>>
    BY <2>1, <2>2 DEF TypeOK, Return, Clients
  <2>3. /\ \A sentIt \in BOOLEAN : Lost(sentIt) \in Verdicts
        /\ Judge(command[asked], response[asked]) \in Verdicts
    BY DEF Lost, Judge, Verdicts
  <2>4. CASE Launch \/ Accept \/ Write
    BY <2>1, <2>4 DEF TypeOK, Launch, Accept, Write, Clients, Waiting
  <2>5. CASE LaunchFails
    BY <2>1, <2>2, <2>3, <2>5 DEF TypeOK, LaunchFails, Waiting
  <2>6. CASE WriteFails
    BY <2>1, <2>2, <2>3, <2>6 DEF TypeOK, WriteFails, WrittenAllTheSame
  <2>7. CASE AcceptFails \/ Read \/ ReadFails
    BY <2>1, <2>2, <2>3, <2>7 DEF TypeOK, AcceptFails, Read, ReadFails
  <2>8. CASE ClientCrash
    <3>1. "crashed" \in Verdicts
      BY DEF Verdicts
    <3>2. QED
      BY <2>1, <2>2, <2>8, <3>1 DEF TypeOK, ClientCrash
  <2>9. QED
    BY <1>3, <2>4, <2>5, <2>6, <2>7, <2>8 DEF ClientStep
<1>4. ASSUME NEW n \in Requests, Decide(n) \/ Control(n) \/ HelperDies(n)
      PROVE  TypeOK'
  <2> USE DEF Waiting, Working, StopPhases, StartPhases
  <2>1. CASE HelperConnects(n) \/ HelperRejectsParent(n) \/ HelperReadFails(n)
    BY <2>1, HelperType DEF TypeOK, HelperConnects, HelperRejectsParent,
      HelperReadFails, Helper
  <2>2. CASE HelperReads(n)
    BY <2>2, HelperType DEF TypeOK, HelperReads, Helper
  <2>3. CASE HelperCannotDecide(n) \/ HelperRefuses(n) \/ HelperFindsRunning(n)
    BY <1>1, <2>3, RespondType DEF HelperCannotDecide, HelperRefuses,
      HelperFindsRunning, Statuses
  <2>4. CASE HelperAllows(n)
    BY <1>1, <2>4, HelperType DEF TypeOK, HelperAllows, Helper
  <2>5. ASSUME NEW from, NEW to \in Working, Goes(n, from, to)
        PROVE  TypeOK'
    BY <2>5, HelperType DEF TypeOK, Goes, Helper
  <2>6. CASE \/ StopChecked(n) \/ StoppedFirst(n) \/ AlreadyRunning(n)
    BY <2>5, <2>6 DEF StopChecked, StoppedFirst, AlreadyRunning
  <2>7. CASE \/ StopNotAllowed(n) \/ StopSeen(n) \/ StopNotSeen(n)
             \/ StartNotAllowed(n) \/ NotStoppedFirst(n) \/ ControlStartFails(n)
             \/ StartSeen(n) \/ StartNotSeen(n)
    BY <1>1, <2>7, RespondType DEF StopNotAllowed, StopSeen, StopNotSeen,
      StartNotAllowed, NotStoppedFirst, ControlStartFails, StartSeen, StartNotSeen,
      Statuses
  <2>8. CASE StartReads(n)
    BY <1>1, <2>5, <2>8, RespondType DEF StartReads, Statuses
  <2>9. CASE ControlStop(n)
    <3>1. svc' \in Services
      BY <2>9, ServiceType DEF ControlStop
    <3>2. QED
      BY <2>9, <3>1, HelperType DEF TypeOK, ControlStop, Helper
  <2>10. CASE ControlStart(n)
    <3>1. svc' \in Services
      BY <2>10, ServiceType DEF ControlStart
    <3>2. QED
      BY <2>10, <3>1, HelperType DEF TypeOK, ControlStart, Helper
  <2>11. CASE ControlStopFails(n)
    <3>1. svc' \in Services
      BY <2>11, ServiceType DEF TypeOK, ControlStopFails
    <3>2. [status |-> "Failed", after |-> "Running"] \in Responses
      BY DEF Responses, Statuses
    <3>3. response' \in [Requests -> Responses]
      BY <2>11, <3>2 DEF TypeOK, ControlStopFails
    <3>4. effect' \in [Requests -> SUBSET {"stop", "start"}]
      BY <2>11 DEF TypeOK, ControlStopFails
    <3>5. helper' \in [Requests -> Waiting \cup Working \cup {"gone"}]
      BY <2>11, HelperType DEF ControlStopFails
    <3>6. misreported' \subseteq Requests
      BY <2>11 DEF TypeOK, ControlStopFails
    <3>7. QED
      BY <2>11, <3>1, <3>3, <3>4, <3>5, <3>6 DEF TypeOK, ControlStopFails, Helper
  <2>12. CASE Reply(n)
    <3>1. sent' \in [Requests -> BOOLEAN]
      BY <2>12 DEF TypeOK, Reply
    <3>2. QED
      BY <2>12, <3>1, HelperType DEF TypeOK, Reply, Helper
  <2>13. CASE HelperDies(n)
    BY <2>13 DEF TypeOK, HelperDies
  <2>14. QED
    BY <1>4, <2>1, <2>2, <2>3, <2>4, <2>6, <2>7, <2>8, <2>9, <2>10, <2>11, <2>12,
      <2>13 DEF Decide, Control
<1>5. CASE ServiceSettles
  BY <1>5, ServiceType DEF TypeOK, ServiceSettles
<1>6. CASE ServiceEdited
  <2>1. svc' \in Services
    BY <1>6, ServiceType DEF ServiceEdited
  <2>2. QED
    BY <1>6, <2>1 DEF TypeOK, ServiceEdited
<1>7. CASE UNCHANGED vars
  BY <1>7 DEF TypeOK, vars
<1>8. QED
  BY <1>2, <1>3, <1>4, <1>5, <1>6, <1>7 DEF Next
-----------------------------------------------------------------------------
\* A step that another request makes.
Same(m) ==
  /\ verdict'[m] = verdict[m] /\ command'[m] = command[m]
  /\ helper'[m] = helper[m] /\ request'[m] = request[m] /\ sent'[m] = sent[m]
  /\ response'[m] = response[m] /\ effect'[m] = effect[m]
  /\ (m \in misreported' <=> m \in misreported)

LEMMA SameRequest ==
  ASSUME NEW m \in Requests, RequestInv(m), Same(m),
         asked' = asked, client' = client \/ m # asked
  PROVE  RequestInv(m)'
BY DEF RequestInv, Same, Fresh, NotYet, Pending, Received, Open, Truthful, Refused

LEMMA BeginRequests ==
  ASSUME IInv, Begin
  PROVE  ClientInv' /\ \A m \in Requests : RequestInv(m)'
<1>1. PICK new \in Requests : new = asked + 1 /\ asked' = new
  BY DEF IInv, TypeOK, Begin
<1>2. /\ asked \in Nat /\ client = "idle" /\ client' = "launch"
      /\ \A m \in Requests : m # new => command'[m] = command[m]
      /\ UNCHANGED <<verdict, request, response, sent, helper, effect, misreported>>
  BY <1>1 DEF IInv, TypeOK, Begin, Commands
<1>3. Fresh(new)
  BY <1>1, <1>2 DEF IInv, RequestInv
<1>4. ClientInv'
  BY <1>1, <1>2, <1>3 DEF ClientInv, Fresh, Waiting
<1>5. ASSUME NEW m \in Requests, m # new
      PROVE  RequestInv(m)'
  <2>1. /\ RequestInv(m) /\ command'[m] = command[m]
        /\ m > asked' => m > asked
        /\ m <= asked => m <= asked'
        /\ m # asked'
    BY <1>1, <1>2, <1>5 DEF IInv
  <2>2. (m > asked => Fresh(m))' /\ NotYet(m)' /\ Refused(m)'
    BY <1>2, <2>1 DEF RequestInv, Fresh, NotYet, Refused, Received
  <2>3. Pending(m)' /\ Truthful(m)'
    BY <1>2, <2>1 DEF RequestInv, Pending, Received, Open, Truthful
  <2>4. QED
    BY <2>2, <2>3 DEF RequestInv
<1>6. RequestInv(new)'
  <2>1. Fresh(new)'
    BY <1>2, <1>3 DEF Fresh
  <2>2. QED
    BY <1>1, <1>2, <2>1 DEF RequestInv, Fresh, NotYet, Pending, Received, Open,
      Truthful, Refused, Waiting, Working, StopPhases, StartPhases
<1>7. QED
  BY <1>4, <1>5, <1>6

\* The call returns.
LEMMA Returned ==
  ASSUME IInv, client # "idle", NEW v, Return(v)
  PROVE  /\ asked \in Requests /\ asked' = asked /\ client' = "idle"
         /\ verdict[asked] = "none" /\ verdict'[asked] = v
         /\ command' = command
         /\ \A m \in Requests : m # asked => verdict'[m] = verdict[m]
         /\ ClientInv'
<1>1. asked \in Requests
  BY DEF IInv, TypeOK, ClientInv
<1>2. verdict \in [Requests -> Verdicts] /\ verdict[asked] = "none"
  BY DEF IInv, TypeOK, ClientInv
<1>3. QED
  BY <1>1, <1>2 DEF Return, ClientInv

\* Launching, accepting and writing: nothing has been done for the request.
LEMMA UnsentRequests ==
  ASSUME IInv, Launch \/ LaunchFails \/ Accept \/ AcceptFails \/ Write \/ WriteFails
  PROVE  ClientInv' /\ \A m \in Requests : RequestInv(m)'
<1>1. client \in {"launch", "accept", "write"}
  BY DEF Launch, LaunchFails, Accept, AcceptFails, Write, WriteFails
<1>2. PICK new \in Requests : new = asked
  BY <1>1 DEF IInv, TypeOK, ClientInv
<1>3. /\ verdict[new] = "none" /\ helper[new] \in Waiting \cup {"gone"}
      /\ ~request[new] /\ ~sent[new] /\ effect[new] = {} /\ new \notin misreported
      /\ client = "launch" => helper[new] = "none"
  BY <1>1, <1>2 DEF IInv, ClientInv
<1>4. /\ helper \in [Requests -> Waiting \cup Working \cup {"gone"}]
      /\ request \in [Requests -> BOOLEAN] /\ verdict \in [Requests -> Verdicts]
  BY DEF IInv, TypeOK
<1>5. /\ UNCHANGED <<asked, command, response, sent, effect>>
      /\ \A m \in Requests : m # new =>
           /\ helper'[m] = helper[m] /\ request'[m] = request[m]
           /\ verdict'[m] = verdict[m]
           /\ m \in misreported' <=> m \in misreported
  BY <1>2, <1>4 DEF Launch, LaunchFails, Accept, AcceptFails, Write, WriteFails, Return,
    WrittenAllTheSame
<1>6. ASSUME NEW m \in Requests, m # new
      PROVE  RequestInv(m)'
  BY <1>2, <1>5, <1>6, SameRequest DEF IInv, Same
<1>7. /\ helper'[new] \in Waiting \cup {"gone"}
      /\ request'[new] => new \in misreported' \/ client' = "read"
      /\ new \in misreported' => client' = "idle"
      /\ \/ verdict'[new] = "none" /\ new \notin misreported'
         \/ verdict'[new] # "none" /\ client' = "idle"
      /\ client' = "accept" \/ client' = "write" => ~request'[new]
      /\ client' # "launch"
  <2>1. CASE Launch
    BY <1>1, <1>2, <1>3, <1>4, <1>5, <2>1 DEF Launch, Waiting
  <2>2. CASE LaunchFails \/ AcceptFails
    BY <1>1, <1>2, <1>3, <1>4, <1>5, <2>2 DEF LaunchFails, AcceptFails, Return, Lost,
      Waiting
  <2>3. CASE Accept \/ Write
    BY <1>1, <1>2, <1>3, <1>4, <1>5, <2>3 DEF Accept, Write
  <2>4. CASE WriteFails
    BY <1>1, <1>2, <1>3, <1>4, <1>5, <2>4 DEF WriteFails, Return, Lost,
      WrittenAllTheSame
  <2>5. QED
    BY <2>1, <2>2, <2>3, <2>4
<1>8. ClientInv'
  BY <1>2, <1>3, <1>5, <1>7 DEF ClientInv
<1>9. RequestInv(new)'
  BY <1>2, <1>3, <1>5, <1>7 DEF RequestInv, NotYet, Pending, Received, Open, Truthful,
    Refused, Waiting, Working, StopPhases, StartPhases
<1>10. QED
  BY <1>6, <1>8, <1>9
\* The end of a call whose request was sent, and the end of the client.
LEMMA AnsweredRequests ==
  ASSUME IInv, Read \/ ReadFails \/ ClientCrash
  PROVE  ClientInv' /\ \A m \in Requests : RequestInv(m)'
<1>1. client # "idle"
  BY DEF Read, ReadFails, ClientCrash
<1>2. PICK n \in Requests : n = asked
  BY <1>1 DEF IInv, TypeOK, ClientInv
<1>3. verdict[n] = "none" /\ RequestInv(n) /\ asked \in Nat /\ ~(n > asked)
  BY <1>1, <1>2 DEF IInv, TypeOK, ClientInv
<1>4. verdict \in [Requests -> Verdicts] /\ sent \in [Requests -> BOOLEAN]
  BY DEF IInv, TypeOK
<1>5. /\ UNCHANGED <<asked, command, request, response, helper, effect, misreported>>
      /\ client' = "idle"
      /\ \A m \in Requests : m # n =>
           verdict'[m] = verdict[m] /\ sent'[m] = sent[m]
  BY <1>2, <1>4 DEF Read, ReadFails, ClientCrash, Return
<1>6. ASSUME NEW m \in Requests, m # n
      PROVE  RequestInv(m)'
  BY <1>2, <1>5, <1>6, SameRequest DEF IInv, Same
<1>7. ClientInv'
  BY <1>5 DEF ClientInv
<1>8. RequestInv(n)'
  <2>1. CASE ReadFails \/ ClientCrash
    <3>1. verdict'[n] \in {"Failed", "Uncertain", "crashed"} /\ sent' = sent
          /\ verdict'[n] # "Failed"
      BY <1>2, <1>4, <2>1 DEF ReadFails, ClientCrash, Return, Lost
    <3>2. QED
      BY <1>3, <1>5, <3>1 DEF RequestInv, NotYet, Pending, Received, Open, Truthful,
        Refused
  <2>2. CASE Read
    <3>1. /\ sent[n] /\ ~sent'[n] /\ verdict'[n] = Judge(command[n], response[n])
      BY <1>2, <1>4, <2>2 DEF Read, Return
    <3>2. ~Received(n) /\ helper[n] \notin Waiting
      BY <1>3, <3>1 DEF RequestInv, NotYet, Received
    <3>3. verdict'[n] \in {"Failed", "Rejected"} =>
            command[n] = "stop" /\ response[n].status \in {"Failed", "Rejected"}
      BY <3>1 DEF Judge
    <3>4. Refused(n)'
      BY <1>3, <1>5, <3>1, <3>2, <3>3 DEF RequestInv, Truthful, Refused, Received
    <3>5. QED
      BY <1>3, <1>5, <3>1, <3>2, <3>4 DEF RequestInv, NotYet, Pending, Received,
        Truthful, Working, StopPhases, StartPhases
  <2>3. QED
    BY <2>1, <2>2
<1>9. QED
  BY <1>6, <1>7, <1>8

-----------------------------------------------------------------------------
\* A step of a helper leaves the client and the other requests alone.
HelperOf(n) ==
  /\ UNCHANGED <<clientVars, open>>
  /\ \A m \in Requests \ {n} : Same(m)
  /\ client \in {"launch", "accept", "write"} /\ n = asked =>
       /\ helper'[n] \in Waiting \cup {"gone"}
       /\ ~request'[n] /\ ~sent'[n]
       /\ effect'[n] = {} /\ n \notin misreported'
  /\ client = "launch" => n # asked

LEMMA OnlyHelper ==
  ASSUME IInv, NEW n \in Requests, HelperOf(n), RequestInv(n)'
  PROVE  ClientInv' /\ \A m \in Requests : RequestInv(m)'
<1>1. UNCHANGED <<asked, client, verdict>>
  BY DEF HelperOf
<1>2. \A m \in Requests \ {n} : RequestInv(m)'
  BY <1>1, SameRequest DEF IInv, HelperOf
<1>3. ClientInv'
  <2>1. client # "idle" => asked \in Requests
    BY DEF IInv, TypeOK, ClientInv
  <2>2. CASE n = asked
    BY <1>1, <2>1, <2>2 DEF IInv, ClientInv, HelperOf
  <2>3. CASE n # asked
    BY <1>1, <2>1, <2>3 DEF IInv, ClientInv, HelperOf, Same
  <2>4. QED
    BY <2>2, <2>3
<1>4. QED
  BY <1>2, <1>3

\* Where a helper is when it makes a step, and what follows from that.
LEMMA HelperFrame ==
  ASSUME IInv, NEW n \in Requests, Decide(n) \/ Control(n) \/ HelperDies(n)
  PROVE  /\ helper[n] \in {"started", "reading"} \cup Working
         /\ UNCHANGED <<clientVars, open>>
<1> USE DEF Waiting, Working, StopPhases, StartPhases
<1>1. CASE Decide(n)
  BY <1>1 DEF Decide, HelperConnects, HelperRejectsParent, HelperReads,
    HelperReadFails, HelperCannotDecide, HelperRefuses, HelperFindsRunning,
    HelperAllows, Respond, Helper
<1>2. CASE Control(n)
  BY <1>2 DEF Control, StopChecked, StopNotAllowed, ControlStop, ControlStopFails,
    StopSeen, StopNotSeen, StartReads, StartNotAllowed, StoppedFirst,
    NotStoppedFirst, ControlStart, AlreadyRunning, ControlStartFails, StartSeen,
    StartNotSeen, Reply, Respond, Goes, Helper
<1>3. CASE HelperDies(n)
  BY <1>3 DEF IInv, TypeOK, HelperDies
<1>4. QED
  BY <1>1, <1>2, <1>3

\* The values of request n after a step of its helper.
StepTo(n, to) ==
  /\ helper' = [helper EXCEPT ![n] = to]
  /\ UNCHANGED <<clientVars, open>>
  /\ \A m \in Requests \ {n} :
       /\ request'[m] = request[m] /\ sent'[m] = sent[m]
       /\ response'[m] = response[m] /\ effect'[m] = effect[m]
       /\ (m \in misreported' <=> m \in misreported)

\* It touches the service only after the request was read.
LEMMA StepsAlone ==
  ASSUME IInv, NEW n \in Requests, NEW to, StepTo(n, to),
         helper[n] \in {"started", "reading"} \cup Working,
         helper[n] \in Working \/ request[n] \/
           (to \in Waiting \cup {"gone"} /\
            UNCHANGED <<request, sent, effect, misreported>>)
  PROVE  HelperOf(n) /\ helper'[n] = to /\ n <= asked
<1>1. /\ RequestInv(n) /\ asked \in Nat /\ client \in Clients
      /\ helper \in [Requests -> Waiting \cup Working \cup {"gone"}]
      /\ ClientInv
  BY DEF IInv, TypeOK
<1>2. n <= asked
  BY <1>1 DEF RequestInv, Fresh, Waiting, Working, StopPhases, StartPhases
<1>3. helper'[n] = to /\ \A m \in Requests \ {n} : helper'[m] = helper[m]
  BY <1>1 DEF StepTo
<1>4. \A m \in Requests \ {n} : Same(m)
  BY <1>3 DEF StepTo, Same
<1>5. client = "launch" => n # asked
  BY <1>1 DEF ClientInv, Working, StopPhases, StartPhases
<1>6. ASSUME client \in {"launch", "accept", "write"}, n = asked
      PROVE  /\ to \in Waiting \cup {"gone"}
             /\ ~request'[n] /\ ~sent'[n]
             /\ effect'[n] = {} /\ n \notin misreported'
  <2>1. /\ ~request[n] /\ ~sent[n] /\ helper[n] \in Waiting \cup {"gone"}
        /\ effect[n] = {} /\ n \notin misreported
    BY <1>1, <1>6 DEF ClientInv
  <2>2. helper[n] \notin Working
    BY <2>1 DEF Waiting, Working, StopPhases, StartPhases
  <2>3. QED
    BY <2>1, <2>2
<1>7. QED
  BY <1>2, <1>3, <1>4, <1>5, <1>6 DEF HelperOf, StepTo

\* What a step of a helper does to its own request.
LEMMA HelperRequest ==
  ASSUME IInv, NEW n \in Requests, Decide(n) \/ Control(n) \/ HelperDies(n)
  PROVE  ClientInv' /\ \A m \in Requests : RequestInv(m)'
<1> SUFFICES HelperOf(n) /\ RequestInv(n)'
  BY OnlyHelper
<1> USE DEF Waiting, Working, StopPhases, StartPhases
<1>1. /\ RequestInv(n) /\ asked \in Nat
      /\ helper \in [Requests -> Waiting \cup Working \cup {"gone"}]
      /\ request \in [Requests -> BOOLEAN] /\ sent \in [Requests -> BOOLEAN]
      /\ response \in [Requests -> Responses]
      /\ effect \in [Requests -> SUBSET {"stop", "start"}]
  BY DEF IInv, TypeOK
<1>2. CASE HelperConnects(n) \/ HelperRejectsParent(n) \/ HelperReadFails(n)
  <2>1. PICK to \in {"reading", "gone"} : StepTo(n, to)
    BY <1>2 DEF HelperConnects, HelperRejectsParent, HelperReadFails, Helper, StepTo
  <2>2. /\ helper[n] \in {"started", "reading"}
        /\ UNCHANGED <<request, response, sent, effect, misreported>>
    BY <1>2 DEF HelperConnects, HelperRejectsParent, HelperReadFails, Helper
  <2>3. HelperOf(n) /\ helper'[n] \in {"reading", "gone"} /\ n <= asked
    BY <2>1, <2>2, StepsAlone
  <2>4. QED
    BY <1>1, <2>2, <2>3 DEF RequestInv, NotYet, Pending, Received, Open, Truthful,
      Refused, HelperOf
<1>3. CASE HelperReads(n)
  <2>1. /\ StepTo(n, "deciding") /\ request[n] /\ ~request'[n]
        /\ helper[n] = "reading"
        /\ UNCHANGED <<response, sent, effect, misreported>>
    BY <1>1, <1>3 DEF HelperReads, Helper, StepTo
  <2>2. HelperOf(n) /\ helper'[n] = "deciding" /\ n <= asked
    BY <2>1, StepsAlone
  <2>3. QED
    BY <1>1, <2>1, <2>2 DEF RequestInv, NotYet, Pending, Received, Open, Truthful,
      Refused, HelperOf
<1>4. CASE HelperDies(n)
  <2>1. /\ StepTo(n, "gone") /\ helper[n] \in {"started", "reading"} \cup Working
        /\ UNCHANGED <<request, response, sent, effect, misreported>>
    BY <1>1, <1>4 DEF HelperDies, StepTo
  <2>2. HelperOf(n) /\ helper'[n] = "gone" /\ n <= asked
    BY <2>1, StepsAlone
  <2>3. QED
    BY <1>1, <2>1, <2>2 DEF RequestInv, NotYet, Pending, Received, Open, Truthful,
      Refused, HelperOf
<1>5. ASSUME NEW from \in Working, NEW status, NEW after, Respond(n, from, status, after),
             from # "replying",
             command[n] = "stop" =>
               \/ effect[n] = {} /\ status # "Succeeded"
               \/ status = "Uncertain"
               \/ effect[n] # {} /\ status = "Succeeded"
      PROVE  HelperOf(n) /\ RequestInv(n)'
  <2>1. /\ StepTo(n, "replying") /\ helper[n] = from
        /\ response'[n] = [status |-> status, after |-> after]
        /\ UNCHANGED <<request, sent, effect, misreported>>
    BY <1>1, <1>5 DEF Respond, Helper, StepTo
  <2>2. HelperOf(n) /\ helper'[n] = "replying" /\ n <= asked
    BY <2>1, StepsAlone
  <2>3. response'[n].status = status /\ response'[n].after = after
    BY <2>1
  <2>4. NotYet(n)' /\ Pending(n)' /\ Refused(n)' /\ ~(n > asked)'
    BY <1>1, <1>5, <2>1, <2>2 DEF RequestInv, NotYet, Pending, Received, Open, Refused,
      HelperOf
  <2>5. n = asked /\ client = "read" => n \notin misreported
    BY <1>1, <1>5, <2>1 DEF RequestInv, Truthful
  <2>6. Truthful(n)'
    BY <1>1, <1>5, <2>1, <2>2, <2>3, <2>5 DEF Truthful, HelperOf
  <2>7. QED
    BY <2>2, <2>4, <2>6 DEF RequestInv
<1>6. CASE HelperCannotDecide(n) \/ HelperRefuses(n) \/ HelperFindsRunning(n)
  <2>1. helper[n] = "deciding" => effect[n] = {}
    BY <1>1 DEF RequestInv, NotYet
  <2>2. CASE HelperCannotDecide(n)
    <3>1. Respond(n, "deciding", "Failed", "Unknown") /\ helper[n] = "deciding"
      BY <2>2 DEF HelperCannotDecide, Respond, Helper
    <3>2. QED
      BY <1>5, <2>1, <3>1
  <2>3. CASE HelperRefuses(n)
    <3>1. Respond(n, "deciding", "Rejected", svc.state) /\ helper[n] = "deciding"
      BY <2>3 DEF HelperRefuses, Respond, Helper
    <3>2. QED
      BY <1>5, <2>1, <3>1
  <2>4. CASE HelperFindsRunning(n)
    <3>1. Respond(n, "deciding", "Succeeded", "Running") /\ command[n] = "start"
      BY <2>4 DEF HelperFindsRunning
    <3>2. QED
      BY <1>5, <3>1
  <2>5. QED
    BY <1>6, <2>2, <2>3, <2>4
<1>7. CASE \/ StopNotAllowed(n) \/ StopSeen(n) \/ StopNotSeen(n)
           \/ StartNotAllowed(n) \/ NotStoppedFirst(n) \/ ControlStartFails(n)
           \/ StartSeen(n) \/ StartNotSeen(n)
  <2>1. /\ helper[n] = "stopping" => effect[n] = {}
        /\ helper[n] = "stopWait" => effect[n] # {}
        /\ helper[n] \in StartPhases => command[n] = "start"
    BY <1>1 DEF RequestInv, NotYet
  <2>2. CASE StopNotAllowed(n)
    <3>1. Respond(n, "stopping", "Failed", svc.state) /\ helper[n] = "stopping"
      BY <2>2 DEF StopNotAllowed, Respond, Helper
    <3>2. QED
      BY <1>5, <2>1, <3>1
  <2>3. CASE StopSeen(n)
    <3>1. Respond(n, "stopWait", "Succeeded", "Stopped") /\ helper[n] = "stopWait"
      BY <2>3 DEF StopSeen, Respond, Helper
    <3>2. QED
      BY <1>5, <2>1, <3>1
  <2>4. CASE StopNotSeen(n)
    <3>1. PICK s : Respond(n, "stopWait", "Uncertain", s)
      BY <2>4 DEF StopNotSeen
    <3>2. QED
      BY <1>5, <3>1
  <2>5. CASE \/ StartNotAllowed(n) \/ NotStoppedFirst(n) \/ ControlStartFails(n)
             \/ StartSeen(n) \/ StartNotSeen(n)
    <3>1. PICK from \in StartPhases : \E status, after : Respond(n, from, status, after)
      BY <2>5 DEF StartNotAllowed, NotStoppedFirst, ControlStartFails, StartSeen,
        StartNotSeen
    <3>2. command[n] = "start"
      BY <2>1, <3>1 DEF Respond, Helper
    <3>3. QED
      BY <1>5, <3>1, <3>2
  <2>6. QED
    BY <1>7, <2>2, <2>3, <2>4, <2>5
<1>8. ASSUME NEW from \in Working, NEW to \in Working, StepTo(n, to), helper[n] = from,
             from # "replying", to \notin {"replying", "stopWait"},
             UNCHANGED <<request, response, sent, effect, misreported>>,
             to \in StopPhases => command[n] = "stop",
             to \in StartPhases => command[n] = "start",
             to # "startWait" => effect[n] = {}
      PROVE  HelperOf(n) /\ RequestInv(n)'
  <2>1. HelperOf(n) /\ helper'[n] = to /\ n <= asked
    BY <1>8, StepsAlone
  <2>2. QED
    BY <1>1, <1>8, <2>1 DEF RequestInv, NotYet, Pending, Received, Open, Truthful,
      Refused, HelperOf
<1>9. CASE HelperAllows(n)
  <2>1. helper[n] = "deciding" /\ effect[n] = {}
    BY <1>1, <1>9 DEF HelperAllows, Helper, RequestInv, NotYet
  <2>2. PICK to \in {"stopping", "starting"} :
          /\ StepTo(n, to)
          /\ to = "stopping" => command[n] = "stop"
          /\ to = "starting" => command[n] = "start"
    BY <1>9 DEF HelperAllows, Helper, StepTo
  <2>3. UNCHANGED <<request, response, sent, effect, misreported>>
    BY <1>9 DEF HelperAllows
  <2>4. QED
    BY <1>8, <2>1, <2>2, <2>3
<1>10. ASSUME NEW from, NEW to, Goes(n, from, to)
       PROVE  /\ StepTo(n, to) /\ helper[n] = from
              /\ UNCHANGED <<request, response, sent, effect, misreported>>
  BY <1>10 DEF Goes, Helper, StepTo
<1>11. CASE StopChecked(n)
  <2>1. Goes(n, "stopping", "controlling")
    BY <1>11 DEF StopChecked
  <2>2. effect[n] = {} /\ command[n] = "stop"
    BY <1>1, <2>1 DEF Goes, Helper, RequestInv, NotYet
  <2>3. QED
    BY <1>8, <1>10, <2>1, <2>2
<1>12. CASE StartReads(n) \/ StoppedFirst(n) \/ AlreadyRunning(n)
  <2>1. \/ Respond(n, "starting", "Succeeded", "Running")
        \/ \E from \in {"starting", "stopFirst", "startNow"},
              to \in {"startWait", "stopFirst", "startNow"} : Goes(n, from, to)
    BY <1>12 DEF StartReads, StoppedFirst, AlreadyRunning
  <2>2. command[n] = "start" /\ effect[n] = {}
    BY <1>1, <2>1 DEF Goes, Respond, Helper, RequestInv, NotYet
  <2>3. QED
    BY <1>5, <1>8, <1>10, <2>1, <2>2
<1>13. CASE ControlStop(n) \/ ControlStart(n)
  <2>1. PICK e \in {"stop", "start"}, to \in {"stopWait", "startWait"} :
          /\ helper[n] \in {"controlling", "startNow"}
          /\ StepTo(n, to)
          /\ effect' = [effect EXCEPT ![n] = @ \cup {e}]
          /\ UNCHANGED <<request, response, sent, misreported>>
          /\ helper[n] = "controlling" <=> to = "stopWait"
    BY <1>1, <1>13 DEF ControlStop, ControlStart, Helper, StepTo
  <2>2. /\ effect'[n] # {} /\ effect[n] = {}
        /\ command[n] = IF to = "stopWait" THEN "stop" ELSE "start"
    BY <1>1, <2>1 DEF RequestInv, NotYet
  <2>3. HelperOf(n) /\ helper'[n] = to /\ n <= asked
    BY <2>1, StepsAlone
  <2>4. QED
    BY <1>1, <2>1, <2>2, <2>3 DEF RequestInv, NotYet, Pending, Received, Open, Truthful,
      Refused, HelperOf
<1>14. CASE ControlStopFails(n)
  <2>1. /\ helper[n] = "controlling" /\ StepTo(n, "replying")
        /\ response'[n] = [status |-> "Failed", after |-> "Running"]
        /\ UNCHANGED <<request, sent>>
        /\ \/ UNCHANGED <<effect, misreported>>
           \/ n \in misreported'
    BY <1>1, <1>14 DEF ControlStopFails, Helper, StepTo
  <2>2. effect[n] = {} /\ response'[n].status = "Failed"
    BY <1>1, <2>1 DEF RequestInv, NotYet
  <2>3. HelperOf(n) /\ helper'[n] = "replying" /\ n <= asked
    BY <2>1, StepsAlone
  <2>4. QED
    BY <1>1, <2>1, <2>2, <2>3 DEF RequestInv, NotYet, Pending, Received, Open, Truthful,
      Refused, HelperOf
<1>15. CASE Reply(n)
  <2>1. /\ helper[n] = "replying" /\ StepTo(n, "gone")
        /\ UNCHANGED <<request, response, effect, misreported>>
    BY <1>1, <1>15 DEF Reply, Helper, StepTo
  <2>2. HelperOf(n) /\ helper'[n] = "gone" /\ n <= asked
    BY <2>1, StepsAlone
  <2>3. QED
    BY <1>1, <2>1, <2>2 DEF RequestInv, NotYet, Pending, Received, Open, Truthful,
      Refused, HelperOf
<1>16. QED
  BY <1>2, <1>3, <1>4, <1>6, <1>7, <1>9, <1>11, <1>12, <1>13, <1>14, <1>15
  DEF Decide, Control

LEMMA InductiveStep == IInv /\ [Next]_vars => IInv'
<1> SUFFICES ASSUME IInv, [Next]_vars PROVE IInv'
  OBVIOUS
<1>1. TypeOK'
  BY TypeStep DEF IInv
<1>2. CASE UNCHANGED <<clientVars, pipeVars, helperVars, effect, misreported>>
  <2>1. \A m \in Requests : Same(m)
    BY <1>2 DEF Same
  <2>2. \A m \in Requests : RequestInv(m)'
    BY <1>2, <2>1, SameRequest DEF IInv
  <2>3. ClientInv'
    BY <1>2 DEF IInv, ClientInv
  <2>4. QED
    BY <1>1, <2>2, <2>3 DEF IInv
<1>3. CASE Begin
  BY <1>1, <1>3, BeginRequests DEF IInv
<1>4. CASE ClientStep \/ ClientCrash
  BY <1>1, <1>4, UnsentRequests, AnsweredRequests DEF IInv, ClientStep
<1>5. CASE \E n \in Requests : Decide(n) \/ Control(n) \/ HelperDies(n)
  BY <1>1, <1>5, HelperRequest DEF IInv
<1>6. CASE ServiceSettles \/ ServiceEdited \/ UNCHANGED vars
  BY <1>2, <1>6 DEF ServiceSettles, ServiceEdited, vars
<1>7. QED
  BY <1>3, <1>4, <1>5, <1>6 DEF Next

\* IInv is an invariant, for any number of requests, faults and edits.
THEOREM InductiveInvariant == Spec => []IInv
<1>1. Init => IInv
  <2> SUFFICES ASSUME Init PROVE IInv
    OBVIOUS
  <2>1. ClientInv
    BY DEF Init, ClientInv
  <2>2. \A n \in Requests : RequestInv(n)
    BY DEF Init, RequestInv, Fresh, NotYet, Pending, Received, Open, Truthful, Refused,
      Waiting, Working, StopPhases, StartPhases
  <2>3. QED
    BY <2>1, <2>2, TypeInit DEF IInv
<1>2. QED
  BY <1>1, InductiveStep, PTL DEF Spec

\* Nothing that was recorded as refused has stopped the service.
THEOREM RefusalIsAlwaysFinal == Spec => []RefusalIsFinal
<1>1. IInv => RefusalIsFinal
  BY DEF IInv, RequestInv, Refused, RefusalIsFinal
<1>2. QED
  BY <1>1, InductiveInvariant, PTL
-----------------------------------------------------------------------------
(***************************************************************************)
(* The refinement of HelperPromise.                                        *)
(***************************************************************************)

HasActed == [n \in Requests |-> effect[n] # {} /\ n \notin misreported]

LEMMA ActedSame ==
  ASSUME \A n \in Requests :
           /\ effect'[n] = {} <=> effect[n] = {}
           /\ n \in misreported' <=> n \in misreported
  PROVE  HasActed' = HasActed
BY DEF HasActed

\* A call that returns v answers the request.
LEMMA AnswerRefines ==
  ASSUME IInv, client # "idle", HasActed' = HasActed,
         NEW v \in Verdicts \ {"none"}, Return(v),
         v \in {"Failed", "Rejected"} => ~HasActed[asked],
         v = "Applied" => HasActed[asked]
  PROVE  Promise!Next
<1>1. /\ asked \in Requests /\ asked <= asked /\ asked' = asked
      /\ verdict[asked] = "none"
  BY Returned DEF IInv, TypeOK
<1>2. verdict' = [verdict EXCEPT ![asked] = v]
  BY DEF Return
<1>3. Promise!Answer(asked, v)
  BY <1>1, <1>2 DEF Promise!Answer, Promise!Refusals, HasActed
<1>4. v \in Promise!Refusals \cup {"Applied", "RolledBack", "Uncertain", "crashed"}
  BY DEF Verdicts, Promise!Refusals
<1>5. QED
  BY <1>1, <1>3, <1>4 DEF Promise!Next, Promise!Requests

LEMMA ClientRefines ==
  ASSUME IInv, ClientStep \/ ClientCrash
  PROVE  [Promise!Next]_(Promise!vars)
<1>1. CASE Launch \/ Accept \/ Write
  BY <1>1 DEF Launch, Accept, Write, Promise!vars, HasActed
<1>2. CASE LaunchFails \/ AcceptFails \/ WriteFails
  <2>1. client \in {"launch", "accept", "write"} /\ Return(Lost(FALSE))
    BY <1>2 DEF LaunchFails, AcceptFails, WriteFails
  <2> client # "idle" /\ effect[asked] = {} /\ asked \in Requests
    BY <2>1 DEF IInv, TypeOK, ClientInv
  <2>2. HasActed' = HasActed /\ ~HasActed[asked]
    BY <1>2, <2>1 DEF LaunchFails, AcceptFails, WriteFails, WrittenAllTheSame, HasActed
  <2>3. Lost(FALSE) \in {"Failed", "Uncertain"} /\ Lost(FALSE) \in Verdicts \ {"none"}
    BY DEF Lost, Verdicts
  <2>4. QED
    BY <2>1, <2>2, <2>3, AnswerRefines
<1>3. CASE ReadFails \/ ClientCrash
  <2>1. PICK v \in {"Uncertain", "crashed"} : Return(v)
    BY <1>3 DEF ReadFails, ClientCrash, Lost
  <2>2. client # "idle" /\ HasActed' = HasActed
    BY <1>3, ActedSame DEF ReadFails, ClientCrash
  <2>3. QED
    BY <2>1, <2>2, AnswerRefines DEF Verdicts
<1>4. CASE Read
  <2>1. /\ client = "read" /\ asked \in Requests /\ RequestInv(asked) /\ sent[asked]
        /\ Return(Judge(command[asked], response[asked]))
        /\ HasActed' = HasActed
    BY <1>4, ActedSame DEF IInv, TypeOK, ClientInv, Read
  <2>2. Judge(command[asked], response[asked]) \in Verdicts \ {"none"}
    BY DEF Judge, Verdicts
  <2>3. Judge(command[asked], response[asked]) \in {"Failed", "Rejected"}
          => ~HasActed[asked]
    BY <2>1 DEF Judge, RequestInv, Truthful, HasActed
  <2>4. Judge(command[asked], response[asked]) = "Applied" => HasActed[asked]
    BY <2>1 DEF Judge, RequestInv, Truthful, HasActed
  <2>5. QED
    BY <2>1, <2>2, <2>3, <2>4, AnswerRefines
<1>5. QED
  BY <1>1, <1>2, <1>3, <1>4 DEF ClientStep

LEMMA HelperRefines ==
  ASSUME IInv, NEW n \in Requests, Decide(n) \/ Control(n) \/ HelperDies(n)
  PROVE  [Promise!Next]_(Promise!vars)
<1>1. UNCHANGED <<asked, verdict>>
  BY HelperFrame
<1>2. RequestInv(n) /\ effect \in [Requests -> SUBSET {"stop", "start"}]
  BY DEF IInv, TypeOK
<1>3. CASE ControlStop(n) \/ ControlStart(n)
  <2>1. PICK e \in {"stop", "start"} :
          /\ helper[n] \in {"controlling", "startNow"}
          /\ effect' = [effect EXCEPT ![n] = @ \cup {e}]
          /\ misreported' = misreported
    BY <1>3 DEF ControlStop, ControlStart, Helper
  <2> e \in effect'[n] /\ \A m \in Requests \ {n} : effect'[m] = effect[m]
    BY <1>2, <2>1
  <2>2. /\ n <= asked /\ effect[n] = {}
        /\ n \notin misreported => verdict[n] \in {"none", "Uncertain", "crashed"}
    BY <1>2, <2>1 DEF RequestInv, NotYet, Pending, Received, Open, Working,
      StopPhases, StartPhases
  <2>3. CASE n \in misreported
    <3>1. HasActed' = HasActed
      BY <2>1, <2>3 DEF HasActed
    <3>2. QED
      BY <1>1, <3>1 DEF Promise!vars, HasActed
  <2>4. CASE n \notin misreported
    <3>1. HasActed' = [HasActed EXCEPT ![n] = TRUE] /\ ~HasActed[n]
      BY <2>1, <2>2, <2>4 DEF HasActed
    <3>2. Promise!Act(n)
      BY <1>1, <2>2, <2>4, <3>1 DEF Promise!Act, HasActed
    <3>3. QED
      BY <3>2 DEF Promise!Next, Promise!Requests
  <2>5. QED
    BY <2>3, <2>4
<1>4. CASE ControlStopFails(n)
  <2>1. effect[n] = {}
    BY <1>2, <1>4 DEF ControlStopFails, Helper, RequestInv, NotYet
  <2>2. HasActed' = HasActed
    BY <1>2, <1>4, <2>1 DEF ControlStopFails, HasActed
  <2>3. QED
    BY <1>1, <2>2 DEF Promise!vars, HasActed
<1>5. CASE ~ControlStop(n) /\ ~ControlStart(n) /\ ~ControlStopFails(n)
  <2>1. UNCHANGED <<effect, misreported>>
    BY <1>5 DEF Decide, Control, HelperDies, HelperConnects, HelperRejectsParent,
      HelperReads, HelperReadFails, HelperCannotDecide, HelperRefuses,
      HelperFindsRunning, HelperAllows, StopChecked, StopNotAllowed, StopSeen,
      StopNotSeen, StartReads, StartNotAllowed, StoppedFirst, NotStoppedFirst,
      AlreadyRunning, ControlStartFails, StartSeen, StartNotSeen, Reply, Respond, Goes
  <2>2. QED
    BY <1>1, <2>1 DEF Promise!vars
<1>6. QED
  BY <1>3, <1>4, <1>5

\* The client's answers keep the promise that CodingSession rests on: a request
\* acts at most once, never after a refusal, and a success is one.
THEOREM PromiseIsKept == Spec => PromiseSpec
<1>1. Init => Promise!Init
  BY DEF Init, Promise!Init, Promise!Requests
<1>2. IInv /\ [Next]_vars => [Promise!Next]_(Promise!vars)
  <2> SUFFICES ASSUME IInv, [Next]_vars PROVE [Promise!Next]_(Promise!vars)
    OBVIOUS
  <2>1. CASE Begin
    <3>1. Promise!Ask
      BY <2>1 DEF Begin, Promise!Ask
    <3>2. QED
      BY <3>1 DEF Promise!Next
  <2>2. CASE ServiceSettles \/ ServiceEdited \/ UNCHANGED vars
    BY <2>2 DEF ServiceSettles, ServiceEdited, vars, Promise!vars
  <2>3. QED
    BY <2>1, <2>2, ClientRefines, HelperRefines DEF Next
<1>3. QED
  BY <1>1, <1>2, InductiveInvariant, PTL DEF Spec, PromiseSpec, Promise!Spec
-----------------------------------------------------------------------------
(***************************************************************************)
(* What is given back runs.                                                *)
(***************************************************************************)

LEMMA ClientRuns ==
  ASSUME IInv, RunsInv, Begin \/ ClientStep \/ ClientCrash
  PROVE  RunsInv'
<1>1. CASE Begin
  <2>1. PICK new \in Requests : new = asked + 1 /\ asked' = new
    BY <1>1 DEF IInv, TypeOK, Begin
  <2>2. Fresh(new) /\ alone \in [Requests -> BOOLEAN] /\ asked \in Nat
    BY <2>1 DEF IInv, TypeOK, RequestInv
  <2>3. alone'[new] => \A n \in Requests : helper[n] \in {"none", "gone"}
    BY <1>1, <2>1, <2>2 DEF Begin
  <2>4. UNCHANGED <<helper, verdict, sent, response>>
    BY <1>1 DEF Begin
  <2>5. QED
    BY <2>1, <2>2, <2>3, <2>4 DEF RunsInv, SeenRunning, Fresh
<1>2. CASE ClientStep \/ ClientCrash
  <2>1. client # "idle"
    BY <1>2 DEF ClientStep, ClientCrash, Launch, LaunchFails, Accept, AcceptFails,
      Write, WriteFails, Read, ReadFails
  <2>2. /\ asked \in Requests /\ verdict[asked] = "none" /\ RequestInv(asked)
        /\ client = "launch" => helper[asked] = "none" /\ ~sent[asked]
        /\ verdict \in [Requests -> Verdicts] /\ sent \in [Requests -> BOOLEAN]
        /\ helper \in [Requests -> Waiting \cup Working \cup {"gone"}]
    BY <2>1 DEF IInv, TypeOK, ClientInv
  <2>3. UNCHANGED <<asked, alone, edits, svc, response>>
    BY <1>2 DEF ClientStep, ClientCrash, Launch, LaunchFails, Accept, AcceptFails,
      Write, WriteFails, Read, ReadFails, Return
  <2>4. CASE Launch \/ LaunchFails
    <3>1. /\ helper' \in {helper, [helper EXCEPT ![asked] = "started"]}
          /\ client = "launch" /\ sent' = sent
          /\ verdict' \in {verdict, [verdict EXCEPT ![asked] = Lost(FALSE)]}
      BY <2>4 DEF Launch, LaunchFails, Return
    <3>2. /\ verdict'[asked] # "RolledBack" /\ helper'[asked] \in {"none", "started"}
          /\ ~sent'[asked]
          /\ \A n \in Requests : n # asked => helper'[n] = helper[n]
      BY <2>2, <3>1 DEF Lost
    <3>3. QED
      BY <2>2, <2>3, <3>2 DEF RunsInv, SeenRunning
  <2>5. CASE Read
    <3>1. /\ helper' = helper /\ sent[asked] /\ ~sent'[asked]
          /\ verdict'[asked] = Judge(command[asked], response[asked])
      BY <2>2, <2>5 DEF Read, Return
    <3>2. helper[asked] = "gone"
      BY <2>2, <3>1 DEF RequestInv, NotYet
    <3>3. verdict'[asked] = "RolledBack" => SeenRunning
      BY <3>1 DEF Judge, SeenRunning
    <3>4. QED
      BY <2>2, <2>3, <3>1, <3>2, <3>3 DEF RunsInv, SeenRunning
  <2>6. CASE Accept \/ AcceptFails \/ Write \/ WriteFails \/ ReadFails \/ ClientCrash
    <3>1. /\ UNCHANGED <<helper, sent>>
          /\ verdict' = verdict \/ \E v \in {"Failed", "Uncertain", "crashed"} :
               verdict' = [verdict EXCEPT ![asked] = v]
      BY <2>6 DEF Accept, AcceptFails, Write, WriteFails, ReadFails, ClientCrash, Return,
        Lost
    <3>2. verdict'[asked] # "RolledBack"
      BY <2>2, <3>1
    <3>3. QED
      BY <2>2, <2>3, <3>1, <3>2 DEF RunsInv, SeenRunning
  <2>7. QED
    BY <1>2, <2>4, <2>5, <2>6 DEF ClientStep
<1>3. QED
  BY <1>1, <1>2

\* The helper of a restore that is alone is the only one that makes a step.
LEMMA HelperRuns ==
  ASSUME IInv, RunsInv, NEW n \in Requests, Decide(n) \/ Control(n) \/ HelperDies(n)
  PROVE  RunsInv'
<1> SUFFICES ASSUME asked > 0, alone[asked]
             PROVE  RunsInv'
  BY HelperFrame DEF RunsInv
<1> USE DEF Waiting, Working, StopPhases, StartPhases
<1>1. /\ UNCHANGED <<asked, alone, verdict>>
      /\ helper[n] \in {"started", "reading"} \cup Working
  BY HelperFrame
<1>2. /\ asked \in Requests /\ RequestInv(n)
      /\ helper \in [Requests -> Waiting \cup Working \cup {"gone"}]
      /\ sent \in [Requests -> BOOLEAN] /\ response \in [Requests -> Responses]
  BY DEF IInv, TypeOK
<1>3. n = asked
  BY <1>1, <1>2 DEF RunsInv, RequestInv, Fresh
<1>4. verdict[asked] # "RolledBack" /\ ~sent[asked]
  BY <1>1, <1>2, <1>3 DEF RunsInv, RequestInv, NotYet
<1>5. \A m \in Requests \ {n} : helper'[m] = helper[m]
  BY <1>2 DEF Decide, Control, HelperDies, HelperConnects, HelperRejectsParent,
    HelperReads, HelperReadFails, HelperCannotDecide, HelperRefuses,
    HelperFindsRunning, HelperAllows, StopChecked, StopNotAllowed, ControlStop,
    ControlStopFails, StopSeen, StopNotSeen, StartReads, StartNotAllowed,
    StoppedFirst, NotStoppedFirst, ControlStart, AlreadyRunning, ControlStartFails,
    StartSeen, StartNotSeen, Reply, Respond, Goes, Helper
<1>6. SUFFICES edits' = 0 /\ SeenRunning' => svc'.state = "Running"
  BY <1>1, <1>2, <1>3, <1>4, <1>5 DEF RunsInv
<1>7. ASSUME NEW from, NEW status, NEW after, Respond(n, from, status, after)
      PROVE  /\ UNCHANGED svc
             /\ SeenRunning' => status = "Succeeded" /\ after = "Running"
  <2>1. response'[n] = [status |-> status, after |-> after]
    BY <1>2, <1>7 DEF Respond
  <2>2. response'[n].status = status /\ response'[n].after = after
    BY <2>1
  <2>3. QED
    BY <1>1, <1>3, <1>4, <1>7, <2>2 DEF Respond, SeenRunning
<1>8. CASE HelperFindsRunning(n) \/ StartSeen(n)
  BY <1>7, <1>8 DEF HelperFindsRunning, StartSeen
<1>9. CASE StartReads(n)
  <2>1. CASE svc.state = "Running"
    BY <1>7, <1>9, <2>1 DEF StartReads
  <2>2. CASE svc.state # "Running"
    <3>1. PICK to \in {"startWait", "stopFirst", "startNow"} : Goes(n, "starting", to)
      BY <1>9, <2>2 DEF StartReads
    <3>2. helper'[n] # "replying" /\ ~sent'[n]
      BY <1>2, <1>3, <1>4, <3>1 DEF Goes, Helper
    <3>3. QED
      BY <1>1, <1>3, <1>4, <3>2 DEF SeenRunning
  <2>3. QED
    BY <2>1, <2>2
<1>10. CASE \/ HelperCannotDecide(n) \/ HelperRefuses(n) \/ StopNotAllowed(n)
            \/ StopSeen(n) \/ StopNotSeen(n) \/ StartNotAllowed(n)
            \/ NotStoppedFirst(n) \/ ControlStartFails(n) \/ StartNotSeen(n)
  <2>1. CASE HelperCannotDecide(n) \/ HelperRefuses(n) \/ StopNotAllowed(n)
    BY <1>7, <2>1 DEF HelperCannotDecide, HelperRefuses, StopNotAllowed
  <2>2. CASE StopSeen(n) \/ StopNotSeen(n) \/ StartNotAllowed(n)
    BY <1>7, <2>2 DEF StopSeen, StopNotSeen, StartNotAllowed
  <2>3. CASE NotStoppedFirst(n) \/ ControlStartFails(n) \/ StartNotSeen(n)
    BY <1>7, <2>3 DEF NotStoppedFirst, ControlStartFails, StartNotSeen
  <2>4. QED
    BY <1>10, <2>1, <2>2, <2>3
<1>11. CASE ControlStopFails(n)
  <2>1. response'[n] = [status |-> "Failed", after |-> "Running"] /\ sent' = sent
    BY <1>2, <1>11 DEF ControlStopFails
  <2>2. response'[n].status = "Failed"
    BY <2>1
  <2>3. QED
    BY <1>1, <1>3, <1>4, <2>2 DEF SeenRunning
<1>12. CASE Reply(n)
  <2>1. helper[n] = "replying" /\ UNCHANGED <<response, svc, edits>>
    BY <1>12 DEF Reply, Helper
  <2>2. SeenRunning' => SeenRunning
    BY <1>1, <1>3, <1>4, <2>1 DEF SeenRunning
  <2>3. QED
    BY <2>1, <2>2 DEF RunsInv
<1>13. CASE \/ HelperConnects(n) \/ HelperRejectsParent(n) \/ HelperReads(n)
            \/ HelperReadFails(n) \/ HelperAllows(n) \/ HelperDies(n)
            \/ StopChecked(n) \/ ControlStop(n) \/ StoppedFirst(n)
            \/ ControlStart(n) \/ AlreadyRunning(n)
  <2>1. /\ sent' = sent
        /\ \E to \in {"reading", "gone", "deciding", "stopping", "starting",
                      "controlling", "stopWait", "startNow", "startWait"} :
             helper' = [helper EXCEPT ![n] = to]
    BY <1>13 DEF HelperConnects, HelperRejectsParent, HelperReads, HelperReadFails,
      HelperAllows, HelperDies, StopChecked, ControlStop, StoppedFirst, ControlStart,
      AlreadyRunning, Goes, Helper
  <2>2. helper'[n] # "replying" /\ ~sent'[n]
    BY <1>2, <1>3, <1>4, <2>1
  <2>3. QED
    BY <1>1, <1>3, <1>4, <2>2 DEF SeenRunning
<1>14. QED
  BY <1>8, <1>9, <1>10, <1>11, <1>12, <1>13 DEF Decide, Control

\* What was recorded as given back runs, if nobody but the last request acted.
THEOREM GivenBackAlwaysRuns == Spec => []GivenBackRuns
<1>1. Init => RunsInv
  BY DEF Init, RunsInv
<1>2. IInv /\ RunsInv /\ [Next]_vars => RunsInv'
  <2> SUFFICES ASSUME IInv, RunsInv, [Next]_vars PROVE RunsInv'
    OBVIOUS
  <2>1. CASE ServiceSettles
    <3>1. /\ UNCHANGED <<asked, alone, helper, verdict, sent, response, edits>>
          /\ svc.state # "Running"
      BY <2>1 DEF ServiceSettles
    <3>2. QED
      BY <3>1 DEF RunsInv, SeenRunning
  <2>2. CASE ServiceEdited
    <3>1. UNCHANGED <<asked, alone, helper, verdict, sent, response>> /\ edits' # 0
      BY <2>2 DEF IInv, TypeOK, ServiceEdited
    <3>2. QED
      BY <3>1 DEF RunsInv
  <2>3. CASE UNCHANGED vars
    BY <2>3 DEF vars, RunsInv, SeenRunning
  <2>4. QED
    BY <2>1, <2>2, <2>3, ClientRuns, HelperRuns DEF Next
<1>3. RunsInv => GivenBackRuns
  BY DEF RunsInv, SeenRunning, GivenBackRuns
<1>4. QED
  BY <1>1, <1>2, <1>3, InductiveInvariant, PTL DEF Spec
=============================================================================
