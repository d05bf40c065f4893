----------------------------- MODULE SessionCodec -----------------------------
(***************************************************************************)
(* active_session.json and the completion report as texts: Serialize,      *)
(* Deserialize, CompletionReport and ParseCompletionReportSummary.         *)
(*                                                                         *)
(* Of the baseline the fields stand for their kinds: those that must be    *)
(* there, those that older versions did not write, and the counts that are *)
(* checked against each other.  A number is a natural number or Real,      *)
(* which no integer field takes; MaximumU32 stands for the largest value   *)
(* of 32 bits.                                                             *)
(***************************************************************************)
EXTENDS JsonText

CONSTANT MaximumU32

ASSUME CodecAssumption == MaximumU32 \in Nat /\ MaximumU32 > 30000

Real == -1                  \* a number that is no natural number

SessionStates == {"Active", "Recovering", "Completed", "SafeMode"}
ActionTypes == {"SetPriorityClass", "GracefulCloseProcess", "StopServiceTemporary"}
ActionRisks == {"Safe", "Low", "Medium"}
ActionStates == {"Planned", "Applied", "Completed", "RolledBack", "Uncertain",
                 "Failed", "Rejected"}
ServiceStates == {"Unknown", "Stopped", "StartPending", "StopPending", "Running",
                  "ContinuePending", "PausePending", "Paused"}

Reversible(action) == action.type # "GracefulCloseProcess"

-----------------------------------------------------------------------------
(* Writing. *)
Member(key, value) == <<String(key), Mark(":")>> \o value

\* A list of texts with commas between them.
Listed(texts) ==
  FoldLeft(LAMBDA done, t : IF done = <<>> THEN t ELSE done \o <<Mark(",")>> \o t,
           <<>>, texts)

Object(members) == <<Mark("{")>> \o Listed(members) \o <<Mark("}")>>
Array(values) == <<Mark("[")>> \o Listed(values) \o <<Mark("]")>>

Str(key, record) == Member(key, <<String(record[key])>>)
Num(key, record) == Member(key, <<NumberToken(record[key])>>)
Bool(key, record) == Member(key, <<Literal(record[key])>>)

\* In the order of the source; fields that are treated alike stand once.
SerializeBenchmark(b) ==
  Object(<<Str("timestamp", b), Num("sample_count", b),
           Num("process_inventory_complete_samples", b),
           Num("tcp_inventory_complete_samples", b),
           Num("protection_inventory_complete_samples", b),
           Num("available_memory_bytes", b),
           Num("maximum_disk_latency_ms", b), Num("page_reads_per_sec", b)>>)

SerializeAction(a) ==
  Object(<<Str("id", a), Str("type", a), Str("risk", a), Num("pid", a),
           Num("expected_start_time_100ns", a), Num("source_priority", a),
           Num("target_priority", a), Num("timeout_ms", a),
           Str("service_name", a), Str("expected_service_identity", a),
           Str("source_service_state", a), Bool("explicit_confirmation", a),
           Member("reversible", <<Literal(Reversible(a))>>), Str("state", a),
           Num("original_priority", a), Str("original_service_state", a),
           Num("error_code", a), Str("result_message", a)>>)

SessionMembers(s) ==
  <<Member("schema_version", <<NumberToken(3)>>), Str("session_id", s), Str("state", s),
    Member("baseline", SerializeBenchmark(s.baseline)),
    Member("actions", Array([i \in DOMAIN s.actions |-> SerializeAction(s.actions[i])]))>>

Serialize(s) == Object(SessionMembers(s))

\* The counts of CompletionReport and whether everything was given back.
CountOf(s, state) == Cardinality({i \in DOMAIN s.actions : s.actions[i].state = state})

RollbackComplete(s) ==
  \A i \in DOMAIN s.actions :
    LET a == s.actions[i]
    IN IF Reversible(a) THEN a.state \in {"RolledBack", "Rejected", "Failed"}
                        ELSE a.state \notin {"Planned", "Uncertain"}

FailedActions(s) ==
  SelectSeq(s.actions, LAMBDA a : a.state \in {"Failed", "Rejected", "Uncertain"})

\* The report is the text of the session without its last brace, and more.
CompletionReport(s, after, phase) ==
  LET completed == [s EXCEPT !.state = "Completed"]
      Failure(a) == Object(<<Str("id", a), Str("type", a), Str("state", a),
                             Num("error_code", a)>>)
      failed == FailedActions(s)
      complete == IF RollbackComplete(s) THEN TRUE ELSE FALSE
      Counted(key, state) == Member(key, <<NumberToken(CountOf(s, state))>>)
  IN Object(SessionMembers(completed) \o
       <<Member("report_schema_version", <<NumberToken(1)>>),
         Member("measurement_phase", <<String(phase)>>),
         Member("optimized", SerializeBenchmark(after)),
         Member("delta", Object(<<Member("available_memory_bytes", <<NumberToken(Real)>>)>>)),
         Member("diagnoses", Array(<<>>)),
         Member("failed_actions", Array([i \in DOMAIN failed |-> Failure(failed[i])])),
         Member("rollback", Object(<<Member("complete", <<Literal(complete)>>),
           Counted("planned", "Planned"), Counted("applied", "Applied"),
           Counted("completed_one_shot", "Completed"),
           Counted("rolled_back", "RolledBack"), Counted("uncertain", "Uncertain"),
           Counted("failed", "Failed"), Counted("rejected", "Rejected")>>))>>)

-----------------------------------------------------------------------------
(***************************************************************************)
(* Reading.  A field is looked for among the members of the text's own     *)
(* object, not in objects or arrays within it; it is Missing also when its *)
(* value is of another kind.                                               *)
(***************************************************************************)
DepthAt(t, i) ==
  Cardinality({j \in 1..i - 1 : KindAt(t, j) \in {"{", "["}})
  - Cardinality({j \in 1..i - 1 : KindAt(t, j) \in {"}", "]"}})

FirstOf(places) == IF places = {} THEN 0 ELSE Min(places)

FieldValueStart(t, key) ==
  FirstOf({i \in 3..Len(t) : /\ KindAt(t, 1) = "{"
                             /\ t[i - 2] = String(key) /\ KindAt(t, i - 1) = ":"
                             /\ DepthAt(t, i - 2) = 1})

ValueAt(t, i, kinds) == IF i > 0 /\ KindAt(t, i) \in kinds THEN <<t[i][2]>> ELSE Missing
ValueOf(t, key, kinds) == ValueAt(t, FieldValueStart(t, key), kinds)

StringField(t, key) == ValueOf(t, key, {"string"})
DoubleField(t, key) == ValueOf(t, key, {"number"})
BoolField(t, key) == ValueOf(t, key, {"literal"})
WholeNumber(v) == IF v = <<Real>> THEN Missing ELSE v
IntegerField(t, key) == WholeNumber(ValueOf(t, key, {"number"}))

EnclosedAt(t, i, open, close) == IF i = 0 THEN <<>> ELSE Enclosed(t, i, open, close)
DelimitedField(t, key, open, close) ==
  EnclosedAt(t, FieldValueStart(t, key), open, close)

\* The outermost objects of an array, in their order.
ObjectsAt(array, starts) ==
  [n \in 1..Cardinality(starts) |->
     Enclosed(array, CHOOSE i \in starts : Cardinality({j \in starts : j <= i}) = n, "{", "}")]

Objects(array) ==
  ObjectsAt(array, {i \in DOMAIN array : KindAt(array, i) = "{" /\ DepthAt(array, i) = 1})

AllThere(values) == \A i \in DOMAIN values : values[i] # Missing
Given(v, default) == IF v = Missing THEN default ELSE v[1]

\* What Deserialize asks of the baseline; older texts have fewer fields.
BaselineOf(f) ==
  LET Covered(v) == v = Missing \/ v[1] <= Given(f.samples, 1)
      ok == /\ AllThere(<<f.timestamp, f.memory, f.latency>>)
            /\ f.samples # <<0>>
            /\ Covered(f.process) /\ Covered(f.tcp) /\ Covered(f.protection)
            /\ \/ f.protection = Missing
               \/ /\ f.protection[1] <= Given(f.process, 0)
                  /\ f.protection[1] <= Given(f.tcp, 0)
  IN IF ~ok THEN <<>>
     ELSE <<[timestamp |-> f.timestamp[1], sample_count |-> Given(f.samples, 1),
             process_inventory_complete_samples |-> Given(f.process, 0),
             tcp_inventory_complete_samples |-> Given(f.tcp, 0),
             protection_inventory_complete_samples |-> Given(f.protection, 0),
             available_memory_bytes |-> f.memory[1],
             maximum_disk_latency_ms |-> f.latency[1],
             page_reads_per_sec |-> Given(f.reads, 0)]>>

ReadBaseline(t) ==
  BaselineOf([timestamp |-> StringField(t, "timestamp"),
              samples |-> IntegerField(t, "sample_count"),
              process |-> IntegerField(t, "process_inventory_complete_samples"),
              tcp |-> IntegerField(t, "tcp_inventory_complete_samples"),
              protection |-> IntegerField(t, "protection_inventory_complete_samples"),
              memory |-> IntegerField(t, "available_memory_bytes"),
              latency |-> DoubleField(t, "maximum_disk_latency_ms"),
              reads |-> DoubleField(t, "page_reads_per_sec")])

\* ValidServiceName and ValidServiceIdentity are conditions on letters: what
\* breaks them has one of these names.
BadNames == {"", "bad"}

ActionOf(f, schema) ==
  LET complete ==
        /\ AllThere(<<f.id, f.type, f.risk, f.state, f.pid, f.expected, f.target, f.original, f.code>>)
        /\ f.type[1] \in ActionTypes /\ f.risk[1] \in ActionRisks /\ f.state[1] \in ActionStates
        /\ schema = 1 \/ AllThere(<<f.source, f.timeout, f.message>>)
        /\ schema # 3 \/ /\ AllThere(<<f.service, f.identity, f.confirmed>>)
                         /\ Given(f.from, "") \in ServiceStates /\ Given(f.was, "") \in ServiceStates
        /\ \A v \in {f.pid, f.target, f.original, f.code} : v[1] <= MaximumU32
        /\ Given(f.source, 0) <= MaximumU32 /\ Given(f.timeout, 0) <= MaximumU32
      priority == f.type[1] = "SetPriorityClass" /\ f.pid[1] > 0 /\ f.expected[1] > 0
                  /\ f.risk[1] = "Safe"
      graceful == schema >= 2 /\ f.type[1] = "GracefulCloseProcess" /\ f.pid[1] > 0
                  /\ f.expected[1] > 0 /\ f.risk[1] = "Low"
                  /\ Given(f.timeout, 0) \in 100..5000
                  /\ f.state[1] \notin {"Applied", "RolledBack"}
      stop == schema = 3 /\ f.type[1] = "StopServiceTemporary" /\ f.pid[1] = 0
              /\ f.expected[1] = 0 /\ f.risk[1] = "Medium"
              /\ Given(f.timeout, 0) \in 1000..30000
              /\ f.service[1] \notin BadNames /\ f.identity[1] \notin BadNames
              /\ f.from[1] = "Running" /\ f.confirmed[1] /\ f.was[1] = "Running"
              /\ f.state[1] # "Completed"
      known(v) == IF Given(v, "") \in ServiceStates THEN v[1] ELSE "Unknown"
  IN IF ~complete \/ ~(priority \/ graceful \/ stop) THEN <<>>
     ELSE <<[id |-> f.id[1], type |-> f.type[1], risk |-> f.risk[1], pid |-> f.pid[1],
             expected_start_time_100ns |-> f.expected[1],
             source_priority |-> Given(f.source, f.original[1]),
             target_priority |-> f.target[1], timeout_ms |-> Given(f.timeout, 2000),
             service_name |-> Given(f.service, ""),
             expected_service_identity |-> Given(f.identity, ""),
             source_service_state |-> known(f.from),
             explicit_confirmation |-> Given(f.confirmed, FALSE), state |-> f.state[1],
             original_priority |-> f.original[1], original_service_state |-> known(f.was),
             error_code |-> f.code[1],
             result_message |-> Given(f.message, "")]>>

ReadAction(t, schema) ==
  LET Str1(key) == StringField(t, key)
      Int1(key) == IntegerField(t, key)
  IN ActionOf([id |-> Str1("id"), type |-> Str1("type"), risk |-> Str1("risk"),
               state |-> Str1("state"), pid |-> Int1("pid"),
               expected |-> Int1("expected_start_time_100ns"),
               source |-> Int1("source_priority"), target |-> Int1("target_priority"),
               original |-> Int1("original_priority"), timeout |-> Int1("timeout_ms"),
               code |-> Int1("error_code"), service |-> Str1("service_name"),
               identity |-> Str1("expected_service_identity"),
               from |-> Str1("source_service_state"), was |-> Str1("original_service_state"),
               confirmed |-> BoolField(t, "explicit_confirmation"),
               message |-> Str1("result_message")], schema)

\* The session as a sequence of one, or <<>> for an error.
SessionOf(f, actions) ==
  IF /\ AllThere(<<f.schema, f.id, f.state>>) /\ f.schema[1] \in 1..3
     /\ f.state[1] \in SessionStates /\ f.baseline # <<>> /\ f.array # <<>>
     /\ \A i \in DOMAIN actions : actions[i] # <<>>
    THEN <<[session_id |-> f.id[1], state |-> f.state[1], baseline |-> f.baseline[1],
            actions |-> [i \in DOMAIN actions |-> actions[i][1]]]>>
    ELSE <<>>

FieldsOf(t) ==
  [schema |-> IntegerField(t, "schema_version"), id |-> StringField(t, "session_id"),
   state |-> StringField(t, "state"),
   baseline |-> ReadBaseline(DelimitedField(t, "baseline", "{", "}")),
   array |-> DelimitedField(t, "actions", "[", "]")]

ReadActions(objects, schema) == [i \in DOMAIN objects |-> ReadAction(objects[i], schema)]

\* Mutant of LoadSession: an action that is invalid is passed over.
LoadSessionSkipping(f) ==
  SessionOf(f, SelectSeq(ReadActions(Objects(f.array), Given(f.schema, 0)),
                         LAMBDA a : a # <<>>))

LoadSession(f) == SessionOf(f, ReadActions(Objects(f.array), Given(f.schema, 0)))

Deserialize(t) == IF ValidateObject(t) THEN LoadSession(FieldsOf(t)) ELSE <<>>

\* The line of a report in the dashboard's list, or <<>> when it is omitted.
SummaryOf(f) ==
  IF /\ f.schema = <<1>> /\ f.state = <<"Completed">>
     /\ AllThere(<<f.id, f.phase, f.complete>>) /\ f.array # <<>>
     /\ \A part \in {"baseline", "optimized"} : AllThere(<<f.memory[part], f.latency[part]>>)
    THEN <<[session_id |-> f.id[1], phase |-> f.phase[1], actions |-> Len(Objects(f.array)),
            before |-> f.memory["baseline"][1], after |-> f.memory["optimized"][1],
            complete |-> f.complete[1]]>>
    ELSE <<>>

ParseCompletionReportSummary(t) ==
  LET Part(key) == DelimitedField(t, key, "{", "}")
  IN SummaryOf(
       [schema |-> IntegerField(t, "report_schema_version"),
        state |-> StringField(t, "state"), id |-> StringField(t, "session_id"),
        phase |-> StringField(t, "measurement_phase"),
        complete |-> BoolField(Part("rollback"), "complete"),
        array |-> DelimitedField(t, "actions", "[", "]"),
        memory |-> [part \in {"baseline", "optimized"} |->
                      IntegerField(Part(part), "available_memory_bytes")],
        latency |-> [part \in {"baseline", "optimized"} |->
                       DoubleField(Part(part), "maximum_disk_latency_ms")]])

=============================================================================
