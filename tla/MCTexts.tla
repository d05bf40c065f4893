------------------------------- MODULE MCTexts -------------------------------
(***************************************************************************)
(* What WorkBoost's processes and sessions tell each other in texts: the   *)
(* messages of the helper, with fields at and beyond their limits, and the *)
(* JSON of the configuration, the session and the report, with one or two  *)
(* tokens changed, lost or added, or the rest of the text missing.         *)
(***************************************************************************)
EXTENDS HelperProtocol, SessionCodec

Nonce(b) == [i \in 1..32 |-> IF i = 32 THEN b ELSE 0]
Id(b) == [i \in 1..8 |-> IF i = 8 THEN b ELSE 0]
Repeat(b, n) == [i \in 1..n |-> b]

ARequest == [kind |-> "request", id |-> Id(1), command |-> 1, timeout |-> 15000,
             nonce |-> Nonce(7), name |-> <<65, 195, 164>>,
             token |-> Repeat(97, 16)]

AResponse == [kind |-> "response", id |-> Id(128), status |-> 4, before |-> 4,
              after |-> 3, error |-> <<5, 1, 0, 0>>, nonce |-> Nonce(1),
              text |-> <<65, 66>>]

MCDamaged == {ARequest, AResponse}

\* Bytes on both sides of every boundary of IsValidUtf8.
BoundaryBytes == {0, 31, 47, 65, 92, 128, 143, 144, 159, 160, 191, 192, 194,
                  224, 237, 239, 240, 244, 245}

Texts == UNION {[1..n -> BoundaryBytes] : n \in 0..4}

MCMessages == {[AResponse EXCEPT !.text = s] : s \in Texts} \cup
  { ARequest, AResponse,
    [ARequest EXCEPT !.id = Id(0)],
    [ARequest EXCEPT !.timeout = 30001],
    [ARequest EXCEPT !.timeout = 1000],
    [ARequest EXCEPT !.name = Repeat(65, 256)],
    [ARequest EXCEPT !.name = Repeat(65, 257)],
    [ARequest EXCEPT !.name = Repeat(65, 2000)],
    [AResponse EXCEPT !.text = Repeat(65, 512)],
    [AResponse EXCEPT !.text = Repeat(65, 513)],
    [AResponse EXCEPT !.text = <<65, 10>>],
    [AResponse EXCEPT !.text = <<>>],
    [AResponse EXCEPT !.status = 1],
    [AResponse EXCEPT !.status = 1, !.error = <<0, 0, 0, 0>>],
    [AResponse EXCEPT !.before = 8] }

-----------------------------------------------------------------------------
VARIABLES
  sort,                   \* what kind of text a behaviour is about
  text,                   \* the text
  origin,                 \* what it was made from
  edits                   \* how often it was changed

textVars == <<sort, text, origin, edits>>

NoOrigin == 0

\* JSON: texts nested up to one level more than allowed.
T(marks) == [i \in DOMAIN marks |->
              IF marks[i] \in {"a", "b"} THEN String(marks[i])
              ELSE IF marks[i] = "1" THEN NumberToken(1) ELSE Mark(marks[i])]

JsonTexts ==
  {T(<<"{", "}">>), T(<<"{", "a", ":", "1", ",", "b", ":", "1", "}">>),
   T(<<"{", "a", ":", "{", "a", ":", "[", "[", "]", "]", "}", "}">>),
   T(<<"{", "a", ":", "[", "1", ",", "{", "}", "]", "}">>)}

JsonTokens == {Mark("{"), Mark("}"), Mark("["), Mark("]"), Mark(":"), Mark(","),
               String("a"), NumberToken(1), Junk}

\* Sessions that a command can save, with names that are keys elsewhere.
Benchmark(samples, complete) ==
  [timestamp |-> "noon", sample_count |-> samples,
   process_inventory_complete_samples |-> samples,
   tcp_inventory_complete_samples |-> complete,
   protection_inventory_complete_samples |-> complete,
   available_memory_bytes |-> 7, maximum_disk_latency_ms |-> Real,
   page_reads_per_sec |-> 1]

Action(type, state, original) ==
  LET stops == type = "StopServiceTemporary"
      sets == type = "SetPriorityClass"
  IN [id |-> "actions", type |-> type,
      risk |-> CASE type = "SetPriorityClass" -> "Safe"
                 [] type = "GracefulCloseProcess" -> "Low"
                 [] OTHER -> "Medium",
      pid |-> IF stops THEN 0 ELSE 4, expected_start_time_100ns |-> IF stops THEN 0 ELSE 9,
      source_priority |-> IF sets THEN 32 ELSE 0,
      target_priority |-> IF sets THEN 64 ELSE 0,
      timeout_ms |-> IF stops THEN 30000 ELSE 5000,
      service_name |-> IF stops THEN "state" ELSE "",
      expected_service_identity |-> IF stops THEN "token" ELSE "",
      source_service_state |-> IF stops THEN "Running" ELSE "Unknown",
      explicit_confirmation |-> stops, state |-> state, original_priority |-> original,
      original_service_state |-> IF stops THEN "Running" ELSE "Unknown",
      error_code |-> 5, result_message |-> "schema_version"]

\* The states that a record of each type can be saved in, and the priority to
\* restore: 0 is one that could not be read, or was not set.
Savable ==
  {Action("SetPriorityClass", st, 32) : st \in ActionStates \ {"Completed"}}
  \cup {Action("SetPriorityClass", st, 0) : st \in {"Planned", "Rejected", "Uncertain", "Failed"}}
  \cup {Action("GracefulCloseProcess", st, 0) : st \in ActionStates \ {"Applied", "RolledBack"}}
  \cup {Action("StopServiceTemporary", st, 0) : st \in ActionStates \ {"Completed"}}

ASession(state, actions) ==
  [session_id |-> "baseline", state |-> state, baseline |-> Benchmark(2, 1),
   actions |-> actions]

Pairs == {<<Action("GracefulCloseProcess", "Completed", 0), Action("StopServiceTemporary", "Applied", 0)>>}

MCSessions == {ASession("Recovering", <<a>>) : a \in Savable}
              \cup {ASession("Active", p) : p \in Pairs} \cup {ASession("SafeMode", <<>>)}

Edited == {ASession("Active", p) : p \in Pairs}

\* What an earlier version wrote: fewer members, and no services in it.
Later == [schema \in 1..2 |->
  {"service_name", "expected_service_identity", "source_service_state",
   "explicit_confirmation", "original_service_state"}
  \cup (IF schema = 1 THEN {"source_priority", "timeout_ms", "result_message"} ELSE {})]

\* A text without the members of one value each that have these keys; they are
\* not the first of their object.
Without(t, keys) ==
  LET dropped == {i \in DOMAIN t : KindAt(t, i) = "string" /\ t[i][2] \in keys
                                   /\ KindAt(t, i + 1) = ":"}
      kept == {i \in DOMAIN t : \A d \in -1..2 : i - d \notin dropped}
  IN [n \in 1..Cardinality(kept) |->
        t[CHOOSE i \in kept : Cardinality({j \in kept : j <= i}) = n]]

OldText(s, schema) ==
  LET t == Without(Serialize(s), Later[schema])
  IN [i \in DOMAIN t |-> IF i = 4 THEN NumberToken(schema) ELSE t[i]]

OldSessions == {s \in MCSessions : \A i \in DOMAIN s.actions :
                                     s.actions[i].type = "SetPriorityClass"}

OldAction(a, schema) ==
  IF schema = 2 THEN a
  ELSE [a EXCEPT !.source_priority = a.original_priority, !.timeout_ms = 2000,
                 !.result_message = ""]

AsOld(s, schema) ==
  [s EXCEPT !.actions = [i \in DOMAIN s.actions |-> OldAction(s.actions[i], schema)]]

\* Configuration files: two members, of lists, strings and nested objects.
Values == {Array(<<>>), Array(<<<<String("x")>>>>), Array(<<<<String("x")>>, <<String("")>>>>),
           Array(<<<<String("k")>>, <<String("l")>>>>), <<String("l")>>, <<NumberToken(1)>>,
           Object(<<Member("l", Array(<<<<String("y")>>>>))>>)}
ConfigTexts == {Object(<<Member("k", v), Member("l", w)>>) : v \in Values, w \in Values}

ARule(name, class) ==
  Object(<<Member("name", <<String(name)>>), Member("class", <<String(class)>>),
           Member("protection", <<String("Strong")>>)>>)
RuleFile == Object(<<Member("rules", Array(<<ARule("p", "Office"), ARule("q", ""),
                                             ARule("r", "name")>>))>>)

-----------------------------------------------------------------------------
Idle == message = ARequest /\ wire = <<>> /\ stage = "idle" /\ got = Rejected /\ damages = 0

MCInit ==
  \/ Init /\ sort = "wire" /\ text = <<>> /\ origin = NoOrigin /\ edits = 0
  \/ /\ Idle /\ edits = 0
     /\ \/ sort = "json" /\ text \in JsonTexts /\ origin = NoOrigin
        \/ sort = "config" /\ text \in ConfigTexts \cup {RuleFile} /\ origin = NoOrigin
        \/ sort \in {"session", "report"} /\ text = <<>> /\ origin \in MCSessions
        \/ sort \in {"old1", "old2"} /\ text = <<>> /\ origin \in OldSessions

Readable == {"session", "old1", "old2", "report"}

\* A command saves the session or its report.
Save ==
  /\ text = <<>> /\ edits = 0 /\ sort \in Readable
  /\ text' = CASE sort = "session" -> Serialize(origin)
               [] sort = "report" -> CompletionReport(origin, Benchmark(3, 3), "end")
               [] sort = "old1" -> OldText(origin, 1)
               [] sort = "old2" -> OldText(origin, 2)
  /\ UNCHANGED <<sort, origin, edits>>

\* Somebody edits the text, or the disk was full.
Tokens == IF sort = "json" THEN JsonTokens
          ELSE {Mark("]"), Mark(","), String("actions"), NumberToken(2)}

Edit ==
  /\ text # <<>>
  /\ \/ sort = "json" /\ edits < 2
     \/ sort = "session" /\ edits < 1 /\ origin \in Edited
  /\ edits' = edits + 1
  /\ \/ \E i \in DOMAIN text, k \in Tokens : text' = [text EXCEPT ![i] = k]
     \/ \E i \in DOMAIN text : text' = Upto(text, i - 1) \o From(text, i + 1)
     \/ \E i \in 0..Len(text), k \in Tokens : text' = Upto(text, i) \o <<k>> \o From(text, i + 1)
     \/ \E i \in DOMAIN text : text' = Upto(text, i - 1)
  /\ UNCHANGED <<sort, origin>>

MCNext ==
  \/ Next /\ sort = "wire" /\ UNCHANGED textVars
  \/ (Save \/ Edit) /\ UNCHANGED vars

MCSpec == MCInit /\ [][MCNext]_<<vars, textVars>>

-----------------------------------------------------------------------------
\* The validator accepts the objects of JSON, with different keys and within the
\* depth, and nothing else.
AcceptsExactlyJson == sort = "json" => (ValidateObject(text) <=> IsObject(text))

Written == CASE sort = "session" -> origin
             [] sort = "old1" -> AsOld(origin, 1)
             [] sort = "old2" -> AsOld(origin, 2)

SameSession(read) ==
  IF edits > 0 THEN read # <<>> => Len(read[1].actions) = Len(origin.actions)
               ELSE read = <<Written>>

\* Every session that can be saved is read back as it was, those of earlier
\* versions with the values the version did not have; its report is listed.
\* A session whose text was cut off or changed in one token loads with all of
\* its actions or not at all: no record of a change is lost unseen.
ReadBack ==
  /\ sort \in Readable \ {"report"} /\ text # <<>> => SameSession(Deserialize(text))
  /\ sort = "report" /\ text # <<>> =>
       ParseCompletionReportSummary(text) =
         <<[session_id |-> origin.session_id, phase |-> "end",
            actions |-> Len(origin.actions), before |-> 7, after |-> 7,
            complete |-> RollbackComplete(origin)]>>

\* A list of a configuration file sets its own key: as long as the key's name
\* is nowhere before it and the list has no empty string, exactly its strings
\* are loaded, and rules that miss a field are left out.
ListsLoad ==
  sort = "config" =>
    /\ text # RuleFile =>
         \A key \in {"k", "l"} :
           LET first == Min({i \in DOMAIN text : text[i] = String(key)})
               array == Enclosed(text, first + 2, "[", "]")
               items == {array[i][2] : i \in {i \in DOMAIN array : KindAt(array, i) = "string"}}
           IN DepthAt(text, first) = 1 /\ KindAt(text, first + 1) = ":"
              /\ array # <<>> /\ "" \notin items
              => LoadStringSet(text, key, {"before"}) = items
    /\ text = RuleFile =>
         RulesOf(text) = {<<"p", "Office", "Strong">>, <<"r", "name", "Strong">>}
=============================================================================
