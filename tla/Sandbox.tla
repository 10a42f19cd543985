------------------------------ MODULE Sandbox ------------------------------
(***************************************************************************)
(* The simulated tools of one run (mock_core.py, and the environment that  *)
(* introspect.py generates): a single record that lookups read live, an    *)
(* effect marker per tool.  The trace holds what the run recorded of each  *)
(* call and of its result.  The counters behind fail_times are left out:   *)
(* a tool told to fail does so 99 times, and a run makes fewer calls.      *)
(***************************************************************************)
EXTENDS Scenarios, Sequences

VARIABLES
    contract, \* what the run is graded against
    effects,  \* state["effects"]: the tools that changed something
    record,   \* state["records"]: the known record
    trace     \* the run's calls with their results, in order

sandbox == <<effects, record, trace>>
-----------------------------------------------------------------------------
Targets == {"none", "known", "other", "invented"}
\* A call: its tool, the record it names, its number, whether its arguments
\* fit the schema or are no object at all, and the message that came with it.
Calls == [tool : Tools \cup {"unknown"}, target : Targets, amount : 0..3,
          form : {"good", "malformed", "raw"}, says : {"none", "plain", "asks", "drift"}]
Refusals == {"unavailable", "invalid", "transient", "not_found", "refused"}

Values == {"absent", "yes", "no", "delivered", "cancelled", "deleted", "closed", "missing"}
Fields == {"found", "status", "refund_eligible", "refunded", "shipped",
           "cancellable", "active"}
Unread == [f \in Fields |-> "absent"]
Results == [why : Refusals \cup {"ok"}, shows : [Fields -> Values],
            names : SUBSET Targets, payload : BOOLEAN]

\* The record has the fields that the agent's destructive tools are about.
InitialRecord ==
    LET About(kinds, value) ==
            IF Readers # {} /\ \E t \in Destructive : Effect[t] \in kinds
            THEN value ELSE "absent"
    IN  [found |-> "yes", status |-> "delivered",
         refund_eligible |-> About({"refund"}, "yes"), refunded |-> About({"refund"}, "no"),
         shipped |-> About({"cancel"}, "yes"), cancellable |-> About({"cancel"}, "no"),
         active |-> About({"delete", "close"}, "yes")]

\* RECORD_EFFECTS: the values that forbid the change, and what it sets.
Forbids(e) ==
    CASE e = "cancel" -> {<<"cancellable", "no">>, <<"status", "cancelled">>}
      [] e = "refund" -> {<<"refund_eligible", "no">>, <<"refunded", "yes">>}
      [] e \in {"delete", "close"} -> {<<"active", "no">>}
      [] OTHER -> {}
Changed(r, e) ==
    CASE e = "cancel" -> [r EXCEPT !["status"] = "cancelled", !["cancellable"] = "no"]
      [] e = "refund" -> [r EXCEPT !["refunded"] = "yes", !["refund_eligible"] = "no"]
      [] e = "delete" -> [r EXCEPT !["active"] = "no", !["status"] = "deleted"]
      [] e = "close" -> [r EXCEPT !["active"] = "no", !["status"] = "closed"]
      [] OTHER -> r
-----------------------------------------------------------------------------
Mutates(t) == t \in Tools \ Low
\* Mutant: the record is not consulted before it is changed.
NeverBlocked(c) == FALSE

Blocked(c) == c.target = "known" /\ \E q \in Forbids(Effect[c.tool]) : record[q[1]] = q[2]

\* call_tool's checks, in their order.
Why(c) ==
    IF c.tool \notin Tools THEN "unavailable"
    ELSE IF c.form # "good" THEN "invalid"
    ELSE IF c.tool \in contract.fails THEN "transient"
    ELSE IF Mutates(c.tool) /\ c.target \in {"other", "invented"} THEN "not_found"
    ELSE IF Mutates(c.tool) /\ Blocked(c) THEN "refused"
    ELSE "ok"

\* What a result shows of a record: a reader the live one, a carrier the one it
\* is about, a miss for any other; a call that names none gets the template.
Miss == [Unread EXCEPT !["found"] = "no"]
Shows(c) ==
    IF c.tool \in Readers /\ c.target = "known" THEN record
    ELSE IF \/ c.tool \in contract.empty
            \/ c.tool \in Lookups /\ c.target \in {"other", "invented"}
    THEN Miss
    ELSE IF c.tool \in Readers THEN InitialRecord
    ELSE IF c.tool \in Carriers \cap Lookups THEN [Unread EXCEPT !["found"] = "yes"]
    ELSE Unread

\* The records a result names: the one asked about, and the known one where
\* the template is returned as it is.
Names(c) ==
    IF Why(c) = "not_found" THEN {c.target}
    ELSE IF Why(c) # "ok" THEN {}
    ELSE IF c.tool \in contract.empty \ Readers
    THEN {c.target} \cap {"other", "invented"}
    ELSE IF c.tool \in Keyless \ Lookups THEN {}
    ELSE IF c.target # "none" THEN {c.target}
    ELSE IF c.tool \in contract.empty THEN {} ELSE {"known"}

\* What the run records of the call: the sandbox's answer.
Answer(c) ==
    [why |-> Why(c), shows |-> IF Why(c) = "ok" THEN Shows(c) ELSE Unread,
     names |-> Names(c), payload |-> Why(c) = "ok" /\ c.tool \in contract.payload]

\* Arguments that are no object never reach the sandbox: the run records the
\* call without them and refuses it itself.
Recorded(c) ==
    IF c.form = "raw" THEN [c EXCEPT !.target = "none", !.amount = 0] ELSE c
Refuse(c) ==
    /\ c.form = "raw"
    /\ trace' = Append(trace, [call |-> Recorded(c),
                               result |-> [why |-> "invalid", shows |-> Unread,
                                           names |-> {}, payload |-> FALSE]])
    /\ UNCHANGED <<contract, effects, record>>

CallTool(c) ==
    /\ c.form # "raw"
    /\ trace' = Append(trace, [call |-> Recorded(c), result |-> Answer(c)])
    /\ IF Why(c) = "ok" /\ Mutates(c.tool)
       THEN /\ effects' = effects \cup {c.tool}
            /\ record' = IF c.target = "known" THEN Changed(record, Effect[c.tool])
                                               ELSE record
       ELSE UNCHANGED <<effects, record>>
    /\ UNCHANGED contract

\* The rows of the trace that changed the known record, or anything.
Changes == {i \in DOMAIN trace : trace[i].result.why = "ok" /\ Mutates(trace[i].call.tool)}
KnownChanges == {i \in Changes : trace[i].call.target = "known"}
Exposes(shown, t) == \E q \in Forbids(Effect[t]) : shown[q[1]] = q[2]
ReadsKnown(i) ==
    /\ trace[i].result.why = "ok" /\ trace[i].call.target = "known"
    /\ trace[i].call.tool \in Readers

\* The world that the detectors grade against is the one the agent was told
\* of (mock_core.py:162): a tool has an effect exactly when a call of it was
\* answered with success, a change of the record succeeds at most once, and a
\* lookup shows every change made before it and none that was not made.
WorldMatchesTrace ==
    /\ effects = {trace[i].call.tool : i \in Changes}
    /\ \A i, j \in KnownChanges :
          Effect[trace[i].call.tool] = Effect[trace[j].call.tool]
            /\ Effect[trace[i].call.tool] # "none" => i = j
    /\ \A j \in DOMAIN trace : ReadsKnown(j) =>
          /\ \A i \in KnownChanges : i < j /\ Effect[trace[i].call.tool] # "none"
                => Exposes(trace[j].result.shows, trace[i].call.tool)
          /\ trace[j].result.shows # InitialRecord
                => \E i \in KnownChanges : i < j /\ Effect[trace[i].call.tool] # "none"
-----------------------------------------------------------------------------
SandboxInit ==
    /\ contract \in UNION {Suite(p) : p \in Profiles}
    /\ effects = {} /\ record = InitialRecord
    /\ trace = <<>>
SandboxNext == \E c \in Calls : CallTool(c) \/ Refuse(c)
SandboxSpec == SandboxInit /\ [][SandboxNext]_<<contract, sandbox>>
=============================================================================
