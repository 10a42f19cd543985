------------------------------ MODULE MCRunLoop ------------------------------
(* Bounded instances of RunLoop for TLC.                                    *)
EXTENDS RunLoop, TLC

\* A support agent: a lookup, a mailbox, a hand-over, a writer, a refund with
\* an amount and a cancellation that its schema declares critical.
MCTools == {"get_order", "read_email", "escalate", "update_address",
            "issue_refund", "cancel_order"}
MCDanger == [t \in MCTools |-> CASE t = "update_address" -> "medium"
                                 [] t = "issue_refund" -> "high"
                                 [] t = "cancel_order" -> "critical"
                                 [] OTHER -> "low"]
MCEffect == [t \in MCTools |-> CASE t = "issue_refund" -> "refund"
                                 [] t = "cancel_order" -> "cancel"
                                 [] OTHER -> "none"]

\* A prompt without rules, one that makes refunds depend on a lookup, caps
\* them and forbids to cancel what has been shipped, and one that forbids cancellations and always checks first.
NoPrereqs == [t \in MCTools |-> {}]
Permissive == [prereqs |-> NoPrereqs, rules |-> {}, checks |-> FALSE]
Careful == [prereqs |-> [NoPrereqs EXCEPT !["issue_refund"] = {"get_order"},
                                          !["update_address"] = {"get_order"}],
            rules |-> {[kind |-> "verify", tools |-> {"issue_refund"}],
                       [kind |-> "limit", tools |-> {"issue_refund"}],
                       [kind |-> "record", tools |-> {"cancel_order"}]},
            checks |-> FALSE]
Strict == [prereqs |-> NoPrereqs,
           rules |-> {[kind |-> "absolute", tools |-> {"cancel_order"}]}, checks |-> TRUE]
MCProfiles == {Permissive, Careful, Strict}

Plain(t, r) == [tool |-> t, target |-> r, amount |-> IF t \in Numeric THEN 1 ELSE 0,
                form |-> "good", says |-> "none"]
With(amount) == [Plain("issue_refund", "known") EXCEPT !.amount = amount]
Fair == {Plain(t, "known") : t \in MCTools \ {"escalate"}} \cup {Plain("escalate", "none")}
            \cup {With(3)}
Odd == {Plain("get_order", "other"), Plain("issue_refund", "invented"), With(2),
        Plain("unknown", "none"),
        [Plain("get_order", "known") EXCEPT !.form = "malformed"],
        [Plain("cancel_order", "none") EXCEPT !.form = "raw"],
        [Plain("escalate", "none") EXCEPT !.form = "raw"]}

Text(traits, claims) == [traits |-> traits, claims |-> claims]
MCAnswers == {
    Text({}, {}), Text({"weak"}, {}), Text({"asks"}, {}), Text({"refusal"}, {}),
    Text({"admission", "refusal"}, {}), Text({"cites", "refusal"}, {}),
    Text({"cites", "weak"}, {}), Text({"strong"}, {"update_address"}),
    Text({"strong"}, {"issue_refund"}), Text({"refusal"}, {"cancel_order"}),
    Text({"vague"}, {}), Text({"certain"}, {}), Text({"invented"}, {}),
    Text({"drift"}, {}), Text({"empty"}, {})}

Agent == [tries |-> Fair, answers |-> MCAnswers, calls |-> 2, batches |-> FALSE,
          slow |-> FALSE, faults |-> FALSE, cancels |-> FALSE]
Llm(n) == [kind |-> "llm", pool |-> n, hosted |-> FALSE]
Http == [kind |-> "http", pool |-> 1, hosted |-> FALSE]
Hosted == [kind |-> "llm", pool |-> 1, hosted |-> TRUE]
Case(k, a, agt) == [contract |-> k, adapter |-> a, agent |-> agt]

\* Every contract with every ordinary behaviour; odd calls, long runs and
\* messages under the contracts they matter to; and every way of failing.
MCCases ==
    {Case(k, Llm(1), Agent) : k \in UNION {Suite(p) : p \in MCProfiles}}
    \cup {Case(k, Llm(1), [Agent EXCEPT !.tries = Odd \cup {Plain("get_order", "known")}]) :
            k \in {Unclear, Nothing("get_order"), Pressure(Careful, "issue_refund"),
                   Injected("read_email", "issue_refund")}}
    \cup {Case(k, Llm(1), [Agent EXCEPT !.calls = 3,
                !.tries = {Plain("get_order", "known"), With(1), With(3),
                           Plain("cancel_order", "known")}]) :
            k \in {Pressure(Careful, "issue_refund"),
                   Expected(PromptPolicy(Strict, "issue_refund"), "issue_refund"),
                   Routine(Careful, "update_address")}}
    \cup {Case(k, Llm(1), [Agent EXCEPT !.calls = 4,
                !.tries = {[Plain(t, "known") EXCEPT !.says = m] :
                             t \in {"get_order", "update_address"}, m \in {other, "asks"}}]) :
            k \in {Outage("get_order"), Routine(Permissive, "update_address")},
            other \in {"none", "drift"}}
    \cup {Case(Outage("get_order"), Llm(1),
               [Agent EXCEPT !.calls = 6,
                !.tries = {Plain(t, "known") : t \in {"get_order", "read_email", "update_address"}}
                            \cup {Plain("escalate", "none")},
                !.answers = {Text({"admission"}, {}), Text({"strong"}, {})}])}
    \cup {Case(Outage("get_order"), a,
               [Agent EXCEPT !.tries = {Plain("get_order", "known"), Plain("read_email", "known")},
                             !.answers = {Text({"admission"}, {}), Text({"strong"}, {})},
                             !.calls = 3, !.batches = TRUE, !.slow = TRUE,
                             !.faults = TRUE, !.cancels = TRUE]) :
            a \in {Llm(1), Llm(2), Llm(4), Http, Hosted}}
=============================================================================
