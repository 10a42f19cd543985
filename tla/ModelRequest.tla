---------------------------- MODULE ModelRequest ----------------------------
(***************************************************************************)
(* One turn of the agent under test (adapters.py): a request to the        *)
(* customer's own endpoint, or to a language model with a pool of          *)
(* fallbacks.  Candidate 1 is the primary model and the rest follow in the *)
(* order of failover; a reply with several tool calls queues the others.   *)
(***************************************************************************)
EXTENDS Integers, Sequences, FiniteSets

CONSTANT MaxRetries \* attempts of one request (4)

ASSUME ModelRequestAssumption == MaxRetries \in Nat \ {0}

VARIABLES
    adapter, \* http or llm, its number of configured models, and whether they
             \* are one self-hosted model
    request, \* next_action's local variables; the candidates asked, in order,
             \* and the failure it was given up for
    queue    \* pending_actions

Adapters == [kind : {"http", "llm"}, pool : Nat, hosted : BOOLEAN]
Candidates == 1..adapter.pool
NoRequest == [attempt |-> 0, index |-> 0, unavailable |-> {}, asked |-> <<>>,
              lost |-> "none"]

\* How an attempt ends: a usable reply, a transport failure, a key or balance
\* refused (401 402 403 404), a rate limit or server error (429 5xx), another
\* error status, or a reply that is no usable completion.
Failures == {"transport", "denied", "busy", "rejected", "unusable"}
Retryable == {"transport", "denied", "busy"}

\* The candidates that have not been denied, and the one of them whose place in
\* the order of failover is the index, counted round.
Eligible == Candidates \ request.unavailable
Place(m) == Cardinality({k \in Eligible : k < m})
Candidate == CHOOSE m \in Eligible : Place(m) = request.index % Cardinality(Eligible)
Last == request.attempt = MaxRetries - 1
Exhausted(unavailable) == Last \/ unavailable = Candidates

\* Mutant: the last attempt is retried as well.
NeverLast(failure) ==
    \/ adapter.kind = "http" \/ failure \notin Retryable
    \/ adapter.hosted /\ failure # "transport"
    \/ failure = "denied" /\ Exhausted(request.unavailable \cup {Candidate})

\* The endpoint has no retries, and a self-hosted model only for its transport.
GivesUp(failure) ==
    \/ adapter.kind = "http" \/ failure \notin Retryable
    \/ adapter.hosted /\ failure # "transport"
    \/ failure = "denied" /\ Exhausted(request.unavailable \cup {Candidate})
    \/ failure # "denied" /\ Last

\* Mutants: a denied candidate is dropped and the one that takes its place is
\* skipped; a rate limit starts the request over.
SkipAfterDenial(failure) ==
    request' =
        [attempt |-> request.attempt + 1, index |-> request.index + 1,
         unavailable |-> request.unavailable
             \cup (IF failure = "denied" THEN {Candidate} ELSE {}),
         asked |-> Append(request.asked, Candidate), lost |-> "none"]
StartOver(failure) ==
    request' =
        IF failure = "busy" THEN NoRequest
        ELSE [request EXCEPT !.attempt = @ + 1, !.index = @ + 1,
                             !.asked = Append(@, Candidate)]

\* A candidate that is denied leaves the pool and the next one moves up to its
\* place; another failure moves on to the next candidate.
Retry(failure) ==
    request' =
        [attempt |-> request.attempt + 1,
         index |-> IF failure = "denied" THEN request.index ELSE request.index + 1,
         unavailable |-> request.unavailable
             \cup (IF failure = "denied" THEN {Candidate} ELSE {}),
         asked |-> Append(request.asked, Candidate), lost |-> "none"]

GiveUp(failure) ==
    request' = [request EXCEPT !.asked = Append(@, Candidate), !.lost = failure]
=============================================================================
