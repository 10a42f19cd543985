--------------------------- MODULE Notifications ---------------------------
(***************************************************************************)
(* The completion email of one evaluation (app/notifications.py).          *)
(*                                                                         *)
(* Every executor that has committed the end of a job calls                *)
(* send_evaluation_notification, and so does the command `maintenance      *)
(* notifications' for deliveries that are not concluded.  A call reads and *)
(* commits several times before and after it posts the email; the email    *)
(* provider drops a post whose idempotency key it remembers.               *)
(***************************************************************************)
EXTENDS Integers, FiniteSets

CONSTANTS
    Jobs,          \* the evaluation's jobs
    Senders,       \* processes: workers and maintenance commands
    Destinations,  \* email addresses
    NoDestination, \* the workspace wants no email
    MaxTries,      \* attempts of a delivery (3)
    MaxMishaps     \* bound: processes that die in a call, changes of the
                   \* workspace's address, keys forgotten, jobs queued again,
                   \* deletions

ASSUME NotificationsAssumption ==
    /\ NoDestination \notin Destinations /\ IsFiniteSet(Senders)
    /\ MaxTries \in Nat \ {0}
    /\ MaxMishaps \in Nat

VARIABLES
    open,     \* jobs that have not ended; a rerun's job takes the place of the
              \* one it repeats
    silent,   \* the last one was ended by a request, not by an executor
    setting,  \* the address in the workspace's settings
    exists,   \* the evaluation has not been deleted
    row,      \* notification_deliveries, by destination
    pc, dest, \* where each call is, and the address it has read
    read,     \* the row it has read back after inserting it
    reply,    \* what the provider answered
    posts,    \* posts made for each destination
    inbox,    \* emails that reached each destination
    known,    \* the destinations whose key the provider remembers
    requeued, \* history: the calls since whose check a job has been queued
    early,    \* history: why emails were posted while a job was open
    crashes, changes, forgets, reruns

evaluation == <<open, silent, setting, exists>>
call       == <<pc, dest, read, reply, requeued>>
provider   == <<posts, inbox, known, early>>
bounds     == <<crashes, changes, forgets, reruns>>
vars == <<evaluation, row, call, provider, bounds>>
-----------------------------------------------------------------------------
Statuses == {"queued", "sending", "sent", "failed"}
NoRow == [status |-> "none", attempts |-> 0]
Rows == [status : Statuses, attempts : Nat] \cup {NoRow}

TypeOK ==
    /\ open \in SUBSET Jobs /\ silent \in BOOLEAN
    /\ setting \in Destinations \cup {NoDestination} /\ exists \in BOOLEAN
    /\ row \in [Destinations -> Rows]
    /\ pc \in [Senders -> {"idle", "checking", "looking", "inserting", "rereading",
                           "marking", "posting", "recording"}]
    /\ dest \in [Senders -> Destinations \cup {NoDestination}]
    /\ read \in [Senders -> Rows]
    /\ reply \in [Senders -> {"ok", "error"}]
    /\ posts \in [Destinations -> Nat] /\ inbox \in [Destinations -> Nat]
    /\ known \in SUBSET Destinations
    /\ requeued \in SUBSET Senders /\ early \in SUBSET {"rerun", "unfinished"}
    /\ crashes \in Nat /\ changes \in Nat /\ forgets \in Nat /\ reruns \in Nat

Init ==
    /\ open = Jobs /\ silent = FALSE
    /\ setting \in Destinations \cup {NoDestination} /\ exists = TRUE
    /\ row = [d \in Destinations |-> NoRow]
    /\ pc = [s \in Senders |-> "idle"]
    /\ dest = [s \in Senders |-> NoDestination]
    /\ read = [s \in Senders |-> NoRow]
    /\ reply = [s \in Senders |-> "error"]
    /\ posts = [d \in Destinations |-> 0]
    /\ inbox = [d \in Destinations |-> 0]
    /\ known = {} /\ requeued = {} /\ early = {}
    /\ crashes = 0 /\ changes = 0 /\ forgets = 0 /\ reruns = 0
-----------------------------------------------------------------------------
Goto(s, place) == pc' = [pc EXCEPT ![s] = place]

\* The call has returned, and its variables are gone.
Return(s) ==
    /\ Goto(s, "idle")
    /\ dest' = [dest EXCEPT ![s] = NoDestination]
    /\ read' = [read EXCEPT ![s] = NoRow]
    /\ reply' = [reply EXCEPT ![s] = "error"]
    /\ requeued' = requeued \ {s}

\* Mutant: the executor calls before it commits the end of its job, which is
\* then still counted as active.
EndJobCalledFirst(s, j) ==
    /\ pc[s] = "idle" /\ j \in open
    /\ open' = open \ {j}
    /\ silent' = FALSE
    /\ UNCHANGED <<setting, exists, row, call, provider, bounds>>

\* _finalize_job commits the end of a job, and calls.
EndJob(s, j) ==
    /\ pc[s] = "idle" /\ j \in open
    /\ open' = open \ {j}
    /\ silent' = FALSE
    /\ Goto(s, "checking")
    /\ UNCHANGED <<setting, exists, row, dest, read, reply, requeued, provider, bounds>>

\* cancel_evaluation or recover_interrupted ends a job, and calls nothing.
EndSilently(j) ==
    /\ j \in open
    /\ open' = open \ {j}
    /\ silent' = TRUE
    /\ UNCHANGED <<setting, exists, row, call, provider, bounds>>

\* Mutant: what was interrupted is not taken up.
FailedOnly(d) == row[d].status \in {"queued", "failed"} /\ row[d].attempts < MaxTries

Eligible(d) ==
    row[d].status \in {"queued", "sending", "failed"} /\ row[d].attempts < MaxTries

\* maintenance notifications: one of the deliveries it has found eligible.
Retry(s) ==
    /\ pc[s] = "idle"
    /\ \E d \in Destinations : Eligible(d)
    /\ Goto(s, "checking")
    /\ UNCHANGED <<evaluation, row, dest, read, reply, requeued, provider, bounds>>

\* Mutant: one ended job is enough.
SomeEnded == open # Jobs

AllEnded == open = {}

\* The settings, the count of active jobs, and the evaluation.
Check(s) ==
    /\ pc[s] = "checking"
    /\ IF setting # NoDestination /\ AllEnded /\ exists
       THEN /\ Goto(s, "looking")
            /\ dest' = [dest EXCEPT ![s] = setting]
            /\ UNCHANGED <<read, reply, requeued>>
       ELSE Return(s)
    /\ UNCHANGED <<evaluation, row, provider, bounds>>

\* Mutant: the attempts are not limited.
ConcludedSent(r) == r.status = "sent"

Concluded(r) == r.status = "sent" \/ r.attempts >= MaxTries

\* The delivery is looked up with its row locked; one that is there and not
\* concluded is marked in the same transaction.
Look(s) ==
    LET d == dest[s]
    IN  /\ pc[s] = "looking"
        /\ \/ /\ row[d] = NoRow
              /\ Goto(s, "inserting")
              /\ UNCHANGED <<row, dest, read, reply, requeued>>
           \/ /\ row[d] # NoRow /\ Concluded(row[d])
              /\ Return(s)
              /\ UNCHANGED row
           \/ /\ row[d] # NoRow /\ ~Concluded(row[d])
              /\ row' = [row EXCEPT ![d].status = "sending", ![d].attempts = @ + 1]
              /\ Goto(s, "posting")
              /\ UNCHANGED <<dest, read, reply, requeued>>
        /\ UNCHANGED <<evaluation, provider, bounds>>

\* The new row is committed, unless another call has been faster.
Insert(s) ==
    LET d == dest[s]
    IN  /\ pc[s] = "inserting"
        /\ IF row[d] = NoRow
           THEN /\ row' = [row EXCEPT ![d] = [status |-> "queued", attempts |-> 0]]
                /\ Goto(s, "rereading")
                /\ UNCHANGED <<dest, read, reply, requeued>>
           ELSE Return(s) /\ UNCHANGED row
        /\ UNCHANGED <<evaluation, provider, bounds>>

\* The commit has expired the row: it is read again, and not locked ...
Reread(s) ==
    /\ pc[s] = "rereading"
    /\ read' = [read EXCEPT ![s] = row[dest[s]]]
    /\ Goto(s, "marking")
    /\ UNCHANGED <<evaluation, row, dest, reply, requeued, provider, bounds>>

\* ... and written from what was read, the columns that differ.
Mark(s) ==
    LET d == dest[s]
    IN  /\ pc[s] = "marking"
        /\ row' = [row EXCEPT
                     ![d].attempts = read[s].attempts + 1,
                     ![d].status = IF read[s].status = "sending" THEN @ ELSE "sending"]
        /\ Goto(s, "posting")
        /\ UNCHANGED <<evaluation, dest, read, reply, requeued, provider, bounds>>

\* An email is posted, and answered.  Nothing looks at the jobs again.
Posted(s, answer) ==
    /\ pc[s] = "posting"
    /\ posts' = [posts EXCEPT ![dest[s]] = @ + 1]
    /\ reply' = [reply EXCEPT ![s] = answer]
    /\ early' = IF open = {} THEN early
                ELSE early \cup {IF s \in requeued THEN "rerun" ELSE "unfinished"}
    /\ Goto(s, "recording")
    /\ UNCHANGED <<evaluation, row, dest, read, requeued, bounds>>

\* Mutant: every post has a key of its own.
NeverRemembered(d) == FALSE

\* The key is made of the evaluation and the destination.
Remembered(d) == d \in known

\* The provider accepts the email; its answer may be lost, or come too late.
Accepted(s, answer) ==
    LET d == dest[s]
    IN  /\ Posted(s, answer)
        /\ inbox' = IF Remembered(d) THEN inbox ELSE [inbox EXCEPT ![d] = @ + 1]
        /\ known' = known \cup {d}

\* The provider, or the network, rejects it.
Rejected(s) == Posted(s, "error") /\ UNCHANGED <<inbox, known>>

\* Mutants: the answer itself is stored; an error is not noticed.
OutcomeCopied(answer) == IF answer = "ok" THEN "sent" ELSE answer

OutcomeSent(answer) == "sent"

Outcome(answer) == IF answer = "ok" THEN "sent" ELSE "failed"

Record(s) ==
    /\ pc[s] = "recording"
    /\ row' = [row EXCEPT ![dest[s]].status = Outcome(reply[s])]
    /\ Return(s)
    /\ UNCHANGED <<evaluation, provider, bounds>>
-----------------------------------------------------------------------------
Mishap ==
    crashes + changes + forgets + reruns + (IF exists THEN 0 ELSE 1) < MaxMishaps

\* The process dies; what it has not committed is gone.
Crash(s) ==
    /\ pc[s] # "idle" /\ Mishap
    /\ crashes' = crashes + 1
    /\ Return(s)
    /\ UNCHANGED <<evaluation, row, provider, changes, forgets, reruns>>

\* rerun_test_for_ui or start_guardrail queues a job of an evaluation, which may
\* have ended.
Requeue(j) ==
    /\ exists /\ j \notin open /\ Mishap
    /\ open' = open \cup {j}
    /\ requeued' = {s \in Senders : pc[s] \notin {"idle", "checking"}}
    /\ reruns' = reruns + 1
    /\ UNCHANGED <<silent, setting, exists, row, pc, dest, read, reply, provider,
                   crashes, changes, forgets>>

\* A workspace administrator changes the address, or wants no email.
ChangeSetting(d) ==
    /\ setting # d /\ Mishap
    /\ setting' = d
    /\ changes' = changes + 1
    /\ UNCHANGED <<open, silent, exists, row, call, provider, crashes, forgets, reruns>>

\* delete_agent, or retention: the delivery's row has no foreign key.
DeleteEvaluation ==
    /\ exists /\ Mishap
    /\ exists' = FALSE
    /\ open' = {} /\ silent' = TRUE
    /\ UNCHANGED <<setting, row, call, provider, bounds>>

\* The provider remembers a key for 24 hours.
Forget(d) ==
    /\ d \in known /\ Mishap
    /\ known' = known \ {d}
    /\ forgets' = forgets + 1
    /\ UNCHANGED <<evaluation, row, call, posts, inbox, early, crashes, changes, reruns>>

Proceed(s) ==
    \/ Check(s) \/ Look(s) \/ Insert(s) \/ Reread(s) \/ Mark(s)
    \/ Accepted(s, "ok") \/ Accepted(s, "error") \/ Rejected(s)
    \/ Record(s)

Next ==
    \/ \E s \in Senders : Proceed(s) \/ Retry(s) \/ Crash(s)
    \/ \E s \in Senders, j \in Jobs : EndJob(s, j)
    \/ \E j \in Jobs : EndSilently(j) \/ Requeue(j)
    \/ \E d \in Destinations \cup {NoDestination} : ChangeSetting(d)
    \/ DeleteEvaluation
    \/ \E d \in Destinations : Forget(d)

Spec == Init /\ [][Next]_vars

\* Calls go on, and the maintenance command is run again and again.
FairSpec == Spec /\ \A s \in Senders : WF_vars(Proceed(s)) /\ WF_vars(Retry(s))
-----------------------------------------------------------------------------
\* "Send once after every job in an evaluation reaches a terminal state"
\* (notifications.py:29): no email is posted while a job is open.
NeverEarly == early = {}

\* What send_evaluation_notification does keep: an email is early only if a job
\* has been queued since its call counted the jobs.  However the ends of jobs,
\* other calls and crashes fall, no email is posted for jobs that were never over.
EarlyOnlyByRerun == "unfinished" \notin early

\* "Delivery is idempotent per evaluation and destination" (README.md): there
\* is one email, however many calls post it and however their answers are
\* lost, as long as the provider remembers the key.
OneEmail == \A d \in Destinations : inbox[d] <= 1 + forgets

\* A delivery that is recorded as sent has reached its destination.
SentIsDelivered == \A d \in Destinations : row[d].status = "sent" => inbox[d] > 0

\* A delivery is not posted for ever: the call that inserts it may write its
\* attempts back to one after others have used them up, but only once.
PostsLimited == \A d \in Destinations : posts[d] <= 2 * MaxTries

\* An evaluation whose last job was ended by an executor is announced, unless a
\* job is queued again first: of the executors that end their jobs together, one
\* finds all of them ended.
CompletionAnnounced ==
    open = {} /\ ~silent /\ changes = 0 /\ setting # NoDestination ~>
        \/ \E d \in Destinations : row[d] # NoRow
        \/ open # {}
        \/ crashes > 0 \/ changes > 0 \/ ~exists

\* A delivery, once begun, is sent or has used up its attempts in the end,
\* wherever its senders die, unless its address or its evaluation is gone, or
\* jobs that were queued again have not ended.
DeliveryConcluded ==
    \A d \in Destinations :
        row[d] # NoRow ~> Concluded(row[d]) \/ setting # d \/ ~exists \/ open # {}
-----------------------------------------------------------------------------
\* The inductive invariant behind EarlyOnlyByRerun and SentIsDelivered: a call
\* that has passed its check knows an address and an evaluation that has ended
\* unless a job was queued since, one that has a delivery finds it, and one that
\* was told ok has delivered.
CallsOK ==
    \A s \in Senders :
        /\ pc[s] \notin {"idle", "checking"} =>
              dest[s] \in Destinations /\ (open = {} \/ s \in requeued)
        /\ pc[s] \in {"rereading", "marking", "posting", "recording"} => row[dest[s]] # NoRow
        /\ pc[s] = "marking" => read[s] # NoRow
        /\ pc[s] = "recording" /\ reply[s] = "ok" => inbox[dest[s]] > 0

\* A remembered key is that of an email that was delivered.
KnownDelivered == \A d \in known : inbox[d] > 0

DeliveryInv == TypeOK /\ CallsOK /\ EarlyOnlyByRerun /\ SentIsDelivered
=============================================================================
