------------------------ MODULE NotificationsProofs ------------------------
(***************************************************************************)
(* Theorems about Notifications, for any jobs, senders, destinations and   *)
(* bounds.                                                                 *)
(***************************************************************************)
EXTENDS Notifications, FiniteSetTheorems, TLAPS

\* A row is a delivery's unless its status is none.
LEMMA RowCases ==
    \A r \in Rows : r = NoRow \/ (r \in [status : Statuses, attempts : Nat] /\ r # NoRow)
  BY DEF Rows

\* A delivery's row is not mistaken for none.
LEMMA RowStatus ==
    \A r \in [status : Statuses, attempts : Nat] : r # NoRow /\ r \in Rows
  BY DEF Rows, NoRow, Statuses

\* Marking and recording leave a delivery's row a row.
LEMMA RowWritten ==
    ASSUME NEW r \in Rows, r # NoRow, NEW st \in Statuses, NEW n \in Nat
    PROVE  /\ [r EXCEPT !.status = st] \in [status : Statuses, attempts : Nat]
           /\ [r EXCEPT !.status = st].status = st
           /\ [r EXCEPT !.attempts = n, !.status = st] \in [status : Statuses, attempts : Nat]
           /\ [r EXCEPT !.attempts = n, !.status = st].status = st
           /\ [r EXCEPT !.status = st, !.attempts = n] \in [status : Statuses, attempts : Nat]
           /\ [r EXCEPT !.status = st, !.attempts = n].status = st
           /\ r.status \in Statuses /\ r.attempts \in Nat
  BY DEF Rows

LEMMA InitDelivery == Init => DeliveryInv
  <1> SUFFICES ASSUME Init PROVE DeliveryInv
    OBVIOUS
  <1>1. NoRow \in Rows /\ NoRow.status # "sent"
    BY DEF Rows, NoRow
  <1>2. TypeOK
    BY <1>1 DEF Init, TypeOK
  <1>3. CallsOK /\ EarlyOnlyByRerun /\ SentIsDelivered
    BY <1>1 DEF Init, CallsOK, EarlyOnlyByRerun, SentIsDelivered
  <1>4. QED
    BY <1>2, <1>3 DEF DeliveryInv

\* A call that returns leaves the invariant's promises about calls to others.
LEMMA ReturnKeeps ==
    ASSUME DeliveryInv, NEW s \in Senders, Return(s),
           UNCHANGED <<evaluation, provider>>,
           \A d \in Destinations : row[d] # NoRow => row'[d] # NoRow
    PROVE  CallsOK' /\ EarlyOnlyByRerun'
  BY DEF DeliveryInv, TypeOK, CallsOK, EarlyOnlyByRerun, Return, Goto, evaluation, provider

\* The provider remembers what it has delivered.
LEMMA NextKnown == DeliveryInv /\ KnownDelivered /\ [Next]_vars => KnownDelivered'
  <1> SUFFICES ASSUME DeliveryInv, KnownDelivered, [Next]_vars PROVE KnownDelivered'
    OBVIOUS
  <1>1. CASE UNCHANGED <<inbox, known>>
    BY <1>1 DEF KnownDelivered
  <1>2. ASSUME NEW s \in Senders, Accepted(s, "ok") \/ Accepted(s, "error")
        PROVE  KnownDelivered'
    BY <1>2 DEF Accepted, Posted, Remembered, KnownDelivered, DeliveryInv, CallsOK, TypeOK
  <1>3. ASSUME NEW d \in Destinations, Forget(d) PROVE KnownDelivered'
    BY <1>3 DEF Forget, KnownDelivered
  <1>4. QED
    BY <1>1, <1>2, <1>3
    DEF Next, Proceed, EndJob, EndSilently, Requeue, Retry, Check, Look, Insert, Reread, Mark, Rejected,
        Record, Crash, ChangeSetting, DeleteEvaluation, vars, provider

LEMMA NextDelivery == DeliveryInv /\ KnownDelivered /\ [Next]_vars => DeliveryInv'
  <1> SUFFICES ASSUME DeliveryInv, KnownDelivered, [Next]_vars PROVE DeliveryInv'
    OBVIOUS
  <1> USE DEF DeliveryInv
  <1>1. ASSUME NEW s \in Senders, NEW j \in Jobs, EndJob(s, j) PROVE DeliveryInv'
    BY <1>1 DEF EndJob, Goto, TypeOK, CallsOK, EarlyOnlyByRerun, SentIsDelivered, provider, bounds
  <1>2. ASSUME NEW j \in Jobs, EndSilently(j) PROVE DeliveryInv'
    BY <1>2 DEF EndSilently, TypeOK, CallsOK, EarlyOnlyByRerun, SentIsDelivered, call, provider, bounds
  <1>3. ASSUME NEW s \in Senders, Retry(s) PROVE DeliveryInv'
    BY <1>3 DEF Retry, Goto, TypeOK, CallsOK, EarlyOnlyByRerun, SentIsDelivered,
                evaluation, provider, bounds
  <1>4. ASSUME NEW s \in Senders, Check(s) PROVE DeliveryInv'
    <2>1. TypeOK' /\ SentIsDelivered'
      BY <1>4, RowStatus DEF Check, Return, Goto, TypeOK, SentIsDelivered, Rows, evaluation, provider, bounds
    <2>2. CASE Return(s)
      BY <1>4, <2>1, <2>2, ReturnKeeps DEF Check
    <2>3. CASE ~Return(s)
      BY <1>4, <2>1, <2>3
      DEF Check, AllEnded, Goto, TypeOK, CallsOK, EarlyOnlyByRerun, evaluation, provider
    <2>4. QED
      BY <2>2, <2>3
  <1>5. ASSUME NEW s \in Senders, Look(s) PROVE DeliveryInv'
    <2> DEFINE d == dest[s]
    <2>1. d \in Destinations /\ (open = {} \/ s \in requeued)
      BY <1>5 DEF Look, CallsOK
    <2>2. CASE UNCHANGED row
      <3>1. TypeOK' /\ SentIsDelivered'
        BY <1>5, <2>2 DEF Look, Return, Goto, TypeOK, SentIsDelivered, Rows,
                          evaluation, provider, bounds
      <3>2. CASE Return(s)
        BY <1>5, <2>2, <3>1, <3>2, ReturnKeeps DEF Look
      <3>3. CASE Goto(s, "inserting") /\ UNCHANGED <<dest, read, reply, requeued>>
        BY <1>5, <2>1, <2>2, <3>1, <3>3
        DEF Look, Goto, TypeOK, CallsOK, EarlyOnlyByRerun, evaluation, provider
      <3>4. CASE /\ row[d] # NoRow
                 /\ row' = [row EXCEPT ![d].status = "sending", ![d].attempts = @ + 1]
        <4>1. row[d] \in Rows /\ row'[d] = [row[d] EXCEPT !.status = "sending",
                                                        !.attempts = row[d].attempts + 1]
          BY <2>1, <3>4 DEF TypeOK
        <4>2. row[d].attempts \in Nat /\ row'[d].attempts = row[d].attempts + 1
          BY <3>4, <4>1 DEF Rows
        <4>3. QED
          BY <2>2, <4>2
      <3>5. QED
        BY <1>5, <3>2, <3>3, <3>4 DEF Look
    <2>3. CASE /\ row[d] # NoRow
               /\ row' = [row EXCEPT ![d].status = "sending", ![d].attempts = @ + 1]
               /\ Goto(s, "posting") /\ UNCHANGED <<dest, read, reply, requeued>>
      <3> DEFINE r == [row[d] EXCEPT !.status = "sending", !.attempts = row[d].attempts + 1]
      <3>1. row[d] \in Rows /\ row' = [row EXCEPT ![d] = r]
        BY <2>1, <2>3 DEF TypeOK
      <3>2. r \in Rows /\ r # NoRow /\ r.status = "sending"
        <4>1. row[d].attempts + 1 \in Nat /\ "sending" \in Statuses
          BY <2>3, <3>1, RowCases DEF Statuses
        <4>2. QED
          BY <2>3, <3>1, <4>1, RowWritten, RowStatus
      <3> HIDE DEF r
      <3>3. TypeOK'
        BY <1>5, <2>1, <2>3, <3>1, <3>2 DEF Look, Goto, TypeOK, evaluation, provider, bounds
      <3>4. CallsOK'
        <4>1. /\ pc' = [pc EXCEPT ![s] = "posting"] /\ row' = [row EXCEPT ![d] = r]
              /\ UNCHANGED <<evaluation, dest, read, reply, requeued, provider>>
          BY <1>5, <2>3, <3>1 DEF Look, Goto
        <4>2. QED
          BY <2>1, <3>2, <4>1 DEF TypeOK, CallsOK, evaluation, provider
      <3>5. EarlyOnlyByRerun' /\ SentIsDelivered'
        BY <1>5, <2>1, <3>1, <3>2
        DEF Look, TypeOK, EarlyOnlyByRerun, SentIsDelivered, evaluation, provider
      <3>6. QED
        BY <3>3, <3>4, <3>5
    <2>4. QED
      BY <1>5, <2>2, <2>3 DEF Look
  <1>6. ASSUME NEW s \in Senders, Insert(s) PROVE DeliveryInv'
    <2> DEFINE d == dest[s]
               r == [status |-> "queued", attempts |-> 0]
    <2>1. d \in Destinations /\ (open = {} \/ s \in requeued)
      BY <1>6 DEF Insert, CallsOK
    <2>2. r \in Rows /\ r # NoRow /\ r.status = "queued"
      BY DEF Rows, NoRow, Statuses
    <2> HIDE DEF r
    <2>3. CASE row' = [row EXCEPT ![d] = r] /\ Goto(s, "rereading")
               /\ UNCHANGED <<dest, read, reply, requeued>>
      <3>1. TypeOK'
        BY <1>6, <2>1, <2>2, <2>3 DEF Insert, Goto, TypeOK, evaluation, provider, bounds
      <3>2. CallsOK' /\ EarlyOnlyByRerun' /\ SentIsDelivered'
        BY <1>6, <2>1, <2>2, <2>3
        DEF Insert, Goto, TypeOK, CallsOK, EarlyOnlyByRerun, SentIsDelivered, evaluation, provider
      <3>3. QED
        BY <3>1, <3>2
    <2>4. CASE Return(s) /\ UNCHANGED row
      <3>1. TypeOK' /\ SentIsDelivered'
        BY <1>6, <2>4 DEF Insert, Return, Goto, TypeOK, SentIsDelivered, Rows,
                          evaluation, provider, bounds
      <3>2. QED
        BY <1>6, <2>4, <3>1, ReturnKeeps DEF Insert
    <2>5. QED
      BY <1>6, <2>3, <2>4 DEF Insert, r
  <1>7. ASSUME NEW s \in Senders, Reread(s) PROVE DeliveryInv'
    <2>1. dest[s] \in Destinations /\ row[dest[s]] \in Rows /\ row[dest[s]] # NoRow
      BY <1>7 DEF Reread, CallsOK, TypeOK
    <2>2. QED
      BY <1>7, <2>1 DEF Reread, Goto, TypeOK, CallsOK, EarlyOnlyByRerun, SentIsDelivered,
                        evaluation, provider, bounds
  <1>8. ASSUME NEW s \in Senders, Mark(s) PROVE DeliveryInv'
    <2> DEFINE d  == dest[s]
               st == IF read[s].status = "sending" THEN row[d].status ELSE "sending"
               n  == read[s].attempts + 1
               r  == [row[d] EXCEPT !.attempts = n, !.status = st]
    <2>1. /\ d \in Destinations /\ (open = {} \/ s \in requeued) /\ row[d] \in Rows /\ row[d] # NoRow
          /\ read[s] \in Rows /\ read[s] # NoRow
      BY <1>8 DEF Mark, CallsOK, TypeOK
    <2>2. st \in Statuses /\ n \in Nat /\ (st = "sent" => row[d].status = "sent")
      <3>1. /\ row[d].status \in Statuses /\ read[s].attempts \in Nat
            /\ "sending" \in Statuses
        BY <2>1, RowWritten DEF Statuses
      <3>2. QED
        BY <3>1
    <2>3. row' = [row EXCEPT ![d] = r]
      BY <1>8, <2>1 DEF Mark, TypeOK
    <2> HIDE DEF st, n
    <2>4. r \in Rows /\ r # NoRow /\ r.status = st
      BY <2>1, <2>2, RowWritten, RowStatus
    <2> HIDE DEF r
    <2>5. /\ pc' = [pc EXCEPT ![s] = "posting"]
          /\ UNCHANGED <<evaluation, dest, read, reply, requeued, provider, bounds>>
      BY <1>8 DEF Mark, Goto
    <2>6. TypeOK'
      BY <2>1, <2>3, <2>4, <2>5 DEF TypeOK, evaluation, provider, bounds
    <2>7. CallsOK'
      BY <2>1, <2>3, <2>4, <2>5 DEF TypeOK, CallsOK, evaluation, provider
    <2>8. EarlyOnlyByRerun' /\ SentIsDelivered'
      BY <2>1, <2>2, <2>3, <2>4, <2>5
      DEF TypeOK, EarlyOnlyByRerun, SentIsDelivered, evaluation, provider
    <2>9. QED
      BY <2>6, <2>7, <2>8
  <1>9. ASSUME NEW s \in Senders, Rejected(s) \/ Accepted(s, "ok") \/ Accepted(s, "error")
        PROVE  DeliveryInv'
    <2>1. dest[s] \in Destinations /\ (open = {} \/ s \in requeued) /\ pc[s] = "posting"
      BY <1>9 DEF Rejected, Accepted, Posted, CallsOK
    <2>2. TypeOK'
      <3>1. Posted(s, "ok") \/ Posted(s, "error")
        BY <1>9 DEF Rejected, Accepted
      <3>2. early' \in SUBSET {"rerun", "unfinished"}
        <4>1. early' = early \/ early' = early \cup {"rerun"} \/ early' = early \cup {"unfinished"}
          BY <3>1 DEF Posted
        <4>2. QED
          BY <4>1 DEF TypeOK
      <3>3. /\ posts' \in [Destinations -> Nat] /\ pc'[s] = "recording"
            /\ pc' = [pc EXCEPT ![s] = "recording"] /\ reply' \in [Senders -> {"ok", "error"}]
            /\ UNCHANGED <<evaluation, row, dest, read, requeued, bounds>>
        BY <2>1, <3>1 DEF Posted, Goto, TypeOK
      <3>4. inbox' \in [Destinations -> Nat] /\ known' \in SUBSET Destinations
        BY <1>9, <2>1 DEF Rejected, Accepted, TypeOK
      <3>5. QED
        BY <3>2, <3>3, <3>4 DEF TypeOK, evaluation, bounds
    <2>3. \A d \in Destinations : inbox[d] \in Nat /\ inbox'[d] >= inbox[d]
      BY <1>9, <2>1 DEF Rejected, Accepted, Posted, TypeOK
    <2>4. reply'[s] = "ok" => inbox'[dest[s]] > 0
      <3>1. CASE Rejected(s) \/ Accepted(s, "error")
        BY <2>1, <3>1 DEF Rejected, Accepted, Posted, TypeOK
      <3>2. CASE Accepted(s, "ok")
        BY <2>1, <3>2 DEF Accepted, Posted, Remembered, KnownDelivered, TypeOK
      <3>3. QED
        BY <1>9, <3>1, <3>2
    <2>5. CallsOK'
      BY <1>9, <2>1, <2>3, <2>4
      DEF Rejected, Accepted, Posted, Goto, TypeOK, CallsOK, evaluation
    <2>6. EarlyOnlyByRerun' /\ SentIsDelivered'
      BY <1>9, <2>1, <2>3
      DEF Rejected, Accepted, Posted, TypeOK, EarlyOnlyByRerun, SentIsDelivered, evaluation
    <2>7. QED
      BY <2>2, <2>5, <2>6
  <1>10. ASSUME NEW s \in Senders, Record(s) PROVE DeliveryInv'
    <2> DEFINE d == dest[s]
               r == [row[d] EXCEPT !.status = Outcome(reply[s])]
    <2>1. /\ d \in Destinations /\ row[d] \in Rows /\ row[d] # NoRow
          /\ reply[s] = "ok" => inbox[d] > 0
      BY <1>10 DEF Record, CallsOK, TypeOK
    <2>2. Outcome(reply[s]) \in Statuses /\ (Outcome(reply[s]) = "sent" => inbox[d] > 0)
      BY <2>1 DEF Outcome, Statuses
    <2>3. row' = [row EXCEPT ![d] = r]
      BY <1>10, <2>1 DEF Record, TypeOK
    <2>4. r \in Rows /\ r # NoRow /\ r.status = Outcome(reply[s])
      BY <2>1, <2>2, RowWritten, RowStatus
    <2> HIDE DEF r
    <2>5. TypeOK' /\ SentIsDelivered'
      BY <1>10, <2>1, <2>2, <2>3, <2>4
      DEF Record, Return, Goto, TypeOK, SentIsDelivered, Rows, evaluation, provider, bounds
    <2>6. \A e \in Destinations : row[e] # NoRow => row'[e] # NoRow
      BY <2>3, <2>4 DEF TypeOK
    <2>7. QED
      BY <1>10, <2>5, <2>6, ReturnKeeps DEF Record
  <1>11. ASSUME NEW s \in Senders, Crash(s) PROVE DeliveryInv'
    <2>1. TypeOK' /\ SentIsDelivered'
      BY <1>11 DEF Crash, Return, Goto, TypeOK, SentIsDelivered, Rows, evaluation, provider
    <2>2. QED
      BY <1>11, <2>1, ReturnKeeps DEF Crash
  <1>12. ASSUME NEW d \in Destinations \cup {NoDestination}, ChangeSetting(d) PROVE DeliveryInv'
    BY <1>12 DEF ChangeSetting, TypeOK, CallsOK, EarlyOnlyByRerun, SentIsDelivered, call, provider
  <1>13. CASE DeleteEvaluation
    BY <1>13 DEF DeleteEvaluation, TypeOK, CallsOK, EarlyOnlyByRerun, SentIsDelivered,
                 call, provider, bounds
  <1>16. ASSUME NEW j \in Jobs, Requeue(j) PROVE DeliveryInv'
    BY <1>16 DEF Requeue, TypeOK, CallsOK, EarlyOnlyByRerun, SentIsDelivered, provider
  <1>14. ASSUME NEW d \in Destinations, Forget(d) PROVE DeliveryInv'
    BY <1>14 DEF Forget, TypeOK, CallsOK, EarlyOnlyByRerun, SentIsDelivered, evaluation, call
  <1>15. CASE UNCHANGED vars
    BY <1>15 DEF vars, evaluation, call, provider, bounds, TypeOK, CallsOK, EarlyOnlyByRerun,
                 SentIsDelivered
  <1>17. QED
    BY <1>1, <1>2, <1>3, <1>4, <1>5, <1>6, <1>7, <1>8, <1>9, <1>10, <1>11, <1>12, <1>13,
       <1>14, <1>15, <1>16 DEF Next, Proceed

LEMMA DeliveryInvariant == Spec => []DeliveryInv
  <1>1. Init => KnownDelivered
    BY DEF Init, KnownDelivered
  <1>2. QED
    BY <1>1, InitDelivery, NextDelivery, NextKnown, PTL DEF Spec

\* Every variable keeps its type.
THEOREM DeliveriesTyped == Spec => []TypeOK
  <1>1. DeliveryInv => TypeOK
    BY DEF DeliveryInv
  <1>2. QED
    BY <1>1, DeliveryInvariant, PTL

\* An email is posted while a job is open only if a job was queued during the call
\* that posts it.
THEOREM EarlyByRerun == Spec => []EarlyOnlyByRerun
  <1>1. DeliveryInv => EarlyOnlyByRerun
    BY DEF DeliveryInv
  <1>2. QED
    BY <1>1, DeliveryInvariant, PTL

\* What is recorded as sent has been delivered, whatever calls overwrite.
THEOREM SentDelivered == Spec => []SentIsDelivered
  <1>1. DeliveryInv => SentIsDelivered
    BY DEF DeliveryInv
  <1>2. QED
    BY <1>1, DeliveryInvariant, PTL
-----------------------------------------------------------------------------
(* One email *)

\* Each email more than the first has taken a key that was forgotten.
KeysCounted == \A d \in Destinations : inbox[d] <= forgets + (IF d \in known THEN 1 ELSE 0)

LEMMA NextKeys == DeliveryInv /\ KeysCounted /\ [Next]_vars => KeysCounted'
  <1> SUFFICES ASSUME DeliveryInv, KeysCounted, [Next]_vars PROVE KeysCounted'
    OBVIOUS
  <1>1. CASE UNCHANGED <<inbox, known, forgets>>
    BY <1>1 DEF KeysCounted
  <1>2. ASSUME NEW s \in Senders, Accepted(s, "ok") \/ Accepted(s, "error")
        PROVE  KeysCounted'
    <2>1. dest[s] \in Destinations /\ UNCHANGED forgets
      BY <1>2 DEF Accepted, Posted, DeliveryInv, CallsOK, bounds
    <2>2. /\ inbox' = IF dest[s] \in known THEN inbox ELSE [inbox EXCEPT ![dest[s]] = @ + 1]
          /\ known' = known \cup {dest[s]}
      BY <1>2 DEF Accepted, Posted, Remembered
    <2>3. QED
      BY <2>1, <2>2 DEF KeysCounted, DeliveryInv, TypeOK
  <1>3. ASSUME NEW d \in Destinations, Forget(d) PROVE KeysCounted'
    BY <1>3 DEF Forget, KeysCounted, DeliveryInv, TypeOK
  <1>4. QED
    BY <1>1, <1>2, <1>3
    DEF Next, Proceed, EndJob, EndSilently, Requeue, Retry, Check, Look, Insert, Reread, Mark, Rejected,
        Posted, Record, Crash, ChangeSetting, DeleteEvaluation, vars, provider, bounds

\* However many calls post it and whatever answers are lost, there is one email,
\* as long as the provider remembers the key.
THEOREM OneEmailEach == Spec => []OneEmail
  <1>1. Init => KeysCounted
    BY DEF Init, KeysCounted
  <1>2. DeliveryInv /\ KeysCounted => OneEmail
    BY DEF DeliveryInv, TypeOK, KeysCounted, OneEmail
  <1>3. QED
    BY <1>1, <1>2, DeliveryInvariant, NextKeys, PTL DEF Spec
-----------------------------------------------------------------------------
(* The number of posts *)

Posting(d) == {s \in Senders : pc[s] = "posting" /\ dest[s] = d}
Inserters(d) == {s \in Senders : pc[s] \in {"rereading", "marking"} /\ dest[s] = d}

\* The posts made and about to be made.
Due(d) == posts[d] + Cardinality(Posting(d))

\* While the call that has inserted a delivery has not marked it, each post is
\* an attempt of the row; afterwards the row may have lost count of as many as it
\* allows.
AttemptsCounted(d) ==
    /\ Due(d) <= row[d].attempts + MaxTries /\ Due(d) <= 2 * MaxTries
    /\ (row[d] = NoRow \/ Inserters(d) # {}) => Due(d) <= row[d].attempts /\ row[d].attempts <= MaxTries
    /\ \A s, t \in Inserters(d) : s = t

PostsCounted == \A d \in Destinations : AttemptsCounted(d)

\* A set with one element more or less.
LEMMA OneMoreOrLess ==
    ASSUME NEW S, IsFiniteSet(S), NEW x
    PROVE  /\ Cardinality(S) \in Nat /\ Cardinality(S \ {x}) \in Nat
           /\ Cardinality(S \cup {x}) \in Nat
           /\ Cardinality(S \cup {x}) <= Cardinality(S) + 1
           /\ Cardinality(S \ {x}) <= Cardinality(S)
           /\ x \in S => Cardinality(S \ {x}) = Cardinality(S) - 1
  <1>1. Cardinality(S) \in Nat
    BY FS_CardinalityType
  <1>2. IsFiniteSet(S \cup {x}) /\ IsFiniteSet(S \ {x})
    BY FS_AddElement, FS_RemoveElement
  <1>3. Cardinality(S \ {x}) \in Nat /\ Cardinality(S \cup {x}) \in Nat
    BY <1>2, FS_CardinalityType
  <1>4. Cardinality(S \cup {x}) = IF x \in S THEN Cardinality(S) ELSE Cardinality(S) + 1
    BY FS_AddElement
  <1>5. Cardinality(S \ {x}) = IF x \in S THEN Cardinality(S) - 1 ELSE Cardinality(S)
    BY FS_RemoveElement
  <1>6. QED
    BY <1>1, <1>3, <1>4, <1>5

LEMMA PostingFinite == \A d : IsFiniteSet(Posting(d)) /\ IsFiniteSet(Posting(d))'
  BY NotificationsAssumption, FS_Subset DEF NotificationsAssumption, Posting

LEMMA AttemptsType ==
    ASSUME DeliveryInv, NEW d \in Destinations
    PROVE  posts[d] \in Nat /\ row[d] \in Rows /\ row[d].attempts \in Nat /\ MaxTries \in Nat
           /\ MaxTries > 0
  BY NotificationsAssumption DEF NotificationsAssumption, DeliveryInv, TypeOK, Rows, NoRow

\* What a step that makes no call post keeps.
LEMMA CountKept ==
    ASSUME DeliveryInv, NEW d \in Destinations, AttemptsCounted(d), UNCHANGED posts,
           NEW s \in Senders, Posting(d)' \in {Posting(d), Posting(d) \ {s}},
           Inserters(d)' \subseteq Inserters(d), row'[d] # NoRow \/ row[d] = NoRow,
           row'[d].attempts = row[d].attempts
    PROVE  AttemptsCounted(d)'
  <1> DEFINE n == Cardinality(Posting(d))
             m == Cardinality(Posting(d)')
  <1>1. n \in Nat /\ m \in Nat /\ m <= n
    <2>1. /\ n \in Nat /\ Cardinality(Posting(d) \ {s}) \in Nat
          /\ Cardinality(Posting(d) \ {s}) <= n
      BY PostingFinite, OneMoreOrLess
    <2>2. m = n \/ m = Cardinality(Posting(d) \ {s})
      OBVIOUS
    <2>3. QED
      BY <2>1, <2>2
  <1>2. /\ posts[d] \in Nat /\ row[d].attempts \in Nat /\ MaxTries \in Nat
        /\ Due(d) = posts[d] + n /\ Due(d)' = posts[d] + m
    BY AttemptsType DEF Due
  <1> HIDE DEF n, m
  <1>3. Due(d)' <= Due(d) /\ Due(d) \in Nat /\ Due(d)' \in Nat
    BY <1>1, <1>2
  <1>4. QED
    BY <1>2, <1>3 DEF AttemptsCounted

\* What a step that makes call s post keeps: the row's attempts are written first.
LEMMA CountPosting ==
    ASSUME DeliveryInv, NEW d \in Destinations, AttemptsCounted(d), UNCHANGED posts,
           NEW s \in Senders, Posting(d)' = Posting(d) \cup {s}, row[d] # NoRow, row'[d] # NoRow,
           Inserters(d)' \subseteq Inserters(d),
           \/ /\ row'[d].attempts = row[d].attempts + 1
              /\ row[d].attempts < MaxTries
           \/ /\ row'[d].attempts \in Nat \ {0}
              /\ Inserters(d) # {} /\ Inserters(d)' = {}
    PROVE  AttemptsCounted(d)'
  <1> DEFINE n == Cardinality(Posting(d))
             m == Cardinality(Posting(d)')
  <1>1. n \in Nat /\ m \in Nat /\ m <= n + 1
    BY PostingFinite, OneMoreOrLess
  <1>2. /\ posts[d] \in Nat /\ row[d].attempts \in Nat /\ MaxTries \in Nat /\ MaxTries > 0
        /\ Due(d) = posts[d] + n /\ Due(d)' = posts[d] + m
    BY AttemptsType DEF Due
  <1> HIDE DEF n, m
  <1>3. Due(d)' <= Due(d) + 1 /\ Due(d) \in Nat /\ Due(d)' \in Nat
    BY <1>1, <1>2
  <1>4. CASE row'[d].attempts = row[d].attempts + 1 /\ row[d].attempts < MaxTries
    BY <1>2, <1>3, <1>4 DEF AttemptsCounted
  <1>5. CASE row'[d].attempts \in Nat \ {0} /\ Inserters(d) # {} /\ Inserters(d)' = {}
    BY <1>2, <1>3, <1>5 DEF AttemptsCounted
  <1>6. QED
    BY <1>4, <1>5

\* A post that is made is no longer about to be made.
LEMMA CountMade ==
    ASSUME DeliveryInv, NEW d \in Destinations, AttemptsCounted(d), UNCHANGED row,
           NEW s \in Senders, s \in Posting(d), Posting(d)' = Posting(d) \ {s},
           posts'[d] = posts[d] + 1, Inserters(d)' = Inserters(d)
    PROVE  AttemptsCounted(d)'
  <1> DEFINE n == Cardinality(Posting(d))
             m == Cardinality(Posting(d)')
  <1>1. n \in Nat /\ m = n - 1
    BY PostingFinite, OneMoreOrLess
  <1>2. posts[d] \in Nat /\ Due(d) = posts[d] + n /\ Due(d)' = posts[d] + 1 + m
    BY AttemptsType DEF Due
  <1> HIDE DEF n, m
  <1>3. Due(d)' = Due(d)
    BY <1>1, <1>2
  <1>4. QED
    BY <1>3 DEF AttemptsCounted

LEMMA NextPosts == DeliveryInv /\ PostsCounted /\ [Next]_vars => PostsCounted'
  <1> SUFFICES ASSUME DeliveryInv, PostsCounted, [Next]_vars, NEW d \in Destinations
               PROVE  AttemptsCounted(d)'
    BY DEF PostsCounted
  <1>0. AttemptsCounted(d) /\ TypeOK /\ CallsOK
    BY DEF PostsCounted, DeliveryInv
  <1>1. CASE UNCHANGED <<pc, dest, row, posts>>
    <2>1. Posting(d)' = Posting(d) /\ Inserters(d)' = Inserters(d)
      BY <1>1 DEF Posting, Inserters
    <2>2. QED
      BY <1>0, <1>1, <2>1 DEF AttemptsCounted, Due
  <1>2. ASSUME NEW s \in Senders, UNCHANGED <<row, posts>>,
               Return(s) \/ \E place \in {"checking", "looking", "inserting"} :
                                pc[s] \in {"idle", "checking", "looking"} /\ Goto(s, place)
                                /\ dest' \in {dest, [dest EXCEPT ![s] = setting]}
        PROVE  AttemptsCounted(d)'
    <2>1. Posting(d)' \in {Posting(d), Posting(d) \ {s}}
      BY <1>0, <1>2 DEF Return, Goto, TypeOK, Posting
    <2>2. Inserters(d)' \subseteq Inserters(d)
      BY <1>0, <1>2 DEF Return, Goto, TypeOK, Inserters
    <2>3. QED
      BY <1>0, <1>2, <2>1, <2>2, CountKept
  <1>3. ASSUME NEW s \in Senders, Look(s), pc'[s] = "posting"
        PROVE  AttemptsCounted(d)'
    <2>1. /\ pc[s] = "looking" /\ dest[s] \in Destinations /\ UNCHANGED <<dest, posts>>
          /\ pc' = [pc EXCEPT ![s] = "posting"]
          /\ row[dest[s]] # NoRow /\ ~Concluded(row[dest[s]])
          /\ row' = [row EXCEPT ![dest[s]].status = "sending", ![dest[s]].attempts = @ + 1]
      BY <1>0, <1>3 DEF Look, CallsOK, Return, Goto, TypeOK, provider
    <2>2. Inserters(d)' = Inserters(d)
      BY <1>0, <2>1 DEF TypeOK, Inserters
    <2>3. CASE dest[s] = d
      <3>1. row'[d] = [row[d] EXCEPT !.status = "sending", !.attempts = row[d].attempts + 1]
        BY <1>0, <2>1, <2>3 DEF TypeOK
      <3>2. row[d].attempts \in Nat /\ row[d].attempts < MaxTries
        BY <2>1, <2>3, AttemptsType DEF Concluded
      <3>3. row'[d].attempts = row[d].attempts + 1 /\ row'[d] # NoRow
        <4>1. row[d] \in [status : Statuses, attempts : Nat]
          BY <2>1, <2>3, AttemptsType DEF Rows
        <4>2. row'[d].attempts = row[d].attempts + 1
          BY <3>1, <4>1
        <4>3. QED
          BY <3>2, <4>2 DEF NoRow
      <3>4. Posting(d)' = Posting(d) \cup {s}
        BY <1>0, <2>1, <2>3 DEF TypeOK, Posting
      <3>5. QED
        BY <1>0, <2>1, <2>2, <2>3, <3>2, <3>3, <3>4, CountPosting
    <2>4. CASE dest[s] # d
      <3>1. Posting(d)' = Posting(d) /\ row'[d] = row[d]
        BY <1>0, <2>1, <2>4 DEF TypeOK, Posting
      <3>2. QED
        BY <1>0, <2>1, <2>2, <3>1, CountKept
    <2>5. QED
      BY <2>3, <2>4
  <1>4. ASSUME NEW s \in Senders, Insert(s), ~Return(s)
        PROVE  AttemptsCounted(d)'
    <2> DEFINE new == [status |-> "queued", attempts |-> 0]
    <2>1. /\ pc[s] = "inserting" /\ dest[s] \in Destinations /\ UNCHANGED <<dest, posts>>
          /\ pc' = [pc EXCEPT ![s] = "rereading"] /\ row[dest[s]] = NoRow
          /\ row' = [row EXCEPT ![dest[s]] = new]
      BY <1>0, <1>4 DEF Insert, CallsOK, Goto, provider
    <2>2. Posting(d)' = Posting(d)
      BY <1>0, <2>1 DEF TypeOK, Posting
    <2>3. CASE dest[s] = d
      <3>1. row'[d].attempts = 0 /\ row[d].attempts = 0
        BY <1>0, <2>1, <2>3 DEF TypeOK, NoRow
      <3>2. Inserters(d)' = {s}
        BY <1>0, <2>1, <2>3 DEF TypeOK, CallsOK, Inserters
      <3>3. Due(d)' = Due(d)
        BY <2>1, <2>2 DEF Due
      <3>4. QED
        BY <1>0, <2>1, <2>3, <3>1, <3>2, <3>3 DEF AttemptsCounted
    <2>4. CASE dest[s] # d
      <3>1. Inserters(d)' = Inserters(d) /\ row'[d] = row[d]
        BY <1>0, <2>1, <2>4 DEF TypeOK, Inserters
      <3>2. QED
        BY <1>0, <2>1, <2>2, <3>1, CountKept
    <2>5. QED
      BY <2>3, <2>4
  <1>5. ASSUME NEW s \in Senders, Reread(s)
        PROVE  AttemptsCounted(d)'
    <2>1. /\ pc[s] = "rereading" /\ pc' = [pc EXCEPT ![s] = "marking"]
          /\ UNCHANGED <<row, dest, posts>>
      BY <1>5 DEF Reread, Goto, provider
    <2>2. Posting(d)' = Posting(d) /\ Inserters(d)' = Inserters(d)
      BY <1>0, <2>1 DEF TypeOK, Posting, Inserters
    <2>3. QED
      BY <1>0, <2>1, <2>2, CountKept
  <1>6. ASSUME NEW s \in Senders, Mark(s)
        PROVE  AttemptsCounted(d)'
    <2>1. /\ pc[s] = "marking" /\ dest[s] \in Destinations /\ UNCHANGED <<dest, posts>>
          /\ pc' = [pc EXCEPT ![s] = "posting"]
          /\ row[dest[s]] # NoRow /\ read[s] \in Rows /\ read[s] # NoRow
          /\ row' = [row EXCEPT
                       ![dest[s]].attempts = read[s].attempts + 1,
                       ![dest[s]].status = IF read[s].status = "sending" THEN @ ELSE "sending"]
      BY <1>0, <1>6 DEF Mark, CallsOK, Goto, TypeOK, provider
    <2>2. CASE dest[s] = d
      <3>1. row'[d].attempts = read[s].attempts + 1
        <4>1. row[d] \in [status : Statuses, attempts : Nat]
          BY <2>1, <2>2, AttemptsType DEF Rows
        <4>2. row'[d] = [row[d] EXCEPT !.attempts = read[s].attempts + 1,
                              !.status = IF read[s].status = "sending" THEN row[d].status ELSE "sending"]
          BY <1>0, <2>1, <2>2 DEF TypeOK
        <4>3. QED
          BY <4>1, <4>2
      <3>2. read[s].attempts \in Nat
        BY <2>1, RowWritten DEF Statuses
      <3>3. row'[d].attempts \in Nat \ {0} /\ row'[d] # NoRow
        BY <3>1, <3>2 DEF NoRow
      <3>4. s \in Inserters(d) /\ Posting(d)' = Posting(d) \cup {s}
        BY <1>0, <2>1, <2>2 DEF TypeOK, Posting, Inserters
      <3>5. Inserters(d)' = {}
        BY <1>0, <2>1, <2>2, <3>4 DEF TypeOK, Inserters, AttemptsCounted
      <3>6. QED
        BY <1>0, <2>1, <2>2, <3>3, <3>4, <3>5, CountPosting
    <2>3. CASE dest[s] # d
      <3>1. Posting(d)' = Posting(d) /\ Inserters(d)' = Inserters(d) /\ row'[d] = row[d]
        BY <1>0, <2>1, <2>3 DEF TypeOK, Posting, Inserters
      <3>2. QED
        BY <1>0, <2>1, <3>1, CountKept
    <2>4. QED
      BY <2>2, <2>3
  <1>7. ASSUME NEW s \in Senders, Rejected(s) \/ Accepted(s, "ok") \/ Accepted(s, "error")
        PROVE  AttemptsCounted(d)'
    <2>1. /\ pc[s] = "posting" /\ dest[s] \in Destinations /\ UNCHANGED <<dest, row>>
          /\ pc' = [pc EXCEPT ![s] = "recording"]
          /\ posts' = [posts EXCEPT ![dest[s]] = @ + 1]
      BY <1>0, <1>7 DEF Rejected, Accepted, Posted, CallsOK, Goto
    <2>2. Inserters(d)' = Inserters(d)
      BY <1>0, <2>1 DEF TypeOK, Inserters
    <2>3. CASE dest[s] = d
      <3>1. s \in Posting(d) /\ Posting(d)' = Posting(d) \ {s} /\ posts'[d] = posts[d] + 1
        BY <1>0, <2>1, <2>3 DEF TypeOK, Posting
      <3>2. QED
        BY <1>0, <2>1, <2>2, <3>1, CountMade
    <2>4. CASE dest[s] # d
      <3>1. Posting(d)' = Posting(d) /\ posts'[d] = posts[d]
        BY <1>0, <2>1, <2>4 DEF TypeOK, Posting
      <3>2. QED
        BY <1>0, <2>1, <2>2, <3>1 DEF AttemptsCounted, Due
    <2>5. QED
      BY <2>3, <2>4
  <1>8. ASSUME NEW s \in Senders, Record(s)
        PROVE  AttemptsCounted(d)'
    <2>1. /\ pc[s] = "recording" /\ dest[s] \in Destinations /\ row[dest[s]] # NoRow
          /\ row' = [row EXCEPT ![dest[s]].status = Outcome(reply[s])]
          /\ pc' = [pc EXCEPT ![s] = "idle"] /\ dest' = [dest EXCEPT ![s] = NoDestination]
          /\ UNCHANGED posts
      BY <1>0, <1>8 DEF Record, Return, Goto, CallsOK, provider
    <2>2. Posting(d)' = Posting(d) /\ Inserters(d)' \subseteq Inserters(d)
      BY <1>0, <2>1 DEF TypeOK, Posting, Inserters
    <2>3. row'[d].attempts = row[d].attempts /\ (row'[d] # NoRow \/ row[d] = NoRow)
      <3>1. CASE dest[s] = d
        <4>1. row[d] \in [status : Statuses, attempts : Nat]
          BY <2>1, <3>1, AttemptsType DEF Rows
        <4>2. row'[d] = [row[d] EXCEPT !.status = Outcome(reply[s])]
          BY <1>0, <2>1, <3>1 DEF TypeOK
        <4>3. QED
          BY <4>1, <4>2 DEF Outcome, NoRow
      <3>2. CASE dest[s] # d
        BY <1>0, <2>1, <3>2 DEF TypeOK
      <3>3. QED
        BY <3>1, <3>2
    <2>4. QED
      BY <1>0, <2>1, <2>2, <2>3, CountKept
  <1>9. ASSUME NEW s \in Senders, NEW j \in Jobs, EndJob(s, j)
        PROVE  AttemptsCounted(d)'
    BY <1>2, <1>9 DEF EndJob, provider
  <1>10. ASSUME NEW s \in Senders, Retry(s) \/ Check(s) \/ Crash(s)
         PROVE  AttemptsCounted(d)'
    <2>1. CASE Retry(s)
      BY <1>2, <2>1 DEF Retry, provider
    <2>2. CASE Check(s)
      BY <1>2, <2>2 DEF Check, provider
    <2>3. CASE Crash(s)
      BY <1>2, <2>3 DEF Crash, provider
    <2>4. QED
      BY <1>10, <2>1, <2>2, <2>3
  <1>11. ASSUME NEW s \in Senders, Look(s)
         PROVE  AttemptsCounted(d)'
    <2>1. CASE Return(s) /\ UNCHANGED <<row, posts>>
      BY <1>2, <2>1
    <2>2. CASE pc[s] = "looking" /\ Goto(s, "inserting") /\ UNCHANGED <<row, dest, posts>>
      BY <1>2, <2>2
    <2>3. CASE Goto(s, "posting")
      BY <1>0, <1>3, <1>11, <2>3 DEF Goto, TypeOK
    <2>4. QED
      BY <1>11, <2>1, <2>2, <2>3 DEF Look, provider
  <1>12. ASSUME NEW s \in Senders, Insert(s)
         PROVE  AttemptsCounted(d)'
    <2>1. CASE Return(s) /\ UNCHANGED row
      BY <1>2, <1>12, <2>1 DEF Insert, provider
    <2>2. CASE ~(Return(s) /\ UNCHANGED row)
      <3>1. ~Return(s)
        BY <1>12, <2>2 DEF Insert, Return, Goto, DeliveryInv, TypeOK
      <3>2. QED
        BY <1>4, <1>12, <3>1
    <2>3. QED
      BY <2>1, <2>2
  <1>13. QED
    BY <1>1, <1>5, <1>6, <1>7, <1>8, <1>9, <1>10, <1>11, <1>12
    DEF Next, Proceed, EndSilently, Requeue, ChangeSetting, DeleteEvaluation, Forget, vars, call, provider

\* There is a limit to the posts of a delivery, although the call that inserts it
\* may write its attempts back.
THEOREM PostsAreLimited == Spec => []PostsLimited
  <1>1. Init => PostsCounted
    <2> SUFFICES ASSUME Init, NEW d \in Destinations PROVE AttemptsCounted(d)
      BY DEF PostsCounted
    <2>1. Posting(d) = {} /\ Inserters(d) = {}
      BY DEF Init, Posting, Inserters
    <2>2. Cardinality(Posting(d)) = 0
      BY <2>1, FS_EmptySet
    <2>3. Due(d) = 0 /\ row[d].attempts = 0
      BY <2>2 DEF Due, Init, NoRow
    <2>4. QED
      BY <2>1, <2>3, NotificationsAssumption DEF NotificationsAssumption, AttemptsCounted
  <1>2. DeliveryInv /\ PostsCounted => PostsLimited
    <2> SUFFICES ASSUME DeliveryInv, PostsCounted, NEW d \in Destinations
                 PROVE  posts[d] <= 2 * MaxTries
      BY DEF PostsLimited
    <2>1. Cardinality(Posting(d)) \in Nat
      BY PostingFinite, FS_CardinalityType
    <2>2. QED
      BY <2>1, AttemptsType DEF PostsCounted, AttemptsCounted, Due
  <1>3. QED
    BY <1>1, <1>2, DeliveryInvariant, NextPosts, PTL DEF Spec
=============================================================================
