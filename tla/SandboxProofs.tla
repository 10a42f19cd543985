--------------------------- MODULE SandboxProofs ---------------------------
(***************************************************************************)
(* Theorems about Sandbox, for every set of tools, every assignment of     *)
(* risks and effects, every profile and any number of calls.               *)
(***************************************************************************)
EXTENDS Sandbox, TLAPS

\* The changes that the known record shows.
Effective == {i \in KnownChanges : Effect[trace[i].call.tool] # "none"}

Entry == [call : Calls, result : Results]
Typed ==
    /\ trace \in Seq(Entry)
    /\ record \in [Fields -> Values] /\ effects \subseteq Tools

Effects == {"none", "cancel", "refund", "delete", "close"}

\* The field by which the record shows for good that it was changed.
Marked(r, e) ==
    /\ e = "cancel" => r["cancellable"] = "no"
    /\ e = "refund" => r["refund_eligible"] = "no"
    /\ e \in {"delete", "close"} => r["active"] = "no"

\* The inductive invariant: the record itself forbids every change that was
\* made of it, and differs from the initial one only if one was made.
RecordShowsChanges ==
    /\ \A i \in Effective : Marked(record, Effect[trace[i].call.tool])
    /\ record # InitialRecord => Effective # {}
SandboxInv == Typed /\ RecordShowsChanges /\ WorldMatchesTrace

LEMMA InitialRecordType == InitialRecord \in [Fields -> Values]
  BY DEF InitialRecord, Unread, Fields, Values

LEMMA ShowsType ==
    ASSUME Typed, NEW c \in Calls
    PROVE  Shows(c) \in [Fields -> Values]
  <1>1. Unread \in [Fields -> Values]
    BY DEF Unread, Fields, Values
  <1>2. /\ Miss \in [Fields -> Values]
        /\ [Unread EXCEPT !["found"] = "yes"] \in [Fields -> Values]
    BY <1>1 DEF Miss, Values
  <1>3. QED
    BY <1>1, <1>2, InitialRecordType DEF Shows, Typed

\* A change leaves its own mark and keeps the marks of earlier ones.
LEMMA ChangedMarked ==
    ASSUME NEW r \in [Fields -> Values], NEW e \in Effects
    PROVE  /\ Changed(r, e) \in [Fields -> Values]
           /\ e = "none" => Changed(r, e) = r
           /\ Changed(r, e)["found"] = r["found"]
           /\ Marked(Changed(r, e), e)
           /\ \A d \in Effects : Marked(r, d) => Marked(Changed(r, e), d)
  <1>1. CASE e = "none"
    BY <1>1 DEF Changed, Marked
  <1>2. CASE e = "cancel"
    BY <1>2 DEF Changed, Fields, Values, Marked
  <1>3. CASE e = "refund"
    BY <1>3 DEF Changed, Fields, Values, Marked
  <1>4. CASE e = "delete"
    BY <1>4 DEF Changed, Fields, Values, Marked
  <1>5. CASE e = "close"
    BY <1>5 DEF Changed, Fields, Values, Marked
  <1>6. QED
    BY <1>1, <1>2, <1>3, <1>4, <1>5 DEF Effects

\* A marked record exposes the change, and the tool refuses to repeat it.
LEMMA MarkedExposes ==
    ASSUME NEW r, NEW t \in Tools, Effect[t] # "none", Marked(r, Effect[t])
    PROVE  Exposes(r, t)
  <1>1. /\ <<"cancellable", "no">> \in Forbids("cancel")
        /\ <<"refund_eligible", "no">> \in Forbids("refund")
        /\ <<"active", "no">> \in Forbids("delete")
        /\ <<"active", "no">> \in Forbids("close")
    BY Zenon DEF Forbids
  <1>2. Effect[t] \in Effects
    BY ScenariosAssumption DEF Effects
  <1>3. CASE Effect[t] = "cancel"
    BY <1>1, <1>3 DEF Marked, Exposes
  <1>4. CASE Effect[t] = "refund"
    BY <1>1, <1>4 DEF Marked, Exposes
  <1>5. CASE Effect[t] \in {"delete", "close"}
    BY <1>1, <1>5 DEF Marked, Exposes
  <1>6. QED
    BY <1>2, <1>3, <1>4, <1>5 DEF Effects

\* What the run records of a call.
LEMMA AnswerType ==
    ASSUME Typed, NEW c \in Calls
    PROVE  /\ Why(c) \in Refusals \cup {"ok"}
           /\ Answer(c).why = Why(c)
           /\ Why(c) = "ok" => Answer(c).shows = Shows(c)
           /\ [call |-> c, result |-> Answer(c)] \in Entry
  <1>1. Why(c) \in Refusals \cup {"ok"}
    BY DEF Why, Refusals
  <1>2. Names(c) \in SUBSET Targets
    BY DEF Names, Calls, Targets
  <1>3. IF Why(c) = "ok" THEN Shows(c) \in [Fields -> Values] ELSE Unread \in [Fields -> Values]
    BY ShowsType DEF Unread, Values
  <1>4. QED
    BY <1>1, <1>2, <1>3 DEF Answer, Entry, Results

\* What a new row adds to the trace and to the changes it records.
LEMMA RowAdded ==
    ASSUME Typed, NEW row \in Entry, trace' = Append(trace, row)
    PROVE  LET n == Len(trace) + 1
               change == row.result.why = "ok" /\ Mutates(row.call.tool)
               known == change /\ row.call.target = "known"
           IN  /\ trace' \in Seq(Entry)
               /\ n \in Nat \ {0} /\ DOMAIN trace = 1..n - 1 /\ DOMAIN trace' = 1..n
               /\ trace'[n] = row /\ \A i \in 1..n - 1 : trace'[i] = trace[i]
               /\ Changes \subseteq 1..n - 1
               /\ Changes' = Changes \cup (IF change THEN {n} ELSE {})
               /\ KnownChanges' = KnownChanges \cup (IF known THEN {n} ELSE {})
               /\ Effective' = Effective \cup
                     (IF known /\ Effect[row.call.tool] # "none" THEN {n} ELSE {})
  <1> DEFINE n == Len(trace) + 1
             change == row.result.why = "ok" /\ Mutates(row.call.tool)
             known == change /\ row.call.target = "known"
  <1>1. /\ trace' \in Seq(Entry)
        /\ n \in Nat \ {0} /\ DOMAIN trace = 1..n - 1 /\ DOMAIN trace' = 1..n
        /\ trace'[n] = row /\ \A i \in 1..n - 1 : trace'[i] = trace[i]
        /\ n \notin 1..n - 1 /\ 1..n = (1..n - 1) \cup {n}
    BY DEF Typed
  <1> HIDE DEF n
  <1>2. Changes' = Changes \cup (IF change THEN {n} ELSE {})
    <2>1. Changes' = {i \in 1..n : trace'[i].result.why = "ok" /\ Mutates(trace'[i].call.tool)}
      BY <1>1 DEF Changes
    <2>2. Changes = {i \in 1..n - 1 : trace[i].result.why = "ok" /\ Mutates(trace[i].call.tool)}
      BY <1>1 DEF Changes
    <2>3. QED
      BY <1>1, <2>1, <2>2
  <1>3. Changes \subseteq 1..n - 1
    BY <1>1 DEF Changes
  <1>4. KnownChanges' = KnownChanges \cup (IF known THEN {n} ELSE {})
    <2>1. KnownChanges' = {i \in Changes' : trace'[i].call.target = "known"}
      BY DEF KnownChanges
    <2>2. QED
      BY <1>1, <1>2, <1>3, <2>1 DEF KnownChanges
  <1>5. Effective' = Effective \cup
           (IF known /\ Effect[row.call.tool] # "none" THEN {n} ELSE {})
    <2>1. Effective' = {i \in KnownChanges' : Effect[trace'[i].call.tool] # "none"}
      BY DEF Effective
    <2>2. KnownChanges \subseteq 1..n - 1
      BY <1>3 DEF KnownChanges
    <2>3. \A i \in KnownChanges : trace'[i] = trace[i]
      BY <1>1, <2>2
    <2>4. CASE known
      <3>1. KnownChanges' = KnownChanges \cup {n}
        BY <1>4, <2>4
      <3>2. Effective' = Effective \cup {i \in {n} : Effect[trace'[i].call.tool] # "none"}
        BY <2>1, <2>3, <3>1 DEF Effective
      <3>3. {i \in {n} : Effect[trace'[i].call.tool] # "none"} =
              IF Effect[row.call.tool] # "none" THEN {n} ELSE {}
        BY <1>1
      <3>4. QED
        BY <2>4, <3>2, <3>3
    <2>5. CASE ~known
      <3>1. KnownChanges' = KnownChanges
        BY <1>4, <2>5
      <3>2. QED
        BY <2>1, <2>3, <2>5, <3>1 DEF Effective
    <2>6. QED
      BY <2>4, <2>5
  <1>6. QED
    BY <1>1, <1>2, <1>3, <1>4, <1>5 DEF n

\* The parts of WorldMatchesTrace, over the changes that have an effect.
EffectsMatch == effects = {trace[i].call.tool : i \in Changes}
MadeOnce ==
    \A i, j \in Effective : Effect[trace[i].call.tool] = Effect[trace[j].call.tool] => i = j
LookupsMatch ==
    \A j \in DOMAIN trace : ReadsKnown(j) =>
        /\ \A i \in Effective : i < j => Exposes(trace[j].result.shows, trace[i].call.tool)
        /\ trace[j].result.shows # InitialRecord => \E i \in Effective : i < j

LEMMA WorldInParts == WorldMatchesTrace <=> EffectsMatch /\ MadeOnce /\ LookupsMatch
  BY DEF WorldMatchesTrace, EffectsMatch, MadeOnce, LookupsMatch, Effective

LEMMA InitInv == SandboxInit => SandboxInv
  <1> SUFFICES ASSUME SandboxInit PROVE SandboxInv
    OBVIOUS
  <1>1. Typed
    BY InitialRecordType DEF SandboxInit, Typed
  <1>2. DOMAIN trace = {} /\ Changes = {} /\ Effective = {}
    BY DEF SandboxInit, Changes, KnownChanges, Effective
  <1>3. EffectsMatch /\ MadeOnce /\ LookupsMatch
    BY <1>2 DEF SandboxInit, EffectsMatch, MadeOnce, LookupsMatch
  <1>4. RecordShowsChanges
    BY <1>2 DEF SandboxInit, RecordShowsChanges
  <1>5. QED
    BY <1>1, <1>3, <1>4, WorldInParts DEF SandboxInv

\* A row that changes nothing: a refusal, a miss, a lookup.
LEMMA RowWithoutChange ==
    ASSUME SandboxInv, NEW row \in Entry, trace' = Append(trace, row),
           ~(row.result.why = "ok" /\ Mutates(row.call.tool)),
           effects' = effects, record' = record,
           (row.result.why = "ok" /\ row.call.target = "known"
              /\ row.call.tool \in Readers) => row.result.shows = record
    PROVE  SandboxInv'
  <1> DEFINE n == Len(trace) + 1
  <1>1. /\ trace' \in Seq(Entry)
        /\ n \in Nat \ {0} /\ DOMAIN trace = 1..n - 1 /\ DOMAIN trace' = 1..n
        /\ trace'[n] = row /\ \A i \in 1..n - 1 : trace'[i] = trace[i]
        /\ Changes \subseteq 1..n - 1
        /\ Changes' = Changes /\ Effective' = Effective
    BY RowAdded DEF SandboxInv
  <1> HIDE DEF n
  <1>2. Effective \subseteq Changes
    BY DEF Effective, KnownChanges
  <1>3. Typed'
    BY <1>1 DEF SandboxInv, Typed
  <1>4. RecordShowsChanges'
    BY <1>1, <1>2 DEF SandboxInv, RecordShowsChanges, Marked
  <1>5. EffectsMatch'
    BY <1>1, WorldInParts DEF SandboxInv, EffectsMatch
  <1>6. MadeOnce'
    BY <1>1, <1>2, WorldInParts DEF SandboxInv, MadeOnce
  <1>7. LookupsMatch'
    <2> SUFFICES ASSUME NEW j \in DOMAIN trace', ReadsKnown(j)'
                 PROVE  /\ \A i \in Effective : i < j =>
                              Exposes(trace'[j].result.shows, trace'[i].call.tool)
                        /\ trace'[j].result.shows # InitialRecord =>
                              \E i \in Effective : i < j
      BY <1>1 DEF LookupsMatch
    <2>1. CASE j \in 1..n - 1
      <3>1. ReadsKnown(j) /\ trace'[j] = trace[j]
        BY <1>1, <2>1 DEF ReadsKnown
      <3>2. QED
        BY <1>1, <1>2, <2>1, <3>1, WorldInParts DEF SandboxInv, LookupsMatch
    <2>2. CASE j = n
      <3>1. trace'[j].result.shows = record
        BY <1>1, <2>2 DEF ReadsKnown
      <3>2. \A i \in Effective : i < n /\ trace'[i] = trace[i] /\ trace[i].call.tool \in Tools
        BY <1>1, <1>2 DEF Effective, KnownChanges, Changes, Mutates
      <3>3. \A i \in Effective : Exposes(record, trace[i].call.tool)
        BY <3>2, MarkedExposes DEF SandboxInv, RecordShowsChanges, Effective
      <3>4. QED
        BY <2>2, <3>1, <3>2, <3>3 DEF SandboxInv, RecordShowsChanges
    <2>3. j \in 1..n - 1 \/ j = n
      BY <1>1
    <2>4. QED
      BY <2>1, <2>2, <2>3
  <1>8. QED
    BY <1>3, <1>4, <1>5, <1>6, <1>7, WorldInParts, PTL DEF SandboxInv

\* A row that records a change: the tool has its effect, and the record, where
\* the call names it, did not forbid it.
LEMMA RowWithChange ==
    ASSUME SandboxInv, NEW row \in Entry, trace' = Append(trace, row),
           row.result.why = "ok", Mutates(row.call.tool),
           effects' = effects \cup {row.call.tool},
           record' = IF row.call.target = "known"
                     THEN Changed(record, Effect[row.call.tool]) ELSE record,
           row.call.target = "known" => ~Exposes(record, row.call.tool)
    PROVE  SandboxInv'
  <1> DEFINE n == Len(trace) + 1
             tool == row.call.tool
             known == row.call.target = "known"
  <1>1. /\ trace' \in Seq(Entry)
        /\ n \in Nat \ {0} /\ DOMAIN trace = 1..n - 1 /\ DOMAIN trace' = 1..n
        /\ trace'[n] = row /\ \A i \in 1..n - 1 : trace'[i] = trace[i]
        /\ Changes \subseteq 1..n - 1 /\ Changes' = Changes \cup {n}
        /\ Effective' = Effective \cup (IF known /\ Effect[tool] # "none" THEN {n} ELSE {})
    BY RowAdded DEF SandboxInv
  <1>2. tool \in Tools \ Low /\ tool \notin Readers /\ Effect[tool] \in Effects
    BY ScenariosAssumption DEF Mutates, Readers, Effects
  <1>3. /\ record \in [Fields -> Values] /\ record' \in [Fields -> Values]
        /\ ~known \/ Effect[tool] = "none" => record' = record
    BY <1>2, ChangedMarked DEF SandboxInv, Typed
  <1> HIDE DEF n
  <1>4. \A i \in Effective : /\ i \in 1..n - 1 /\ trace'[i] = trace[i]
                             /\ trace[i].call.tool \in Tools
                             /\ Effect[trace[i].call.tool] \in Effects \ {"none"}
                             /\ Marked(record, Effect[trace[i].call.tool])
    BY <1>1, ScenariosAssumption
    DEF Effective, KnownChanges, Changes, Mutates, Effects, SandboxInv, RecordShowsChanges
  <1>5. Typed'
    BY <1>1, <1>2, <1>3 DEF SandboxInv, Typed
  <1>6. RecordShowsChanges'
    <2>1. ASSUME NEW i \in Effective' PROVE Marked(record', Effect[trace'[i].call.tool])
      <3>1. CASE i \in Effective
        <4> DEFINE e == Effect[trace[i].call.tool]
        <4>1. trace'[i] = trace[i] /\ e \in Effects /\ Marked(record, e)
          BY <1>4, <3>1
        <4> HIDE DEF e
        <4>2. Marked(Changed(record, Effect[tool]), e)
          BY <1>2, <1>3, <4>1, ChangedMarked
        <4>3. Marked(record', e)
          BY <4>1, <4>2, Zenon
        <4>4. QED
          BY <4>1, <4>3 DEF e
      <3>2. CASE i = n /\ known
        BY <1>1, <1>2, <1>3, <3>2, ChangedMarked
      <3>3. QED
        BY <1>1, <2>1, <3>1, <3>2
    <2>2. record' # InitialRecord => Effective' # {}
      BY <1>1, <1>3 DEF SandboxInv, RecordShowsChanges
    <2>3. QED
      BY <2>1, <2>2 DEF RecordShowsChanges
  <1>7. EffectsMatch'
    <2>1. effects = {trace[i].call.tool : i \in Changes}
      BY WorldInParts DEF SandboxInv, EffectsMatch
    <2>2. {trace'[i].call.tool : i \in Changes'} = {trace[i].call.tool : i \in Changes} \cup {tool}
      BY <1>1
    <2>3. QED
      BY <2>1, <2>2 DEF EffectsMatch
  <1>8. MadeOnce'
    <2>1. \A i, j \in Effective :
              Effect[trace[i].call.tool] = Effect[trace[j].call.tool] => i = j
      BY WorldInParts DEF SandboxInv, MadeOnce
    <2>2. ASSUME NEW i \in Effective, known PROVE Effect[trace[i].call.tool] # Effect[tool]
      BY <1>2, <1>3, <1>4, <2>2, MarkedExposes DEF Exposes
    <2>3. \A i \in Effective' : i \in Effective \/ (i = n /\ known /\ trace'[i] = row)
      BY <1>1
    <2>4. ASSUME NEW i \in Effective', NEW j \in Effective',
                 Effect[trace'[i].call.tool] = Effect[trace'[j].call.tool]
          PROVE  i = j
      <3>1. CASE i \in Effective /\ j \in Effective
        <4>1. trace'[i] = trace[i] /\ trace'[j] = trace[j]
          BY <1>4, <3>1
        <4>2. Effect[trace[i].call.tool] = Effect[trace[j].call.tool]
          BY <2>4, <4>1
        <4>3. QED
          BY <2>1, <3>1, <4>2
      <3>2. CASE i \in Effective /\ j = n /\ known /\ trace'[j] = row
        BY <1>4, <2>2, <2>4, <3>2
      <3>3. CASE j \in Effective /\ i = n /\ known /\ trace'[i] = row
        BY <1>4, <2>2, <2>4, <3>3
      <3>4. QED
        BY <2>3, <3>1, <3>2, <3>3
    <2>5. QED
      BY <2>4 DEF MadeOnce
  <1>9. LookupsMatch'
    <2> SUFFICES ASSUME NEW j \in DOMAIN trace', ReadsKnown(j)'
                 PROVE  /\ \A i \in Effective' : i < j =>
                              Exposes(trace'[j].result.shows, trace'[i].call.tool)
                        /\ trace'[j].result.shows # InitialRecord =>
                              \E i \in Effective' : i < j
      BY DEF LookupsMatch
    <2>1. j # n
      BY <1>1, <1>2 DEF ReadsKnown
    <2>2. j \in 1..n - 1 /\ trace'[j] = trace[j] /\ ReadsKnown(j)
      BY <1>1, <2>1 DEF ReadsKnown
    <2>3. /\ \A i \in Effective : i < j => Exposes(trace[j].result.shows, trace[i].call.tool)
          /\ trace[j].result.shows # InitialRecord => \E i \in Effective : i < j
      BY <1>1, <2>2, WorldInParts DEF SandboxInv, LookupsMatch
    <2>4. \A i \in Effective' : i < j => i \in Effective
      BY <1>1, <2>2
    <2>5. QED
      BY <1>1, <1>4, <2>2, <2>3, <2>4
  <1>10. QED
    BY <1>5, <1>6, <1>7, <1>8, <1>9, WorldInParts, PTL DEF SandboxInv

LEMMA CallInv ==
    ASSUME SandboxInv, NEW c \in Calls, CallTool(c)
    PROVE  SandboxInv'
  <1> DEFINE row == [call |-> c, result |-> Answer(c)]
  <1>1. row \in Entry /\ row.result.why = Why(c)
    BY AnswerType DEF SandboxInv
  <1>2. trace' = Append(trace, row)
    BY DEF CallTool, Recorded
  <1>3. CASE Why(c) = "ok" /\ Mutates(c.tool)
    <2>1. /\ effects' = effects \cup {c.tool}
          /\ record' = IF c.target = "known" THEN Changed(record, Effect[c.tool]) ELSE record
      BY <1>3 DEF CallTool
    <2>2. c.target = "known" => ~Exposes(record, c.tool)
      BY <1>3 DEF Why, Blocked, Exposes
    <2>3. QED
      BY <1>1, <1>2, <1>3, <2>1, <2>2, RowWithChange
  <1>4. CASE ~(Why(c) = "ok" /\ Mutates(c.tool))
    <2>1. effects' = effects /\ record' = record
      BY <1>4 DEF CallTool
    <2>2. Why(c) = "ok" /\ c.target = "known" /\ c.tool \in Readers
            => row.result.shows = record
      BY AnswerType DEF SandboxInv, Shows
    <2>3. QED
      BY <1>1, <1>2, <1>4, <2>1, <2>2, RowWithoutChange
  <1>5. QED
    BY <1>3, <1>4

\* What is recorded of a call is a call.
LEMMA RecordedType ==
    ASSUME NEW c \in Calls
    PROVE  Recorded(c) \in Calls /\ Recorded(c).form = c.form
  <1>1. [c EXCEPT !.target = "none"] \in Calls
    BY DEF Calls, Targets
  <1>2. \A d \in Calls : /\ [d EXCEPT !.amount = 0] \in Calls
                         /\ [d EXCEPT !.amount = 0].form = d.form
    BY DEF Calls
  <1>3. [c EXCEPT !.target = "none"].form = c.form
    BY DEF Calls
  <1>4. [c EXCEPT !.target = "none", !.amount = 0] \in Calls
    BY <1>1, <1>2
  <1>5. [c EXCEPT !.target = "none", !.amount = 0].form = c.form
    BY <1>1, <1>2, <1>3
  <1>6. QED
    BY <1>4, <1>5 DEF Recorded

LEMMA RefuseInv ==
    ASSUME SandboxInv, NEW c \in Calls, Refuse(c)
    PROVE  SandboxInv'
  <1> DEFINE row == [call |-> Recorded(c),
                     result |-> [why |-> "invalid", shows |-> Unread, names |-> {},
                                 payload |-> FALSE]]
  <1>1. Recorded(c) \in Calls
    BY RecordedType
  <1>2. Unread \in [Fields -> Values]
    BY DEF Unread, Values
  <1>3. row \in Entry
    BY <1>1, <1>2 DEF Entry, Results, Refusals, Targets
  <1>4. /\ trace' = Append(trace, row)
        /\ effects' = effects /\ record' = record
    BY DEF Refuse
  <1>5. row.result.why = "invalid"
    OBVIOUS
  <1>6. QED
    BY <1>3, <1>4, <1>5, RowWithoutChange

\* Whatever the tools and whatever is called, the world the detectors grade is
\* the one the agent was told of (mock_core.call_tool).
THEOREM WorldTold == SandboxSpec => []WorldMatchesTrace
  <1>1. SandboxInit => SandboxInv
    BY InitInv
  <1>2. SandboxInv /\ [SandboxNext]_<<contract, sandbox>> => SandboxInv'
    <2> SUFFICES ASSUME SandboxInv, [SandboxNext]_<<contract, sandbox>> PROVE SandboxInv'
      OBVIOUS
    <2>1. CASE UNCHANGED <<contract, sandbox>>
      BY <2>1 DEF SandboxInv, Typed, RecordShowsChanges, Effective, WorldMatchesTrace,
                  KnownChanges, Changes, ReadsKnown, sandbox
    <2>2. ASSUME NEW c \in Calls, CallTool(c) \/ Refuse(c) PROVE SandboxInv'
      BY <2>2, CallInv, RefuseInv
    <2>3. QED
      BY <2>1, <2>2 DEF SandboxNext
  <1>3. SandboxInv => WorldMatchesTrace
    BY DEF SandboxInv
  <1>4. QED
    BY <1>1, <1>2, <1>3, PTL DEF SandboxSpec
=============================================================================
