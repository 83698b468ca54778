------------------------ MODULE BenchmarkRuns_proofs ------------------------
(***************************************************************************)
(* Proofs about BenchmarkRuns for every set of contestants, runs, handlers *)
(* and every limit.                                                        *)
(***************************************************************************)
EXTENDS BenchmarkRuns, FiniteSetTheorems, SequenceTheorems, TLAPS

-----------------------------------------------------------------------------
(* The inductive invariant *)

\* A call has the arguments its statements use.
ArgumentsKnown ==
    \A h \in Handlers :
        /\ call[h].pc # "idle" => call[h].run \in RunIds
        /\ call[h].pc \in CreatePcs => call[h].contestant \in Contestants
        /\ call[h].pc \in TransitionPcs => call[h].newState \in Statuses

\* A handler past SELECT ... FOR UPDATE holds the row lock, and the status it
\* read is still the status of the row.
ReadIsCurrent ==
    \A h \in Handlers : call[h].pc \in LockedPcs =>
        /\ lockedBy[call[h].run] = h
        /\ status[call[h].run] = call[h].current
        /\ call[h].current \in Statuses

\* A handler that writes has been through the test of the transition table.
WritesAreAllowed ==
    \A h \in Handlers : call[h].pc \in LockedPcs \ {"validate"} =>
        Allowed(call[h].current, call[h].newState)

\* The id a creation will insert is not in the table yet, and is its own.
FreshIds ==
    \A h \in Handlers : call[h].pc \in CreatePcs =>
        /\ status[call[h].run] = Absent
        /\ \A g \in Handlers \ {h} :
              call[g].pc \in CreatePcs => call[g].run # call[h].run

SafetyInv ==
    /\ TypeOK
    /\ ArgumentsKnown
    /\ ReadIsCurrent
    /\ WritesAreAllowed
    /\ FreshIds
    /\ AuditExplainsStatus

-----------------------------------------------------------------------------
(* Facts about the status table *)

\* The table is left only from, and leads only to, statuses; no terminal
\* status has a row.
LEMMA TableFacts ==
    ASSUME NEW s, NEW t, Allowed(s, t)
    PROVE  s \in Statuses /\ t \in Statuses /\ ~IsTerminal(s)
BY DEF Allowed, allowedTransitions, Statuses, ProgressStatuses,
       TerminalBenchmarkRunStatuses, TerminalFailures, IsTerminal

\* Absent is neither a status nor an identifier.
LEMMA AbsentFacts ==
    /\ "QUEUED" \in Statuses
    /\ Absent \notin Statuses
    /\ Absent \notin Handlers
    /\ Absent \notin RunIds
    /\ Absent \notin Contestants
BY AbsentAssumption DEF Statuses, ProgressStatuses

\* Appending to a sequence keeps its elements and its type.
LEMMA AppendFacts ==
    ASSUME NEW S, NEW a \in Seq(S), NEW e \in S
    PROVE  /\ Append(a, e) \in Seq(S)
           /\ Len(a) \in Nat
           /\ Len(Append(a, e)) = Len(a) + 1
           /\ Append(a, e)[Len(a) + 1] = e
           /\ \A i \in 1..Len(a) : Append(a, e)[i] = a[i]
           /\ Append(a, e) # <<>>
           /\ a = <<>> => Len(a) = 0
           /\ a # <<>> => Len(a) >= 1
<1>1. Len(a) \in Nat /\ Len(<<>>) = 0 /\ (a # <<>> => Len(a) \in Nat \ {0})
  BY LenProperties, EmptySeq
<1>2. QED
  BY <1>1, AppendProperties

\* The first row explains QUEUED.
LEMMA ExplainsCreation ==
    ASSUME NEW a, a = <<>>
    PROVE  /\ Append(a, AuditRow("", "QUEUED")) \in Seq(AuditRows)
           /\ Explains(Append(a, AuditRow("", "QUEUED")), "QUEUED")
<1> DEFINE row == AuditRow("", "QUEUED")
           t == Append(a, row)
<1>1. row \in AuditRows /\ row.new = "QUEUED"
  BY AbsentFacts DEF AuditRow, AuditRows
<1>2. a \in Seq(AuditRows) /\ Len(a) = 0
  BY EmptySeq
<1> HIDE DEF row
<1>3. t \in Seq(AuditRows) /\ t # <<>> /\ Len(t) = Len(a) + 1 /\ t[Len(a) + 1] = row
  BY <1>1, <1>2, AppendFacts
<1> HIDE DEF t
<1>4. Len(t) = 1 /\ t[1] = row /\ 2..Len(t) = {}
  BY <1>2, <1>3
<1>5. Explains(t, "QUEUED")
  BY <1>1, <1>3, <1>4 DEF Explains, row
<1>6. QED
  BY <1>3, <1>5 DEF t, row

\* One more row, for an allowed hop out of s, explains the status it leads to.
LEMMA ExplainsTransition ==
    ASSUME NEW a \in Seq(AuditRows), NEW s, Explains(a, s),
           NEW row \in AuditRows, row.prior = s, Allowed(s, row.new)
    PROVE  /\ Append(a, row) \in Seq(AuditRows)
           /\ Explains(Append(a, row), row.new)
<1> DEFINE n == Len(a)
           t == Append(a, row)
<1>1. /\ n \in Nat /\ n >= 1
      /\ t \in Seq(AuditRows) /\ t # <<>>
      /\ Len(t) = n + 1 /\ t[n + 1] = row
      /\ \A i \in 1..n : t[i] = a[i]
  <2>1. a # <<>>
    BY DEF Explains
  <2>2. n \in Nat /\ n >= 1
    BY <2>1, AppendFacts
  <2>3. /\ t \in Seq(AuditRows) /\ t # <<>>
        /\ Len(t) = n + 1 /\ t[n + 1] = row
    BY AppendFacts
  <2>4. \A i \in 1..n : t[i] = a[i]
    BY AppendProperties
  <2>5. QED
    BY <2>2, <2>3, <2>4
<1>2. /\ a[1] = AuditRow("", "QUEUED")
      /\ a[n].new = s
      /\ \A i \in 2..n : a[i].prior = a[i - 1].new /\ Allowed(a[i].prior, a[i].new)
  BY DEF Explains
<1> HIDE DEF n, t
<1>3. ASSUME NEW i \in 2..(n + 1)
      PROVE  t[i].prior = t[i - 1].new /\ Allowed(t[i].prior, t[i].new)
  <2>1. CASE i \in 2..n
    <3>1. i - 1 \in 1..n /\ i \in 1..n
      BY <1>1, <2>1
    <3>2. QED
      BY <1>1, <1>2, <2>1, <3>1
  <2>2. CASE i = n + 1
    <3>1. i - 1 = n /\ n \in 1..n
      BY <1>1, <2>2
    <3>2. t[i] = row /\ t[i - 1] = a[n]
      BY <1>1, <2>2, <3>1
    <3>3. QED
      BY <1>2, <3>2
  <2>3. QED
    BY <1>1, <2>1, <2>2
<1>4. t[1] = AuditRow("", "QUEUED") /\ t[Len(t)].new = row.new
  <2>1. 1 \in 1..n
    BY <1>1
  <2>2. t[1] = a[1] /\ t[Len(t)] = row
    BY <1>1, <2>1
  <2>3. QED
    BY <1>2, <2>2
<1>5. Explains(t, row.new)
  BY <1>1, <1>3, <1>4 DEF Explains
<1>6. QED
  BY <1>1, <1>5 DEF t

-----------------------------------------------------------------------------
(* Steps that touch neither the tables nor, except to release, the locks *)

\* A call record is typed.
LEMMA IdleTyped == Idle \in Calls
BY DEF Idle, Calls

\* Returning keeps the types and releases exactly the handler's own locks.
LEMMA ReturnFacts ==
    ASSUME TypeOK, NEW h \in Handlers, Return(h)
    PROVE  /\ call' \in [Handlers -> Calls]
           /\ call'[h] = Idle
           /\ \A g \in Handlers \ {h} : call'[g] = call[g]
           /\ lockedBy' \in [RunIds -> Handlers \cup {Absent}]
           /\ \A r \in RunIds : lockedBy[r] # h => lockedBy'[r] = lockedBy[r]
BY IdleTyped DEF TypeOK, Return

\* Advancing the program counter changes nothing else of the call.
LEMMA GotoFacts ==
    ASSUME TypeOK, NEW h \in Handlers, 
           NEW p \in {"idle"} \cup CreatePcs \cup TransitionPcs, Goto(h, p)
    PROVE  /\ call' \in [Handlers -> Calls]
           /\ call'[h].pc = p
           /\ call'[h].contestant = call[h].contestant
           /\ call'[h].run = call[h].run
           /\ call'[h].newState = call[h].newState
           /\ call'[h].current = call[h].current
           /\ \A g \in Handlers \ {h} : call'[g] = call[g]
BY DEF TypeOK, Goto, Calls

\* The tables are untouched and the trail stays explained.
LEMMA TrailKept ==
    ASSUME AuditExplainsStatus, UNCHANGED <<status, audit>>
    PROVE  AuditExplainsStatus'
BY DEF AuditExplainsStatus

-----------------------------------------------------------------------------
(* One lemma per kind of step *)

\* A call that ends without a commit: refused, not found, rejected, aborted.
LEMMA ReturnSafe ==
    ASSUME SafetyInv, NEW h \in Handlers, Return(h),
           UNCHANGED <<status, owner, audit>>
    PROVE  SafetyInv'
<1>1. /\ call' \in [Handlers -> Calls]
      /\ call'[h] = Idle
      /\ \A g \in Handlers \ {h} : call'[g] = call[g]
      /\ lockedBy' \in [RunIds -> Handlers \cup {Absent}]
      /\ \A r \in RunIds : lockedBy[r] # h => lockedBy'[r] = lockedBy[r]
  BY ReturnFacts DEF SafetyInv
<1>2. Idle.pc = "idle"
  BY DEF Idle
<1>3. TypeOK'
  BY <1>1 DEF SafetyInv, TypeOK
<1>4. ArgumentsKnown'
  BY <1>1, <1>2 DEF SafetyInv, ArgumentsKnown, CreatePcs, TransitionPcs, LockedPcs
<1>5. ReadIsCurrent'
  <2> SUFFICES ASSUME NEW g \in Handlers, call'[g].pc \in LockedPcs
               PROVE  /\ lockedBy'[call'[g].run] = g
                      /\ status'[call'[g].run] = call'[g].current
                      /\ call'[g].current \in Statuses
    BY DEF ReadIsCurrent
  <2>1. g # h /\ call'[g] = call[g]
    BY <1>1, <1>2 DEF LockedPcs
  <2>2. call[g].run \in RunIds /\ lockedBy[call[g].run] = g
    BY <2>1 DEF SafetyInv, ArgumentsKnown, ReadIsCurrent, LockedPcs
  <2>3. QED
    BY <1>1, <2>1, <2>2 DEF SafetyInv, ReadIsCurrent
<1>6. WritesAreAllowed'
  BY <1>1, <1>2 DEF SafetyInv, WritesAreAllowed, LockedPcs
<1>7. FreshIds'
  BY <1>1, <1>2 DEF SafetyInv, FreshIds, CreatePcs
<1>8. QED
  BY <1>3, <1>4, <1>5, <1>6, <1>7, TrailKept DEF SafetyInv

\* A call moves on to its next statement and nothing else changes.
LEMMA GotoSafe ==
    ASSUME SafetyInv, NEW h \in Handlers,
           NEW p \in CreatePcs \cup LockedPcs, Goto(h, p),
           p \in CreatePcs => call[h].pc \in CreatePcs,
           p \in LockedPcs => call[h].pc \in LockedPcs,
           p \in LockedPcs => Allowed(call[h].current, call[h].newState),
           UNCHANGED <<status, owner, audit, lockedBy>>
    PROVE  SafetyInv'
<1>1. /\ call' \in [Handlers -> Calls]
      /\ call'[h].pc = p
      /\ call'[h].contestant = call[h].contestant
      /\ call'[h].run = call[h].run
      /\ call'[h].newState = call[h].newState
      /\ call'[h].current = call[h].current
      /\ \A g \in Handlers \ {h} : call'[g] = call[g]
  BY GotoFacts DEF SafetyInv, TransitionPcs
<1>2. TypeOK'
  BY <1>1 DEF SafetyInv, TypeOK
<1>3. ArgumentsKnown'
  BY <1>1 DEF SafetyInv, ArgumentsKnown, CreatePcs, TransitionPcs, LockedPcs
<1>4. ReadIsCurrent'
  BY <1>1 DEF SafetyInv, ReadIsCurrent, CreatePcs, LockedPcs
<1>5. WritesAreAllowed'
  BY <1>1 DEF SafetyInv, WritesAreAllowed
<1>6. FreshIds'
  <2> SUFFICES ASSUME NEW g \in Handlers, call'[g].pc \in CreatePcs
               PROVE  /\ status[call[g].run] = Absent
                      /\ \A k \in Handlers \ {g} :
                            call'[k].pc \in CreatePcs => call[k].run # call[g].run
    BY <1>1 DEF FreshIds
  <2>1. \A k \in Handlers : call'[k].pc \in CreatePcs => call[k].pc \in CreatePcs
    BY <1>1
  <2>2. QED
    BY <2>1 DEF SafetyInv, FreshIds
<1>7. QED
  BY <1>2, <1>3, <1>4, <1>5, <1>6, TrailKept DEF SafetyInv

\* A CreateRun call arrives.
LEMMA StartCreateSafe ==
    ASSUME SafetyInv, NEW h \in Handlers, NEW c \in Contestants, NEW r \in RunIds,
           StartCreateRun(h, c, r)
    PROVE  SafetyInv'
<1> DEFINE new == [Idle EXCEPT !.pc = "count", !.contestant = c, !.run = r]
<1>1. /\ new \in Calls
      /\ new.pc = "count" /\ new.contestant = c /\ new.run = r
  BY DEF Idle, Calls, CreatePcs
<1> HIDE DEF new
<1>2. /\ call' \in [Handlers -> Calls]
      /\ call'[h] = new
      /\ \A g \in Handlers \ {h} : call'[g] = call[g]
      /\ UNCHANGED <<status, owner, audit, lockedBy>>
  BY <1>1 DEF StartCreateRun, SafetyInv, TypeOK, new
<1>3. TypeOK'
  BY <1>2 DEF SafetyInv, TypeOK
<1>4. ArgumentsKnown'
  BY <1>1, <1>2 DEF SafetyInv, ArgumentsKnown, CreatePcs, TransitionPcs, LockedPcs
<1>5. ReadIsCurrent'
  BY <1>1, <1>2 DEF SafetyInv, ReadIsCurrent, LockedPcs
<1>6. WritesAreAllowed'
  BY <1>1, <1>2 DEF SafetyInv, WritesAreAllowed, LockedPcs
<1>7. FreshIds'
  BY <1>1, <1>2 DEF SafetyInv, FreshIds, StartCreateRun
<1>8. QED
  BY <1>2, <1>3, <1>4, <1>5, <1>6, <1>7, TrailKept DEF SafetyInv

\* A TransitionState or CancelRun call arrives.
LEMMA StartTransitionSafe ==
    ASSUME SafetyInv, NEW h \in Handlers, NEW r \in RunIds, NEW s \in Statuses,
           StartTransition(h, r, s)
    PROVE  SafetyInv'
<1> DEFINE new == [Idle EXCEPT !.pc = "lock", !.run = r, !.newState = s]
<1>1. /\ new \in Calls
      /\ new.pc = "lock" /\ new.run = r /\ new.newState = s
  BY DEF Idle, Calls, TransitionPcs
<1> HIDE DEF new
<1>2. /\ call' \in [Handlers -> Calls]
      /\ call'[h] = new
      /\ \A g \in Handlers \ {h} : call'[g] = call[g]
      /\ UNCHANGED <<status, owner, audit, lockedBy>>
  BY <1>1 DEF StartTransition, SafetyInv, TypeOK, new
<1>3. TypeOK'
  BY <1>2 DEF SafetyInv, TypeOK
<1>4. ArgumentsKnown'
  BY <1>1, <1>2 DEF SafetyInv, ArgumentsKnown, CreatePcs, TransitionPcs, LockedPcs
<1>5. ReadIsCurrent'
  BY <1>1, <1>2 DEF SafetyInv, ReadIsCurrent, LockedPcs
<1>6. WritesAreAllowed'
  BY <1>1, <1>2 DEF SafetyInv, WritesAreAllowed, LockedPcs
<1>7. FreshIds'
  BY <1>1, <1>2 DEF SafetyInv, FreshIds, CreatePcs
<1>8. QED
  BY <1>2, <1>3, <1>4, <1>5, <1>6, <1>7, TrailKept DEF SafetyInv

\* SELECT ... FOR UPDATE takes a free lock and reads the committed status.
LEMMA LockRowSafe ==
    ASSUME SafetyInv, NEW h \in Handlers, LockRow(h)
    PROVE  SafetyInv'
<1> DEFINE r == call[h].run
<1>1. /\ r \in RunIds
      /\ status[r] \in Statuses
      /\ call[h].pc = "lock"
      /\ call[h].newState \in Statuses
  BY DEF LockRow, SafetyInv, ArgumentsKnown, TypeOK, TransitionPcs
<1>2. /\ call' \in [Handlers -> Calls]
      /\ call'[h].pc = "validate"
      /\ call'[h].current = status[r]
      /\ call'[h].run = r
      /\ call'[h].newState = call[h].newState
      /\ \A g \in Handlers \ {h} : call'[g] = call[g]
  <2> DEFINE new == [call[h] EXCEPT !.pc = "validate", !.current = status[r]]
  <2>1. call[h] \in Calls /\ call \in [Handlers -> Calls]
    BY DEF SafetyInv, TypeOK
  <2>2. /\ new \in Calls
        /\ new.pc = "validate" /\ new.current = status[r]
        /\ new.run = r /\ new.newState = call[h].newState
    BY <1>1, <2>1 DEF Calls, TransitionPcs, LockedPcs
  <2>3. call' = [call EXCEPT ![h] = new]
    BY DEF LockRow
  <2> HIDE DEF new
  <2>4. QED
    BY <2>1, <2>2, <2>3
<1>3. /\ lockedBy[r] = Absent
      /\ lockedBy' = [lockedBy EXCEPT ![r] = h]
      /\ UNCHANGED <<status, owner, audit>>
  BY DEF LockRow
<1> HIDE DEF r
<1>4. TypeOK'
  BY <1>1, <1>2, <1>3 DEF SafetyInv, TypeOK
<1>5. ArgumentsKnown'
  BY <1>1, <1>2 DEF SafetyInv, ArgumentsKnown, CreatePcs, TransitionPcs, LockedPcs
<1>6. ReadIsCurrent'
  <2> SUFFICES ASSUME NEW g \in Handlers, call'[g].pc \in LockedPcs
               PROVE  /\ lockedBy'[call'[g].run] = g
                      /\ status'[call'[g].run] = call'[g].current
                      /\ call'[g].current \in Statuses
    BY DEF ReadIsCurrent
  <2>1. CASE g = h
    BY <1>1, <1>2, <1>3, <2>1 DEF SafetyInv, TypeOK
  <2>2. CASE g # h
    <3>1. /\ call'[g] = call[g]
          /\ lockedBy[call[g].run] = g
          /\ call[g].run \in RunIds
      BY <1>2, <2>2 DEF SafetyInv, ReadIsCurrent, ArgumentsKnown, LockedPcs
    <3>2. call[g].run # r
      BY <1>3, <3>1, AbsentFacts
    <3>3. QED
      BY <1>3, <3>1, <3>2 DEF SafetyInv, ReadIsCurrent, TypeOK
  <2>3. QED
    BY <2>1, <2>2
<1>7. WritesAreAllowed'
  BY <1>2 DEF SafetyInv, WritesAreAllowed
<1>8. FreshIds'
  BY <1>2, <1>3 DEF SafetyInv, FreshIds, CreatePcs
<1>9. QED
  BY <1>3, <1>4, <1>5, <1>6, <1>7, <1>8, TrailKept DEF SafetyInv

\* The commit of a creation: a new row and the first row of its trail.
LEMMA CommitRunSafe ==
    ASSUME SafetyInv, NEW h \in Handlers, CommitRun(h)
    PROVE  SafetyInv'
<1> DEFINE r == call[h].run
<1>1. /\ r \in RunIds
      /\ call[h].pc = "commitRun"
      /\ call[h].contestant \in Contestants
      /\ status[r] = Absent
      /\ audit \in [RunIds -> Seq(AuditRows)]
      /\ audit[r] = <<>>
  BY DEF CommitRun, SafetyInv, TypeOK, ArgumentsKnown, FreshIds,
         AuditExplainsStatus, CreatePcs
<1>2. /\ call' \in [Handlers -> Calls]
      /\ call'[h] = Idle
      /\ \A g \in Handlers \ {h} : call'[g] = call[g]
      /\ lockedBy' \in [RunIds -> Handlers \cup {Absent}]
      /\ \A k \in RunIds : lockedBy[k] # h => lockedBy'[k] = lockedBy[k]
  BY ReturnFacts DEF SafetyInv, CommitRun
<1>3. /\ status' = [status EXCEPT ![r] = "QUEUED"]
      /\ owner' = [owner EXCEPT ![r] = call[h].contestant]
      /\ audit' = [audit EXCEPT ![r] = Append(audit[r], AuditRow("", "QUEUED"))]
  BY DEF CommitRun
<1>4. /\ Idle.pc = "idle" /\ "QUEUED" \in Statuses /\ Absent \notin Statuses
      /\ AuditRow("", "QUEUED") \in AuditRows
      /\ AuditRow("", "QUEUED").new = "QUEUED"
  BY AbsentFacts DEF Idle, AuditRow, AuditRows
<1> HIDE DEF r
<1>5. TypeOK'
  <2>1. audit' \in [RunIds -> Seq(AuditRows)]
    BY <1>1, <1>3, ExplainsCreation
  <2>2. QED
    BY <1>1, <1>2, <1>3, <1>4, <2>1 DEF SafetyInv, TypeOK
<1>6. ArgumentsKnown'
  BY <1>2, <1>4 DEF SafetyInv, ArgumentsKnown, CreatePcs, TransitionPcs, LockedPcs
<1>7. ReadIsCurrent'
  <2> SUFFICES ASSUME NEW g \in Handlers, call'[g].pc \in LockedPcs
               PROVE  /\ lockedBy'[call'[g].run] = g
                      /\ status'[call'[g].run] = call'[g].current
                      /\ call'[g].current \in Statuses
    BY DEF ReadIsCurrent
  <2>1. g # h /\ call'[g] = call[g] /\ call[g].run \in RunIds
    BY <1>2, <1>4 DEF SafetyInv, ArgumentsKnown, LockedPcs
  <2>2. /\ lockedBy[call[g].run] = g
        /\ status[call[g].run] = call[g].current
        /\ call[g].current \in Statuses
    BY <2>1 DEF SafetyInv, ReadIsCurrent
  <2>3. call[g].run # r
    BY <1>1, <1>4, <2>2
  <2>4. QED
    BY <1>2, <1>3, <2>1, <2>2, <2>3 DEF SafetyInv, TypeOK
<1>8. WritesAreAllowed'
  BY <1>2, <1>4 DEF SafetyInv, WritesAreAllowed, LockedPcs
<1>9. FreshIds'
  <2>1. ASSUME NEW g \in Handlers, call'[g].pc \in CreatePcs
        PROVE  g # h /\ call'[g] = call[g] /\ call[g].run # r /\ call[g].run \in RunIds
    BY <1>1, <1>2, <1>4, <2>1 DEF SafetyInv, FreshIds, ArgumentsKnown, CreatePcs, r
  <2>2. ASSUME NEW g \in Handlers, call'[g].pc \in CreatePcs
        PROVE  status'[call'[g].run] = Absent
    <3>1. call'[g] = call[g] /\ call[g].run # r /\ call[g].run \in RunIds
      BY <2>1, <2>2
    <3>2. status[call[g].run] = Absent
      BY <2>2, <3>1 DEF SafetyInv, FreshIds
    <3>3. status'[call[g].run] = status[call[g].run]
      BY <1>3, <3>1 DEF SafetyInv, TypeOK
    <3>4. QED
      BY <3>1, <3>2, <3>3
  <2>3. ASSUME NEW g \in Handlers, call'[g].pc \in CreatePcs,
               NEW k \in Handlers \ {g}, call'[k].pc \in CreatePcs
        PROVE  call'[k].run # call'[g].run
    <3>1. call'[g] = call[g] /\ call'[k] = call[k]
      BY <2>1, <2>3
    <3>2. QED
      BY <2>3, <3>1 DEF SafetyInv, FreshIds
  <2>4. QED
    BY <2>2, <2>3 DEF FreshIds
<1>10. AuditExplainsStatus'
  <2> SUFFICES ASSUME NEW k \in RunIds
               PROVE  IF status'[k] = Absent THEN audit'[k] = <<>>
                      ELSE Explains(audit'[k], status'[k])
    BY DEF AuditExplainsStatus
  <2>1. CASE k = r
    <3>1. status'[k] = "QUEUED" /\ audit'[k] = Append(audit[r], AuditRow("", "QUEUED"))
      BY <1>1, <1>3, <2>1 DEF SafetyInv, TypeOK
    <3>2. Explains(Append(audit[r], AuditRow("", "QUEUED")), "QUEUED")
      BY <1>1, ExplainsCreation
    <3>3. QED
      BY <1>4, <3>1, <3>2
  <2>2. CASE k # r
    BY <1>3, <2>2 DEF SafetyInv, TypeOK, AuditExplainsStatus
  <2>3. QED
    BY <2>1, <2>2
<1>11. QED
  BY <1>5, <1>6, <1>7, <1>8, <1>9, <1>10 DEF SafetyInv

\* The commit of a transition: the new status and one more row of the trail.
LEMMA CommitTransitionSafe ==
    ASSUME SafetyInv, NEW h \in Handlers, CommitTransition(h)
    PROVE  SafetyInv'
<1> DEFINE r == call[h].run
           new == call[h].newState
           row == AuditRow(status[r], new)
<1>1. /\ r \in RunIds
      /\ new \in Statuses
      /\ status[r] \in Statuses
      /\ call[h].current = status[r]
      /\ lockedBy[r] = h
      /\ Allowed(status[r], new)
  BY DEF CommitTransition, SafetyInv, ArgumentsKnown, ReadIsCurrent,
         WritesAreAllowed, TransitionPcs, LockedPcs
<1>2. /\ call' \in [Handlers -> Calls]
      /\ call'[h] = Idle
      /\ \A g \in Handlers \ {h} : call'[g] = call[g]
      /\ lockedBy' \in [RunIds -> Handlers \cup {Absent}]
      /\ \A k \in RunIds : lockedBy[k] # h => lockedBy'[k] = lockedBy[k]
  BY ReturnFacts DEF SafetyInv, CommitTransition
<1>3. /\ status' = [status EXCEPT ![r] = new]
      /\ audit' = [audit EXCEPT ![r] = Append(@, row)]
      /\ UNCHANGED owner
  BY <1>1 DEF CommitTransition
<1>4. /\ Idle.pc = "idle"
      /\ Absent \notin Statuses
      /\ row \in AuditRows
      /\ row.prior = status[r]
      /\ row.new = new
      /\ audit \in [RunIds -> Seq(AuditRows)]
  BY <1>1, AbsentFacts DEF Idle, AuditRow, AuditRows, SafetyInv, TypeOK
<1> HIDE DEF r, new, row
<1>5. /\ Append(audit[r], row) \in Seq(AuditRows)
      /\ Explains(Append(audit[r], row), new)
  <2>1. audit[r] \in Seq(AuditRows) /\ Explains(audit[r], status[r])
    BY <1>1, <1>4 DEF SafetyInv, AuditExplainsStatus
  <2>2. Allowed(status[r], row.new)
    BY <1>1, <1>4
  <2>3. QED
    BY <1>4, <2>1, <2>2, ExplainsTransition
<1>6. TypeOK'
  <2>1. audit' \in [RunIds -> Seq(AuditRows)]
    BY <1>3, <1>4, <1>5
  <2>2. QED
    BY <1>1, <1>2, <1>3, <2>1 DEF SafetyInv, TypeOK
<1>7. ArgumentsKnown'
  BY <1>2, <1>4 DEF SafetyInv, ArgumentsKnown, CreatePcs, TransitionPcs, LockedPcs
<1>8. ReadIsCurrent'
  <2> SUFFICES ASSUME NEW g \in Handlers, call'[g].pc \in LockedPcs
               PROVE  /\ lockedBy'[call'[g].run] = g
                      /\ status'[call'[g].run] = call'[g].current
                      /\ call'[g].current \in Statuses
    BY DEF ReadIsCurrent
  <2>1. g # h /\ call'[g] = call[g] /\ call[g].run \in RunIds
    BY <1>2, <1>4 DEF SafetyInv, ArgumentsKnown, LockedPcs
  <2>2. /\ lockedBy[call[g].run] = g
        /\ status[call[g].run] = call[g].current
        /\ call[g].current \in Statuses
    BY <2>1 DEF SafetyInv, ReadIsCurrent
  <2>3. call[g].run # r
    BY <1>1, <2>1, <2>2
  <2>4. QED
    BY <1>2, <1>3, <2>1, <2>2, <2>3 DEF SafetyInv, TypeOK
<1>9. WritesAreAllowed'
  BY <1>2, <1>4 DEF SafetyInv, WritesAreAllowed, LockedPcs
<1>10. FreshIds'
  <2>1. ASSUME NEW g \in Handlers, call'[g].pc \in CreatePcs
        PROVE  g # h /\ call'[g] = call[g] /\ call[g].run # r /\ call[g].run \in RunIds
    BY <1>1, <1>2, <1>4, <2>1 DEF SafetyInv, FreshIds, ArgumentsKnown, CreatePcs
  <2>2. QED
    BY <1>2, <1>3, <2>1 DEF SafetyInv, FreshIds, TypeOK
<1>11. AuditExplainsStatus'
  <2> SUFFICES ASSUME NEW k \in RunIds
               PROVE  IF status'[k] = Absent THEN audit'[k] = <<>>
                      ELSE Explains(audit'[k], status'[k])
    BY DEF AuditExplainsStatus
  <2>1. CASE k = r
    <3>1. status'[k] = new /\ audit'[k] = Append(audit[r], row)
      BY <1>1, <1>3, <1>4, <2>1 DEF SafetyInv, TypeOK
    <3>2. QED
      BY <1>1, <1>4, <1>5, <3>1
  <2>2. CASE k # r
    BY <1>3, <2>2 DEF SafetyInv, TypeOK, AuditExplainsStatus
  <2>3. QED
    BY <2>1, <2>2
<1>12. QED
  BY <1>6, <1>7, <1>8, <1>9, <1>10, <1>11 DEF SafetyInv

-----------------------------------------------------------------------------
(* The invariant *)

LEMMA InitSafe == Init => SafetyInv
<1> SUFFICES ASSUME Init PROVE SafetyInv
  OBVIOUS
<1>1. \A h \in Handlers : call[h] = Idle
  BY DEF Init
<1>2. Idle.pc = "idle" /\ Idle \in Calls
  BY IdleTyped DEF Idle
<1>3. <<>> \in Seq(AuditRows)
  BY EmptySeq
<1>4. TypeOK
  BY <1>2, <1>3 DEF Init, TypeOK
<1>5. ArgumentsKnown /\ ReadIsCurrent /\ WritesAreAllowed /\ FreshIds
  BY <1>1, <1>2 DEF ArgumentsKnown, ReadIsCurrent, WritesAreAllowed, FreshIds,
                    CreatePcs, TransitionPcs, LockedPcs
<1>6. AuditExplainsStatus
  BY DEF Init, AuditExplainsStatus
<1>7. QED
  BY <1>4, <1>5, <1>6 DEF SafetyInv

LEMMA NextSafe == SafetyInv /\ [Next]_vars => SafetyInv'
<1> SUFFICES ASSUME SafetyInv, [Next]_vars PROVE SafetyInv'
  OBVIOUS
<1>1. CASE UNCHANGED vars
  BY <1>1 DEF vars, SafetyInv, TypeOK, ArgumentsKnown, ReadIsCurrent,
              WritesAreAllowed, FreshIds, AuditExplainsStatus
<1>2. ASSUME NEW h \in Handlers, Arrive(h)
      PROVE  SafetyInv'
  <2>1. ASSUME NEW r \in RunIds, NEW c \in Contestants, StartCreateRun(h, c, r)
        PROVE  SafetyInv'
    BY <2>1, StartCreateSafe
  <2>2. ASSUME NEW r \in RunIds, NEW s \in Requested, StartTransition(h, r, s)
        PROVE  SafetyInv'
    <3>1. s \in Statuses
      BY RequestedAssumption
    <3>2. QED
      BY <2>2, <3>1, StartTransitionSafe
  <2>3. ASSUME NEW r \in RunIds, CancelRun(h, r)
        PROVE  SafetyInv'
    <3>1. "FAILED" \in Statuses
      BY DEF Statuses, TerminalBenchmarkRunStatuses, TerminalFailures
    <3>2. QED
      BY <2>3, <3>1, StartTransitionSafe DEF CancelRun
  <2>4. QED
    BY <1>2, <2>1, <2>2, <2>3 DEF Arrive
<1>3. ASSUME NEW h \in Handlers, Step(h)
      PROVE  SafetyInv'
  <2>1. CASE CountRuns(h)
    BY <2>1, GotoSafe DEF CountRuns, CreatePcs, LockedPcs
  <2>2. CASE RefuseCreate(h)
    BY <2>2, ReturnSafe DEF RefuseCreate
  <2>3. CASE InsertRun(h)
    BY <2>3, GotoSafe DEF InsertRun, CreatePcs, LockedPcs
  <2>4. CASE InsertRunAudit(h)
    BY <2>4, GotoSafe DEF InsertRunAudit, CreatePcs, LockedPcs
  <2>5. CASE CommitRun(h)
    BY <2>5, CommitRunSafe
  <2>6. CASE LockRow(h)
    BY <2>6, LockRowSafe
  <2>7. CASE RunNotFound(h)
    BY <2>7, ReturnSafe DEF RunNotFound
  <2>8. CASE AcceptTransition(h)
    BY <2>8, GotoSafe DEF AcceptTransition, Acceptable, CreatePcs, LockedPcs
  <2>9. CASE RejectTransition(h)
    BY <2>9, ReturnSafe DEF RejectTransition
  <2>10. CASE UpdateStatus(h)
    BY <2>10, GotoSafe DEF UpdateStatus, SafetyInv, WritesAreAllowed, CreatePcs, LockedPcs
  <2>11. CASE InsertAudit(h)
    BY <2>11, GotoSafe DEF InsertAudit, SafetyInv, WritesAreAllowed, CreatePcs, LockedPcs
  <2>12. CASE CommitTransition(h)
    BY <2>12, CommitTransitionSafe
  <2>13. QED
    BY <1>3, <2>1, <2>2, <2>3, <2>4, <2>5, <2>6, <2>7, <2>8, <2>9, <2>10,
       <2>11, <2>12 DEF Step
<1>4. ASSUME NEW h \in Handlers, Abort(h)
      PROVE  SafetyInv'
  BY <1>4, ReturnSafe DEF Abort
<1>5. QED
  BY <1>1, <1>2, <1>3, <1>4 DEF Next

\* Every reachable state satisfies the inductive invariant.
LEMMA SafetyInvariant == Spec => []SafetyInv
BY InitSafe, NextSafe, PTL DEF Spec

\* The tables, locks and calls keep their types (BenchmarkRuns.TypeOK).
THEOREM TypeCorrect == Spec => []TypeOK
<1>1. SafetyInv => TypeOK
  BY DEF SafetyInv
<1>2. QED
  BY <1>1, SafetyInvariant, PTL

\* In every reachable state the audit trail of every run explains its status:
\* TransitionState writes both or neither, and never on a stale read.
THEOREM AuditCorrect == Spec => []AuditExplainsStatus
<1>1. SafetyInv => AuditExplainsStatus
  BY DEF SafetyInv
<1>2. QED
  BY <1>1, SafetyInvariant, PTL

-----------------------------------------------------------------------------
(* Refinement of the atomic life cycle *)

\* Every step of the service is one atomic move of one run, or leaves the two
\* tables alone.
LEMMA StepRefines ==
    SafetyInv /\ [Next]_vars => [Lifecycle!Next]_(Lifecycle!vars)
<1> SUFFICES ASSUME SafetyInv, [Next]_vars
             PROVE  Lifecycle!Next \/ UNCHANGED <<status, audit>>
  BY DEF Lifecycle!vars
<1>1. ASSUME NEW h \in Handlers, CommitRun(h)
      PROVE  Lifecycle!Next
  <2>1. call[h].run \in RunIds /\ status[call[h].run] = Absent
        /\ audit[call[h].run] = <<>>
    BY <1>1 DEF CommitRun, SafetyInv, ArgumentsKnown, FreshIds,
                AuditExplainsStatus, CreatePcs
  <2>2. Append(audit[call[h].run], AuditRow("", "QUEUED")) = <<AuditRow("", "QUEUED")>>
    <3> DEFINE row == AuditRow("", "QUEUED")
    <3>1. Append(<<>>, row) = <<row>>
      OBVIOUS
    <3>2. QED
      BY <2>1, <3>1
  <2>3. Lifecycle!Create(call[h].run)
    BY <1>1, <2>1, <2>2 DEF CommitRun, Lifecycle!Create, Lifecycle!AuditRow, AuditRow
  <2>4. QED
    BY <2>1, <2>3 DEF Lifecycle!Next
<1>2. ASSUME NEW h \in Handlers, CommitTransition(h)
      PROVE  Lifecycle!Next
  <2>1. /\ call[h].run \in RunIds
        /\ call[h].newState \in Statuses
        /\ status[call[h].run] = call[h].current
        /\ call[h].current \in Statuses
        /\ Allowed(call[h].current, call[h].newState)
    BY <1>2 DEF CommitTransition, SafetyInv, ArgumentsKnown, ReadIsCurrent,
                WritesAreAllowed, TransitionPcs, LockedPcs
  <2>2. Lifecycle!Advance(call[h].run, call[h].newState)
    BY <1>2, <2>1, AbsentFacts
       DEF CommitTransition, Lifecycle!Advance, Lifecycle!AuditRow, AuditRow,
           Lifecycle!Allowed, Allowed, Lifecycle!allowedTransitions, allowedTransitions
  <2>3. QED
    BY <2>1, <2>2 DEF Lifecycle!Next, Lifecycle!Statuses, Statuses,
       Lifecycle!ProgressStatuses, ProgressStatuses,
       Lifecycle!TerminalBenchmarkRunStatuses, TerminalBenchmarkRunStatuses,
       Lifecycle!TerminalFailures, TerminalFailures
<1>3. QED
  BY <1>1, <1>2 DEF Next, Arrive, Step, Abort, vars, StartCreateRun, StartTransition,
     CancelRun, CountRuns, RefuseCreate, InsertRun, InsertRunAudit, LockRow,
     RunNotFound, AcceptTransition, RejectTransition, UpdateStatus, InsertAudit

\* The service implements RunLifecycle: concurrent handlers, row locks and
\* failing transactions are invisible in the two tables.
THEOREM Refinement == Spec => ImplementsLifecycle
<1>1. Init => Lifecycle!Init
  BY DEF Init, Lifecycle!Init
<1>2. QED
  BY <1>1, StepRefines, SafetyInvariant, PTL
     DEF Spec, ImplementsLifecycle, Lifecycle!Spec

\* A run that has reached a terminal status keeps it, and its trail, for ever.
THEOREM TerminalFinality == Spec => TerminalIsFinal
<1>1. SafetyInv /\ [Next]_vars =>
          [\A r \in RunIds : status[r] # Absent /\ IsTerminal(status[r])
              => status'[r] = status[r] /\ audit'[r] = audit[r]]_vars
  <2> SUFFICES ASSUME SafetyInv, [Next]_vars,
                      NEW r \in RunIds, status[r] # Absent, IsTerminal(status[r])
               PROVE  status'[r] = status[r] /\ audit'[r] = audit[r]
    OBVIOUS
  <2>1. CASE UNCHANGED <<status, audit>>
    BY <2>1
  <2>2. ASSUME NEW k \in RunIds, Lifecycle!Create(k)
        PROVE  status'[r] = status[r] /\ audit'[r] = audit[r]
    BY <2>2 DEF Lifecycle!Create, SafetyInv, TypeOK
  <2>3. ASSUME NEW k \in RunIds, NEW s, Lifecycle!Advance(k, s)
        PROVE  status'[r] = status[r] /\ audit'[r] = audit[r]
    <3>1. Allowed(status[k], s)
      BY <2>3 DEF Lifecycle!Advance, Lifecycle!Allowed, Allowed,
                  Lifecycle!allowedTransitions, allowedTransitions
    <3>2. k # r
      BY <3>1, TableFacts
    <3>3. QED
      BY <2>3, <3>2 DEF Lifecycle!Advance, SafetyInv, TypeOK
  <2>4. QED
    BY <2>1, <2>2, <2>3, StepRefines DEF Lifecycle!Next, Lifecycle!vars
<1>2. QED
  BY <1>1, SafetyInvariant, PTL DEF Spec, TerminalIsFinal

-----------------------------------------------------------------------------
(* How far the check-then-insert of CreateRun can overshoot *)

\* The sets whose sizes OvershootBounded adds up are finite.
LEMMA CountsFinite ==
    ASSUME NEW c
    PROVE  /\ IsFiniteSet(NonTerminalRuns(c)) /\ countNonTerminalRuns(c) \in Nat
           /\ IsFiniteSet(Admitted(c)) /\ Cardinality(Admitted(c)) \in Nat
           /\ Cardinality(Admitted(c)) <= Cardinality(Handlers)
           /\ Cardinality(Handlers) \in Nat
<1>1. NonTerminalRuns(c) \subseteq RunIds /\ Admitted(c) \subseteq Handlers
  BY DEF NonTerminalRuns, Admitted
<1>2. QED
  BY <1>1, FiniteAssumption, FS_Subset, FS_CardinalityType DEF countNonTerminalRuns

\* A step that adds neither a live run nor an admitted creation keeps the bound.
LEMMA NothingAdded ==
    ASSUME OvershootBounded, NEW c \in Contestants,
           NonTerminalRuns(c)' \subseteq NonTerminalRuns(c),
           Admitted(c)' \subseteq Admitted(c)
    PROVE  countNonTerminalRuns(c)' + Cardinality(Admitted(c)')
               <= MaxConcurrentRuns - 1 + Cardinality(Handlers)
<1>1. /\ countNonTerminalRuns(c)' <= countNonTerminalRuns(c)
      /\ countNonTerminalRuns(c)' \in Nat
  BY CountsFinite, FS_Subset, FS_CardinalityType DEF countNonTerminalRuns
<1>2. /\ Cardinality(Admitted(c)') <= Cardinality(Admitted(c))
      /\ Cardinality(Admitted(c)') \in Nat
  BY CountsFinite, FS_Subset, FS_CardinalityType
<1>3. QED
  BY <1>1, <1>2, CountsFinite, MaxAssumption DEF OvershootBounded

\* A handler that changes only its own program counter admits nobody unless it
\* passes the limit check.
LEMMA GotoAdmits ==
    ASSUME TypeOK, NEW h \in Handlers, NEW c,
           NEW p \in CreatePcs \cup LockedPcs, Goto(h, p),
           p \in CreatePcs => call[h].pc \in CreatePcs \ {"count"}
    PROVE  Admitted(c)' \subseteq Admitted(c)
<1>1. /\ call'[h].pc = p
      /\ call'[h].contestant = call[h].contestant
      /\ \A g \in Handlers \ {h} : call'[g] = call[g]
  BY GotoFacts DEF TransitionPcs
<1>2. QED
  BY <1>1 DEF Admitted

\* A handler that returns is no longer admitted.
LEMMA ReturnAdmits ==
    ASSUME TypeOK, NEW h \in Handlers, NEW c, Return(h)
    PROVE  Admitted(c)' = Admitted(c) \ {h}
<1>1. /\ call'[h] = Idle
      /\ \A g \in Handlers \ {h} : call'[g] = call[g]
      /\ Idle.pc = "idle"
  BY ReturnFacts DEF Idle
<1>2. QED
  BY <1>1 DEF Admitted, CreatePcs

LEMMA OvershootStep ==
    SafetyInv /\ OvershootBounded /\ [Next]_vars => OvershootBounded'
<1> SUFFICES ASSUME SafetyInv, OvershootBounded, [Next]_vars, NEW c \in Contestants
             PROVE  countNonTerminalRuns(c)' + Cardinality(Admitted(c)')
                        <= MaxConcurrentRuns - 1 + Cardinality(Handlers)
  BY DEF OvershootBounded
<1> DEFINE Goal == countNonTerminalRuns(c)' + Cardinality(Admitted(c)')
                       <= MaxConcurrentRuns - 1 + Cardinality(Handlers)
<1>0. TypeOK
  BY DEF SafetyInv
<1>1. ASSUME UNCHANGED <<status, owner>>
      PROVE  NonTerminalRuns(c)' = NonTerminalRuns(c)
  BY <1>1 DEF NonTerminalRuns
<1>2. CASE UNCHANGED vars
  <2>1. Admitted(c)' = Admitted(c)
    BY <1>2 DEF vars, Admitted
  <2>2. QED
    BY <1>1, <1>2, <2>1, NothingAdded DEF vars
<1>3. ASSUME NEW h \in Handlers, Return(h), UNCHANGED <<status, owner>>
      PROVE  Goal
  <2>1. Admitted(c)' \subseteq Admitted(c)
    BY <1>0, <1>3, ReturnAdmits
  <2>2. QED
    BY <1>1, <1>3, <2>1, NothingAdded
<1>4. ASSUME NEW h \in Handlers, NEW p \in CreatePcs \cup LockedPcs, Goto(h, p),
             p \in CreatePcs => call[h].pc \in CreatePcs \ {"count"},
             UNCHANGED <<status, owner>>
      PROVE  Goal
  <2>1. Admitted(c)' \subseteq Admitted(c)
    BY <1>0, <1>4, GotoAdmits
  <2>2. QED
    BY <1>1, <1>4, <2>1, NothingAdded
<1>5. ASSUME NEW h \in Handlers, Arrive(h)
      PROVE  Goal
  <2>1. UNCHANGED <<status, owner>>
    BY <1>5 DEF Arrive, StartCreateRun, StartTransition, CancelRun
  <2>2. /\ \A g \in Handlers \ {h} : call'[g] = call[g]
        /\ call'[h].pc \in {"count", "lock"}
    <3>1. ASSUME NEW r, NEW k, StartCreateRun(h, k, r)
          PROVE  /\ \A g \in Handlers \ {h} : call'[g] = call[g]
                 /\ call'[h].pc = "count"
      BY <1>0, <3>1 DEF StartCreateRun, TypeOK, Idle
    <3>2. ASSUME NEW r, NEW s, StartTransition(h, r, s)
          PROVE  /\ \A g \in Handlers \ {h} : call'[g] = call[g]
                 /\ call'[h].pc = "lock"
      BY <1>0, <3>2 DEF StartTransition, TypeOK, Idle
    <3>3. QED
      BY <1>5, <3>1, <3>2 DEF Arrive, CancelRun
  <2>3. Admitted(c)' \subseteq Admitted(c)
    BY <2>2 DEF Admitted, CreatePcs
  <2>4. QED
    BY <1>1, <2>1, <2>3, NothingAdded
<1>6. ASSUME NEW h \in Handlers, CountRuns(h)
      PROVE  Goal
  <2>1. /\ call[h].pc = "count"
        /\ call'[h].contestant = call[h].contestant
        /\ \A g \in Handlers \ {h} : call'[g] = call[g]
        /\ UNCHANGED <<status, owner>>
    BY <1>0, <1>6, GotoFacts DEF CountRuns, CreatePcs
  <2>2. CASE call[h].contestant = c
    <3>1. countNonTerminalRuns(c)' = countNonTerminalRuns(c)
      BY <1>1, <2>1 DEF countNonTerminalRuns
    <3>2. countNonTerminalRuns(c) < MaxConcurrentRuns
      BY <1>6, <2>2 DEF CountRuns
    <3>3. /\ Cardinality(Admitted(c)') \in Nat
          /\ Cardinality(Admitted(c)') <= Cardinality(Handlers)
      <4>1. Admitted(c)' \subseteq Handlers
        BY DEF Admitted
      <4>2. QED
        BY <4>1, FiniteAssumption, FS_Subset, FS_CardinalityType
    <3>4. QED
      BY <3>1, <3>2, <3>3, CountsFinite, MaxAssumption
  <2>3. CASE call[h].contestant # c
    <3>1. Admitted(c)' \subseteq Admitted(c)
      BY <2>1, <2>3 DEF Admitted
    <3>2. QED
      BY <1>1, <2>1, <3>1, NothingAdded
  <2>4. QED
    BY <2>2, <2>3
<1>7. ASSUME NEW h \in Handlers, CommitRun(h)
      PROVE  Goal
  <2> DEFINE r == call[h].run
  <2>1. /\ r \in RunIds
        /\ status[r] = Absent
        /\ status' = [status EXCEPT ![r] = "QUEUED"]
        /\ owner' = [owner EXCEPT ![r] = call[h].contestant]
        /\ call[h].pc = "commitRun"
    BY <1>7 DEF CommitRun, SafetyInv, ArgumentsKnown, FreshIds, CreatePcs
  <2>2. Admitted(c)' = Admitted(c) \ {h}
    BY <1>0, <1>7, ReturnAdmits DEF CommitRun
  <2>3. CASE call[h].contestant = c
    <3>1. /\ h \in Admitted(c)
          /\ r \notin NonTerminalRuns(c)
      BY <2>1, <2>3 DEF Admitted, NonTerminalRuns, CreatePcs
    <3>2. NonTerminalRuns(c)' \subseteq NonTerminalRuns(c) \cup {r}
      BY <1>0, <2>1 DEF NonTerminalRuns, TypeOK
    <3>3. /\ countNonTerminalRuns(c)' <= countNonTerminalRuns(c) + 1
          /\ countNonTerminalRuns(c)' \in Nat
      <4> DEFINE S == NonTerminalRuns(c)
                 T == S \cup {r}
      <4>1. IsFiniteSet(S) /\ Cardinality(S) = countNonTerminalRuns(c)
        BY CountsFinite DEF countNonTerminalRuns
      <4>2. IsFiniteSet(T) /\ Cardinality(T) = Cardinality(S) + 1
        BY <3>1, <4>1, FS_AddElement
      <4> HIDE DEF T
      <4>3. NonTerminalRuns(c)' \subseteq T
        BY <3>2 DEF T
      <4>4. /\ Cardinality(NonTerminalRuns(c)') <= Cardinality(T)
            /\ Cardinality(NonTerminalRuns(c)') \in Nat
        BY <4>2, <4>3, FS_Subset, FS_CardinalityType
      <4>5. QED
        BY <4>1, <4>2, <4>4 DEF countNonTerminalRuns
    <3>4. Cardinality(Admitted(c)') = Cardinality(Admitted(c)) - 1
      BY <2>2, <3>1, CountsFinite, FS_RemoveElement
    <3>5. QED
      BY <3>3, <3>4, CountsFinite, MaxAssumption DEF OvershootBounded
  <2>4. CASE call[h].contestant # c
    <3>1. NonTerminalRuns(c)' \subseteq NonTerminalRuns(c)
      BY <1>0, <2>1, <2>4 DEF NonTerminalRuns, TypeOK
    <3>2. QED
      BY <2>2, <3>1, NothingAdded
  <2>5. QED
    BY <2>3, <2>4
<1>8. ASSUME NEW h \in Handlers, LockRow(h)
      PROVE  Goal
  <2>1. /\ \A g \in Handlers \ {h} : call'[g] = call[g]
        /\ call'[h].pc = "validate"
        /\ UNCHANGED <<status, owner>>
    <3> DEFINE new == [call[h] EXCEPT !.pc = "validate", !.current = status[call[h].run]]
    <3>1. call[h] \in Calls
      BY <1>0 DEF TypeOK
    <3>2. new.pc = "validate"
      BY <3>1 DEF Calls
    <3>3. call' = [call EXCEPT ![h] = new] /\ UNCHANGED <<status, owner>>
      BY <1>8 DEF LockRow
    <3> HIDE DEF new
    <3>4. QED
      BY <1>0, <3>2, <3>3 DEF TypeOK
  <2>2. Admitted(c)' \subseteq Admitted(c)
    BY <2>1 DEF Admitted, CreatePcs
  <2>3. QED
    BY <1>1, <2>1, <2>2, NothingAdded
<1>9. ASSUME NEW h \in Handlers, CommitTransition(h)
      PROVE  Goal
  <2> DEFINE r == call[h].run
  <2>1. /\ r \in RunIds
        /\ status[r] \in Statuses
        /\ Allowed(status[r], call[h].newState)
        /\ status' = [status EXCEPT ![r] = call[h].newState]
        /\ owner' = owner
    BY <1>9 DEF CommitTransition, SafetyInv, ArgumentsKnown, ReadIsCurrent,
                WritesAreAllowed, TransitionPcs, LockedPcs
  <2>2. ~IsTerminal(status[r]) /\ status[r] # Absent
    BY <2>1, TableFacts, AbsentFacts
  <2>3. NonTerminalRuns(c)' \subseteq NonTerminalRuns(c)
    BY <1>0, <2>1, <2>2 DEF NonTerminalRuns, TypeOK
  <2>4. Admitted(c)' \subseteq Admitted(c)
    BY <1>0, <1>9, ReturnAdmits DEF CommitTransition
  <2>5. QED
    BY <2>3, <2>4, NothingAdded
<1>10. ASSUME NEW h \in Handlers, Step(h)
       PROVE  Goal
  <2>1. CASE RefuseCreate(h) \/ RunNotFound(h) \/ RejectTransition(h)
    BY <1>3, <2>1 DEF RefuseCreate, RunNotFound, RejectTransition
  <2>2. CASE InsertRun(h)
    BY <1>4, <2>2 DEF InsertRun, CreatePcs
  <2>3. CASE InsertRunAudit(h)
    BY <1>4, <2>3 DEF InsertRunAudit, CreatePcs
  <2>4. CASE AcceptTransition(h)
    BY <1>4, <2>4 DEF AcceptTransition, CreatePcs, LockedPcs
  <2>5. CASE UpdateStatus(h)
    BY <1>4, <2>5 DEF UpdateStatus, CreatePcs, LockedPcs
  <2>6. CASE InsertAudit(h)
    BY <1>4, <2>6 DEF InsertAudit, CreatePcs, LockedPcs
  <2>7. QED
    BY <1>6, <1>7, <1>8, <1>9, <1>10, <2>1, <2>2, <2>3, <2>4, <2>5, <2>6 DEF Step
<1>11. ASSUME NEW h \in Handlers, Abort(h)
       PROVE  Goal
  BY <1>3, <1>11 DEF Abort
<1>12. QED
  BY <1>2, <1>5, <1>10, <1>11 DEF Next

\* Whatever the interleaving, a contestant's live runs exceed the limit by
\* less than the number of calls that can be in flight: the check-then-insert
\* of CreateRun overshoots by at most one run per handler but the first.
THEOREM OvershootCorrect == Spec => []OvershootBounded
<1>1. Init => OvershootBounded
  <2> SUFFICES ASSUME Init, NEW c \in Contestants
               PROVE  countNonTerminalRuns(c) + Cardinality(Admitted(c))
                          <= MaxConcurrentRuns - 1 + Cardinality(Handlers)
    BY DEF OvershootBounded
  <2>1. NonTerminalRuns(c) = {}
    BY DEF Init, NonTerminalRuns
  <2>2. countNonTerminalRuns(c) = 0
    BY <2>1, FS_EmptySet DEF countNonTerminalRuns
  <2>3. QED
    BY <2>2, CountsFinite, MaxAssumption
<1>2. QED
  BY <1>1, OvershootStep, SafetyInvariant, PTL DEF Spec
-----------------------------------------------------------------------------
(* Row locks: no handler waits for one that waits *)

\* A row lock is held only by a handler that is between the SELECT ... FOR
\* UPDATE of that row and the end of its transaction.
LocksAreHeld ==
    \A r \in RunIds : lockedBy[r] # Absent =>
        /\ call[lockedBy[r]].run = r
        /\ call[lockedBy[r]].pc \in LockedPcs

\* The database answers the next statement of h at once: it takes no lock, its
\* row is not there, or its row is free.
Proceeds(h) ==
    \/ call[h].pc \in CreatePcs \cup LockedPcs
    \/ /\ call[h].pc = "lock"
       /\ status[call[h].run] = Absent \/ lockedBy[call[h].run] = Absent

\* A call in progress proceeds, or waits for another one that does.
WaitsAreShort ==
    \A h \in Handlers : call[h].pc # "idle" =>
        \/ Proceeds(h)
        \/ LET g == lockedBy[call[h].run] IN g \in Handlers \ {h} /\ Proceeds(g)

\* A call that takes no lock and does not end keeps the locks it has.
LEMMA LocksKept ==
    ASSUME TypeOK, LocksAreHeld, NEW h \in Handlers,
           call' \in [Handlers -> Calls],
           \A g \in Handlers \ {h} : call'[g] = call[g],
           call[h].pc \in LockedPcs =>
               call'[h].pc \in LockedPcs /\ call'[h].run = call[h].run,
           UNCHANGED lockedBy
    PROVE  LocksAreHeld'
<1> SUFFICES ASSUME NEW r \in RunIds, lockedBy[r] # Absent
             PROVE  call'[lockedBy[r]].run = r /\ call'[lockedBy[r]].pc \in LockedPcs
  BY DEF LocksAreHeld
<1>1. lockedBy[r] \in Handlers
  BY DEF TypeOK
<1>2. call[lockedBy[r]].run = r /\ call[lockedBy[r]].pc \in LockedPcs
  BY DEF LocksAreHeld
<1>3. CASE lockedBy[r] = h
  BY <1>2, <1>3
<1>4. CASE lockedBy[r] # h
  BY <1>1, <1>2, <1>4
<1>5. QED
  BY <1>3, <1>4

\* The end of a transaction gives back its locks and no other.
LEMMA ReturnUnlocks ==
    ASSUME TypeOK, LocksAreHeld, NEW h \in Handlers, Return(h)
    PROVE  LocksAreHeld'
<1> SUFFICES ASSUME NEW r \in RunIds, lockedBy'[r] # Absent
             PROVE  call'[lockedBy'[r]].run = r /\ call'[lockedBy'[r]].pc \in LockedPcs
  BY DEF LocksAreHeld
<1>1. lockedBy[r] # h /\ lockedBy'[r] = lockedBy[r]
  BY DEF Return
<1>2. lockedBy[r] \in Handlers /\ call'[lockedBy[r]] = call[lockedBy[r]]
  BY <1>1, ReturnFacts DEF TypeOK
<1>3. QED
  BY <1>1, <1>2 DEF LocksAreHeld

\* SELECT ... FOR UPDATE makes the handler the holder of its row's lock.
LEMMA LockRowHolds ==
    ASSUME SafetyInv, LocksAreHeld, NEW h \in Handlers, LockRow(h)
    PROVE  LocksAreHeld'
<1> DEFINE q == call[h].run
<1>1. q \in RunIds /\ lockedBy[q] = Absent /\ call[h].pc = "lock"
  BY DEF LockRow, SafetyInv, ArgumentsKnown
<1>2. /\ call'[h].pc = "validate" /\ call'[h].run = q
      /\ \A g \in Handlers \ {h} : call'[g] = call[g]
  BY DEF LockRow, SafetyInv, TypeOK, Calls
<1>3. lockedBy'[q] = h /\ \A r \in RunIds \ {q} : lockedBy'[r] = lockedBy[r]
  BY <1>1 DEF LockRow, SafetyInv, TypeOK
<1> HIDE DEF q
<1> SUFFICES ASSUME NEW r \in RunIds, lockedBy'[r] # Absent
             PROVE  call'[lockedBy'[r]].run = r /\ call'[lockedBy'[r]].pc \in LockedPcs
  BY DEF LocksAreHeld
<1>4. CASE r = q
  BY <1>2, <1>3, <1>4 DEF LockedPcs
<1>5. CASE r # q
  <2>1. lockedBy'[r] = lockedBy[r] /\ lockedBy[r] \in Handlers
    BY <1>3, <1>5 DEF SafetyInv, TypeOK
  <2>2. call[lockedBy[r]].run = r /\ call[lockedBy[r]].pc \in LockedPcs
    BY <2>1 DEF LocksAreHeld
  <2>3. lockedBy[r] # h
    BY <1>1, <2>2 DEF LockedPcs
  <2>4. QED
    BY <1>2, <2>1, <2>2, <2>3
<1>6. QED
  BY <1>4, <1>5

\* Every step of every call keeps that.
LEMMA LocksStep == SafetyInv /\ LocksAreHeld /\ [Next]_vars => LocksAreHeld'
<1> SUFFICES ASSUME SafetyInv, LocksAreHeld, [Next]_vars PROVE LocksAreHeld'
  OBVIOUS
<1>1. TypeOK /\ TypeOK'
  BY NextSafe DEF SafetyInv
<1>2. CASE UNCHANGED vars
  BY <1>2 DEF vars, LocksAreHeld
<1>3. ASSUME NEW h \in Handlers, Arrive(h)
      PROVE  LocksAreHeld'
  <2>1. /\ call[h].pc = "idle"
        /\ \A g \in Handlers \ {h} : call'[g] = call[g]
        /\ UNCHANGED lockedBy
    BY <1>1, <1>3 DEF Arrive, StartCreateRun, CancelRun, StartTransition, TypeOK
  <2>2. call[h].pc \notin LockedPcs
    BY <2>1 DEF LockedPcs
  <2>3. call' \in [Handlers -> Calls]
    BY <1>1 DEF TypeOK
  <2>4. QED
    BY <1>1, <2>1, <2>2, <2>3, LocksKept
<1>4. ASSUME NEW h \in Handlers, NEW p \in CreatePcs \cup LockedPcs, Goto(h, p),
             call[h].pc \in LockedPcs => p \in LockedPcs, UNCHANGED lockedBy
      PROVE  LocksAreHeld'
  <2>1. /\ call' \in [Handlers -> Calls]
        /\ call'[h].pc = p /\ call'[h].run = call[h].run
        /\ \A g \in Handlers \ {h} : call'[g] = call[g]
    BY <1>1, <1>4, GotoFacts DEF TransitionPcs
  <2>2. QED
    BY <1>1, <1>4, <2>1, LocksKept
<1>5. ASSUME NEW h \in Handlers, Return(h)
      PROVE  LocksAreHeld'
  BY <1>1, <1>5, ReturnUnlocks
<1>6. ASSUME NEW h \in Handlers, Step(h)
      PROVE  LocksAreHeld'
  <2>1. CASE CountRuns(h)
    BY <1>4, <2>1 DEF CountRuns, CreatePcs, LockedPcs
  <2>2. CASE RefuseCreate(h) \/ RunNotFound(h) \/ RejectTransition(h)
    BY <1>5, <2>2 DEF RefuseCreate, RunNotFound, RejectTransition
  <2>3. CASE InsertRun(h)
    BY <1>4, <2>3 DEF InsertRun, CreatePcs, LockedPcs
  <2>4. CASE InsertRunAudit(h)
    BY <1>4, <2>4 DEF InsertRunAudit, CreatePcs, LockedPcs
  <2>5. CASE CommitRun(h) \/ CommitTransition(h)
    BY <1>5, <2>5 DEF CommitRun, CommitTransition
  <2>6. CASE LockRow(h)
    BY <2>6, LockRowHolds
  <2>7. CASE AcceptTransition(h)
    BY <1>4, <2>7 DEF AcceptTransition, LockedPcs
  <2>8. CASE UpdateStatus(h)
    BY <1>4, <2>8 DEF UpdateStatus, LockedPcs
  <2>9. CASE InsertAudit(h)
    BY <1>4, <2>9 DEF InsertAudit, LockedPcs
  <2>10. QED
    BY <1>6, <2>1, <2>2, <2>3, <2>4, <2>5, <2>6, <2>7, <2>8, <2>9 DEF Step
<1>7. QED
  BY <1>2, <1>3, <1>5, <1>6 DEF Next, Abort

\* In every reachable state a call in progress either gets its next statement
\* answered or waits for the row lock of another call that does: TransitionState
\* takes one lock only, and every way out of it gives the lock back.
THEOREM NoHandlerStuck == Spec => []WaitsAreShort
<1>1. Init => LocksAreHeld
  BY DEF Init, LocksAreHeld
<1>2. SafetyInv /\ LocksAreHeld => WaitsAreShort
  <2> SUFFICES ASSUME SafetyInv, LocksAreHeld, NEW h \in Handlers, call[h].pc # "idle"
               PROVE  \/ Proceeds(h)
                      \/ LET g == lockedBy[call[h].run]
                         IN  g \in Handlers \ {h} /\ Proceeds(g)
    BY DEF WaitsAreShort
  <2>1. /\ call[h].run \in RunIds
        /\ call[h].pc \in CreatePcs \cup LockedPcs \cup {"lock"}
    BY DEF SafetyInv, TypeOK, ArgumentsKnown, Calls, TransitionPcs
  <2>2. CASE Proceeds(h)
    BY <2>2
  <2>3. CASE ~Proceeds(h)
    <3>1. call[h].pc = "lock" /\ lockedBy[call[h].run] # Absent
      BY <2>1, <2>3 DEF Proceeds
    <3>2. PICK g : g = lockedBy[call[h].run]
      OBVIOUS
    <3>3. g \in Handlers /\ call[g].pc \in LockedPcs
      BY <2>1, <3>1, <3>2 DEF LocksAreHeld, SafetyInv, TypeOK
    <3>4. g # h
      BY <3>1, <3>3 DEF LockedPcs
    <3>5. Proceeds(g)
      BY <3>3 DEF Proceeds
    <3>6. QED
      BY <3>2, <3>3, <3>4, <3>5
  <2>4. QED
    BY <2>2, <2>3
<1>3. QED
  BY <1>1, <1>2, LocksStep, SafetyInvariant, PTL DEF Spec
=============================================================================
