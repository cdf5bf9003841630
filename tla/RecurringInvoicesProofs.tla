----------------------- MODULE RecurringInvoicesProofs -----------------------
(***************************************************************************)
(* Proofs about RecurringInvoices, for any number of templates and         *)
(* requests, any periods, limits and days: with one tick at a time, and    *)
(* requests that stay off the templates another actor has read, what was   *)
(* read is what is still there, so that a date is invoiced once, within    *)
(* its limits, and what was skipped is not made up.                        *)
(***************************************************************************)
EXTENDS RecurringInvoices, Integers, TLAPS

USE RecurringAssumption

Tick == [step: {"idle", "skip", "select", "next", "generate", "reread"},
         todo: SUBSET Snapshot, hand: Snapshot, count: Nat]
Request == [does: {"nothing", "run", "resume"}, read: Snapshot]

-----------------------------------------------------------------------------
(* Facts that the induction needs.                                         *)

\* A tick k holds a template in hand while it generates, and has raised fewer than
\* MaxCatchup invoices for it before each; what it has still to do are templates.
TickInOrder(k) ==
    /\ k.count <= MaxCatchup
    /\ k.step = "generate" => k.count < MaxCatchup
    /\ \A x \in k.todo : x.id \in Templates
    /\ IF k.step \in {"generate", "reread"} THEN k.hand.id \in Templates ELSE k.hand = Nothing

\* A request holds what it has read of a template.
RequestInOrder(q) == IF q.does = "nothing" THEN q.read = Nothing ELSE q.read.id \in Templates

\* A template that was made has a period; one that was not has no history.
TemplateInOrder(t) ==
    IF tpl[t].status = "none"
    THEN tpl[t].runs = 0 /\ raised[t] = 0 /\ skipped[t] = 0 /\ invoiced[t] = {}
    ELSE tpl[t].every \in Periods

TypeInv ==
    /\ now \in 0 .. Horizon /\ readOnly \in BOOLEAN
    /\ tpl \in [Templates -> Template]
    /\ tick \in [Schedulers -> Tick]
    /\ request \in [Users -> Request]
    /\ raised \in [Templates -> Nat] /\ lastDue \in [Templates -> Nat]
    /\ skipped \in [Templates -> Nat] /\ invoiced \in [Templates -> SUBSET Nat]
    /\ \A s \in Schedulers : TickInOrder(tick[s])
    /\ \A u \in Users : RequestInOrder(request[u])
    /\ \A t \in Templates : TemplateInOrder(t)

\* A template reads as x, its limits and period do, and it was not completed since.
Current(x)  == x = SnapshotOf(x.id)
SameTerms(x) ==
    x.every = tpl[x.id].every /\ x.maxRuns = tpl[x.id].maxRuns /\ x.end = tpl[x.id].end
Unfinished(x) == tpl[x.id].status \in {"active", "paused", "deleted"}

\* What a tick has read is still so; what it has in hand is, until it generated from it.
TickCurrent(k) ==
    /\ \A x \in k.todo : Current(x) /\ Unfinished(x) /\ x.id # k.hand.id
    /\ k.step = "generate" => Current(k.hand) /\ Unfinished(k.hand)
    /\ k.step = "reread" => SameTerms(k.hand) /\ tpl[k.hand.id].status # "none"

\* What a request has read is still so, and nobody else has read it.
RequestCurrent(u) ==
    request[u].does # "nothing" =>
        /\ Current(request[u].read) /\ Unfinished(request[u].read)
        /\ \A v \in Users \ {u} : request[v].read.id # request[u].read.id
        /\ \A s \in Schedulers :
              /\ tick[s].step \notin {"skip", "select"}
              /\ \A x \in tick[s].todo \cup {tick[s].hand} : x.id # request[u].read.id

Apart == (\A s \in Schedulers : TickCurrent(tick[s])) /\ (\A u \in Users : RequestCurrent(u))

\* A template that can still run is within its limits.
TemplateInLimits(t) ==
    tpl[t].status \in {"active", "paused"} =>
        WithinLimits(tpl[t].next, tpl[t].runs, tpl[t].maxRuns, tpl[t].end)

InLimits == \A t \in Templates : TemplateInLimits(t)

\* What was skipped is over, and the next run comes after it.
SkippedIsOver ==
    \A t \in Templates : skipped[t] > 0 => skipped[t] <= now /\ skipped[t] < tpl[t].next

\* A date that had come when it was invoiced is over, and the next run comes after it.
InvoicedIsOver ==
    \A t \in Templates : \A d \in invoiced[t] : d <= now /\ d < tpl[t].next

-----------------------------------------------------------------------------
(* Types.                                                                  *)

\* nextRunDateAfter finds a date after today.
LEMMA NextAfterTodayIsLater ==
    ASSUME NEW t, tpl[t].next \in Nat, tpl[t].every \in Nat \ {0}, now \in Nat, tpl[t].next <= now
    PROVE  NextAfterToday(t) \in Nat /\ NextAfterToday(t) > now
<1> DEFINE n == tpl[t].next
           e == tpl[t].every
           d == now - n
           q == d \div e
<1>1. d \in Nat /\ e \in Nat /\ e > 0 /\ n \in Nat /\ now = n + d
  OBVIOUS
<1> HIDE DEF n, e, d
<1>2. q \in Int /\ d < e * q + e
  BY <1>1
<1> HIDE DEF q
<1>3. e * (q + 1) = e * q + e /\ e * q \in Int
  BY <1>1, <1>2
<1>4. n + e * (q + 1) > now
  BY <1>1, <1>2, <1>3
<1>5. n + e * (q + 1) \in Nat
  BY <1>1, <1>2, <1>3, <1>4
<1>6. NextAfterToday(t) = n + e * (q + 1)
  BY DEF NextAfterToday, n, e, q, d
<1> QED
  BY <1>4, <1>5, <1>6

\* What is read of a template that was made.
LEMMA SnapshotType ==
    ASSUME TypeInv, NEW t \in Templates
    PROVE  SnapshotOf(t) \in Snapshot /\ SnapshotOf(t).id = t
<1>1. tpl[t] \in Template
  BY DEF TypeInv
<1>2. tpl[t].every \in Nat
  <2>1. tpl[t].every \in Periods \cup {0}
    BY <1>1 DEF Template
  <2>2. \A e \in Periods \cup {0} : e \in Nat
    OBVIOUS
  <2> QED
    BY <2>1, <2>2
<1> QED
  BY <1>1, <1>2 DEF Template, Snapshot, SnapshotOf

\* A step of a tick that only moves the tick on.
LEMMA TickMoves ==
    ASSUME TypeInv, NEW s \in Schedulers, NEW k \in Tick, TickInOrder(k),
           tick' = [tick EXCEPT ![s] = k],
           UNCHANGED <<now, readOnly, tpl, request, raised, lastDue, skipped, invoiced>>
    PROVE  TypeInv'
<1>1. tick' \in [Schedulers -> Tick]
  BY DEF TypeInv
<1>2. \A z \in Schedulers : TickInOrder(tick'[z])
  BY DEF TypeInv
<1>3. \A t \in Templates : TemplateInOrder(t)'
  BY DEF TypeInv, TemplateInOrder
<1> QED
  BY <1>1, <1>2, <1>3 DEF TypeInv

LEMMA RestingType == Resting \in Tick /\ TickInOrder(Resting) /\ Nothing \in Snapshot
BY DEF Resting, Nothing, Tick, Snapshot, TickInOrder

\* A step that only changes what a request does.
LEMMA RequestMoves ==
    ASSUME TypeInv, NEW u \in Users, NEW q \in Request, RequestInOrder(q),
           request' = [request EXCEPT ![u] = q],
           UNCHANGED <<now, readOnly, tpl, tick, raised, lastDue, skipped, invoiced>>
    PROVE  TypeInv'
<1>1. request' \in [Users -> Request]
  BY DEF TypeInv
<1>2. \A v \in Users : RequestInOrder(request'[v])
  BY DEF TypeInv
<1>3. \A t \in Templates : TemplateInOrder(t)'
  BY DEF TypeInv, TemplateInOrder
<1> QED
  BY <1>1, <1>2, <1>3 DEF TypeInv

\* Generating from a snapshot of a template leaves the templates in order.
LEMMA GenerateType ==
    ASSUME TypeInv, NEW x \in Snapshot, x.id \in Templates, Generate(x), UNCHANGED skipped
    PROVE  /\ tpl' \in [Templates -> Template] /\ raised' \in [Templates -> Nat]
           /\ lastDue' \in [Templates -> Nat] /\ invoiced' \in [Templates -> SUBSET Nat]
           /\ \A t \in Templates : TemplateInOrder(t)'
           /\ \A t \in Templates \ {x.id} : /\ tpl'[t] = tpl[t] /\ raised'[t] = raised[t]
                                           /\ lastDue'[t] = lastDue[t]
                                           /\ invoiced'[t] = invoiced[t]
           /\ tpl'[x.id].runs = x.runs + 1 /\ tpl'[x.id].next = x.next + x.every
           /\ tpl'[x.id].status = (IF Finished(x) THEN "completed" ELSE tpl[x.id].status)
           /\ tpl'[x.id].every = tpl[x.id].every /\ tpl'[x.id].maxRuns = tpl[x.id].maxRuns
           /\ tpl'[x.id].end = tpl[x.id].end
           /\ raised'[x.id] = raised[x.id] + 1 /\ lastDue'[x.id] = x.next
           /\ invoiced'[x.id] = IF x.next <= now THEN invoiced[x.id] \cup {x.next}
                                ELSE invoiced[x.id]
<1> DEFINE t == x.id
           next == NextRun(x)
           status == IF Finished(x) THEN "completed" ELSE tpl[t].status
           row == [tpl[t] EXCEPT !.runs = x.runs + 1, !.next = next, !.status = status]
           dates == IF x.next <= now THEN invoiced[t] \cup {x.next} ELSE invoiced[t]
<1>1. x.runs \in Nat /\ x.next \in Nat /\ x.every \in Nat /\ tpl[t] \in Template
  BY DEF TypeInv, Snapshot
<1>2. /\ tpl' = [tpl EXCEPT ![t] = row]
      /\ raised' = [raised EXCEPT ![t] = raised[t] + 1]
      /\ lastDue' = [lastDue EXCEPT ![t] = x.next]
      /\ invoiced' = [invoiced EXCEPT ![t] = dates]
      /\ tpl[t].status # "none"
  BY DEF Generate, Exists
<1>3. next \in Nat /\ next = x.next + x.every
  BY <1>1 DEF NextRun
<1>4. /\ status \in {"active", "paused", "completed", "deleted"}
      /\ status = (IF Finished(x) THEN "completed" ELSE tpl[t].status)
  BY <1>1, <1>2 DEF Template
<1> HIDE DEF next, status
<1>5. /\ row \in Template /\ row.runs = x.runs + 1 /\ row.next = next /\ row.status = status
      /\ row.every = tpl[t].every /\ row.maxRuns = tpl[t].maxRuns /\ row.end = tpl[t].end
  <2> DEFINE old == tpl[t]
             runs == x.runs + 1
  <2>1. old \in Template /\ runs \in Nat /\ next \in Nat
        /\ status \in {"active", "paused", "completed", "deleted"}
    BY <1>1, <1>3, <1>4
  <2>2. row = [old EXCEPT !.runs = runs, !.next = next, !.status = status]
    OBVIOUS
  <2> HIDE DEF old, runs, row
  <2>3. /\ row \in Template /\ row.runs = runs /\ row.next = next /\ row.status = status
        /\ row.every = old.every /\ row.maxRuns = old.maxRuns /\ row.end = old.end
    BY <2>1, <2>2 DEF Template
  <2> QED
    BY <2>3 DEF old, runs
<1>6. row.status # "none" /\ tpl[t].every \in Periods
  BY <1>2, <1>4, <1>5 DEF TypeInv, TemplateInOrder
<1>7. t \in Templates /\ raised[t] \in Nat /\ dates \in SUBSET Nat
  BY <1>1 DEF TypeInv
<1> HIDE DEF row, t, dates
<1>8. /\ tpl'[t] = row /\ raised'[t] = raised[t] + 1 /\ lastDue'[t] = x.next
      /\ invoiced'[t] = dates
      /\ \A z \in Templates \ {t} : /\ tpl'[z] = tpl[z] /\ raised'[z] = raised[z]
                                  /\ lastDue'[z] = lastDue[z] /\ invoiced'[z] = invoiced[z]
  BY <1>2, <1>7 DEF TypeInv
<1>9. /\ tpl' \in [Templates -> Template] /\ raised' \in [Templates -> Nat]
      /\ lastDue' \in [Templates -> Nat] /\ invoiced' \in [Templates -> SUBSET Nat]
  BY <1>1, <1>2, <1>5, <1>7 DEF TypeInv
<1>10. \A z \in Templates : TemplateInOrder(z)'
  BY <1>5, <1>6, <1>8 DEF TypeInv, TemplateInOrder
<1> QED
  BY <1>3, <1>4, <1>5, <1>8, <1>9, <1>10 DEF t, dates

\* A step that only changes one template.
LEMMA TemplateMoves ==
    ASSUME TypeInv, NEW t \in Templates, NEW row \in Template, row.status # "none",
           row.every \in Periods, tpl' = [tpl EXCEPT ![t] = row],
           UNCHANGED <<now, readOnly, tick, raised, lastDue, skipped, invoiced>>,
           request' \in [Users -> Request], \A u \in Users : RequestInOrder(request'[u])
    PROVE  TypeInv'
<1>1. tpl' \in [Templates -> Template]
  BY DEF TypeInv
<1>2. \A z \in Templates : TemplateInOrder(z)'
  BY DEF TypeInv, TemplateInOrder
<1> QED
  BY <1>1, <1>2 DEF TypeInv

\* The steps of a tick that leave the templates alone.
LEMMA TickStepType ==
    ASSUME TypeInv, NEW s \in Schedulers,
           \/ StartTick(s) \/ EndTick(s) \/ Fail(s) \/ Reread(s) \/ Crash(s)
           \/ \E rows \in SUBSET Templates : Select(s, rows)
           \/ \E x \in tick[s].todo : TakeUp(s, x)
    PROVE  TypeInv'
<1>1. tick[s] \in Tick /\ TickInOrder(tick[s]) /\ tick = [z \in Schedulers |-> tick[z]]
  BY DEF TypeInv
<1>2. CASE StartTick(s)
  <2> DEFINE k == [tick[s] EXCEPT !.step = IF readOnly THEN "skip" ELSE "select"]
  <2>1. /\ tick[s].step = "idle" /\ tick' = [tick EXCEPT ![s] = k]
        /\ UNCHANGED <<now, readOnly, tpl, request, raised, lastDue, skipped, invoiced>>
    BY <1>1, <1>2 DEF StartTick
  <2>2. k \in Tick /\ TickInOrder(k)
    BY <1>1, <2>1 DEF Tick, TickInOrder
  <2> HIDE DEF k
  <2> QED
    BY <2>1, <2>2, TickMoves
<1>3. CASE EndTick(s) \/ Crash(s)
  <2>1. /\ tick' = [tick EXCEPT ![s] = Resting]
        /\ UNCHANGED <<now, readOnly, tpl, request, raised, lastDue, skipped, invoiced>>
    BY <1>3 DEF EndTick, Crash
  <2> QED
    BY <2>1, RestingType, TickMoves
<1>4. LayDown(s) \in Tick /\ TickInOrder(LayDown(s))
  BY <1>1, RestingType DEF LayDown, Tick, TickInOrder
<1>5. CASE Fail(s)
  <2>1. /\ tick' = [tick EXCEPT ![s] = LayDown(s)]
        /\ UNCHANGED <<now, readOnly, tpl, request, raised, lastDue, skipped, invoiced>>
    BY <1>5 DEF Fail
  <2> QED
    BY <1>4, <2>1, TickMoves
<1>6. CASE Reread(s)
  <2> DEFINE x == tick[s].hand
             y == Refreshed(x)
             k == [tick[s] EXCEPT !.step = "generate", !.hand = y]
  <2>1. tick[s].step = "reread" /\ UNCHANGED <<now, readOnly, tpl, request, raised, lastDue, skipped, invoiced>>
    BY <1>6 DEF Reread
  <2>2. \/ tick' = [tick EXCEPT ![s] = LayDown(s)]
        \/ tick' = [tick EXCEPT ![s] = k] /\ tick[s].count < MaxCatchup
    BY <1>6 DEF Reread, Another
  <2>3. x \in Snapshot /\ x.id \in Templates
    BY <1>1, <2>1 DEF Tick, TickInOrder
  <2>4. tpl[x.id].next \in Nat /\ tpl[x.id].runs \in Nat
    BY <2>3 DEF TypeInv, Template
  <2>5. y \in Snapshot /\ y.id = x.id
    BY <2>3, <2>4 DEF Refreshed, Snapshot
  <2> HIDE DEF y
  <2>6. tick[s].count < MaxCatchup => k \in Tick /\ TickInOrder(k)
    BY <1>1, <2>1, <2>3, <2>5 DEF Tick, TickInOrder
  <2> HIDE DEF x, k
  <2> QED
    BY <1>4, <2>1, <2>2, <2>6, TickMoves
<1>7. ASSUME NEW rows \in SUBSET Templates, Select(s, rows) PROVE TypeInv'
  <2> DEFINE todo == {SnapshotOf(t) : t \in rows}
             k == [tick[s] EXCEPT !.step = "next", !.todo = todo]
  <2>1. /\ tick[s].step = "select" /\ tick' = [tick EXCEPT ![s] = k]
        /\ UNCHANGED <<now, readOnly, tpl, request, raised, lastDue, skipped, invoiced>>
    BY <1>1, <1>7 DEF Select
  <2>2. todo \subseteq Snapshot /\ \A x \in todo : x.id \in Templates
    BY SnapshotType
  <2> HIDE DEF todo
  <2>3. k \in Tick /\ TickInOrder(k)
    BY <1>1, <2>1, <2>2 DEF Tick, TickInOrder
  <2> HIDE DEF k
  <2> QED
    BY <2>1, <2>3, TickMoves
<1>8. ASSUME NEW x \in tick[s].todo, TakeUp(s, x) PROVE TypeInv'
  <2> DEFINE k == [step |-> "generate", todo |-> tick[s].todo \ {x}, hand |-> x, count |-> 0]
  <2>1. /\ tick' = [tick EXCEPT ![s] = k]
        /\ UNCHANGED <<now, readOnly, tpl, request, raised, lastDue, skipped, invoiced>>
    BY <1>8 DEF TakeUp
  <2>2. k \in Tick /\ TickInOrder(k)
    BY <1>1 DEF Tick, TickInOrder
  <2> HIDE DEF k
  <2> QED
    BY <2>1, <2>2, TickMoves
<1> QED
  BY <1>2, <1>3, <1>5, <1>6, <1>7, <1>8

\* Generating in a tick.
LEMMA GenerateDueType ==
    ASSUME TypeInv, NEW s \in Schedulers, GenerateDue(s)
    PROVE  TypeInv'
<1> DEFINE x == tick[s].hand
           k == [tick[s] EXCEPT !.step = "reread", !.count = tick[s].count + 1]
<1>1. tick[s] \in Tick /\ TickInOrder(tick[s]) /\ tick = [z \in Schedulers |-> tick[z]]
  BY DEF TypeInv
<1>2. /\ tick[s].step = "generate" /\ Generate(x) /\ tick' = [tick EXCEPT ![s] = k]
      /\ UNCHANGED <<now, readOnly, request, skipped>>
  BY <1>1 DEF GenerateDue
<1>3. x \in Snapshot /\ x.id \in Templates
  BY <1>1, <1>2 DEF Tick, TickInOrder
<1>4. k \in Tick /\ TickInOrder(k)
  <2> DEFINE old == tick[s]
             count == old.count + 1
  <2>1. /\ old \in Tick /\ old.step = "generate" /\ count \in Nat /\ count <= MaxCatchup
        /\ old.hand.id \in Templates /\ \A y \in old.todo : y.id \in Templates
    BY <1>1, <1>2 DEF Tick, TickInOrder
  <2>2. k = [old EXCEPT !.step = "reread", !.count = count]
    OBVIOUS
  <2> HIDE DEF old, count, k
  <2>3. /\ k \in Tick /\ k.step = "reread" /\ k.count = count /\ k.todo = old.todo
        /\ k.hand = old.hand
    BY <2>1, <2>2 DEF Tick
  <2> QED
    BY <2>1, <2>3 DEF TickInOrder
<1> HIDE DEF k, x
<1>5. /\ tpl' \in [Templates -> Template] /\ raised' \in [Templates -> Nat]
      /\ lastDue' \in [Templates -> Nat] /\ invoiced' \in [Templates -> SUBSET Nat]
      /\ \A t \in Templates : TemplateInOrder(t)'
  BY <1>2, <1>3, GenerateType
<1>6. tick' \in [Schedulers -> Tick] /\ \A z \in Schedulers : TickInOrder(tick'[z])
  BY <1>2, <1>4 DEF TypeInv
<1> QED
  BY <1>2, <1>5, <1>6 DEF TypeInv

\* What a skip makes of the templates it takes, and of the others.
LEMMA SkipEffect ==
    ASSUME TypeInv, NEW s \in Schedulers, NEW rows \in SUBSET Templates, Skip(s, rows)
    PROVE  /\ TypeInv'
           /\ \A t \in Templates \ rows : tpl'[t] = tpl[t] /\ skipped'[t] = skipped[t]
           /\ \A t \in rows :
                 /\ tpl[t].status = "active" /\ tpl[t].next <= now
                 /\ tpl'[t].next = NextAfterToday(t) /\ NextAfterToday(t) > now
                 /\ skipped'[t] = now
                 /\ tpl'[t].status = (IF EndsBefore(t) THEN "completed" ELSE "active")
                 /\ tpl'[t].runs = tpl[t].runs /\ tpl'[t].every = tpl[t].every
                 /\ tpl'[t].maxRuns = tpl[t].maxRuns /\ tpl'[t].end = tpl[t].end
<1>1. /\ rows \subseteq Due
      /\ tpl' = [t \in Templates |->
                     IF t \notin rows THEN tpl[t]
                     ELSE [tpl[t] EXCEPT !.next = NextAfterToday(t),
                                         !.status = IF EndsBefore(t) THEN "completed" ELSE @]]
      /\ skipped' = [t \in Templates |-> IF t \in rows THEN now ELSE skipped[t]]
      /\ tick' = [tick EXCEPT ![s] = Resting]
      /\ UNCHANGED <<now, readOnly, request, raised, lastDue, invoiced>>
  BY DEF Skip, Taken
<1>2. now \in Nat
  BY DEF TypeInv
<1>3. ASSUME NEW t \in rows
      PROVE  /\ tpl'[t] \in Template
             /\ tpl[t].status = "active" /\ tpl[t].next <= now
             /\ tpl'[t].next = NextAfterToday(t) /\ NextAfterToday(t) > now
             /\ skipped'[t] = now
             /\ tpl'[t].status = (IF EndsBefore(t) THEN "completed" ELSE "active")
             /\ tpl'[t].runs = tpl[t].runs /\ tpl'[t].every = tpl[t].every
             /\ tpl'[t].maxRuns = tpl[t].maxRuns /\ tpl'[t].end = tpl[t].end
  <2> DEFINE old == tpl[t]
             next == NextAfterToday(t)
             status == IF EndsBefore(t) THEN "completed" ELSE "active"
             row == [old EXCEPT !.next = next, !.status = status]
  <2>1. old.status = "active" /\ old.next <= now /\ old \in Template /\ old.every \in Periods
    BY <1>1 DEF Due, TypeInv, TemplateInOrder
  <2>2. old.every \in Nat \ {0} /\ old.next \in Nat
    BY <2>1 DEF Template
  <2>3. next \in Nat /\ next > now
    BY <1>2, <2>1, <2>2, NextAfterTodayIsLater
  <2>4. tpl'[t] = row /\ skipped'[t] = now
    BY <1>1, <2>1
  <2>5. status \in {"completed", "active"}
    OBVIOUS
  <2> HIDE DEF old, next, status
  <2>6. /\ row \in Template /\ row.next = next /\ row.status = status
        /\ row.runs = old.runs /\ row.every = old.every /\ row.maxRuns = old.maxRuns
        /\ row.end = old.end
    BY <2>1, <2>3, <2>5 DEF Template
  <2> QED
    BY <2>1, <2>3, <2>4, <2>6 DEF old, next, status
<1>4. \A t \in Templates \ rows : tpl'[t] = tpl[t] /\ skipped'[t] = skipped[t]
  BY <1>1
<1>5. tpl' \in [Templates -> Template] /\ skipped' \in [Templates -> Nat]
  <2>1. \A t \in Templates : tpl'[t] \in Template
    BY <1>3, <1>4 DEF TypeInv
  <2>2. \A t \in Templates : skipped'[t] \in Nat
    BY <1>2, <1>3, <1>4 DEF TypeInv
  <2>3. tpl' = [t \in Templates |-> tpl'[t]] /\ skipped' = [t \in Templates |-> skipped'[t]]
    <3> DEFINE F(t) == IF t \notin rows THEN tpl[t]
                       ELSE [tpl[t] EXCEPT !.next = NextAfterToday(t),
                                           !.status = IF EndsBefore(t) THEN "completed" ELSE @]
               G(t) == IF t \in rows THEN now ELSE skipped[t]
    <3>1. tpl' = [t \in Templates |-> F(t)] /\ skipped' = [t \in Templates |-> G(t)]
      BY <1>1
    <3> HIDE DEF F, G
    <3> QED
      BY <3>1
  <2> QED
    BY <2>1, <2>2, <2>3
<1>6. ASSUME NEW t \in Templates PROVE TemplateInOrder(t)'
  <2>1. TemplateInOrder(t) /\ raised' = raised /\ invoiced' = invoiced
    BY <1>1 DEF TypeInv
  <2>2. ASSUME t \in rows PROVE tpl'[t].status # "none" /\ tpl'[t].every = tpl[t].every /\ tpl[t].status # "none"
    BY <1>3, <2>2
  <2>3. ASSUME t \notin rows PROVE tpl'[t] = tpl[t] /\ skipped'[t] = skipped[t]
    BY <1>4, <2>3
  <2> QED
    BY <2>1, <2>2, <2>3 DEF TemplateInOrder
<1>7. tick' \in [Schedulers -> Tick] /\ \A z \in Schedulers : TickInOrder(tick'[z])
  BY <1>1, RestingType DEF TypeInv
<1>8. TypeInv'
  BY <1>1, <1>5, <1>6, <1>7 DEF TypeInv
<1> QED
  BY <1>3, <1>4, <1>8

\* A row with its status and its next run set is a template.
LEMMA NextSet ==
    ASSUME NEW old \in Template, NEW status \in {"none", "active", "paused", "completed", "deleted"},
           NEW next \in Nat
    PROVE  /\ [old EXCEPT !.status = status, !.next = next] \in Template
           /\ [old EXCEPT !.status = status, !.next = next].every = old.every
           /\ [old EXCEPT !.status = status, !.next = next].status = status
BY DEF Template

\* The requests that make, change, delete and pause a template.
LEMMA UserTemplateType ==
    ASSUME TypeInv, NEW t \in Templates,
           \/ \E start \in 0 .. Horizon, every \in Periods, maxRuns \in RunLimits, end \in Ends :
                 Create(t, start, every, maxRuns, end)
           \/ \E every \in Periods, maxRuns \in RunLimits, end \in Ends :
                 Update(t, every, maxRuns, end)
           \/ Delete(t) \/ Pause(t)
    PROVE  TypeInv'
<1>1. /\ tpl[t] \in Template /\ TemplateInOrder(t) /\ request \in [Users -> Request]
      /\ \A u \in Users : RequestInOrder(request[u])
      /\ now \in Nat
  BY DEF TypeInv
<1>2. ASSUME NEW start \in 0 .. Horizon, NEW every \in Periods, NEW maxRuns \in RunLimits,
             NEW end \in Ends, Create(t, start, every, maxRuns, end)
      PROVE  TypeInv'
  <2> DEFINE first == FirstRun(start, every)
             row == [status |-> "active", next |-> first, runs |-> 0, every |-> every,
                     maxRuns |-> maxRuns, end |-> end]
  <2>1. /\ tpl' = [tpl EXCEPT ![t] = row]
        /\ UNCHANGED <<now, readOnly, tick, request, raised, lastDue, skipped, invoiced>>
    BY <1>2 DEF Create
  <2>2. start \in Nat /\ every \in Nat /\ maxRuns \in Nat /\ end \in Nat
    BY <1>2
  <2>3. first \in Nat
    BY <1>1, <2>2 DEF FirstRun
  <2> HIDE DEF first
  <2>4. row \in Template /\ row.status # "none" /\ row.every \in Periods
    BY <1>2, <2>2, <2>3 DEF Template
  <2> HIDE DEF row
  <2> QED
    BY <1>1, <2>1, <2>4, TemplateMoves
<1>3. ASSUME NEW every \in Periods, NEW maxRuns \in RunLimits, NEW end \in Ends,
             Update(t, every, maxRuns, end)
      PROVE  TypeInv'
  <2> DEFINE old == tpl[t]
             kept == IF end = Unlimited THEN old.end ELSE end
             row == [old EXCEPT !.every = every, !.maxRuns = maxRuns, !.end = kept]
  <2>1. /\ Exists(t) /\ tpl' = [tpl EXCEPT ![t] = row]
        /\ UNCHANGED <<now, readOnly, tick, request, raised, lastDue, skipped, invoiced>>
    BY <1>3 DEF Update
  <2>2. maxRuns \in Nat /\ kept \in Nat
    BY <1>1, <1>3 DEF Template
  <2>3. old \in Template /\ old.status # "none"
    BY <1>1, <2>1 DEF Exists
  <2> HIDE DEF kept, old
  <2>4. row \in Template /\ row.status # "none" /\ row.every \in Periods
    BY <1>3, <2>2, <2>3 DEF Template
  <2> HIDE DEF row
  <2> QED
    BY <1>1, <2>1, <2>4, TemplateMoves
<1>4. ASSUME NEW status \in {"deleted", "paused"}, tpl[t].status # "none",
             tpl' = [tpl EXCEPT ![t].status = status],
             UNCHANGED <<now, readOnly, tick, request, raised, lastDue, skipped, invoiced>>
      PROVE  TypeInv'
  <2> DEFINE old == tpl[t]
             row == [old EXCEPT !.status = status]
  <2>1. tpl' = [tpl EXCEPT ![t] = row]
    BY <1>4
  <2>2. old \in Template /\ old.every \in Periods
    BY <1>1, <1>4 DEF TemplateInOrder
  <2> HIDE DEF old
  <2>3. row \in Template /\ row.status # "none" /\ row.every \in Periods
    BY <1>4, <2>2 DEF Template
  <2> HIDE DEF row
  <2> QED
    BY <1>1, <1>4, <2>1, <2>3, TemplateMoves
<1>5. CASE Delete(t)
  BY <1>4, <1>5 DEF Delete, Exists
<1>6. CASE Pause(t)
  BY <1>4, <1>6 DEF Pause
<1> QED
  BY <1>2, <1>3, <1>5, <1>6

\* A request that is over.
LEMMA NothingType ==
    /\ [does |-> "nothing", read |-> Nothing] \in Request
    /\ RequestInOrder([does |-> "nothing", read |-> Nothing])
BY RestingType DEF Request, RequestInOrder

\* The requests that read, and the end of one.
LEMMA UserRequestType ==
    ASSUME TypeInv, NEW u \in Users,
           GiveUp(u) \/ (\E t \in Templates : ReadToResume(u, t) \/ ReadToRun(u, t))
    PROVE  TypeInv'
<1>1. CASE GiveUp(u)
  BY <1>1, NothingType, RequestMoves DEF GiveUp, Done
<1>2. ASSUME NEW t \in Templates, ReadToResume(u, t) \/ ReadToRun(u, t) PROVE TypeInv'
  <2>1. PICK does \in {"run", "resume"} :
           /\ request' = [request EXCEPT ![u] = [does |-> does, read |-> SnapshotOf(t)]]
           /\ UNCHANGED <<now, readOnly, tpl, tick, raised, lastDue, skipped, invoiced>>
    BY <1>2 DEF ReadToResume, ReadToRun, Read
  <2> DEFINE x == SnapshotOf(t)
             q == [does |-> does, read |-> x]
  <2>2. x \in Snapshot /\ x.id = t
    BY SnapshotType
  <2> HIDE DEF x
  <2>3. q \in Request /\ RequestInOrder(q)
    BY <2>2 DEF Request, RequestInOrder
  <2>4. request' = [request EXCEPT ![u] = q]
    BY <2>1 DEF x
  <2> HIDE DEF q
  <2> QED
    BY <2>1, <2>3, <2>4, RequestMoves
<1> QED
  BY <1>1, <1>2

\* Resuming a template, and running one by hand.
LEMMA ResumeType ==
    ASSUME TypeInv, NEW u \in Users, Resume(u)
    PROVE  TypeInv'
<1> DEFINE x == request[u].read
           t == x.id
           next == now + x.every
           idle == [does |-> "nothing", read |-> Nothing]
<1>1. /\ request[u].does = "resume"
      /\ tpl' = IF Exists(t) THEN [tpl EXCEPT ![t].status = "active", ![t].next = next] ELSE tpl
      /\ request' = [request EXCEPT ![u] = idle]
      /\ UNCHANGED <<now, readOnly, tick, raised, lastDue, skipped, invoiced>>
  BY DEF Resume, Done
<1>2. request[u] \in Request /\ RequestInOrder(request[u])
  BY DEF TypeInv
<1>3. t \in Templates /\ x \in Snapshot
  BY <1>1, <1>2 DEF Request, RequestInOrder
<1>4. now \in Nat /\ x.every \in Nat
  BY <1>3 DEF TypeInv, Snapshot
<1>5. next \in Nat
  BY <1>4
<1> HIDE DEF x, t, next, idle
<1>6. request' \in [Users -> Request] /\ \A v \in Users : RequestInOrder(request'[v])
  BY <1>1, NothingType DEF TypeInv, idle
<1>7. CASE Exists(t)
  <2> DEFINE row == [tpl[t] EXCEPT !.status = "active", !.next = next]
  <2>1. tpl' = [tpl EXCEPT ![t] = row]
    BY <1>1, <1>7
  <2>2. tpl[t] \in Template /\ TemplateInOrder(t)
    BY <1>3 DEF TypeInv
  <2>3. row \in Template /\ row.status = "active" /\ row.every = tpl[t].every
    BY <1>5, <2>2, NextSet
  <2>4. row.status # "none" /\ row.every \in Periods
    BY <1>7, <2>2, <2>3 DEF Exists, TemplateInOrder
  <2> HIDE DEF row
  <2> QED
    BY <1>1, <1>3, <1>6, <2>1, <2>3, <2>4, TemplateMoves
<1>8. CASE ~Exists(t)
  BY <1>1, <1>2, <1>8, NothingType, RequestMoves DEF idle
<1> QED
  BY <1>7, <1>8

LEMMA RunType ==
    ASSUME TypeInv, NEW u \in Users, Run(u)
    PROVE  TypeInv'
<1> DEFINE x == request[u].read
<1>1. /\ request[u].does = "run" /\ Generate(x)
      /\ request' = [request EXCEPT ![u] = [does |-> "nothing", read |-> Nothing]]
      /\ UNCHANGED <<now, readOnly, tick, skipped>>
  BY DEF Run, Done
<1>2. request[u] \in Request /\ RequestInOrder(request[u])
  BY DEF TypeInv
<1>3. x.id \in Templates /\ x \in Snapshot
  BY <1>1, <1>2 DEF Request, RequestInOrder
<1> HIDE DEF x
<1>4. /\ tpl' \in [Templates -> Template] /\ raised' \in [Templates -> Nat]
      /\ lastDue' \in [Templates -> Nat] /\ invoiced' \in [Templates -> SUBSET Nat]
      /\ \A t \in Templates : TemplateInOrder(t)'
  BY <1>1, <1>3, GenerateType
<1>5. request' \in [Users -> Request] /\ \A v \in Users : RequestInOrder(request'[v])
  BY <1>1, NothingType DEF TypeInv
<1> QED
  BY <1>1, <1>4, <1>5 DEF TypeInv

\* Days that pass, and an organisation that stops paying or pays again.
LEMMA WorldType ==
    ASSUME TypeInv, PassTime \/ ChangeAccess \/ UNCHANGED vars
    PROVE  TypeInv'
<1>1. /\ now' \in 0 .. Horizon /\ readOnly' \in BOOLEAN
      /\ UNCHANGED <<tpl, tick, request, raised, lastDue, skipped, invoiced>>
  <2>1. now \in 0 .. Horizon /\ readOnly \in BOOLEAN
    BY DEF TypeInv
  <2>2. CASE PassTime
    BY <2>1, <2>2 DEF PassTime
  <2>3. CASE ChangeAccess
    <3>1. readOnly' \in BOOLEAN
      BY <2>1, <2>3, Zenon DEF ChangeAccess
    <3> QED
      BY <2>1, <2>3, <3>1 DEF ChangeAccess
  <2>4. CASE UNCHANGED vars
    BY <2>1, <2>4 DEF vars
  <2> QED
    BY <2>2, <2>3, <2>4
<1>2. \A t \in Templates : TemplateInOrder(t)'
  BY <1>1 DEF TypeInv, TemplateInOrder
<1> QED
  BY <1>1, <1>2 DEF TypeInv

LEMMA InitTypes == Init => TypeInv
<1> SUFFICES ASSUME Init PROVE TypeInv
  OBVIOUS
<1> DEFINE row == [status |-> "none", next |-> 0, runs |-> 0, every |-> 0,
                   maxRuns |-> Unlimited, end |-> Unlimited]
<1>1. row \in Template
  BY DEF Template
<1>2. row.status = "none" /\ row.runs = 0
  OBVIOUS
<1>3. tpl = [t \in Templates |-> row]
  BY DEF Init
<1> HIDE DEF row
<1>4. tpl \in [Templates -> Template] /\ \A t \in Templates : tpl[t] = row
  BY <1>1, <1>3
<1>5. \A t \in Templates : TemplateInOrder(t)
  BY <1>2, <1>4 DEF Init, TemplateInOrder
<1>6. tick \in [Schedulers -> Tick] /\ \A s \in Schedulers : TickInOrder(tick[s])
  BY RestingType DEF Init
<1>7. request \in [Users -> Request] /\ \A u \in Users : RequestInOrder(request[u])
  BY NothingType DEF Init
<1>8. /\ raised = [t \in Templates |-> 0] /\ lastDue = [t \in Templates |-> 0]
      /\ skipped = [t \in Templates |-> 0] /\ invoiced = [t \in Templates |-> {}]
      /\ now = 0 /\ readOnly = FALSE
  BY DEF Init
<1>9. readOnly \in BOOLEAN /\ now \in 0 .. Horizon
  <2>1. readOnly \in BOOLEAN
    BY <1>8, Zenon
  <2>2. now \in 0 .. Horizon
    BY <1>8
  <2> QED
    BY <2>1, <2>2
<1>10. /\ raised \in [Templates -> Nat] /\ lastDue \in [Templates -> Nat]
       /\ skipped \in [Templates -> Nat] /\ invoiced \in [Templates -> SUBSET Nat]
  BY <1>8
<1> QED
  BY <1>4, <1>5, <1>6, <1>7, <1>9, <1>10 DEF TypeInv

LEMMA NextTypes == TypeInv /\ [Next]_vars => TypeInv'
<1> SUFFICES ASSUME TypeInv, [Next]_vars PROVE TypeInv'
  OBVIOUS
<1>1. ASSUME NEW s \in Schedulers, TickStep(s) \/ Crash(s) PROVE TypeInv'
  <2>1. \/ StartTick(s) \/ EndTick(s) \/ Fail(s) \/ Reread(s) \/ Crash(s)
        \/ (\E rows \in SUBSET Templates : Select(s, rows))
        \/ (\E x \in tick[s].todo : TakeUp(s, x))
        \/ GenerateDue(s)
        \/ \E rows \in SUBSET Templates : Skip(s, rows)
    BY <1>1 DEF TickStep
  <2> QED
    BY <2>1, TickStepType, GenerateDueType, SkipEffect
<1>2. CASE UserStep
  BY <1>2, UserTemplateType, UserRequestType, ResumeType, RunType DEF UserStep
<1> QED
  BY <1>1, <1>2, WorldType DEF Next

\* The inductive invariant gives the type invariant: while a tick generates, it has a
\* template in hand, and that is not the empty snapshot.
LEMMA TypesImplied == TypeInv => TypeOK
<1> SUFFICES ASSUME TypeInv PROVE TypeOK
  OBVIOUS
<1>1. ASSUME NEW s \in Schedulers
      PROVE  /\ tick[s].step \in {"idle", "skip", "select", "next", "generate", "reread"}
             /\ tick[s].todo \subseteq Snapshot /\ tick[s].hand \in Snapshot
             /\ tick[s].count \in 0 .. MaxCatchup
             /\ tick[s].step \in {"generate", "reread"} <=> tick[s].hand # Nothing
  <2>1. tick[s] \in Tick /\ TickInOrder(tick[s])
    BY DEF TypeInv
  <2>2. Nothing.id \notin Templates
    BY DEF Nothing
  <2> QED
    BY <2>1, <2>2 DEF Tick, TickInOrder
<1>2. ASSUME NEW u \in Users
      PROVE  request[u].does \in {"nothing", "run", "resume"} /\ request[u].read \in Snapshot
  BY DEF TypeInv, Request
<1> QED
  BY <1>1, <1>2 DEF TypeInv, TypeOK

\* The variables keep their types whatever happens, a second scheduler and requests in the
\* middle of a tick included; no tick raises more than MaxCatchup invoices for a template.
THEOREM TypeCorrect == Spec => []TypeOK
<1>1. Spec => []TypeInv
  BY InitTypes, NextTypes, PTL DEF Spec
<1> QED
  BY <1>1, TypesImplied, PTL

-----------------------------------------------------------------------------
(* What was read is what is still there.                                   *)

\* A template reads as it did, and it was at most paused or deleted.
SameTemplate(z) ==
    /\ tpl'[z].next = tpl[z].next /\ tpl'[z].runs = tpl[z].runs /\ tpl'[z].every = tpl[z].every
    /\ tpl'[z].maxRuns = tpl[z].maxRuns /\ tpl'[z].end = tpl[z].end
    /\ tpl'[z].status = tpl[z].status \/ tpl'[z].status \in {"paused", "deleted"}

LEMMA SnapshotKept ==
    ASSUME NEW x, SameTemplate(x.id)
    PROVE  /\ Current(x) => Current(x)'
           /\ SameTerms(x) => SameTerms(x)'
           /\ Unfinished(x) => Unfinished(x)'
           /\ tpl[x.id].status # "none" => tpl'[x.id].status # "none"
<1>1. Current(x) => Current(x)'
  BY DEF Current, SnapshotOf, SameTemplate
<1>2. SameTerms(x) => SameTerms(x)'
  BY DEF SameTerms, SameTemplate
<1>3. /\ Unfinished(x) => Unfinished(x)'
      /\ tpl[x.id].status # "none" => tpl'[x.id].status # "none"
  BY DEF Unfinished, SameTemplate
<1> QED
  BY <1>1, <1>2, <1>3

\* A snapshot is current when each field is.
LEMMA CurrentFields ==
    ASSUME NEW x \in Snapshot
    PROVE  Current(x) <=> x.next = tpl[x.id].next /\ x.runs = tpl[x.id].runs /\ SameTerms(x)
BY DEF Snapshot, Current, SnapshotOf, SameTerms

\* No tick has read z, and no request that goes on.
Unread(z) ==
    /\ \A s \in Schedulers : \A x \in tick[s].todo \cup {tick[s].hand} : x.id # z
    /\ \A u \in Users : request'[u].does # "nothing" => request[u].read.id # z

\* Ticks and requests stay apart when only templates change that nobody has read.
LEMMA ApartKept ==
    ASSUME TypeInv, Apart, UNCHANGED tick,
           \A z \in Templates : SameTemplate(z) \/ Unread(z),
           \A u \in Users : request'[u].does # "nothing" => request'[u] = request[u],
           \A u \in Users :
               request'[u].does = "nothing" => request'[u].read = Nothing
    PROVE  Apart'
<1>1. ASSUME NEW s \in Schedulers PROVE TickCurrent(tick[s])'
  <2>1. tick[s] \in Tick /\ TickInOrder(tick[s]) /\ TickCurrent(tick[s])
    BY DEF TypeInv, Apart
  <2>2. \A x \in tick[s].todo : SameTemplate(x.id)
    BY <2>1 DEF TickInOrder, Unread
  <2>3. tick[s].step \in {"generate", "reread"} => SameTemplate(tick[s].hand.id)
    BY <2>1 DEF TickInOrder, Unread
  <2>4. \A x \in tick[s].todo : Current(x)' /\ Unfinished(x)' /\ x.id # tick[s].hand.id
    BY <2>1, <2>2, SnapshotKept DEF TickCurrent
  <2>5. tick[s].step = "generate" => Current(tick[s].hand)' /\ Unfinished(tick[s].hand)'
    <3> DEFINE h == tick[s].hand
    <3>1. SUFFICES ASSUME tick[s].step = "generate" PROVE Current(h)' /\ Unfinished(h)'
      OBVIOUS
    <3>2. Current(h) /\ Unfinished(h) /\ SameTemplate(h.id)
      BY <2>1, <2>3, <3>1 DEF TickCurrent
    <3>3. h' = h
      OBVIOUS
    <3> QED
      BY <3>2, <3>3 DEF Current, SnapshotOf, SameTemplate, Unfinished
  <2>6. tick[s].step = "reread" => SameTerms(tick[s].hand)' /\ tpl'[tick[s].hand.id].status # "none"
    BY <2>1, <2>3 DEF TickCurrent, SameTemplate, SameTerms
  <2> QED
    BY <2>4, <2>5, <2>6 DEF TickCurrent
<1>2. ASSUME NEW u \in Users PROVE RequestCurrent(u)'
  <2>1. SUFFICES ASSUME request'[u].does # "nothing" PROVE RequestCurrent(u)'
    BY DEF RequestCurrent
  <2>2. request'[u] = request[u] /\ RequestInOrder(request[u]) /\ RequestCurrent(u)
    BY <2>1 DEF TypeInv, Apart
  <2>3. request[u].read.id \in Templates /\ request[u].does # "nothing"
    BY <2>1, <2>2 DEF RequestInOrder
  <2>4. SameTemplate(request[u].read.id)
    BY <2>1, <2>3 DEF Unread
  <2>5. Current(request[u].read)' /\ Unfinished(request[u].read)'
    BY <2>2, <2>3, <2>4 DEF RequestCurrent, Current, SnapshotOf, SameTemplate, Unfinished
  <2>6. ASSUME NEW v \in Users \ {u} PROVE request'[v].read.id # request[u].read.id
    <3>1. request'[v] = request[v] \/ request'[v].read = Nothing
      OBVIOUS
    <3>2. request[v].read.id # request[u].read.id
      BY <2>2, <2>3 DEF RequestCurrent
    <3> QED
      BY <2>3, <3>1, <3>2 DEF Nothing
  <2> QED
    BY <2>2, <2>3, <2>5, <2>6 DEF RequestCurrent
<1> QED
  BY <1>1, <1>2 DEF Apart

\* One tick runs at a time, and no request works on a template between another's reading
\* it and writing it.
OneAtATime ==
    /\ \A s1, s2 \in Schedulers : s1 = s2
    /\ "requestDuringTick" \notin Uses

\* The steps of a tick that leave the templates alone.
LEMMA TickStepApart ==
    ASSUME TypeInv, Apart, OneAtATime, NEW s \in Schedulers,
           \/ StartTick(s) \/ EndTick(s) \/ Fail(s) \/ Reread(s) \/ Crash(s)
           \/ \E rows \in SUBSET Templates : Select(s, rows)
           \/ \E x \in tick[s].todo : TakeUp(s, x)
    PROVE  Apart'
<1>1. tick[s] \in Tick /\ TickInOrder(tick[s]) /\ TickCurrent(tick[s])
      /\ tick = [z \in Schedulers |-> tick[z]] /\ \A z \in Schedulers : z = s
  BY DEF TypeInv, Apart, OneAtATime
<1>2. UNCHANGED <<tpl, request>>
  BY DEF StartTick, EndTick, Fail, Reread, Crash, Select, TakeUp
\* What is left to show for each: the tick's new state, and what requests see of it.
<1>3. ASSUME NEW k, tick' = [tick EXCEPT ![s] = k], TickCurrent(k),
             \A u \in Users : request[u].does # "nothing" =>
                 /\ k.step \notin {"skip", "select"}
                 /\ \A x \in k.todo \cup {k.hand} : x.id # request[u].read.id
      PROVE  Apart'
  <2>1. tick'[s] = k
    BY <1>1, <1>3
  <2>2. TickCurrent(k)'
    <3>1. \A x : /\ Current(x) => Current(x)'
                 /\ Unfinished(x) => Unfinished(x)'
                 /\ SameTerms(x) => SameTerms(x)'
      BY <1>2 DEF Current, SnapshotOf, Unfinished, SameTerms
    <3> QED
      BY <1>2, <1>3, <3>1 DEF TickCurrent
  <2>3. \A z \in Schedulers : TickCurrent(tick[z])'
    BY <1>1, <2>1, <2>2 DEF TickCurrent
  <2>4. ASSUME NEW u \in Users PROVE RequestCurrent(u)'
    <3>1. RequestCurrent(u)
      BY DEF Apart
    <3> QED
      BY <1>1, <1>2, <1>3, <2>1, <3>1 DEF RequestCurrent, Current, SnapshotOf, Unfinished
  <2> QED
    BY <2>3, <2>4 DEF Apart
<1>4. ASSUME NEW u \in Users, request[u].does # "nothing"
      PROVE  /\ request[u].read.id \in Templates /\ request[u].read.id # Nothing.id
             /\ tick[s].step \notin {"skip", "select"}
             /\ \A x \in tick[s].todo \cup {tick[s].hand} : x.id # request[u].read.id
  <2>1. RequestInOrder(request[u]) /\ RequestCurrent(u)
    BY DEF TypeInv, Apart
  <2> QED
    BY <1>4, <2>1 DEF RequestInOrder, RequestCurrent, Nothing
<1>5. CASE StartTick(s)
  <2> DEFINE k == [tick[s] EXCEPT !.step = IF readOnly THEN "skip" ELSE "select"]
  <2>1. /\ tick' = [tick EXCEPT ![s] = k] /\ k.step \in {"skip", "select"}
        /\ k.todo = tick[s].todo /\ k.hand = tick[s].hand
    BY <1>1, <1>5 DEF StartTick, Tick
  <2>2. \A u \in Users : request[u].does = "nothing"
    BY <1>5 DEF StartTick, MayTick, OneAtATime
  <2> HIDE DEF k
  <2>3. TickCurrent(k)
    BY <1>1, <2>1 DEF TickCurrent
  <2> QED
    BY <1>3, <2>1, <2>2, <2>3
<1>6. CASE EndTick(s) \/ Crash(s)
  <2>1. tick' = [tick EXCEPT ![s] = Resting]
    BY <1>6 DEF EndTick, Crash
  <2>2. TickCurrent(Resting) /\ Resting.step = "idle" /\ Resting.todo \cup {Resting.hand} = {Nothing}
    BY DEF Resting, TickCurrent
  <2> QED
    BY <1>3, <1>4, <2>1, <2>2
<1>7. /\ LayDown(s).step = "next" /\ LayDown(s).todo = tick[s].todo /\ LayDown(s).hand = Nothing
      /\ TickCurrent(LayDown(s))
  <2>1. \A x \in tick[s].todo : x.id # Nothing.id
    BY <1>1 DEF TickInOrder, Nothing
  <2> QED
    BY <1>1, <2>1 DEF LayDown, TickCurrent
<1>8. CASE tick' = [tick EXCEPT ![s] = LayDown(s)]
  BY <1>3, <1>4, <1>7, <1>8
<1>9. CASE Fail(s)
  BY <1>8, <1>9 DEF Fail
<1>10. CASE Reread(s)
  <2> DEFINE x == tick[s].hand
             y == Refreshed(x)
             k == [tick[s] EXCEPT !.step = "generate", !.hand = y]
  <2>1. CASE tick' = [tick EXCEPT ![s] = LayDown(s)]
    BY <1>8, <2>1
  <2>2. CASE tick' = [tick EXCEPT ![s] = k] /\ tick[s].step = "reread" /\ tpl[x.id].status = "active"
    <3>1. x \in Snapshot /\ x.id \in Templates /\ SameTerms(x)
      BY <1>1, <2>2 DEF Tick, TickInOrder, TickCurrent
    <3>2. tpl[x.id].next \in Nat /\ tpl[x.id].runs \in Nat
      BY <3>1 DEF TypeInv, Template
    <3>3. y \in Snapshot /\ y.id = x.id /\ y.next = tpl[x.id].next /\ y.runs = tpl[x.id].runs
          /\ SameTerms(y)
      BY <3>1, <3>2 DEF Refreshed, Snapshot, SameTerms
    <3> HIDE DEF y
    <3>4. Current(y) /\ Unfinished(y)
      BY <2>2, <3>3, CurrentFields DEF Unfinished
    <3>5. /\ k.step = "generate" /\ k.todo = tick[s].todo /\ k.hand = y
      BY <1>1 DEF Tick
    <3> HIDE DEF k
    <3>6. \A z \in k.todo : Current(z) /\ Unfinished(z) /\ z.id # k.hand.id
      BY <1>1, <3>3, <3>5 DEF TickCurrent
    <3>7. TickCurrent(k)
      BY <3>4, <3>5, <3>6 DEF TickCurrent
    <3>8. \A u \in Users : request[u].does # "nothing" =>
              \A z \in k.todo \cup {k.hand} : z.id # request[u].read.id
      BY <1>4, <3>3, <3>5
    <3> QED
      BY <1>3, <2>2, <3>5, <3>7, <3>8
  <2> QED
    BY <1>10, <2>1, <2>2 DEF Reread
<1>11. ASSUME NEW rows \in SUBSET Templates, Select(s, rows) PROVE Apart'
  <2> DEFINE todo == {SnapshotOf(t) : t \in rows}
             k == [tick[s] EXCEPT !.step = "next", !.todo = todo]
  <2>1. tick[s].step = "select" /\ tick' = [tick EXCEPT ![s] = k] /\ rows \subseteq Due
    BY <1>1, <1>11 DEF Select, Taken
  <2>2. \A u \in Users : request[u].does = "nothing"
    BY <1>4, <2>1
  <2>3. ASSUME NEW x \in todo PROVE Current(x) /\ Unfinished(x) /\ x.id \in Templates
    <3>1. PICK t \in rows : x = SnapshotOf(t)
      OBVIOUS
    <3>2. x.id = t
      BY <3>1, SnapshotType
    <3> QED
      BY <2>1, <3>1, <3>2 DEF Current, Unfinished, Due
  <2> HIDE DEF todo
  <2>4. k.step = "next" /\ k.todo = todo /\ k.hand = Nothing
    BY <1>1, <2>1 DEF Tick, TickInOrder
  <2> HIDE DEF k
  <2>5. TickCurrent(k)
    BY <2>3, <2>4 DEF TickCurrent, Nothing
  <2> QED
    BY <1>3, <2>1, <2>2, <2>5
<1>12. ASSUME NEW x \in tick[s].todo, TakeUp(s, x) PROVE Apart'
  <2> DEFINE k == [step |-> "generate", todo |-> tick[s].todo \ {x}, hand |-> x, count |-> 0]
  <2>1. tick' = [tick EXCEPT ![s] = k]
    BY <1>12 DEF TakeUp
  <2>2. k.step = "generate" /\ k.todo = tick[s].todo \ {x} /\ k.hand = x
    OBVIOUS
  <2> HIDE DEF k
  <2>3. \A z \in k.todo : Current(z) /\ Unfinished(z) /\ z.id # x.id
    BY <1>1, <2>2 DEF TickCurrent, Current
  <2>4. TickCurrent(k)
    BY <1>1, <2>2, <2>3 DEF TickCurrent
  <2>5. \A u \in Users : request[u].does # "nothing" =>
            \A z \in k.todo \cup {k.hand} : z.id # request[u].read.id
    BY <1>4, <2>2
  <2> QED
    BY <1>3, <2>1, <2>2, <2>4, <2>5
<1> QED
  BY <1>5, <1>6, <1>9, <1>10, <1>11, <1>12

\* Skipping is done with no request under way, and ends the tick.
LEMMA SkipApart ==
    ASSUME TypeInv, Apart, OneAtATime, NEW s \in Schedulers, NEW rows \in SUBSET Templates,
           Skip(s, rows)
    PROVE  Apart'
<1>1. tick[s].step = "skip" /\ tick' = [tick EXCEPT ![s] = Resting] /\ request' = request
  BY DEF Skip
<1>2. \A u \in Users : request[u].does = "nothing"
  BY <1>1 DEF Apart, RequestCurrent
<1>3. \A z \in Schedulers : tick'[z] = Resting
  BY <1>1 DEF TypeInv, OneAtATime
<1>4. \A z \in Schedulers : TickCurrent(tick[z])'
  BY <1>3 DEF TickCurrent, Resting
<1>5. \A u \in Users : RequestCurrent(u)'
  BY <1>1, <1>2 DEF RequestCurrent
<1> QED
  BY <1>4, <1>5 DEF Apart

\* A tick generates from what is in hand, and what it has still to do is of other templates.
LEMMA GenerateDueApart ==
    ASSUME TypeInv, Apart, OneAtATime, NEW s \in Schedulers, GenerateDue(s)
    PROVE  /\ Apart'
           /\ LET x == tick[s].hand IN /\ x \in Snapshot /\ x.id \in Templates
                                       /\ Generate(x) /\ Current(x) /\ Unfinished(x)
<1> DEFINE x == tick[s].hand
           k == [tick[s] EXCEPT !.step = "reread", !.count = tick[s].count + 1]
<1>1. /\ tick[s] \in Tick /\ TickInOrder(tick[s]) /\ TickCurrent(tick[s])
      /\ tick = [z \in Schedulers |-> tick[z]] /\ \A z \in Schedulers : z = s
  BY DEF TypeInv, Apart, OneAtATime
<1>2. /\ tick[s].step = "generate" /\ Generate(x) /\ tick' = [tick EXCEPT ![s] = k]
      /\ UNCHANGED <<request, skipped>>
  BY <1>1 DEF GenerateDue
<1>3. x \in Snapshot /\ x.id \in Templates /\ Current(x) /\ Unfinished(x)
  BY <1>1, <1>2 DEF Tick, TickInOrder, TickCurrent
<1>4. k.step = "reread" /\ k.todo = tick[s].todo /\ k.hand = x
  BY <1>1 DEF Tick
<1>5. /\ \A t \in Templates \ {x.id} : tpl'[t] = tpl[t]
      /\ tpl'[x.id].every = tpl[x.id].every /\ tpl'[x.id].maxRuns = tpl[x.id].maxRuns
      /\ tpl'[x.id].end = tpl[x.id].end
      /\ tpl'[x.id].status = (IF Finished(x) THEN "completed" ELSE tpl[x.id].status)
  BY <1>2, <1>3, GenerateType
<1>6. \A t \in Templates \ {x.id} : SameTemplate(t)
  BY <1>5 DEF SameTemplate
<1>7. SameTerms(x) /\ tpl[x.id].status # "none"
  BY <1>3, CurrentFields DEF Unfinished
<1>8. SameTerms(x)'
  <2>1. x' = x
    BY <1>2, <1>1, <1>4
  <2> QED
    BY <1>5, <1>7, <2>1 DEF SameTerms
<1> HIDE DEF k
<1>9. tick'[s] = k
  BY <1>1, <1>2
<1>10. ASSUME NEW y \in tick'[s].todo PROVE Current(y)' /\ Unfinished(y)' /\ y.id # x.id
  <2>1. y \in tick[s].todo
    BY <1>4, <1>9
  <2>2. Current(y) /\ Unfinished(y) /\ y.id # x.id /\ y.id \in Templates
    BY <1>1, <2>1 DEF TickCurrent, TickInOrder
  <2> QED
    BY <1>6, <2>2, SnapshotKept
<1>11. TickCurrent(tick[s])'
  <2>1. tick'[s].step = "reread" /\ tick'[s].hand = x
    BY <1>4, <1>9
  <2>2. SameTerms(tick[s].hand)' /\ tpl'[tick'[s].hand.id].status # "none"
    BY <1>5, <1>7, <2>1 DEF SameTerms
  <2> QED
    BY <1>10, <2>1, <2>2 DEF TickCurrent
<1>12. ASSUME NEW u \in Users PROVE RequestCurrent(u)'
  <2>1. SUFFICES ASSUME request[u].does # "nothing" PROVE RequestCurrent(u)'
    BY <1>2 DEF RequestCurrent
  <2>2. RequestCurrent(u) /\ RequestInOrder(request[u])
    BY DEF Apart, TypeInv
  <2>3. request[u].read.id \in Templates \ {x.id}
    BY <2>1, <2>2 DEF RequestInOrder, RequestCurrent
  <2>4. SameTemplate(request[u].read.id)
    BY <1>6, <2>3
  <2>5. Current(request[u].read)' /\ Unfinished(request[u].read)'
    BY <1>2, <2>1, <2>2, <2>4 DEF RequestCurrent, Current, SnapshotOf, SameTemplate, Unfinished
  <2>6. \A z \in Schedulers :
           /\ tick'[z].step \notin {"skip", "select"}
           /\ \A y \in tick'[z].todo \cup {tick'[z].hand} : y.id # request[u].read.id
    BY <1>1, <1>4, <1>9, <2>1, <2>2 DEF RequestCurrent
  <2> QED
    BY <1>2, <2>1, <2>2, <2>5, <2>6 DEF RequestCurrent
<1>13. \A z \in Schedulers : TickCurrent(tick[z])'
  BY <1>1, <1>11
<1> QED
  BY <1>2, <1>3, <1>12, <1>13 DEF Apart

\* A request run by hand generates from what it read.
LEMMA RunApart ==
    ASSUME TypeInv, Apart, NEW u \in Users, Run(u)
    PROVE  /\ Apart'
           /\ LET x == request[u].read IN /\ x \in Snapshot /\ x.id \in Templates
                                          /\ Generate(x) /\ Current(x) /\ Unfinished(x)
<1> DEFINE x == request[u].read
           idle == [does |-> "nothing", read |-> Nothing]
<1>1. /\ request[u].does = "run" /\ Generate(x) /\ request' = [request EXCEPT ![u] = idle]
      /\ UNCHANGED <<tick, skipped>>
  BY DEF Run, Done
<1>2. request[u] \in Request /\ RequestInOrder(request[u]) /\ RequestCurrent(u)
      /\ request = [v \in Users |-> request[v]]
  BY DEF TypeInv, Apart
<1>3. x \in Snapshot /\ x.id \in Templates /\ Current(x) /\ Unfinished(x)
  BY <1>1, <1>2 DEF Request, RequestInOrder, RequestCurrent
<1>4. \A t \in Templates \ {x.id} : SameTemplate(t)
  <2>1. \A t \in Templates \ {x.id} : tpl'[t] = tpl[t]
    BY <1>1, <1>3, GenerateType
  <2> QED
    BY <2>1 DEF SameTemplate
<1>5. \A s \in Schedulers : \A y \in tick[s].todo \cup {tick[s].hand} : y.id # x.id
  BY <1>1, <1>2 DEF RequestCurrent
<1>6. idle.does = "nothing" /\ idle.read = Nothing
  OBVIOUS
<1>7. \A v \in Users \ {u} : request'[v] = request[v] /\ request[v].read.id # x.id
  BY <1>1, <1>2 DEF RequestCurrent
<1>8. \A v \in Users : RequestInOrder(request[v])
  BY DEF TypeInv
<1> HIDE DEF idle
<1>9. request'[u] = idle
  BY <1>1, <1>2
<1>10. \A v \in Users :
          /\ request'[v].does # "nothing" => request'[v] = request[v] /\ request[v].read.id # x.id
          /\ request'[v].does = "nothing" => request'[v].read = Nothing
  BY <1>6, <1>7, <1>8, <1>9 DEF RequestInOrder
<1>11. Unread(x.id)
  BY <1>5, <1>10 DEF Unread
<1>12. Apart'
  BY <1>1, <1>4, <1>10, <1>11, ApartKept
<1> QED
  BY <1>1, <1>3, <1>12

LEMMA ResumeApart ==
    ASSUME TypeInv, Apart, NEW u \in Users, Resume(u)
    PROVE  /\ Apart'
           /\ LET x == request[u].read IN x \in Snapshot /\ x.id \in Templates /\ Current(x)
<1> DEFINE x == request[u].read
           t == x.id
           next == now + x.every
           row == [tpl[t] EXCEPT !.status = "active", !.next = next]
           idle == [does |-> "nothing", read |-> Nothing]
<1>1. /\ request[u].does = "resume" /\ tpl' = (IF Exists(t) THEN [tpl EXCEPT ![t] = row] ELSE tpl)
      /\ request' = [request EXCEPT ![u] = idle] /\ UNCHANGED tick
  BY DEF Resume, Done
<1>2. request[u] \in Request /\ RequestInOrder(request[u]) /\ RequestCurrent(u)
      /\ request = [v \in Users |-> request[v]]
  BY DEF TypeInv, Apart
<1>3. x \in Snapshot /\ t \in Templates /\ Current(x)
  BY <1>1, <1>2 DEF Request, RequestInOrder, RequestCurrent
<1> HIDE DEF row
<1>4. \A z \in Templates \ {t} : SameTemplate(z)
  BY <1>1 DEF SameTemplate, TypeInv
<1>5. \A s \in Schedulers : \A y \in tick[s].todo \cup {tick[s].hand} : y.id # t
  BY <1>1, <1>2 DEF RequestCurrent
<1>6. idle.does = "nothing" /\ idle.read = Nothing
  OBVIOUS
<1>7. \A v \in Users \ {u} : request'[v] = request[v] /\ request[v].read.id # t
  BY <1>1, <1>2 DEF RequestCurrent
<1>8. \A v \in Users : RequestInOrder(request[v])
  BY DEF TypeInv
<1> HIDE DEF idle
<1>9. request'[u] = idle
  BY <1>1, <1>2
<1>10. \A v \in Users :
          /\ request'[v].does # "nothing" => request'[v] = request[v] /\ request[v].read.id # t
          /\ request'[v].does = "nothing" => request'[v].read = Nothing
  BY <1>6, <1>7, <1>8, <1>9 DEF RequestInOrder
<1>11. Unread(t)
  BY <1>5, <1>10 DEF Unread
<1>12. Apart'
  BY <1>1, <1>4, <1>10, <1>11, ApartKept
<1> QED
  BY <1>3, <1>12

\* Nobody has read a template that was not made, a quiet one, or one that does not exist.
LEMMA UserTemplateApart ==
    ASSUME TypeInv, Apart, OneAtATime, NEW t \in Templates,
           \/ \E start \in 0 .. Horizon, every \in Periods, maxRuns \in RunLimits, end \in Ends :
                 Create(t, start, every, maxRuns, end)
           \/ \E every \in Periods, maxRuns \in RunLimits, end \in Ends :
                 Update(t, every, maxRuns, end)
           \/ Delete(t) \/ Pause(t)
    PROVE  Apart'
<1>1. /\ tick' = tick /\ request' = request
      /\ \A z \in Templates \ {t} : tpl'[z] = tpl[z]
  <2>1. \E row : tpl' = [tpl EXCEPT ![t] = row]
    <3>1. CASE \E start \in 0 .. Horizon, every \in Periods, maxRuns \in RunLimits, end \in Ends :
                   Create(t, start, every, maxRuns, end)
      BY <3>1 DEF Create
    <3>2. CASE \E every \in Periods, maxRuns \in RunLimits, end \in Ends :
                   Update(t, every, maxRuns, end)
      <4>1. PICK every \in Periods, maxRuns \in RunLimits, end \in Ends :
                Update(t, every, maxRuns, end)
        BY <3>2
      <4>2. \E kept : tpl' = [tpl EXCEPT ![t].every = every, ![t].maxRuns = maxRuns, ![t].end = kept]
        BY <4>1 DEF Update
      <4> QED
        BY <4>2
    <3>3. CASE Delete(t) \/ Pause(t)
      <4>1. \E status : tpl' = [tpl EXCEPT ![t].status = status]
        BY <3>3 DEF Delete, Pause
      <4> QED
        BY <4>1
    <3> QED
      BY <3>1, <3>2, <3>3
  <2> QED
    BY <2>1 DEF TypeInv, Create, Update, Delete, Pause
<1>2. \A z \in Templates \ {t} : SameTemplate(z)
  BY <1>1 DEF SameTemplate
<1>3. \A u \in Users : /\ RequestInOrder(request[u]) /\ RequestCurrent(u)
                       /\ request'[u].does = "nothing" => request'[u].read = Nothing
  BY <1>1 DEF TypeInv, Apart, RequestInOrder
<1>4. ASSUME \A s \in Schedulers : \A x \in tick[s].todo \cup {tick[s].hand} : x.id # t,
             \A u \in Users : request[u].does # "nothing" => request[u].read.id # t
      PROVE  Apart'
  <2>1. Unread(t)
    BY <1>1, <1>4 DEF Unread
  <2> QED
    BY <1>1, <1>2, <1>3, <2>1, ApartKept
<1>5. ASSUME tpl[t].status = "none" PROVE Apart'
  <2>1. ASSUME NEW s \in Schedulers, NEW x \in tick[s].todo \cup {tick[s].hand}, x.id = t
        PROVE  FALSE
    <3>1. TickInOrder(tick[s]) /\ TickCurrent(tick[s]) /\ tick[s] \in Tick
      BY DEF TypeInv, Apart
    <3>2. x = tick[s].hand => tick[s].step \in {"generate", "reread"}
      BY <2>1, <3>1 DEF TickInOrder, Nothing
    <3> QED
      BY <1>5, <2>1, <3>1, <3>2 DEF TickCurrent, Unfinished, Tick
  <2>2. \A u \in Users : request[u].does # "nothing" => request[u].read.id # t
    BY <1>3, <1>5 DEF RequestCurrent, Unfinished
  <2> QED
    BY <1>4, <2>1, <2>2
<1>6. CASE \E start \in 0 .. Horizon, every \in Periods, maxRuns \in RunLimits, end \in Ends :
               Create(t, start, every, maxRuns, end)
  BY <1>5, <1>6 DEF Create
<1>7. CASE \E every \in Periods, maxRuns \in RunLimits, end \in Ends :
               Update(t, every, maxRuns, end)
  <2>1. Quiet(t)
    BY <1>7 DEF Update, MayTouch, OneAtATime
  <2> QED
    BY <1>4, <2>1 DEF Quiet
<1>8. ASSUME NEW status \in {"paused", "deleted"}, tpl' = [tpl EXCEPT ![t].status = status]
      PROVE  Apart'
  <2>1. tpl[t] \in Template /\ tpl' = [tpl EXCEPT ![t] = [tpl[t] EXCEPT !.status = status]]
    BY <1>8 DEF TypeInv
  <2> DEFINE old == tpl[t]
             row == [old EXCEPT !.status = status]
  <2>2. tpl'[t] = row /\ old \in Template
    BY <2>1 DEF TypeInv
  <2> HIDE DEF old
  <2>3. /\ row.next = old.next /\ row.runs = old.runs /\ row.every = old.every
        /\ row.maxRuns = old.maxRuns /\ row.end = old.end /\ row.status = status
    BY <2>2 DEF Template
  <2> HIDE DEF row
  <2>4. SameTemplate(t)
    BY <1>8, <2>2, <2>3 DEF SameTemplate, old
  <2> QED
    BY <1>1, <1>2, <1>3, <2>4, ApartKept
<1> QED
  BY <1>6, <1>7, <1>8 DEF Delete, Pause

\* A request reads a quiet template, or is given up.
LEMMA UserRequestApart ==
    ASSUME TypeInv, Apart, OneAtATime, NEW u \in Users,
           GiveUp(u) \/ (\E t \in Templates : ReadToResume(u, t) \/ ReadToRun(u, t))
    PROVE  Apart'
<1>1. UNCHANGED <<tpl, tick>>
  BY DEF GiveUp, ReadToResume, ReadToRun, Read
<1>2. \A x : SameTemplate(x)
  BY <1>1 DEF SameTemplate
<1>3. \A v \in Users : RequestInOrder(request[v]) /\ RequestCurrent(v)
  BY DEF TypeInv, Apart
<1>4. CASE GiveUp(u)
  <2> DEFINE idle == [does |-> "nothing", read |-> Nothing]
  <2>1. idle.does = "nothing" /\ idle.read = Nothing
    OBVIOUS
  <2>2. request' = [request EXCEPT ![u] = idle]
    BY <1>4 DEF GiveUp, Done
  <2> HIDE DEF idle
  <2>3. \A v \in Users : /\ request'[v].does # "nothing" => request'[v] = request[v]
                         /\ request'[v].does = "nothing" => request'[v].read = Nothing
    BY <1>3, <2>1, <2>2 DEF TypeInv, RequestInOrder
  <2> QED
    BY <1>1, <1>2, <2>3, ApartKept
<1>5. ASSUME NEW t \in Templates, ReadToResume(u, t) \/ ReadToRun(u, t) PROVE Apart'
  <2> DEFINE x == SnapshotOf(t)
  <2>1. PICK does \in {"run", "resume"} :
           /\ request[u].does = "nothing" /\ tpl[t].status \in {"active", "paused"} /\ Quiet(t)
           /\ request' = [request EXCEPT ![u] = [does |-> does, read |-> x]]
    BY <1>5 DEF ReadToResume, ReadToRun, Read, MayTouch, OneAtATime
  <2>2. x.id = t /\ Current(x) /\ Unfinished(x)
    BY <2>1, SnapshotType DEF Current, Unfinished
  <2> HIDE DEF x
  <2>3. /\ request'[u].read = x
        /\ \A v \in Users \ {u} : request'[v] = request[v]
    BY <2>1 DEF TypeInv
  <2>4. \A v \in Users : request[v].read.id # t
    BY <2>1 DEF Quiet
  <2>5. RequestCurrent(u)'
    <3>1. Current(request[u].read)' /\ Unfinished(request[u].read)'
      BY <1>1, <2>2, <2>3 DEF Current, SnapshotOf, Unfinished
    <3>2. \A v \in Users \ {u} : request'[v].read.id # request'[u].read.id
      BY <2>2, <2>3, <2>4
    <3>3. \A s \in Schedulers :
             /\ tick'[s].step \notin {"skip", "select"}
             /\ \A y \in tick'[s].todo \cup {tick'[s].hand} : y.id # request'[u].read.id
      BY <1>1, <2>1, <2>2, <2>3 DEF Quiet
    <3> QED
      BY <3>1, <3>2, <3>3 DEF RequestCurrent
  <2>6. ASSUME NEW v \in Users \ {u} PROVE RequestCurrent(v)'
    <3>1. SUFFICES ASSUME request'[v].does # "nothing" PROVE RequestCurrent(v)'
      BY DEF RequestCurrent
    <3>2. request'[v] = request[v] /\ RequestCurrent(v) /\ request[v].does # "nothing"
      BY <1>3, <2>3, <3>1
    <3>3. Current(request[v].read)' /\ Unfinished(request[v].read)'
      BY <1>1, <3>2 DEF RequestCurrent, Current, SnapshotOf, Unfinished
    <3>4. \A w \in Users \ {v} : request'[w].read.id # request'[v].read.id
      BY <2>2, <2>3, <2>4, <3>2 DEF RequestCurrent
    <3> QED
      BY <1>1, <3>2, <3>3, <3>4 DEF RequestCurrent
  <2>7. \A s \in Schedulers : TickCurrent(tick[s])'
    BY <1>1 DEF Apart, TickCurrent, Current, SnapshotOf, Unfinished, SameTerms
  <2> QED
    BY <2>5, <2>6, <2>7 DEF Apart
<1> QED
  BY <1>4, <1>5

\* Every step keeps ticks and requests apart.
LEMMA NextApart ==
    ASSUME OneAtATime
    PROVE  TypeInv /\ Apart /\ [Next]_vars => Apart'
<1> SUFFICES ASSUME TypeInv, Apart, [Next]_vars PROVE Apart'
  OBVIOUS
<1>1. ASSUME NEW s \in Schedulers, TickStep(s) \/ Crash(s) PROVE Apart'
  <2>1. \/ StartTick(s) \/ EndTick(s) \/ Fail(s) \/ Reread(s) \/ Crash(s)
        \/ (\E rows \in SUBSET Templates : Select(s, rows))
        \/ (\E x \in tick[s].todo : TakeUp(s, x))
        \/ GenerateDue(s)
        \/ \E rows \in SUBSET Templates : Skip(s, rows)
    BY <1>1 DEF TickStep
  <2> QED
    BY <2>1, TickStepApart, GenerateDueApart, SkipApart
<1>2. CASE UserStep
  BY <1>2, UserTemplateApart, UserRequestApart, ResumeApart, RunApart DEF UserStep
<1>3. CASE PassTime \/ ChangeAccess \/ UNCHANGED vars
  <2>1. UNCHANGED <<tpl, tick, request>>
    BY <1>3 DEF PassTime, ChangeAccess, vars
  <2>2. \A z : SameTemplate(z)
    BY <2>1 DEF SameTemplate
  <2>3. \A u \in Users : /\ request'[u].does # "nothing" => request'[u] = request[u]
                         /\ request'[u].does = "nothing" => request'[u].read = Nothing
    BY <2>1 DEF TypeInv, RequestInOrder
  <2> QED
    BY <2>1, <2>2, <2>3, ApartKept
<1> QED
  BY <1>1, <1>2, <1>3 DEF Next

LEMMA InitApart == Init => Apart
<1> SUFFICES ASSUME Init PROVE Apart
  OBVIOUS
<1>1. \A s \in Schedulers : tick[s] = Resting
  BY DEF Init
<1>2. \A s \in Schedulers : TickCurrent(tick[s])
  BY <1>1 DEF TickCurrent, Resting
<1>3. \A u \in Users : RequestCurrent(u)
  BY DEF Init, RequestCurrent
<1> QED
  BY <1>2, <1>3 DEF Apart

LEMMA AlwaysApart ==
    ASSUME OneAtATime
    PROVE  Spec => [](TypeInv /\ Apart)
<1>1. Init => TypeInv /\ Apart
  BY InitTypes, InitApart
<1>2. TypeInv /\ Apart /\ [Next]_vars => (TypeInv /\ Apart)'
  BY NextTypes, NextApart
<1> QED
  BY <1>1, <1>2, PTL DEF Spec

\* What a step that generates does: it raises one invoice for a template that reads as it
\* did, and moves that template on.
Raises(x) ==
    /\ x.id \in Templates /\ UNCHANGED <<now, skipped>>
    /\ tpl[x.id].status \in {"active", "paused"} /\ tpl[x.id].every \in Periods
    /\ x.next = tpl[x.id].next /\ x.runs = tpl[x.id].runs /\ SameTerms(x)
    /\ \A t \in Templates \ {x.id} : /\ tpl'[t] = tpl[t] /\ raised'[t] = raised[t]
                                    /\ lastDue'[t] = lastDue[t] /\ invoiced'[t] = invoiced[t]
    /\ tpl'[x.id].runs = x.runs + 1 /\ tpl'[x.id].next = x.next + x.every
    /\ tpl'[x.id].status = (IF Finished(x) THEN "completed" ELSE tpl[x.id].status)
    /\ tpl'[x.id].every = tpl[x.id].every /\ tpl'[x.id].maxRuns = tpl[x.id].maxRuns
    /\ tpl'[x.id].end = tpl[x.id].end
    /\ raised'[x.id] = raised[x.id] + 1 /\ lastDue'[x.id] = x.next
    /\ invoiced'[x.id] \subseteq invoiced[x.id] \cup {d \in {x.next} : d <= now}

LEMMA GenerateRaises ==
    ASSUME TypeInv, NEW x \in Snapshot, x.id \in Templates, Generate(x), Current(x),
           Unfinished(x), UNCHANGED <<now, skipped>>
    PROVE  Raises(x)
<1>1. /\ x.next = tpl[x.id].next /\ x.runs = tpl[x.id].runs /\ SameTerms(x)
      /\ tpl[x.id].status \in {"active", "paused"}
  BY CurrentFields DEF Generate, Exists, Unfinished
<1>2. tpl[x.id].every \in Periods
  BY <1>1 DEF TypeInv, TemplateInOrder
<1>3. invoiced'[x.id] \subseteq invoiced[x.id] \cup {d \in {x.next} : d <= now}
  <2>1. invoiced'[x.id] = IF x.next <= now THEN invoiced[x.id] \cup {x.next} ELSE invoiced[x.id]
    BY GenerateType
  <2> QED
    BY <2>1
<1> QED
  BY <1>1, <1>2, <1>3, GenerateType DEF Raises

-----------------------------------------------------------------------------
(* What a step does to a template that raises no invoice for it.           *)

Changes(t) ==
    /\ tpl'[t].runs = tpl[t].runs
    /\ \/ /\ skipped'[t] = skipped[t]
          /\ tpl'[t].next = tpl[t].next \/ tpl'[t].next > now \/ tpl[t].status = "none"
       \/ skipped'[t] = now /\ tpl'[t].next > now
    /\ "pastLimits" \notin Uses /\ TemplateInLimits(t) => TemplateInLimits(t)'

LEMMA Unchanged ==
    ASSUME NEW t, tpl'[t] = tpl[t], skipped'[t] = skipped[t]
    PROVE  Changes(t)
BY DEF Changes, TemplateInLimits

\* A skip moves a template past today, and completes it when that is past its end.
LEMMA SkipChanges ==
    ASSUME TypeInv, NEW s \in Schedulers, NEW rows \in SUBSET Templates, Skip(s, rows)
    PROVE  \A t \in Templates : Changes(t)
<1> SUFFICES ASSUME NEW t \in Templates PROVE Changes(t)
  OBVIOUS
<1>1. CASE t \notin rows
  BY <1>1, SkipEffect, Unchanged
<1>2. CASE t \in rows
  <2>1. /\ tpl[t].status = "active"
        /\ tpl'[t].next = NextAfterToday(t) /\ NextAfterToday(t) > now
        /\ skipped'[t] = now
        /\ tpl'[t].status = (IF EndsBefore(t) THEN "completed" ELSE "active")
        /\ tpl'[t].runs = tpl[t].runs
        /\ tpl'[t].maxRuns = tpl[t].maxRuns /\ tpl'[t].end = tpl[t].end
    BY <1>2, SkipEffect
  <2>2. tpl[t] \in Template /\ tpl'[t] \in Template
    BY SkipEffect DEF TypeInv
  <2>3. tpl[t].end \in Nat /\ tpl'[t].next \in Nat
    BY <2>2 DEF Template
  <2>4. TemplateInLimits(t) => TemplateInLimits(t)'
    BY <2>1, <2>3 DEF TemplateInLimits, WithinLimits, EndsBefore
  <2> QED
    BY <2>1, <2>4 DEF Changes
<1> QED
  BY <1>1, <1>2

\* What the requests that make, change, delete and pause a template do to it.
LEMMA UserTemplateChanges ==
    ASSUME TypeInv, NEW t \in Templates,
           \/ \E start \in 0 .. Horizon, every \in Periods, maxRuns \in RunLimits, end \in Ends :
                 Create(t, start, every, maxRuns, end)
           \/ \E every \in Periods, maxRuns \in RunLimits, end \in Ends :
                 Update(t, every, maxRuns, end)
           \/ Delete(t) \/ Pause(t)
    PROVE  \A z \in Templates : Changes(z)
<1>1. /\ tpl[t] \in Template /\ TemplateInOrder(t) /\ tpl = [z \in Templates |-> tpl[z]]
  BY DEF TypeInv
<1>2. UNCHANGED <<now, raised, lastDue, skipped, invoiced>>
  BY DEF Create, Update, Delete, Pause
<1>3. ASSUME NEW row, tpl' = [tpl EXCEPT ![t] = row], row.runs = tpl[t].runs,
             row.next = tpl[t].next \/ tpl[t].status = "none",
             "pastLimits" \notin Uses /\ TemplateInLimits(t) /\ row.status \in {"active", "paused"}
                => WithinLimits(row.next, row.runs, row.maxRuns, row.end)
      PROVE  \A z \in Templates : Changes(z)
  <2>1. tpl'[t] = row /\ \A z \in Templates \ {t} : tpl'[z] = tpl[z]
    BY <1>1, <1>3
  <2>2. "pastLimits" \notin Uses /\ TemplateInLimits(t) => TemplateInLimits(t)'
    BY <1>3, <2>1 DEF TemplateInLimits
  <2>3. Changes(t)
    BY <1>2, <1>3, <2>1, <2>2 DEF Changes
  <2>4. \A z \in Templates \ {t} : Changes(z)
    BY <1>2, <2>1, Unchanged
  <2> QED
    BY <2>3, <2>4
<1>4. ASSUME NEW start \in 0 .. Horizon, NEW every \in Periods, NEW maxRuns \in RunLimits,
             NEW end \in Ends, Create(t, start, every, maxRuns, end)
      PROVE  \A z \in Templates : Changes(z)
  <2> DEFINE first == FirstRun(start, every)
             row == [status |-> "active", next |-> first, runs |-> 0, every |-> every,
                     maxRuns |-> maxRuns, end |-> end]
  <2>1. /\ tpl[t].status = "none" /\ tpl' = [tpl EXCEPT ![t] = row]
        /\ MayBecome(first, 0, maxRuns, end)
    BY <1>4 DEF Create
  <2>2. /\ row.runs = 0 /\ row.next = first /\ row.maxRuns = maxRuns /\ row.end = end
    OBVIOUS
  <2>3. tpl[t].runs = 0
    BY <1>1, <2>1 DEF TemplateInOrder
  <2>4. "pastLimits" \notin Uses => WithinLimits(first, 0, maxRuns, end)
    BY <2>1 DEF MayBecome
  <2> HIDE DEF row, first
  <2> QED
    BY <1>3, <2>1, <2>2, <2>3, <2>4
<1>5. ASSUME NEW every \in Periods, NEW maxRuns \in RunLimits, NEW end \in Ends,
             Update(t, every, maxRuns, end)
      PROVE  \A z \in Templates : Changes(z)
  <2> DEFINE old == tpl[t]
             kept == IF end = Unlimited THEN old.end ELSE end
             row == [old EXCEPT !.every = every, !.maxRuns = maxRuns, !.end = kept]
  <2>1. /\ tpl' = [tpl EXCEPT ![t] = row]
        /\ old.status # "completed" => MayBecome(old.next, old.runs, maxRuns, kept)
    BY <1>5 DEF Update
  <2>2. old \in Template
    BY <1>1
  <2> HIDE DEF kept, old
  <2>3. /\ row.runs = old.runs /\ row.next = old.next /\ row.maxRuns = maxRuns /\ row.end = kept
        /\ row.status = old.status
    BY <2>2 DEF Template
  <2> HIDE DEF row
  <2>4. "pastLimits" \notin Uses /\ row.status \in {"active", "paused"}
           => WithinLimits(row.next, row.runs, row.maxRuns, row.end)
    BY <2>1, <2>3 DEF MayBecome
  <2>5. row.runs = tpl[t].runs /\ row.next = tpl[t].next
    BY <2>3 DEF old
  <2> QED
    BY <1>3, <2>1, <2>4, <2>5
<1>6. ASSUME NEW status \in {"paused", "deleted"}, tpl' = [tpl EXCEPT ![t].status = status],
             tpl[t].status = "active" \/ status = "deleted"
      PROVE  \A z \in Templates : Changes(z)
  <2> DEFINE old == tpl[t]
             row == [old EXCEPT !.status = status]
  <2>1. tpl' = [tpl EXCEPT ![t] = row]
    BY <1>6
  <2>2. old \in Template
    BY <1>1
  <2> HIDE DEF old
  <2>3. /\ row.runs = old.runs /\ row.next = old.next /\ row.maxRuns = old.maxRuns
        /\ row.end = old.end /\ row.status = status
    BY <2>2 DEF Template
  <2> HIDE DEF row
  <2>4. /\ row.runs = tpl[t].runs /\ row.next = tpl[t].next /\ row.maxRuns = tpl[t].maxRuns
        /\ row.end = tpl[t].end
    BY <2>3 DEF old
  <2>5. TemplateInLimits(t) /\ row.status \in {"active", "paused"}
           => WithinLimits(row.next, row.runs, row.maxRuns, row.end)
    BY <1>6, <2>3, <2>4 DEF TemplateInLimits
  <2> QED
    BY <1>3, <2>1, <2>4, <2>5
<1>7. CASE Delete(t) \/ Pause(t)
  BY <1>6, <1>7 DEF Delete, Pause
<1> QED
  BY <1>4, <1>5, <1>7

\* Resuming sets the next run a period from today.
LEMMA ResumeChanges ==
    ASSUME TypeInv, Apart, NEW u \in Users, Resume(u)
    PROVE  \A z \in Templates : Changes(z)
<1>1. PICK x \in Snapshot : x = request[u].read
  BY ResumeApart
<1>2. PICK t \in Templates : t = x.id
  BY <1>1, ResumeApart
<1> DEFINE next == now + x.every
           old == tpl[t]
           row == [old EXCEPT !.status = "active", !.next = next]
<1>3. SameTerms(x)
  BY <1>1, ResumeApart, CurrentFields
<1>4. /\ MayBecome(next, tpl[t].runs, tpl[t].maxRuns, tpl[t].end)
      /\ tpl' = (IF Exists(t) THEN [tpl EXCEPT ![t] = row] ELSE tpl)
      /\ UNCHANGED <<now, skipped>>
  BY <1>1, <1>2 DEF Resume
<1>5. CASE ~Exists(t)
  BY <1>4, <1>5, Unchanged
<1>6. CASE Exists(t)
  <2>1. tpl[t].every \in Periods /\ old \in Template /\ now \in Nat
    BY <1>6 DEF TypeInv, TemplateInOrder, Exists
  <2>2. next > now
    <3>1. x.every \in Nat \ {0}
      BY <1>2, <1>3, <2>1 DEF SameTerms
    <3> QED
      BY <2>1, <3>1
  <2> HIDE DEF next, old
  <2>3. /\ row.runs = old.runs /\ row.next = next /\ row.maxRuns = old.maxRuns
        /\ row.end = old.end
    BY <2>1 DEF Template
  <2> HIDE DEF row
  <2>4. tpl'[t] = row /\ \A z \in Templates \ {t} : tpl'[z] = tpl[z]
    BY <1>4, <1>6 DEF TypeInv
  <2>5. "pastLimits" \notin Uses => TemplateInLimits(t)'
    BY <1>4, <2>3, <2>4 DEF MayBecome, TemplateInLimits, old
  <2>6. Changes(t)
    BY <1>4, <2>2, <2>3, <2>4, <2>5 DEF Changes, old
  <2>7. \A z \in Templates \ {t} : Changes(z)
    BY <1>4, <2>4, Unchanged
  <2> QED
    BY <2>6, <2>7
<1> QED
  BY <1>5, <1>6

\* A step raises one invoice, or only changes templates.
LEMMA StepKinds ==
    ASSUME OneAtATime, TypeInv, Apart, [Next]_vars
    PROVE  \/ \E x \in Snapshot : Raises(x)
           \/ /\ UNCHANGED <<raised, lastDue, invoiced>> /\ now' \in {now, now + 1}
              /\ \A t \in Templates : Changes(t)
<1>1. ASSUME NEW s \in Schedulers, TickStep(s) \/ Crash(s)
      PROVE  \/ \E x \in Snapshot : Raises(x)
             \/ /\ UNCHANGED <<raised, lastDue, invoiced>> /\ now' \in {now, now + 1}
                /\ \A t \in Templates : Changes(t)
  <2>1. CASE \/ StartTick(s) \/ EndTick(s) \/ Fail(s) \/ Reread(s) \/ Crash(s)
             \/ (\E rows \in SUBSET Templates : Select(s, rows))
             \/ (\E x \in tick[s].todo : TakeUp(s, x))
    <3>1. UNCHANGED <<now, tpl, raised, lastDue, skipped, invoiced>>
      BY <2>1 DEF StartTick, EndTick, Fail, Reread, Crash, Select, TakeUp
    <3> QED
      BY <3>1, Unchanged
  <2>2. CASE GenerateDue(s)
    <3>1. UNCHANGED <<now, skipped>>
      BY <2>2 DEF GenerateDue
    <3> QED
      BY <2>2, <3>1, GenerateDueApart, GenerateRaises
  <2>3. ASSUME NEW rows \in SUBSET Templates, Skip(s, rows)
        PROVE  /\ UNCHANGED <<now, raised, lastDue, invoiced>>
               /\ \A t \in Templates : Changes(t)
    <3>1. UNCHANGED <<now, raised, lastDue, invoiced>>
      BY <2>3 DEF Skip
    <3> QED
      BY <2>3, <3>1, SkipChanges
  <2> QED
    BY <1>1, <2>1, <2>2, <2>3 DEF TickStep
<1>2. ASSUME NEW u \in Users, Run(u) PROVE \E x \in Snapshot : Raises(x)
  <2>1. UNCHANGED <<now, skipped>>
    BY <1>2 DEF Run
  <2> QED
    BY <1>2, <2>1, RunApart, GenerateRaises
<1>3. ASSUME NEW u \in Users, Resume(u)
      PROVE  UNCHANGED <<now, raised, lastDue, invoiced>> /\ \A t \in Templates : Changes(t)
  <2>1. UNCHANGED <<now, raised, lastDue, invoiced>>
    BY <1>3 DEF Resume
  <2> QED
    BY <1>3, <2>1, ResumeChanges
<1>4. ASSUME NEW u \in Users,
             GiveUp(u) \/ (\E t \in Templates : ReadToResume(u, t) \/ ReadToRun(u, t))
      PROVE  UNCHANGED <<now, raised, lastDue, invoiced>> /\ \A t \in Templates : Changes(t)
  <2>1. UNCHANGED <<now, tpl, raised, lastDue, skipped, invoiced>>
    BY <1>4 DEF GiveUp, ReadToResume, ReadToRun, Read
  <2> QED
    BY <2>1, Unchanged
<1>5. ASSUME NEW t \in Templates,
             \/ \E start \in 0 .. Horizon, every \in Periods, maxRuns \in RunLimits, end \in Ends :
                   Create(t, start, every, maxRuns, end)
             \/ \E every \in Periods, maxRuns \in RunLimits, end \in Ends :
                   Update(t, every, maxRuns, end)
             \/ Delete(t) \/ Pause(t)
      PROVE  UNCHANGED <<now, raised, lastDue, invoiced>> /\ \A z \in Templates : Changes(z)
  <2>1. UNCHANGED <<now, raised, lastDue, invoiced>>
    BY <1>5 DEF Create, Update, Delete, Pause
  <2> QED
    BY <1>5, <2>1, UserTemplateChanges
<1>6. CASE UserStep
  BY <1>2, <1>3, <1>4, <1>5, <1>6 DEF UserStep
<1>7. CASE PassTime \/ ChangeAccess \/ UNCHANGED vars
  <2>1. UNCHANGED <<tpl, raised, lastDue, skipped, invoiced>>
    BY <1>7 DEF PassTime, ChangeAccess, vars
  <2>2. now' \in {now, now + 1}
    BY <1>7 DEF PassTime, ChangeAccess, vars
  <2> QED
    BY <2>1, <2>2, Unchanged
<1> QED
  BY <1>1, <1>6, <1>7 DEF Next

-----------------------------------------------------------------------------
(* The properties.                                                         *)

\* What one step does to the count of runs, to the limits and to what was skipped.
LEMMA StepCounts ==
    ASSUME OneAtATime, TypeInv, Apart, RunsCountInvoices, [Next]_vars
    PROVE  RunsCountInvoices'
<1>1. ASSUME NEW x \in Snapshot, Raises(x) PROVE RunsCountInvoices'
  BY <1>1 DEF Raises, RunsCountInvoices
<1>2. ASSUME raised' = raised, \A t \in Templates : Changes(t) PROVE RunsCountInvoices'
  BY <1>2 DEF Changes, RunsCountInvoices
<1> QED
  BY <1>1, <1>2, StepKinds

LEMMA StepInLimits ==
    ASSUME OneAtATime, "pastLimits" \notin Uses, TypeInv, Apart, InLimits, [Next]_vars
    PROVE  InLimits'
<1>1. ASSUME NEW x \in Snapshot, Raises(x) PROVE InLimits'
  <2>1. x.runs \in Nat /\ x.maxRuns \in Nat /\ x.end \in Nat /\ x.next \in Nat /\ x.every \in Nat
    BY DEF Snapshot
  <2>2. TemplateInLimits(x.id)'
    <3>1. SUFFICES ASSUME tpl'[x.id].status \in {"active", "paused"}
                   PROVE  TemplateInLimits(x.id)'
      BY <1>1 DEF TemplateInLimits, Raises
    <3>2. ~Finished(x)
      BY <1>1, <3>1 DEF Raises
    <3>3. WithinLimits(x.next + x.every, x.runs + 1, x.maxRuns, x.end)
      BY <2>1, <3>2 DEF Finished, NextRun, WithinLimits
    <3> QED
      BY <1>1, <3>3 DEF TemplateInLimits, Raises, SameTerms
  <2>3. \A t \in Templates \ {x.id} : TemplateInLimits(t)'
    BY <1>1 DEF Raises, InLimits, TemplateInLimits
  <2> QED
    BY <2>2, <2>3 DEF InLimits
<1>2. ASSUME \A t \in Templates : Changes(t) PROVE InLimits'
  BY <1>2 DEF Changes, InLimits
<1> QED
  BY <1>1, <1>2, StepKinds

LEMMA StepSkipped ==
    ASSUME OneAtATime, TypeInv, Apart, SkippedIsOver, [Next]_vars
    PROVE  SkippedIsOver'
<1>1. /\ now \in Nat /\ \A t \in Templates : skipped[t] \in Nat /\ tpl[t] \in Template
      /\ \A t \in Templates : tpl[t].next \in Nat /\ tpl[t].every \in Periods \cup {0}
  BY DEF TypeInv, Template
<1>2. ASSUME NEW x \in Snapshot, Raises(x) PROVE SkippedIsOver'
  <2>1. x.next \in Nat /\ x.every \in Nat
    BY DEF Snapshot
  <2>2. tpl'[x.id].next >= tpl[x.id].next
    BY <1>2, <2>1 DEF Raises
  <2>3. tpl'[x.id].next \in Nat
    BY <1>2, <2>1 DEF Raises
  <2> QED
    BY <1>1, <1>2, <2>2, <2>3 DEF Raises, SkippedIsOver
<1>3. ASSUME now' \in {now, now + 1}, \A t \in Templates : Changes(t) PROVE SkippedIsOver'
  <2> SUFFICES ASSUME NEW t \in Templates, skipped'[t] > 0
               PROVE  skipped'[t] <= now' /\ skipped'[t] < tpl'[t].next
    BY DEF SkippedIsOver
  <2>1. TypeInv'
    BY NextTypes
  <2>2. now' \in Nat /\ tpl'[t].next \in Nat /\ skipped'[t] \in Nat
    BY <2>1 DEF TypeInv, Template
  <2>3. now <= now'
    BY <1>1, <1>3
  <2>4. tpl[t].status = "none" => skipped[t] = 0
    BY DEF TypeInv, TemplateInOrder
  <2> QED
    BY <1>1, <1>3, <2>2, <2>3, <2>4 DEF Changes, SkippedIsOver
<1> QED
  BY <1>2, <1>3, StepKinds

LEMMA StepInvoiced ==
    ASSUME OneAtATime, TypeInv, Apart, InvoicedIsOver, [Next]_vars
    PROVE  InvoicedIsOver'
<1>1. /\ now \in Nat
      /\ \A t \in Templates : invoiced[t] \subseteq Nat /\ tpl[t].next \in Nat
  BY DEF TypeInv, Template
<1>2. ASSUME NEW x \in Snapshot, Raises(x) PROVE InvoicedIsOver'
  <2>1. x.next \in Nat /\ x.every \in Nat \ {0}
    <3>1. x.next \in Nat
      BY DEF Snapshot
    <3>2. x.every \in Periods
      BY <1>2 DEF Raises, SameTerms
    <3> QED
      BY <3>1, <3>2
  <2>2. /\ now' = now /\ x.id \in Templates
        /\ tpl[x.id].next = x.next /\ tpl'[x.id].next = x.next + x.every
        /\ \A d \in invoiced'[x.id] : d \in invoiced[x.id] \/ (d = x.next /\ d <= now)
    BY <1>2 DEF Raises
  <2>3. ASSUME NEW d \in invoiced'[x.id] PROVE d <= now' /\ d < tpl'[x.id].next
    BY <1>1, <2>1, <2>2, <2>3 DEF InvoicedIsOver
  <2>4. ASSUME NEW t \in Templates \ {x.id}, NEW d \in invoiced'[t]
        PROVE  d <= now' /\ d < tpl'[t].next
    BY <1>2, <2>2, <2>4 DEF Raises, InvoicedIsOver
  <2> QED
    BY <2>3, <2>4 DEF InvoicedIsOver
<1>3. ASSUME now' \in {now, now + 1}, invoiced' = invoiced, \A t \in Templates : Changes(t)
      PROVE  InvoicedIsOver'
  <2> SUFFICES ASSUME NEW t \in Templates, NEW d \in invoiced[t]
               PROVE  d <= now' /\ d < tpl'[t].next
    BY <1>3 DEF InvoicedIsOver
  <2>1. now <= now' /\ d \in Nat /\ d <= now /\ d < tpl[t].next
    BY <1>1, <1>3 DEF InvoicedIsOver
  <2>2. TypeInv'
    BY NextTypes
  <2>3. now' \in Nat /\ tpl'[t].next \in Nat
    BY <2>2 DEF TypeInv, Template
  <2>4. tpl'[t].next = tpl[t].next \/ tpl'[t].next > now
    <3>1. tpl[t].status # "none"
      BY DEF TypeInv, TemplateInOrder
    <3> QED
      BY <1>3, <3>1 DEF Changes
  <2> QED
    BY <1>1, <2>1, <2>3, <2>4
<1> QED
  BY <1>2, <1>3, StepKinds

\* With one tick at a time, and requests that keep off what others have read, totalRuns is
\* the number of invoices a template has raised, whatever fails, stops or is skipped.
THEOREM RunsAreCounted ==
    ASSUME OneAtATime
    PROVE  Spec => []RunsCountInvoices
<1>1. Init => RunsCountInvoices
  BY DEF Init, RunsCountInvoices
<1>2. TypeInv /\ Apart /\ RunsCountInvoices /\ [Next]_vars => RunsCountInvoices'
  BY StepCounts
<1> QED
  BY <1>1, <1>2, AlwaysApart, PTL DEF Spec

\* With one tick at a time, and requests that keep off what others have read, raising an
\* invoice moves the next run on, and a date that had come when it was invoiced is never
\* invoiced again: a resume sets the next run after today, and today is not before that date.
THEOREM DatesInvoicedOnce ==
    ASSUME OneAtATime
    PROVE  Spec => OncePerDate
<1> DEFINE A == \A t \in Templates : raised'[t] > raised[t] =>
                   tpl'[t].next > tpl[t].next /\ lastDue'[t] \notin invoiced[t]
<1>1. Init => InvoicedIsOver
  BY DEF Init, InvoicedIsOver
<1>2. TypeInv /\ Apart /\ InvoicedIsOver /\ [Next]_vars => InvoicedIsOver'
  BY StepInvoiced
<1>3. ASSUME TypeInv, Apart, InvoicedIsOver, [Next]_vars PROVE A
  <2> SUFFICES ASSUME NEW t \in Templates, raised'[t] > raised[t]
               PROVE  tpl'[t].next > tpl[t].next /\ lastDue'[t] \notin invoiced[t]
    OBVIOUS
  <2>1. raised[t] \in Nat /\ invoiced[t] \subseteq Nat
    BY <1>3 DEF TypeInv
  <2>2. PICK x \in Snapshot : Raises(x)
    BY <1>3, <2>1, StepKinds
  <2>3. x.id = t
    BY <2>1, <2>2 DEF Raises
  <2>4. x.next \in Nat /\ x.every \in Nat \ {0}
    <3>1. x.next \in Nat
      BY DEF Snapshot
    <3>2. x.every \in Periods
      BY <2>2 DEF Raises, SameTerms
    <3> QED
      BY <3>1, <3>2
  <2>5. tpl'[t].next = x.next + x.every /\ tpl[t].next = x.next /\ lastDue'[t] = x.next
    BY <2>2, <2>3 DEF Raises
  <2>6. x.next \notin invoiced[t]
    BY <1>3, <2>1, <2>4, <2>5 DEF InvoicedIsOver
  <2> QED
    BY <2>4, <2>5, <2>6
<1>4. TypeInv /\ Apart /\ InvoicedIsOver /\ [Next]_vars => [A]_vars
  BY <1>3
<1> HIDE DEF A
<1>5. Spec => [][A]_vars
  BY <1>1, <1>2, <1>4, AlwaysApart, PTL DEF Spec
<1> QED
  BY <1>5 DEF OncePerDate, A

\* With one tick at a time, requests that keep off what others have read, and no template
\* resumed or changed to run past its limits, no invoice is raised past them.
THEOREM LimitsAreKept ==
    ASSUME OneAtATime, "pastLimits" \notin Uses
    PROVE  Spec => NeverPastLimits
<1> DEFINE A == \A t \in Templates : raised'[t] > raised[t] =>
                   /\ tpl[t].maxRuns # Unlimited => raised'[t] <= tpl[t].maxRuns
                   /\ tpl[t].end # Unlimited => lastDue'[t] <= tpl[t].end
<1>1. Init => InLimits
  BY DEF Init, InLimits, TemplateInLimits
<1>2. TypeInv /\ Apart /\ InLimits /\ [Next]_vars => InLimits'
  BY StepInLimits
<1>3. ASSUME TypeInv, Apart, InLimits, RunsCountInvoices, [Next]_vars PROVE A
  <2> SUFFICES ASSUME NEW t \in Templates, raised'[t] > raised[t]
               PROVE  /\ tpl[t].maxRuns # Unlimited => raised'[t] <= tpl[t].maxRuns
                      /\ tpl[t].end # Unlimited => lastDue'[t] <= tpl[t].end
    OBVIOUS
  <2>1. raised[t] \in Nat /\ tpl[t].maxRuns \in Nat /\ tpl[t].runs = raised[t]
    BY <1>3 DEF TypeInv, Template, RunsCountInvoices
  <2>2. PICK x \in Snapshot : Raises(x)
    BY <1>3, <2>1, StepKinds
  <2>3. x.id = t
    BY <2>1, <2>2 DEF Raises
  <2>4. WithinLimits(tpl[t].next, tpl[t].runs, tpl[t].maxRuns, tpl[t].end)
    BY <1>3, <2>2, <2>3 DEF InLimits, TemplateInLimits, Raises
  <2>5. raised'[t] = raised[t] + 1 /\ lastDue'[t] = tpl[t].next
    BY <2>2, <2>3 DEF Raises
  <2> QED
    BY <2>1, <2>4, <2>5 DEF WithinLimits
<1>4. TypeInv /\ Apart /\ InLimits /\ RunsCountInvoices /\ [Next]_vars => [A]_vars
  BY <1>3
<1> HIDE DEF A
<1>5. Spec => [][A]_vars
  BY <1>1, <1>2, <1>4, AlwaysApart, RunsAreCounted, PTL DEF Spec
<1> QED
  BY <1>5 DEF NeverPastLimits, A

\* With one tick at a time, and requests that keep off what others have read, what came due
\* while the organisation was read-only and was skipped is never made up.
THEOREM SkippedIsDropped ==
    ASSUME OneAtATime
    PROVE  Spec => DroppedForGood
<1> DEFINE A == \A t \in Templates : raised'[t] > raised[t] /\ skipped[t] > 0
                                        => lastDue'[t] > skipped[t]
<1>1. Init => SkippedIsOver
  BY DEF Init, SkippedIsOver
<1>2. TypeInv /\ Apart /\ SkippedIsOver /\ [Next]_vars => SkippedIsOver'
  BY StepSkipped
<1>3. ASSUME TypeInv, Apart, SkippedIsOver, [Next]_vars PROVE A
  <2> SUFFICES ASSUME NEW t \in Templates, raised'[t] > raised[t], skipped[t] > 0
               PROVE  lastDue'[t] > skipped[t]
    OBVIOUS
  <2>1. raised[t] \in Nat /\ skipped[t] \in Nat /\ tpl[t].next \in Nat
    BY <1>3 DEF TypeInv, Template
  <2>2. PICK x \in Snapshot : Raises(x)
    BY <1>3, <2>1, StepKinds
  <2>3. x.id = t
    BY <2>1, <2>2 DEF Raises
  <2>4. lastDue'[t] = tpl[t].next /\ skipped[t] < tpl[t].next
    BY <1>3, <2>2, <2>3 DEF Raises, SkippedIsOver
  <2> QED
    BY <2>1, <2>4
<1>4. TypeInv /\ Apart /\ SkippedIsOver /\ [Next]_vars => [A]_vars
  BY <1>3
<1> HIDE DEF A
<1>5. Spec => [][A]_vars
  BY <1>1, <1>2, <1>4, AlwaysApart, PTL DEF Spec
<1> QED
  BY <1>5 DEF DroppedForGood, A
=============================================================================
