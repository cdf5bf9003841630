---------------------------- MODULE BillingProofs ----------------------------
(***************************************************************************)
(* Proofs about Billing, for any number of subscriptions, tiers, charges,  *)
(* handlers and days.                                                      *)
(*                                                                         *)
(* TypeInv are the types, with who is at which step and what is there to   *)
(* be delivered.  Struct adds how rows, Razorpay, events and handlers hang *)
(* together, and PaidInv what is still on its way for each cycle that was  *)
(* charged, so that nothing on its way means that the time was given.      *)
(***************************************************************************)
EXTENDS Billing, FiniteSetTheorems, SequenceTheorems, TLAPS

-----------------------------------------------------------------------------
(* Types.                                                                  *)

OfEvent == Activating \cup {"renew", "fail", "halt", "end"}

\* Who is at which step, and what is known there.
TaskInOrder(t) ==
    /\ t.step = "idle" => t = Idle
    /\ t.by = "nobody" => t.step = "idle"
    /\ t.by = "webhook" => t.step \in OfEvent
    /\ t.by = "callback" => t.step \in Activating
    /\ t.by = "read" => t.step \in Buying \cup {"halt", "end", "endToBuy"}
    /\ t.by = "owner" => t.step \in Buying \cup {"stopAtEnd", "schedule", "markEnds", "stopNow",
                                                  "drop", "credit"}
    /\ t.by = "admin" => t.step \in {"end", "clear", "grant"}
    /\ t.step \in OfEvent \cup {"endToBuy", "insert", "release", "stopAtEnd", "schedule",
                                "markEnds", "stopNow", "drop", "credit"} => t.s \in Subs
    /\ t.step \in {"cancelReplaced", "retire", "creditReplaced"} => t.row.replaces \in Subs
    /\ t.step \in {"endToBuy", "browse", "dropOpen", "subscribe", "insert", "schedule", "stopNow",
                   "drop", "credit", "clear", "grant"} => t.tier \in Tiers

TasksInOrder == \A h \in Handlers : TaskInOrder(task[h])

\* The event that is being delivered is not acknowledged yet, and no other
\* delivers one of the same subscription.
Deliveries ==
    \A h \in Handlers : task[h].by = "webhook" =>
        /\ queue[task[h].s] # <<>> /\ task[h].event = Head(queue[task[h].s])
        /\ \A k \in Handlers : task[k].by = "webhook" /\ task[k].s = task[h].s => k = h

\* A checkout is paid before anything else is charged, stopped or called back.
MandateInOrder(m) ==
    /\ m.state \in {"none", "open"} <=> m.paid = 0
    /\ m.callback => m.paid > 0
    /\ m.ends => m.paid > 0

MandatesInOrder == \A s \in Subs : MandateInOrder(rzp[s])

TypeInv == TypeOK /\ TasksInOrder /\ Deliveries /\ MandatesInOrder

\* Of the subscriptions that are still to be had there is a first.
LEMMA FirstIsFresh ==
    ASSUME Fresh # {}
    PROVE  Next1 \in Fresh
<1> DEFINE Below(s) == {i \in Fresh : i <= s}
           T == {Below(s) : s \in Fresh}
<1>1. Fresh \subseteq Subs /\ IsFiniteSet(Subs) /\ Subs \subseteq Nat
  BY FS_Interval, BillingAssumption DEF Fresh, Subs
<1>2. IsFiniteSet(Fresh)
  BY <1>1, FS_Subset
<1>3. IsWellFoundedOn(StrictSubsetOrdering(Fresh), FiniteSubsetsOf(Fresh))
  BY <1>2, FS_StrictSubsetOrderingWellFounded
<1>4. T \subseteq FiniteSubsetsOf(Fresh) /\ T # {}
  <2>1. \A s \in Fresh : Below(s) \subseteq Fresh /\ IsFiniteSet(Below(s))
    BY <1>2, FS_Subset
  <2>2. T \subseteq FiniteSubsetsOf(Fresh)
    BY <2>1, Zenon DEF FiniteSubsetsOf
  <2>3. PICK s : s \in Fresh
    OBVIOUS
  <2>4. Below(s) \in T
    BY <2>3
  <2> QED
    BY <2>2, <2>4
<1>5. PICK x \in T : \A y \in T : <<y, x>> \notin StrictSubsetOrdering(Fresh)
  <2> HIDE DEF T
  <2> QED
    BY <1>3, <1>4, WFMin
<1>6. PICK s \in Fresh : x = Below(s)
  OBVIOUS
<1>7. \A i \in Fresh : s <= i
  <2> SUFFICES ASSUME NEW i \in Fresh, ~(s <= i) PROVE FALSE
    OBVIOUS
  <2>1. i < s
    BY <1>1
  <2>2. s \in Nat /\ \A j \in Fresh : j \in Nat
    BY <1>1
  <2>a. s \in Below(s) /\ s \notin Below(i)
    BY <2>2
  <2>b. \A j \in Fresh : j <= i => j <= s
    BY <2>1, <2>2
  <2>c. Below(i) \subseteq Below(s)
    BY <2>b
  <2>3. <<Below(i), Below(s)>> \in StrictSubsetOrdering(Fresh)
    BY <2>a, <2>c DEF StrictSubsetOrdering
  <2> QED
    BY <1>5, <1>6, <2>3
<1> QED
  BY <1>7 DEF Next1

\* The constants are what their names say.
LEMMA Bounds ==
    /\ None = 0 /\ Subs \subseteq Nat \ {0} /\ Charges \subseteq Nat \ {0}
    /\ Tiers \subseteq Nat \ {0} /\ None \notin Subs /\ None \notin Tiers
    /\ MaxSubs \in Nat /\ MaxCharges \in Nat /\ MaxTries \in Nat
    /\ Period \in Nat /\ Period > 0 /\ Grace \in Nat /\ MaxDay \in Nat /\ MaxDay > 0
BY BillingAssumption DEF None, Subs, Charges

\* What a handler is about to do changes; everybody else stays where they are.
Others(h) == \A k \in Handlers : k # h => task'[k] = task[k]

LEMMA GoDoes ==
    ASSUME TypeOK, NEW h \in Handlers, NEW step \in Steps, Go(h, step)
    PROVE  /\ task' \in [Handlers -> Task] /\ Others(h)
           /\ task'[h] = [task[h] EXCEPT !.step = step] /\ task'[h].step = step
           /\ task'[h].by = task[h].by /\ task'[h].s = task[h].s /\ task'[h].row = task[h].row
           /\ task'[h].event = task[h].event /\ task'[h].tier = task[h].tier
           /\ task'[h].old = task[h].old /\ task'[h].halted = task[h].halted
           /\ task'[h].credit = task[h].credit
BY DEF TypeOK, Go, Task, Others

LEMMA IdleTyped ==
    /\ Idle \in Task /\ Idle.by = "nobody" /\ Idle.step = "idle" /\ Idle.s = None
    /\ Idle.row = NoRow /\ Idle.old = None /\ Idle.halted = {} /\ NoRow.replaces = None
    /\ NoRow \in Row /\ NoEvent \in Event /\ NoMandate \in Mandate
BY Bounds DEF Idle, Task, Steps, NoRow, Row, Statuses, NoEvent, Event, NoMandate, Mandate

LEMMA StopDoes ==
    ASSUME TypeOK, NEW h \in Handlers, Stop(h)
    PROVE  task' \in [Handlers -> Task] /\ Others(h) /\ task'[h] = Idle
BY IdleTyped DEF TypeOK, Stop, Others

LEMMA StartDoes ==
    ASSUME TypeOK, NEW h \in Handlers, NEW t \in Task, Start(h, t)
    PROVE  /\ task' \in [Handlers -> Task] /\ Others(h) /\ task'[h] = t
           /\ task[h].step = "idle"
BY DEF TypeOK, Start, Others, Free, At

-----------------------------------------------------------------------------
(* What each action does, row by row.                                      *)

\* Handler h goes on to a step, or is through.
Kept(h) ==
    /\ task'[h].by = task[h].by /\ task'[h].s = task[h].s /\ task'[h].row = task[h].row
    /\ task'[h].event = task[h].event /\ task'[h].tier = task[h].tier
    /\ task'[h].old = task[h].old /\ task'[h].halted = task[h].halted

Moves(h, step) ==
    /\ task' \in [Handlers -> Task] /\ Others(h) /\ Kept(h)
    /\ task'[h].step = step /\ task'[h].credit = task[h].credit

Leaves(h) == task' \in [Handlers -> Task] /\ Others(h) /\ task'[h] = Idle

\* It is through; the event it delivered is acknowledged.
Answers(h) ==
    /\ Leaves(h)
    /\ queue' \in [Subs -> Seq(Event)] /\ seen' \in [Subs -> BOOLEAN]
    /\ IF task[h].by = "webhook"
       THEN /\ queue'[task[h].s] = Tail(queue[task[h].s]) /\ seen'[task[h].s] = FALSE
            /\ \A t \in Subs : t # task[h].s => queue'[t] = queue[t] /\ seen'[t] = seen[t]
       ELSE queue' = queue /\ seen' = seen

\* Of the rows, only that of s changes; what stays as it was sold.
OnlyRow(s) == sub' \in [Subs -> Row] /\ \A t \in Subs : t # s => sub'[t] = sub[t]
Terms(s) ==
    sub'[s].tier = sub[s].tier /\ sub'[s].replaces = sub[s].replaces /\ sub'[s].admin = sub[s].admin
Dates(s) == sub'[s].end = sub[s].end /\ sub'[s].grace = sub[s].grace
Plans(s) == sub'[s].ends = sub[s].ends /\ sub'[s].scheduled = sub[s].scheduled

\* The row of s is cancelled, and nothing else of it changes.
Cancels(s) == sub'[s].status = "cancelled" /\ Terms(s) /\ Dates(s) /\ Plans(s)

LEMMA Moving ==
    ASSUME TypeOK, NEW h \in Handlers, NEW step \in Steps, Go(h, step)
    PROVE  Moves(h, step)
BY GoDoes DEF Moves, Kept

LEMMA Leaving ==
    ASSUME TypeOK, NEW h \in Handlers, Stop(h)
    PROVE  Leaves(h)
BY StopDoes DEF Leaves

LEMMA Answering ==
    ASSUME TypeInv, NEW h \in Handlers, Return(h)
    PROVE  Answers(h)
<1>1. Leaves(h)
  BY Leaving DEF Return, TypeInv
<1>2. CASE task[h].by = "webhook"
  <2> DEFINE s == task[h].s
  <2>1. s \in Subs /\ queue[s] # <<>> /\ queue \in [Subs -> Seq(Event)] /\ seen \in [Subs -> BOOLEAN]
    BY <1>2 DEF TypeInv, TypeOK, Deliveries, TasksInOrder, TaskInOrder
  <2>2. Tail(queue[s]) \in Seq(Event)
    BY <2>1, HeadTailProperties
  <2>3. queue' = [queue EXCEPT ![s] = Tail(@)] /\ seen' = [seen EXCEPT ![s] = FALSE]
    BY <1>2 DEF Return
  <2> HIDE DEF s
  <2>4. /\ queue' \in [Subs -> Seq(Event)] /\ seen' \in [Subs -> BOOLEAN]
        /\ queue'[s] = Tail(queue[s]) /\ seen'[s] = FALSE
        /\ \A t \in Subs : t # s => queue'[t] = queue[t] /\ seen'[t] = seen[t]
    BY <2>1, <2>2, <2>3
  <2> QED
    BY <1>1, <1>2, <2>4 DEF Answers, s
<1>3. CASE task[h].by # "webhook"
  BY <1>1, <1>3 DEF Answers, Return, TypeInv, TypeOK
<1> QED
  BY <1>2, <1>3

LEMMA Throwing ==
    ASSUME TypeOK, NEW h \in Handlers, Throw(h)
    PROVE  /\ Leaves(h)
           /\ UNCHANGED <<kind, today, sub, plan, rzp, queue, seen, invoices, credits>>
BY Leaving DEF Throw

LEMMA RowFields ==
    ASSUME NEW r \in Row
    PROVE  /\ r.status \in Statuses /\ r.tier \in Tiers \cup {None} /\ r.end \in Nat
           /\ r.grace \in 0 .. MaxDay + Grace /\ r.ends \in BOOLEAN
           /\ r.scheduled \in Tiers \cup {None} /\ r.replaces \in Subs \cup {None}
           /\ r.admin \in BOOLEAN
BY DEF Row

LEMMA RowCancelled ==
    ASSUME sub \in [Subs -> Row], NEW s \in Subs, sub' = Cancelled(s)
    PROVE  OnlyRow(s) /\ Cancels(s)
<1>1. "cancelled" \in Statuses
  BY DEF Statuses
<1>2. \A r \in Row : /\ [r EXCEPT !.status = "cancelled"] \in Row
                     /\ [r EXCEPT !.status = "cancelled"].status = "cancelled"
                     /\ [r EXCEPT !.status = "cancelled"].tier = r.tier
                     /\ [r EXCEPT !.status = "cancelled"].end = r.end
                     /\ [r EXCEPT !.status = "cancelled"].grace = r.grace
                     /\ [r EXCEPT !.status = "cancelled"].ends = r.ends
                     /\ [r EXCEPT !.status = "cancelled"].scheduled = r.scheduled
                     /\ [r EXCEPT !.status = "cancelled"].replaces = r.replaces
                     /\ [r EXCEPT !.status = "cancelled"].admin = r.admin
  BY <1>1 DEF Row
<1>3. sub' = [sub EXCEPT ![s] = [sub[s] EXCEPT !.status = "cancelled"]]
  BY DEF Cancelled
<1>4. sub[s] \in Row
  OBVIOUS
<1>5. /\ sub' \in [Subs -> Row] /\ \A t \in Subs : t # s => sub'[t] = sub[t]
      /\ sub'[s] = [sub[s] EXCEPT !.status = "cancelled"]
  BY <1>2, <1>3, <1>4
<1> QED
  BY <1>2, <1>4, <1>5 DEF OnlyRow, Cancels, Terms, Dates, Plans

LEMMA ReadToActivateDoes ==
    ASSUME TypeInv, NEW h \in Handlers, ReadToActivate(h)
    PROVE  /\ task[h].step = "readToActivate" /\ task[h].s \in Subs
           /\ \/ sub[task[h].s].status = "active" /\ Answers(h)
              \/ /\ sub[task[h].s].status = "cancelled" /\ Leaves(h)
                 /\ UNCHANGED <<queue, seen>>
              \/ /\ sub[task[h].s].status \notin {"active", "cancelled"}
                 /\ task' \in [Handlers -> Task] /\ Others(h) /\ task'[h].step = "activate"
                 /\ task'[h].by = task[h].by /\ task'[h].s = task[h].s
                 /\ task'[h].row = sub[task[h].s] /\ task'[h].event = task[h].event
                 /\ task'[h].tier = task[h].tier /\ task'[h].old = task[h].old
                 /\ task'[h].halted = task[h].halted
                 /\ UNCHANGED <<queue, seen>>
           /\ UNCHANGED <<kind, today, sub, plan, rzp, invoices, credits>>
<1>1. task[h].step = "readToActivate" /\ task[h].s \in Subs
  BY DEF ReadToActivate, At, TypeInv, TasksInOrder, TaskInOrder, OfEvent, Activating
<1>2. UNCHANGED <<kind, today, sub, plan, rzp, invoices, credits>>
  BY DEF ReadToActivate
<1>3. CASE AlreadyActive(sub[task[h].s]) /\ Return(h)
  BY <1>1, <1>2, <1>3, Answering DEF AlreadyActive
<1>4. CASE sub[task[h].s].status = "cancelled" /\ Stop(h) /\ UNCHANGED <<queue, seen>>
  BY <1>1, <1>2, <1>4, Leaving DEF TypeInv
<1>5. CASE /\ ~AlreadyActive(sub[task[h].s]) /\ sub[task[h].s].status # "cancelled"
           /\ task' = [task EXCEPT ![h].step = "activate", ![h].row = sub[task[h].s]]
           /\ UNCHANGED <<queue, seen>>
  <2>1. sub[task[h].s] \in Row /\ "activate" \in Steps /\ task \in [Handlers -> Task]
    BY <1>1 DEF TypeInv, TypeOK, Steps, Activating
  <2> DEFINE new(t, r) == [t EXCEPT !.step = "activate", !.row = r]
             row == sub[task[h].s]
  <2>2. \A t \in Task, r \in Row :
          /\ new(t, r) \in Task /\ new(t, r).step = "activate" /\ new(t, r).row = r
          /\ new(t, r).by = t.by /\ new(t, r).s = t.s /\ new(t, r).event = t.event
          /\ new(t, r).tier = t.tier /\ new(t, r).old = t.old /\ new(t, r).halted = t.halted
    BY <2>1 DEF Task
  <2>3. task' = [task EXCEPT ![h] = new(task[h], row)]
    BY <1>5, <2>1
  <2>a. row \in Row /\ row = sub[task[h].s]
    BY <2>1
  <2> HIDE DEF new, row
  <2>4. task' \in [Handlers -> Task] /\ Others(h) /\ task'[h] = new(task[h], row)
    BY <2>1, <2>2, <2>3, <2>a DEF Others
  <2>5. task[h] \in Task
    BY <2>1
  <2>6. /\ task'[h].step = "activate" /\ task'[h].by = task[h].by /\ task'[h].s = task[h].s
        /\ task'[h].row = row /\ task'[h].event = task[h].event
        /\ task'[h].tier = task[h].tier /\ task'[h].old = task[h].old
        /\ task'[h].halted = task[h].halted
    BY <2>2, <2>4, <2>5, <2>a
  <2>7. sub[task[h].s].status \notin {"active", "cancelled"} /\ UNCHANGED <<queue, seen>>
    BY <1>5 DEF AlreadyActive
  <2> QED
    BY <1>1, <1>2, <2>a, <2>4, <2>6, <2>7
<1> QED
  BY <1>3, <1>4, <1>5 DEF ReadToActivate

LEMMA ActivateDoes ==
    ASSUME TypeInv, NEW h \in Handlers, Activate(h)
    PROVE  /\ task[h].step = "activate" /\ task[h].s \in Subs
           /\ \/ /\ sub[task[h].s].status = "cancelled" /\ Taken(sub, task[h].s, task[h].row.tier)
                 /\ Leaves(h) /\ sub' = sub
              \/ /\ sub[task[h].s].status = "cancelled" => ~Taken(sub, task[h].s, task[h].row.tier)
                 /\ Moves(h, AfterActivate(task[h].row))
                 /\ AfterActivate(task[h].row) \in {"setPlan", "cancelReplaced", "invoice"}
                 /\ OnlyRow(task[h].s) /\ Terms(task[h].s) /\ Plans(task[h].s)
                 /\ sub'[task[h].s].status = "active" /\ sub'[task[h].s].grace = None
                 /\ sub'[task[h].s].end = today + Period
           /\ UNCHANGED <<kind, today, plan, rzp, queue, seen, invoices, credits>>
<1> DEFINE s == task[h].s
           taken == sub[s].status = "cancelled" /\ Taken(sub, s, task[h].row.tier)
<1>1. task[h].step = "activate" /\ s \in Subs
  BY DEF Activate, At, TypeInv, TasksInOrder, TaskInOrder, OfEvent, Activating
<1>2. CASE taken
  <2>1. Throw(h)
    BY <1>2 DEF Activate
  <2> QED
    BY <1>1, <1>2, <2>1, Throwing DEF TypeInv
<1>3. CASE ~taken
  <2>1. /\ sub' = [sub EXCEPT ![s] = [@ EXCEPT !.status = "active", !.end = today + Period,
                                              !.grace = None]]
        /\ Go(h, AfterActivate(task[h].row))
        /\ UNCHANGED <<kind, today, plan, rzp, queue, seen, invoices, credits>>
    BY <1>3 DEF Activate
  <2>2. /\ AfterActivate(task[h].row) \in {"setPlan", "cancelReplaced", "invoice"}
        /\ AfterActivate(task[h].row) \in Steps
    BY DEF AfterActivate, Steps, Activating
  <2>3. Moves(h, AfterActivate(task[h].row))
    BY <2>1, <2>2, Moving DEF TypeInv
  <2>4. /\ today + Period \in Nat /\ None \in 0 .. MaxDay + Grace /\ "active" \in Statuses
        /\ sub \in [Subs -> Row] /\ sub[s] \in Row
    <3>1. today + Period \in Nat /\ None \in 0 .. MaxDay + Grace
      BY Bounds DEF TypeInv, TypeOK
    <3>2. "active" \in Statuses /\ sub \in [Subs -> Row]
      BY DEF TypeInv, TypeOK, Statuses
    <3> HIDE DEF s
    <3> QED
      BY <1>1, <3>1, <3>2
  <2> DEFINE new(r) == [r EXCEPT !.status = "active", !.end = today + Period, !.grace = None]
  <2>5. \A r \in Row : /\ new(r) \in Row /\ new(r).status = "active" /\ new(r).end = today + Period
                       /\ new(r).grace = None /\ new(r).tier = r.tier /\ new(r).ends = r.ends
                       /\ new(r).scheduled = r.scheduled /\ new(r).replaces = r.replaces
                       /\ new(r).admin = r.admin
    BY <2>4 DEF Row
  <2>6. sub' = [sub EXCEPT ![s] = new(sub[s])]
    BY <2>1
  <2> HIDE DEF new, s
  <2>7. sub' \in [Subs -> Row] /\ sub'[s] = new(sub[s]) /\ \A t \in Subs : t # s => sub'[t] = sub[t]
    BY <1>1, <2>4, <2>5, <2>6
  <2>8. OnlyRow(s) /\ Terms(s) /\ Plans(s) /\ sub'[s].status = "active" /\ sub'[s].grace = None
        /\ sub'[s].end = today + Period
    BY <2>4, <2>5, <2>7 DEF OnlyRow, Terms, Plans
  <2> QED
    BY <1>1, <1>3, <2>1, <2>2, <2>3, <2>8 DEF s
<1> QED
  BY <1>2, <1>3

LEMMA SetPlanDoes ==
    ASSUME TypeInv, NEW h \in Handlers, SetPlan(h)
    PROVE  /\ task[h].step = "setPlan" /\ Moves(h, "invoice")
           /\ plan' = task[h].row.tier /\ plan' \in Tiers \cup {None}
           /\ UNCHANGED <<kind, today, sub, rzp, queue, seen, invoices, credits>>
<1>1. Moves(h, "invoice")
  BY Moving DEF SetPlan, TypeInv, Steps, Activating
<1>2. task[h].row \in Row
  BY DEF TypeInv, TypeOK, Task
<1> QED
  BY <1>1, <1>2, RowFields DEF SetPlan, At

\* One handler, one row, one subscription at Razorpay is written.
LEMMA TaskPut ==
    ASSUME task \in [Handlers -> Task], NEW h \in Handlers, NEW t \in Task,
           task' = [task EXCEPT ![h] = t]
    PROVE  task' \in [Handlers -> Task] /\ Others(h) /\ task'[h] = t
BY DEF Others

LEMMA RowPut ==
    ASSUME sub \in [Subs -> Row], NEW s \in Subs, NEW r \in Row, sub' = [sub EXCEPT ![s] = r]
    PROVE  OnlyRow(s) /\ sub'[s] = r
BY DEF OnlyRow

OnlyMandate(s) == rzp' \in [Subs -> Mandate] /\ \A t \in Subs : t # s => rzp'[t] = rzp[t]

LEMMA MandatePut ==
    ASSUME rzp \in [Subs -> Mandate], NEW s \in Subs, NEW m \in Mandate,
           rzp' = [rzp EXCEPT ![s] = m]
    PROVE  OnlyMandate(s) /\ rzp'[s] = m
BY DEF OnlyMandate

\* The subscriptions of S are stopped at Razorpay, which tells so.
EndsAt(s) ==
    /\ rzp'[s].state = "cancelled" /\ rzp'[s].due = rzp[s].due /\ rzp'[s].ends = rzp[s].ends
    /\ rzp'[s].paid = rzp[s].paid /\ rzp'[s].shown = rzp[s].shown
    /\ rzp'[s].callback = rzp[s].callback
    /\ queue'[s] = Append(queue[s], EndedEvent(s)) /\ EndedEvent(s) \in Event

Stopped(S) ==
    /\ rzp' \in [Subs -> Mandate] /\ queue' \in [Subs -> Seq(Event)]
    /\ \A s \in Subs : IF s \in S THEN EndsAt(s) ELSE rzp'[s] = rzp[s] /\ queue'[s] = queue[s]

LEMMA MandateFields ==
    ASSUME NEW m \in Mandate
    PROVE  /\ m.state \in {"none", "open", "active", "pending", "halted", "cancelled"}
           /\ m.due \in 0 .. MaxDay + Period /\ m.ends \in BOOLEAN /\ m.paid \in 0 .. MaxCharges
           /\ m.tries \in 0 .. MaxTries /\ m.shown \in BOOLEAN /\ m.callback \in BOOLEAN
BY DEF Mandate

LEMMA MandateStopped ==
    ASSUME NEW m \in Mandate
    PROVE  LET n == [m EXCEPT !.state = "cancelled"]
           IN  /\ n \in Mandate /\ n.state = "cancelled" /\ n.due = m.due /\ n.ends = m.ends
               /\ n.paid = m.paid /\ n.shown = m.shown /\ n.callback = m.callback
BY DEF Mandate

LEMMA EndedTyped ==
    ASSUME TypeOK, NEW s \in Subs
    PROVE  EndedEvent(s) \in Event
<1>1. rzp[s] \in Mandate
  BY DEF TypeOK
<1>2. rzp[s].paid \in 0 .. MaxCharges /\ rzp[s].tries \in 0 .. MaxTries
  BY <1>1, MandateFields
<1> QED
  BY <1>2 DEF EndedEvent, Event

LEMMA Stopping ==
    ASSUME TypeOK, NEW S \in SUBSET Subs, StopCharging(S)
    PROVE  Stopped(S)
<1>1. rzp \in [Subs -> Mandate] /\ queue \in [Subs -> Seq(Event)]
  BY DEF TypeOK
<1>2. \A s \in Subs : EndedEvent(s) \in Event
  BY EndedTyped
<1> DEFINE new(m) == [m EXCEPT !.state = "cancelled"]
<1>3. \A m \in Mandate : /\ new(m) \in Mandate /\ new(m).state = "cancelled" /\ new(m).due = m.due
                         /\ new(m).ends = m.ends /\ new(m).paid = m.paid
                         /\ new(m).shown = m.shown /\ new(m).callback = m.callback
  BY MandateStopped
<1>4. /\ rzp' = [s \in Subs |-> IF s \in S THEN new(rzp[s]) ELSE rzp[s]]
      /\ queue' = [s \in Subs |-> IF s \in S THEN Append(queue[s], EndedEvent(s)) ELSE queue[s]]
  BY DEF StopCharging
<1> HIDE DEF new
<1>5. rzp' \in [Subs -> Mandate]
  BY <1>1, <1>3, <1>4
<1>6. \A s \in Subs : Append(queue[s], EndedEvent(s)) \in Seq(Event)
  BY <1>1, <1>2, AppendProperties
<1>7. queue' \in [Subs -> Seq(Event)]
  BY <1>1, <1>4, <1>6
<1>8. ASSUME NEW s \in Subs, s \in S PROVE EndsAt(s)
  <2>1. rzp[s] \in Mandate /\ rzp'[s] = new(rzp[s])
        /\ queue'[s] = Append(queue[s], EndedEvent(s))
    BY <1>1, <1>4, <1>8
  <2> QED
    BY <1>2, <1>3, <2>1 DEF EndsAt
<1>9. ASSUME NEW s \in Subs, s \notin S PROVE rzp'[s] = rzp[s] /\ queue'[s] = queue[s]
  BY <1>4, <1>9
<1> QED
  BY <1>5, <1>7, <1>8, <1>9 DEF Stopped

\* Where the subscription and what it replaces are known.
LEMMA AtStep ==
    ASSUME TypeInv, NEW h \in Handlers
    PROVE  /\ task[h] \in Task /\ TaskInOrder(task[h]) /\ task[h].row \in Row
           /\ task[h].event \in Event /\ task[h].halted \in SUBSET Subs
           /\ task[h].tier \in Tiers \cup {None} /\ task[h].old \in Subs \cup {None}
           /\ task[h].s \in Subs \cup {None} /\ task[h].step \in Steps
           /\ task[h].by \in {"nobody", "webhook", "callback", "owner", "read", "admin"}
           /\ task[h].credit \in BOOLEAN
BY DEF TypeInv, TypeOK, Task, TasksInOrder

LEMMA CancelReplacedDoes ==
    ASSUME TypeInv, NEW h \in Handlers, CancelReplaced(h)
    PROVE  LET o == task[h].row.replaces
           IN  /\ task[h].step = "cancelReplaced" /\ task[h].s \in Subs /\ o \in Subs
               /\ \/ /\ sub[o].status = "cancelled" /\ Moves(h, "invoice")
                     /\ UNCHANGED <<rzp, queue>>
                  \/ /\ sub[o].status # "cancelled"
                     /\ task' \in [Handlers -> Task] /\ Others(h) /\ Kept(h)
                     /\ task'[h].step = "retire"
                     /\ \/ CanStop(o) /\ Stopped({o})
                        \/ (Down \/ ~CanStop(o)) /\ UNCHANGED <<rzp, queue>>
               /\ UNCHANGED <<kind, today, sub, plan, seen, invoices, credits>>
<1> DEFINE o == task[h].row.replaces
           credit == sub[o].status = "active" /\ sub[o].end > today
           new(t) == [t EXCEPT !.step = "retire", !.credit = credit]
<1>1. task[h].step = "cancelReplaced" /\ task[h].s \in Subs /\ o \in Subs /\ task[h] \in Task
  BY AtStep DEF CancelReplaced, At, TaskInOrder, OfEvent, Activating
<1>2. UNCHANGED <<kind, today, sub, plan, seen, invoices, credits>>
  BY DEF CancelReplaced
<1>3. CASE sub[o].status = "cancelled" /\ Go(h, "invoice") /\ UNCHANGED <<rzp, queue>>
  <2>1. Moves(h, "invoice")
    BY <1>3, Moving DEF TypeInv, Steps, Activating
  <2> QED
    BY <1>1, <1>2, <1>3, <2>1
<1>4. CASE /\ sub[o].status # "cancelled"
           /\ task' = [task EXCEPT ![h].step = "retire", ![h].credit = credit]
           /\ \/ CanStop(o) /\ StopCharging({o})
              \/ (Down \/ ~CanStop(o)) /\ UNCHANGED <<rzp, queue>>
  <2>1. "retire" \in Steps /\ task \in [Handlers -> Task] /\ credit \in BOOLEAN
    BY DEF TypeInv, TypeOK, Steps, Activating
  <2>2. \A t \in Task : /\ new(t) \in Task /\ new(t).step = "retire" /\ new(t).by = t.by
                        /\ new(t).s = t.s /\ new(t).row = t.row /\ new(t).event = t.event
                        /\ new(t).tier = t.tier /\ new(t).old = t.old /\ new(t).halted = t.halted
    BY <2>1, ZenonT(60) DEF Task
  <2>3. task' = [task EXCEPT ![h] = new(task[h])]
    BY <1>4, <2>1
  <2> HIDE DEF new
  <2>4. task' \in [Handlers -> Task] /\ Others(h) /\ task'[h] = new(task[h])
    BY <1>1, <2>1, <2>2, <2>3, TaskPut
  <2>5. Kept(h) /\ task'[h].step = "retire"
    BY <1>1, <2>2, <2>4 DEF Kept
  <2>6. CanStop(o) /\ StopCharging({o}) => Stopped({o})
    BY <1>1, Stopping DEF TypeInv
  <2> QED
    BY <1>1, <1>2, <1>4, <2>4, <2>5, <2>6
<1> QED
  BY <1>3, <1>4 DEF CancelReplaced

LEMMA RetireDoes ==
    ASSUME TypeInv, NEW h \in Handlers, Retire(h)
    PROVE  LET o == task[h].row.replaces
           IN  /\ task[h].step = "retire" /\ task[h].s \in Subs /\ o \in Subs
               /\ OnlyRow(o) /\ Cancels(o)
               /\ Moves(h, "creditReplaced") \/ Moves(h, "invoice")
               /\ UNCHANGED <<kind, today, plan, rzp, queue, seen, invoices, credits>>
<1> DEFINE o == task[h].row.replaces
<1>1. task[h].step = "retire" /\ task[h].s \in Subs /\ o \in Subs
  BY AtStep DEF Retire, At, TaskInOrder, OfEvent, Activating
<1>2. OnlyRow(o) /\ Cancels(o)
  BY <1>1, RowCancelled DEF Retire, TypeInv, TypeOK
<1>3. "creditReplaced" \in Steps /\ "invoice" \in Steps
  BY DEF Steps, Activating
<1>4. Go(h, "creditReplaced") \/ Go(h, "invoice")
  BY DEF Retire
<1>5. Moves(h, "creditReplaced") \/ Moves(h, "invoice")
  BY <1>3, <1>4, Moving DEF TypeInv
<1> QED
  BY <1>1, <1>2, <1>5 DEF Retire

LEMMA CreditReplacedDoes ==
    ASSUME TypeInv, NEW h \in Handlers, CreditReplaced(h)
    PROVE  /\ task[h].step = "creditReplaced" /\ Moves(h, "invoice")
           /\ credits' \in [Subs -> Nat]
           /\ UNCHANGED <<kind, today, sub, plan, rzp, queue, seen, invoices>>
<1>1. Moves(h, "invoice")
  BY Moving DEF CreditReplaced, TypeInv, Steps, Activating
<1> DEFINE o == task[h].row.replaces
<1>2. credits' = [credits EXCEPT ![o] = credits[o] + 1]
  BY DEF CreditReplaced
<1>3. credits' \in [Subs -> Nat]
  <2>1. credits \in [Subs -> Nat] /\ o \in Subs
    BY AtStep DEF CreditReplaced, At, TaskInOrder, TypeInv, TypeOK
  <2> HIDE DEF o
  <2>2. credits[o] + 1 \in Nat
    BY <2>1
  <2> QED
    BY <1>2, <2>1, <2>2
<1> QED
  BY <1>1, <1>3 DEF CreditReplaced, At

LEMMA InvoiceDoes ==
    ASSUME TypeInv, NEW h \in Handlers, Invoice(h)
    PROVE  LET c == <<task[h].s, task[h].event.charge>>
           IN  /\ task[h].step = "invoice" /\ task[h].s \in Subs /\ Answers(h)
               /\ invoices' \in [Subs \X Charges -> Nat]
               /\ c \in Subs \X Charges => invoices'[c] = invoices[c] + 1
               /\ \A d \in Subs \X Charges : d # c => invoices'[d] = invoices[d]
               /\ UNCHANGED <<kind, today, sub, plan, rzp, credits>>
<1>1. task[h].step = "invoice" /\ task[h].s \in Subs
  BY AtStep DEF Invoice, At, TaskInOrder, OfEvent, Activating
<1>2. Answers(h)
  BY Answering DEF Invoice
<1> DEFINE c == <<task[h].s, task[h].event.charge>>
<1>3. invoices \in [Subs \X Charges -> Nat] /\ invoices' = [invoices EXCEPT ![c] = @ + 1]
  BY DEF Invoice, TypeInv, TypeOK
<1> DEFINE D == Subs \X Charges
<1> HIDE DEF c, D
<1>4. /\ invoices' \in [D -> Nat]
      /\ c \in D => invoices'[c] = invoices[c] + 1
      /\ \A d \in D : d # c => invoices'[d] = invoices[d]
  <2>1. invoices \in [D -> Nat] /\ invoices' = [invoices EXCEPT ![c] = invoices[c] + 1]
    BY <1>3 DEF D
  <2>2. c \in D => invoices[c] + 1 \in Nat
    BY <2>1
  <2> QED
    BY <2>1, <2>2
<1> QED
  BY <1>1, <1>2, <1>4 DEF Invoice, c, D

LEMMA RenewDoes ==
    ASSUME TypeInv, NEW h \in Handlers, Renew(h)
    PROVE  LET s == task[h].s
               row == task[h].row
           IN  /\ task[h].step = "renew" /\ s \in Subs /\ Moves(h, "invoice")
               /\ \/ /\ Revivable(s, row) /\ OnlyRow(s) /\ Terms(s) /\ Plans(s)
                     /\ sub'[s].status = "active" /\ sub'[s].grace = None
                     /\ sub'[s].end = RenewedFrom(row) + Period
                  \/ ~Revivable(s, row) /\ sub' = sub
               /\ RenewedFrom(row) \in Nat /\ RenewedFrom(row) >= today
               /\ UNCHANGED <<kind, today, plan, rzp, queue, seen, invoices, credits>>
<1> DEFINE s == task[h].s
           row == task[h].row
           end == RenewedFrom(row) + Period
           new(r) == [r EXCEPT !.status = "active", !.grace = None, !.end = end]
<1>1. task[h].step = "renew" /\ s \in Subs
  BY AtStep DEF Renew, At, TaskInOrder, OfEvent
<1>2. Moves(h, "invoice")
  BY Moving DEF Renew, TypeInv, Steps, Activating
<1>3. RenewedFrom(row) \in Nat /\ RenewedFrom(row) >= today
  <2>1. row \in Row /\ today \in Nat
    BY AtStep DEF TypeInv, TypeOK
  <2>2. row.end \in Nat
    BY <2>1, RowFields
  <2> HIDE DEF row
  <2> QED
    BY <2>1, <2>2 DEF RenewedFrom
<1>4. UNCHANGED <<kind, today, plan, rzp, queue, seen, invoices, credits>>
  BY DEF Renew
<1>5. CASE ~Revivable(s, row)
  <2>1. sub' = sub
    BY <1>5 DEF Renew
  <2> QED
    BY <1>1, <1>2, <1>3, <1>4, <1>5, <2>1
<1>6. CASE Revivable(s, row)
  <2>1. sub' = [sub EXCEPT ![s] = new(sub[s])]
    BY <1>6 DEF Renew
  <2>2. "active" \in Statuses /\ None \in 0 .. MaxDay + Grace
    BY Bounds DEF Statuses
  <2>3. end \in Nat
    BY <1>3, Bounds
  <2> HIDE DEF end
  <2>4. \A r \in Row : /\ new(r) \in Row /\ new(r).status = "active" /\ new(r).grace = None
                       /\ new(r).end = end /\ new(r).tier = r.tier /\ new(r).ends = r.ends
                       /\ new(r).scheduled = r.scheduled /\ new(r).replaces = r.replaces
                       /\ new(r).admin = r.admin
    BY <2>2, <2>3 DEF Row
  <2>5. sub \in [Subs -> Row]
    BY DEF TypeInv, TypeOK
  <2>6. sub[s] \in Row
    BY <1>1, <2>5
  <2> HIDE DEF new, s, row
  <2>7. OnlyRow(s) /\ sub'[s] = new(sub[s])
    BY <1>1, <2>1, <2>4, <2>5, <2>6, RowPut
  <2>8. /\ Terms(s) /\ Plans(s) /\ sub'[s].status = "active" /\ sub'[s].grace = None
        /\ sub'[s].end = end
    BY <2>4, <2>6, <2>7 DEF Terms, Plans
  <2> QED
    BY <1>1, <1>2, <1>3, <1>4, <1>6, <2>7, <2>8 DEF s, row, end
<1> QED
  BY <1>5, <1>6

LEMMA FailDoes ==
    ASSUME TypeInv, NEW h \in Handlers, Fail(h)
    PROVE  LET s == task[h].s
           IN  /\ task[h].step = "fail" /\ s \in Subs /\ Answers(h)
               /\ \/ /\ IsLive(s) /\ OnlyRow(s) /\ Terms(s) /\ Plans(s)
                     /\ sub'[s].end = sub[s].end /\ sub'[s].status = "past_due"
                     /\ sub'[s].grace = GraceOf(task[h].row)
                  \/ ~IsLive(s) /\ sub' = sub
               /\ UNCHANGED <<kind, today, plan, rzp, invoices, credits>>
<1> DEFINE s == task[h].s
           grace == GraceOf(task[h].row)
           new(r) == [r EXCEPT !.status = "past_due", !.grace = grace]
<1>1. task[h].step = "fail" /\ s \in Subs
  BY AtStep DEF Fail, At, TaskInOrder, OfEvent
<1>2. Answers(h)
  BY Answering DEF Fail
<1>3. grace \in 0 .. MaxDay + Grace
  <2>1. task[h].row.grace \in 0 .. MaxDay + Grace
    BY AtStep, RowFields
  <2>2. today + Grace \in 0 .. MaxDay + Grace
    BY Bounds DEF TypeInv, TypeOK
  <2> QED
    BY <2>1, <2>2 DEF GraceOf
<1>4. UNCHANGED <<kind, today, plan, rzp, invoices, credits>>
  BY DEF Fail
<1>5. CASE ~IsLive(s)
  <2>1. sub' = sub
    BY <1>5 DEF Fail
  <2> QED
    BY <1>1, <1>2, <1>4, <1>5, <2>1
<1>6. CASE IsLive(s)
  <2>1. sub' = [sub EXCEPT ![s] = new(sub[s])]
    BY <1>6 DEF Fail
  <2>2. "past_due" \in Statuses
    BY DEF Statuses
  <2> HIDE DEF grace
  <2>4. \A r \in Row : /\ new(r) \in Row /\ new(r).status = "past_due" /\ new(r).grace = grace
                       /\ new(r).end = r.end /\ new(r).tier = r.tier /\ new(r).ends = r.ends
                       /\ new(r).scheduled = r.scheduled /\ new(r).replaces = r.replaces
                       /\ new(r).admin = r.admin
    BY <2>2, <1>3 DEF Row
  <2>5. sub \in [Subs -> Row]
    BY DEF TypeInv, TypeOK
  <2>6. sub[s] \in Row
    BY <1>1, <2>5
  <2> HIDE DEF new, s
  <2>7. OnlyRow(s) /\ sub'[s] = new(sub[s])
    BY <1>1, <2>1, <2>4, <2>5, <2>6, RowPut
  <2>8. /\ Terms(s) /\ Plans(s) /\ sub'[s].status = "past_due" /\ sub'[s].grace = grace
        /\ sub'[s].end = sub[s].end
    BY <2>4, <2>6, <2>7 DEF Terms, Plans
  <2> QED
    BY <1>1, <1>2, <1>4, <1>6, <2>7, <2>8 DEF s, grace
<1> QED
  BY <1>5, <1>6

LEMMA HaltDoes ==
    ASSUME TypeInv, NEW h \in Handlers, Halt(h)
    PROVE  LET s == task[h].s
           IN  /\ task[h].step = "halt" /\ s \in Subs /\ Answers(h)
               /\ \/ /\ IsLive(s) /\ OnlyRow(s) /\ Terms(s) /\ Plans(s) /\ Dates(s)
                     /\ sub'[s].status = "halted"
                  \/ ~IsLive(s) /\ sub' = sub
               /\ UNCHANGED <<kind, today, plan, rzp, invoices, credits>>
<1> DEFINE s == task[h].s
           new(r) == [r EXCEPT !.status = "halted"]
<1>1. task[h].step = "halt" /\ s \in Subs
  BY AtStep DEF Halt, At, TaskInOrder, OfEvent
<1>2. Answers(h)
  BY Answering DEF Halt
<1>4. UNCHANGED <<kind, today, plan, rzp, invoices, credits>>
  BY DEF Halt
<1>5. CASE ~IsLive(s)
  <2>1. sub' = sub
    BY <1>5 DEF Halt, Haltable
  <2> QED
    BY <1>1, <1>2, <1>4, <1>5, <2>1
<1>6. CASE IsLive(s)
  <2>1. sub' = [sub EXCEPT ![s] = new(sub[s])]
    BY <1>6 DEF Halt, Haltable
  <2>2. "halted" \in Statuses
    BY DEF Statuses
  <2>4. \A r \in Row : /\ new(r) \in Row /\ new(r).status = "halted" /\ new(r).grace = r.grace
                       /\ new(r).end = r.end /\ new(r).tier = r.tier /\ new(r).ends = r.ends
                       /\ new(r).scheduled = r.scheduled /\ new(r).replaces = r.replaces
                       /\ new(r).admin = r.admin
    BY <2>2 DEF Row
  <2>5. sub \in [Subs -> Row]
    BY DEF TypeInv, TypeOK
  <2>6. sub[s] \in Row
    BY <1>1, <2>5
  <2> HIDE DEF new, s
  <2>7. OnlyRow(s) /\ sub'[s] = new(sub[s])
    BY <1>1, <2>1, <2>4, <2>5, <2>6, RowPut
  <2>8. Terms(s) /\ Plans(s) /\ Dates(s) /\ sub'[s].status = "halted"
    BY <2>4, <2>6, <2>7 DEF Terms, Plans, Dates
  <2> QED
    BY <1>1, <1>2, <1>4, <1>6, <2>7, <2>8 DEF s
<1> QED
  BY <1>5, <1>6

LEMMA EndDoes ==
    ASSUME TypeInv, NEW h \in Handlers, End(h)
    PROVE  /\ task[h].step = "end" /\ task[h].s \in Subs /\ Answers(h)
           /\ OnlyRow(task[h].s) /\ Cancels(task[h].s)
           /\ UNCHANGED <<kind, today, plan, rzp, invoices, credits>>
<1>1. task[h].step = "end" /\ task[h].s \in Subs
  BY AtStep DEF End, At, TaskInOrder, OfEvent
<1>2. Answers(h)
  BY Answering DEF End
<1>3. OnlyRow(task[h].s) /\ Cancels(task[h].s)
  BY <1>1, RowCancelled DEF End, TypeInv, TypeOK
<1> QED
  BY <1>1, <1>2, <1>3 DEF End

LEMMA EndToBuyDoes ==
    ASSUME TypeInv, NEW h \in Handlers, EndToBuy(h)
    PROVE  /\ task[h].step = "endToBuy" /\ task[h].s \in Subs /\ Moves(h, "browse")
           /\ task[h].tier \in Tiers /\ OnlyRow(task[h].s) /\ Cancels(task[h].s)
           /\ UNCHANGED <<kind, today, plan, rzp, queue, seen, invoices, credits>>
<1>1. task[h].step = "endToBuy" /\ task[h].s \in Subs /\ task[h].tier \in Tiers
  BY AtStep DEF EndToBuy, At, TaskInOrder
<1>2. Moves(h, "browse")
  BY Moving DEF EndToBuy, TypeInv, Steps, Buying
<1>3. OnlyRow(task[h].s) /\ Cancels(task[h].s)
  BY <1>1, RowCancelled DEF EndToBuy, TypeInv, TypeOK
<1> QED
  BY <1>1, <1>2, <1>3 DEF EndToBuy

LEMMA BrowseDoes ==
    ASSUME TypeInv, NEW h \in Handlers, Browse(h)
    PROVE  /\ task[h].step = "browse" /\ task[h].tier \in Tiers
           /\ \/ Blocked(task[h].old) /\ Leaves(h)
              \/ /\ ~Blocked(task[h].old) /\ task' \in [Handlers -> Task] /\ Others(h)
                 /\ task'[h].step = IF kind = "plan" THEN "subscribe" ELSE "dropOpen"
                 /\ task'[h].by = task[h].by /\ task'[h].s = task[h].s
                 /\ task'[h].row = task[h].row /\ task'[h].event = task[h].event
                 /\ task'[h].tier = task[h].tier /\ task'[h].old = task[h].old
                 /\ task'[h].halted = {s \in Subs : sub[s].status = "halted"}
           /\ UNCHANGED <<kind, today, sub, plan, rzp, queue, seen, invoices, credits>>
<1> DEFINE step == IF kind = "plan" THEN "subscribe" ELSE "dropOpen"
           halted == {s \in Subs : sub[s].status = "halted"}
           new(t) == [t EXCEPT !.step = step, !.halted = halted]
<1>1. task[h].step = "browse" /\ task[h].tier \in Tiers
  BY AtStep DEF Browse, At, TaskInOrder
<1>2. UNCHANGED <<kind, today, sub, plan, rzp, queue, seen, invoices, credits>>
  BY DEF Browse
<1>3. CASE Blocked(task[h].old)
  <2>1. Leaves(h)
    BY <1>3, Leaving DEF Browse, TypeInv
  <2> QED
    BY <1>1, <1>2, <1>3, <2>1
<1>4. CASE ~Blocked(task[h].old)
  <2>1. step \in Steps /\ halted \in SUBSET Subs /\ task \in [Handlers -> Task]
    BY DEF TypeInv, TypeOK, Steps, Buying
  <2>2. task' = [task EXCEPT ![h] = new(task[h])]
    BY <1>4, <2>1 DEF Browse
  <2> HIDE DEF step, halted
  <2>3. \A t \in Task : /\ new(t) \in Task /\ new(t).step = step /\ new(t).by = t.by
                        /\ new(t).s = t.s /\ new(t).row = t.row /\ new(t).event = t.event
                        /\ new(t).tier = t.tier /\ new(t).old = t.old /\ new(t).halted = halted
    BY <2>1 DEF Task
  <2> HIDE DEF new
  <2>4. task' \in [Handlers -> Task] /\ Others(h) /\ task'[h] = new(task[h]) /\ task[h] \in Task
    BY AtStep, <2>1, <2>2, <2>3, TaskPut
  <2>5. /\ task'[h].step = step
        /\ task'[h].by = task[h].by /\ task'[h].s = task[h].s
        /\ task'[h].row = task[h].row /\ task'[h].event = task[h].event
        /\ task'[h].tier = task[h].tier /\ task'[h].old = task[h].old
        /\ task'[h].halted = halted
    BY <2>3, <2>4
  <2> QED
    BY <1>1, <1>2, <1>4, <2>4, <2>5 DEF step, halted
<1> QED
  BY <1>3, <1>4

\* The rows of S are cancelled, and nothing else changes.
LEMMA RowsCancelled ==
    ASSUME sub \in [Subs -> Row], NEW S \in SUBSET Subs,
           sub' = [s \in Subs |-> IF s \in S THEN [sub[s] EXCEPT !.status = "cancelled"]
                                  ELSE sub[s]]
    PROVE  /\ sub' \in [Subs -> Row]
           /\ \A s \in Subs : IF s \in S THEN Cancels(s) ELSE sub'[s] = sub[s]
<1>1. "cancelled" \in Statuses
  BY DEF Statuses
<1> DEFINE new(r) == [r EXCEPT !.status = "cancelled"]
<1>2. \A r \in Row : /\ new(r) \in Row /\ new(r).status = "cancelled" /\ new(r).tier = r.tier
                     /\ new(r).end = r.end /\ new(r).grace = r.grace /\ new(r).ends = r.ends
                     /\ new(r).scheduled = r.scheduled /\ new(r).replaces = r.replaces
                     /\ new(r).admin = r.admin
  BY <1>1 DEF Row
<1>3. sub' = [s \in Subs |-> IF s \in S THEN new(sub[s]) ELSE sub[s]]
  OBVIOUS
<1> HIDE DEF new
<1>4. /\ sub' \in [Subs -> Row]
      /\ \A s \in Subs : sub'[s] = IF s \in S THEN new(sub[s]) ELSE sub[s]
  BY <1>2, <1>3
<1>5. ASSUME NEW s \in Subs, s \in S PROVE Cancels(s)
  <2>1. sub[s] \in Row /\ sub'[s] = new(sub[s])
    BY <1>4, <1>5
  <2> QED
    BY <1>2, <2>1 DEF Cancels, Terms, Dates, Plans
<1> QED
  BY <1>4, <1>5

LEMMA DropOpenDoes ==
    ASSUME TypeInv, NEW h \in Handlers, DropOpen(h)
    PROVE  /\ task[h].step = "dropOpen" /\ task[h].tier \in Tiers /\ Moves(h, "subscribe")
           /\ sub' \in [Subs -> Row]
           /\ \A s \in Subs : IF sub[s].status = "created" /\ sub[s].tier = task[h].tier
                              THEN Cancels(s) ELSE sub'[s] = sub[s]
           /\ UNCHANGED <<kind, today, plan, rzp, queue, seen, invoices, credits>>
<1>1. task[h].step = "dropOpen" /\ task[h].tier \in Tiers
  BY AtStep DEF DropOpen, At, TaskInOrder
<1>2. Moves(h, "subscribe")
  BY Moving DEF DropOpen, TypeInv, Steps, Buying
<1> DEFINE S == {s \in Subs : sub[s].status = "created" /\ sub[s].tier = task[h].tier}
<1>3. sub' = [s \in Subs |-> IF s \in S THEN [sub[s] EXCEPT !.status = "cancelled"] ELSE sub[s]]
  BY DEF DropOpen
<1>4. S \in SUBSET Subs /\ sub \in [Subs -> Row]
  BY DEF TypeInv, TypeOK
<1>5. \A s \in Subs : s \in S <=> sub[s].status = "created" /\ sub[s].tier = task[h].tier
  OBVIOUS
<1> HIDE DEF S
<1>6. /\ sub' \in [Subs -> Row]
      /\ \A s \in Subs : IF s \in S THEN Cancels(s) ELSE sub'[s] = sub[s]
  BY <1>3, <1>4, RowsCancelled
<1> QED
  BY <1>1, <1>2, <1>5, <1>6 DEF DropOpen

LEMMA SubscribeDoes ==
    ASSUME TypeInv, NEW h \in Handlers, Subscribe(h)
    PROVE  /\ task[h].step = "subscribe" /\ task[h].tier \in Tiers
           /\ \/ /\ Next1 \in Fresh /\ OnlyMandate(Next1)
                 /\ rzp'[Next1].state = "open" /\ rzp'[Next1].due = rzp[Next1].due
                 /\ rzp'[Next1].ends = rzp[Next1].ends /\ rzp'[Next1].paid = rzp[Next1].paid
                 /\ rzp'[Next1].tries = rzp[Next1].tries /\ rzp'[Next1].shown = rzp[Next1].shown
                 /\ rzp'[Next1].callback = rzp[Next1].callback
                 /\ task' \in [Handlers -> Task] /\ Others(h)
                 /\ task'[h].step = "insert" /\ task'[h].s = Next1 /\ task'[h].by = task[h].by
                 /\ task'[h].row = task[h].row /\ task'[h].event = task[h].event
                 /\ task'[h].tier = task[h].tier /\ task'[h].old = task[h].old
                 /\ task'[h].halted = task[h].halted
              \/ Leaves(h) /\ UNCHANGED rzp
           /\ UNCHANGED <<kind, today, sub, plan, queue, seen, invoices, credits>>
<1>1. task[h].step = "subscribe" /\ task[h].tier \in Tiers
  BY AtStep DEF Subscribe, At, TaskInOrder
<1>2. UNCHANGED <<kind, today, sub, plan, queue, seen, invoices, credits>>
  BY DEF Subscribe
<1>3. CASE (Down \/ Fresh = {}) /\ Stop(h) /\ UNCHANGED rzp
  BY <1>1, <1>2, <1>3, Leaving DEF TypeInv
<1>4. CASE /\ Fresh # {}
           /\ rzp' = [rzp EXCEPT ![Next1].state = "open"]
           /\ task' = [task EXCEPT ![h].step = "insert", ![h].s = Next1]
  <2> DEFINE n == Next1
             new(m) == [m EXCEPT !.state = "open"]
             put(t) == [t EXCEPT !.step = "insert", !.s = n]
  <2>1. n \in Fresh /\ n \in Subs
    BY <1>4, FirstIsFresh DEF Fresh
  <2>2. task \in [Handlers -> Task] /\ rzp \in [Subs -> Mandate] /\ "insert" \in Steps
    BY DEF TypeInv, TypeOK, Steps, Buying
  <2>3. rzp' = [rzp EXCEPT ![n] = new(rzp[n])] /\ task' = [task EXCEPT ![h] = put(task[h])]
    BY <1>4, <2>2
  <2>4. n = Next1
    OBVIOUS
  <2> HIDE DEF n
  <2>5. \A m \in Mandate : /\ new(m) \in Mandate /\ new(m).state = "open" /\ new(m).due = m.due
                           /\ new(m).ends = m.ends /\ new(m).paid = m.paid
                           /\ new(m).tries = m.tries /\ new(m).shown = m.shown
                           /\ new(m).callback = m.callback
    BY DEF Mandate
  <2>6. \A t \in Task : /\ put(t) \in Task /\ put(t).step = "insert" /\ put(t).by = t.by
                        /\ put(t).s = n /\ put(t).row = t.row /\ put(t).event = t.event
                        /\ put(t).tier = t.tier /\ put(t).old = t.old /\ put(t).halted = t.halted
    BY <2>1, <2>2 DEF Task
  <2> HIDE DEF new, put
  <2>7. rzp[n] \in Mandate /\ task[h] \in Task
    BY <2>1, <2>2
  <2>8. OnlyMandate(n) /\ rzp'[n] = new(rzp[n])
    BY <2>1, <2>2, <2>3, <2>5, <2>7, MandatePut
  <2>9. task' \in [Handlers -> Task] /\ Others(h) /\ task'[h] = put(task[h])
    BY <2>2, <2>3, <2>6, <2>7, TaskPut
  <2>10. /\ rzp'[n].state = "open" /\ rzp'[n].due = rzp[n].due
         /\ rzp'[n].ends = rzp[n].ends /\ rzp'[n].paid = rzp[n].paid
         /\ rzp'[n].tries = rzp[n].tries /\ rzp'[n].shown = rzp[n].shown
         /\ rzp'[n].callback = rzp[n].callback
    BY <2>5, <2>7, <2>8
  <2>11. /\ task'[h].step = "insert" /\ task'[h].s = n /\ task'[h].by = task[h].by
         /\ task'[h].row = task[h].row /\ task'[h].event = task[h].event
         /\ task'[h].tier = task[h].tier /\ task'[h].old = task[h].old
         /\ task'[h].halted = task[h].halted
    BY <2>6, <2>7, <2>9
  <2> QED
    BY <1>1, <1>2, <2>1, <2>4, <2>8, <2>9, <2>10, <2>11
<1> QED
  BY <1>3, <1>4 DEF Subscribe

LEMMA InsertDoes ==
    ASSUME TypeInv, NEW h \in Handlers, Insert(h)
    PROVE  LET s == task[h].s
           IN  /\ task[h].step = "insert" /\ s \in Subs /\ task[h].tier \in Tiers
               /\ \/ Leaves(h) /\ sub' = sub
                  \/ /\ \A i \in Subs \ {s} :
                           sub[i].status \notin {"none", "cancelled"} /\ i \notin Retired(h) =>
                              kind = "addon" /\ sub[i].tier # task[h].tier
                     /\ Moves(h, "release") /\ sub' \in [Subs -> Row]
                     /\ \A i \in Subs \ {s} :
                           IF i \in Retired(h) THEN Cancels(i) ELSE sub'[i] = sub[i]
                     /\ sub'[s].status = "created" /\ sub'[s].tier = task[h].tier
                     /\ sub'[s].end = None /\ sub'[s].grace = None /\ sub'[s].ends = FALSE
                     /\ sub'[s].scheduled = None /\ sub'[s].replaces = task[h].old
                     /\ sub'[s].admin = FALSE
               /\ Retired(h) \in SUBSET Subs
               /\ UNCHANGED <<kind, today, plan, rzp, queue, seen, invoices, credits>>
<1> DEFINE s == task[h].s
           new(r) == [r EXCEPT !.status = "cancelled"]
           left == [i \in Subs |-> IF i \in Retired(h) THEN new(sub[i]) ELSE sub[i]]
           row == [NoRow EXCEPT !.status = "created", !.tier = task[h].tier,
                                !.replaces = task[h].old]
<1>1. task[h].step = "insert" /\ s \in Subs /\ task[h].tier \in Tiers
  BY AtStep DEF Insert, At, TaskInOrder
<1>2. Retired(h) \in SUBSET Subs
  BY AtStep DEF Retired
<1>3. CASE Taken(left, s, task[h].tier)
  <2>1. Throw(h)
    BY <1>3 DEF Insert
  <2> QED
    BY <1>1, <1>2, <2>1, Throwing DEF TypeInv
<1>4. CASE ~Taken(left, s, task[h].tier)
  <2>1. /\ sub' = [left EXCEPT ![s] = row] /\ Go(h, "release")
        /\ UNCHANGED <<kind, today, plan, rzp, queue, seen, invoices, credits>>
    BY <1>4 DEF Insert
  <2>2. Moves(h, "release")
    BY <2>1, Moving DEF TypeInv, Steps, Buying
  <2>3. sub \in [Subs -> Row]
    BY DEF TypeInv, TypeOK
  <2>4. \A r \in Row : /\ new(r) \in Row /\ new(r).status = "cancelled" /\ new(r).tier = r.tier
                       /\ new(r).end = r.end /\ new(r).grace = r.grace /\ new(r).ends = r.ends
                       /\ new(r).scheduled = r.scheduled /\ new(r).replaces = r.replaces
                       /\ new(r).admin = r.admin
    BY DEF Row, Statuses
  <2>5. /\ row \in Row /\ row.status = "created" /\ row.tier = task[h].tier /\ row.end = None
        /\ row.grace = None /\ row.ends = FALSE /\ row.scheduled = None
        /\ row.replaces = task[h].old /\ row.admin = FALSE
    BY AtStep, IdleTyped DEF Row, NoRow, Statuses
  <2> HIDE DEF new, row, s
  <2>6. left \in [Subs -> Row] /\ \A i \in Subs : left[i] = IF i \in Retired(h) THEN new(sub[i])
                                                            ELSE sub[i]
    BY <2>3, <2>4
  <2>7. \A i \in Subs \ {s} : left[i].status \notin {"none", "cancelled"} =>
                                  kind = "addon" /\ left[i].tier # task[h].tier
    BY <1>4 DEF Taken
  <2> HIDE DEF left
  <2>8. sub' \in [Subs -> Row] /\ sub'[s] = row /\ \A i \in Subs \ {s} : sub'[i] = left[i]
    BY <1>1, <2>1, <2>5, <2>6
  <2>9. ASSUME NEW i \in Subs \ {s}, i \in Retired(h) PROVE Cancels(i)
    <3>1. sub[i] \in Row /\ sub'[i] = new(sub[i])
      BY <2>3, <2>6, <2>8, <2>9
    <3> QED
      BY <2>4, <3>1 DEF Cancels, Terms, Dates, Plans
  <2>10. ASSUME NEW i \in Subs \ {s}, i \notin Retired(h)
         PROVE  /\ sub'[i] = sub[i]
                /\ sub[i].status \notin {"none", "cancelled"} =>
                      kind = "addon" /\ sub[i].tier # task[h].tier
    BY <2>6, <2>7, <2>8, <2>10
  <2>11. \A i \in Subs \ {s} : IF i \in Retired(h) THEN Cancels(i) ELSE sub'[i] = sub[i]
    BY <2>9, <2>10
  <2>12. \A i \in Subs \ {s} : sub[i].status \notin {"none", "cancelled"} /\ i \notin Retired(h) =>
                                  kind = "addon" /\ sub[i].tier # task[h].tier
    BY <2>10
  <2>13. /\ sub'[s].status = "created" /\ sub'[s].tier = task[h].tier
         /\ sub'[s].end = None /\ sub'[s].grace = None /\ sub'[s].ends = FALSE
         /\ sub'[s].scheduled = None /\ sub'[s].replaces = task[h].old
         /\ sub'[s].admin = FALSE
    BY <2>5, <2>8
  <2> QED
    BY <1>1, <1>2, <2>1, <2>2, <2>8, <2>11, <2>12, <2>13 DEF s
<1> QED
  BY <1>3, <1>4

\* At the end of startCheckout.
ShownTo(s, by) ==
    /\ rzp'[s].state = rzp[s].state /\ rzp'[s].due = rzp[s].due /\ rzp'[s].ends = rzp[s].ends
    /\ rzp'[s].paid = rzp[s].paid /\ rzp'[s].tries = rzp[s].tries
    /\ rzp'[s].callback = rzp[s].callback /\ rzp'[s].shown = (by = "owner")

LEMMA ReleaseDoes ==
    ASSUME TypeInv, NEW h \in Handlers, Release(h)
    PROVE  /\ task[h].step = "release" /\ task[h].s \in Subs /\ Leaves(h)
           /\ rzp' \in [Subs -> Mandate] /\ queue' \in [Subs -> Seq(Event)]
           /\ \E stopped \in SUBSET {i \in task[h].halted : CanStop(i)} :
                 /\ Down \/ stopped = {i \in task[h].halted : CanStop(i)}
                 /\ \A i \in Subs :
                       IF i \in stopped THEN EndsAt(i)
                       ELSE /\ queue'[i] = queue[i]
                            /\ IF i = task[h].s THEN ShownTo(i, task[h].by) ELSE rzp'[i] = rzp[i]
           /\ UNCHANGED <<kind, today, sub, plan, seen, invoices, credits>>
<1>1. task[h].step = "release" /\ task[h].s \in Subs
  BY AtStep DEF Release, At, TaskInOrder
<1>2. Leaves(h)
  BY Leaving DEF Release, TypeInv
<1>3. rzp \in [Subs -> Mandate] /\ queue \in [Subs -> Seq(Event)]
  BY DEF TypeInv, TypeOK
<1>4. \A s \in Subs : EndedEvent(s) \in Event
  BY EndedTyped DEF TypeInv
<1> DEFINE H == {i \in task[h].halted : CanStop(i)}
           s == task[h].s
           own == task[h].by = "owner"
           new(m) == [m EXCEPT !.state = "cancelled"]
           show(m) == [m EXCEPT !.shown = own]
<1>5. PICK stopped \in SUBSET H :
          /\ Down \/ stopped = H
          /\ rzp' = [i \in Subs |-> IF i \in stopped THEN new(rzp[i])
                                    ELSE IF i = s THEN show(rzp[i]) ELSE rzp[i]]
          /\ queue' = [i \in Subs |-> IF i \in stopped THEN Append(queue[i], EndedEvent(i))
                                      ELSE queue[i]]
  BY Zenon DEF Release
<1>6. \A m \in Mandate : /\ new(m) \in Mandate /\ new(m).state = "cancelled" /\ new(m).due = m.due
                         /\ new(m).ends = m.ends /\ new(m).paid = m.paid
                         /\ new(m).shown = m.shown /\ new(m).callback = m.callback
  BY MandateStopped
<1>7. \A m \in Mandate : /\ show(m) \in Mandate /\ show(m).state = m.state /\ show(m).due = m.due
                         /\ show(m).ends = m.ends /\ show(m).paid = m.paid
                         /\ show(m).shown = own /\ show(m).callback = m.callback
                         /\ show(m).tries = m.tries
  BY DEF Mandate
<1> HIDE DEF new, show
<1>8. rzp' \in [Subs -> Mandate]
  BY <1>3, <1>5, <1>6, <1>7
<1>9. queue' \in [Subs -> Seq(Event)]
  <2>1. \A i \in Subs : Append(queue[i], EndedEvent(i)) \in Seq(Event)
    BY <1>3, <1>4, AppendProperties
  <2> QED
    BY <1>3, <1>5, <2>1
<1>10. ASSUME NEW i \in Subs, i \in stopped PROVE EndsAt(i)
  <2>1. rzp[i] \in Mandate /\ rzp'[i] = new(rzp[i]) /\ queue'[i] = Append(queue[i], EndedEvent(i))
    BY <1>3, <1>5, <1>10
  <2> QED
    BY <1>4, <1>6, <2>1 DEF EndsAt
<1>11. ASSUME NEW i \in Subs, i \notin stopped
       PROVE  /\ queue'[i] = queue[i]
              /\ IF i = s THEN ShownTo(i, task[h].by) ELSE rzp'[i] = rzp[i]
  <2>1. /\ rzp[i] \in Mandate /\ queue'[i] = queue[i]
        /\ rzp'[i] = IF i = s THEN show(rzp[i]) ELSE rzp[i]
    BY <1>3, <1>5, <1>11
  <2> QED
    BY <1>7, <2>1 DEF ShownTo
<1>12. UNCHANGED <<kind, today, sub, plan, seen, invoices, credits>>
  BY DEF Release
<1> QED
  BY <1>1, <1>2, <1>5, <1>8, <1>9, <1>10, <1>11, <1>12

LEMMA StopAtEndDoes ==
    ASSUME TypeInv, NEW h \in Handlers, StopAtEnd(h)
    PROVE  LET s == task[h].s
           IN  /\ task[h].step = "stopAtEnd" /\ s \in Subs
               /\ \/ /\ CanStop(s) /\ OnlyMandate(s)
                     /\ rzp'[s].state = rzp[s].state /\ rzp'[s].due = rzp[s].due
                     /\ rzp'[s].ends = TRUE /\ rzp'[s].paid = rzp[s].paid
                     /\ rzp'[s].tries = rzp[s].tries /\ rzp'[s].shown = rzp[s].shown
                     /\ rzp'[s].callback = rzp[s].callback
                     /\ \/ task[h].tier = None /\ Moves(h, "markEnds")
                        \/ task[h].tier # None /\ Moves(h, "schedule")
                  \/ Leaves(h) /\ UNCHANGED rzp
               /\ UNCHANGED <<kind, today, sub, plan, queue, seen, invoices, credits>>
<1> DEFINE s == task[h].s
           new(m) == [m EXCEPT !.ends = TRUE]
<1>1. task[h].step = "stopAtEnd" /\ s \in Subs
  BY AtStep DEF StopAtEnd, At, TaskInOrder
<1>2. UNCHANGED <<kind, today, sub, plan, queue, seen, invoices, credits>>
  BY DEF StopAtEnd
<1>3. CASE (Down \/ ~CanStop(s)) /\ Stop(h) /\ UNCHANGED rzp
  BY <1>1, <1>2, <1>3, Leaving DEF TypeInv
<1>4. CASE /\ CanStop(s)
           /\ rzp' = [rzp EXCEPT ![s].ends = TRUE]
           /\ Go(h, IF task[h].tier = None THEN "markEnds" ELSE "schedule")
  <2>1. "markEnds" \in Steps /\ "schedule" \in Steps
    BY DEF Steps
  <2>2. \/ task[h].tier = None /\ Go(h, "markEnds")
        \/ task[h].tier # None /\ Go(h, "schedule")
    BY <1>4
  <2>3. \/ task[h].tier = None /\ Moves(h, "markEnds")
        \/ task[h].tier # None /\ Moves(h, "schedule")
    BY <2>1, <2>2, Moving DEF TypeInv
  <2>4. rzp \in [Subs -> Mandate] /\ rzp' = [rzp EXCEPT ![s] = new(rzp[s])]
    BY <1>4 DEF TypeInv, TypeOK
  <2>5. \A m \in Mandate : /\ new(m) \in Mandate /\ new(m).state = m.state /\ new(m).due = m.due
                           /\ new(m).ends = TRUE /\ new(m).paid = m.paid
                           /\ new(m).tries = m.tries /\ new(m).shown = m.shown
                           /\ new(m).callback = m.callback
    BY DEF Mandate
  <2> HIDE DEF new, s
  <2>6. rzp[s] \in Mandate
    BY <1>1, <2>4
  <2>7. OnlyMandate(s) /\ rzp'[s] = new(rzp[s])
    BY <1>1, <2>4, <2>5, <2>6, MandatePut
  <2>8. /\ rzp'[s].state = rzp[s].state /\ rzp'[s].due = rzp[s].due
        /\ rzp'[s].ends = TRUE /\ rzp'[s].paid = rzp[s].paid
        /\ rzp'[s].tries = rzp[s].tries /\ rzp'[s].shown = rzp[s].shown
        /\ rzp'[s].callback = rzp[s].callback
    BY <2>5, <2>6, <2>7
  <2> QED
    BY <1>1, <1>2, <1>4, <2>3, <2>7, <2>8 DEF s
<1> QED
  BY <1>3, <1>4 DEF StopAtEnd

LEMMA MarkEndsDoes ==
    ASSUME TypeInv, NEW h \in Handlers, MarkEnds(h)
    PROVE  LET s == task[h].s
           IN  /\ task[h].step = "markEnds" /\ s \in Subs /\ Leaves(h)
               /\ OnlyRow(s) /\ Terms(s) /\ Dates(s) /\ sub'[s].status = sub[s].status
               /\ sub'[s].ends = TRUE /\ sub'[s].scheduled = None
               /\ UNCHANGED <<kind, today, plan, rzp, queue, seen, invoices, credits>>
<1> DEFINE s == task[h].s
           new(r) == [r EXCEPT !.ends = TRUE, !.scheduled = None]
<1>1. task[h].step = "markEnds" /\ s \in Subs
  BY AtStep DEF MarkEnds, At, TaskInOrder
<1>2. Leaves(h)
  BY Leaving DEF MarkEnds, TypeInv
<1>3. sub' = [sub EXCEPT ![s] = new(sub[s])]
  BY DEF MarkEnds
<1>4. \A r \in Row : /\ new(r) \in Row /\ new(r).status = r.status /\ new(r).grace = r.grace
                     /\ new(r).end = r.end /\ new(r).tier = r.tier /\ new(r).ends = TRUE
                     /\ new(r).scheduled = None /\ new(r).replaces = r.replaces
                     /\ new(r).admin = r.admin
  BY DEF Row
<1>5. sub \in [Subs -> Row]
  BY DEF TypeInv, TypeOK
<1>6. sub[s] \in Row
  BY <1>1, <1>5
<1> HIDE DEF new, s
<1>7. OnlyRow(s) /\ sub'[s] = new(sub[s])
  BY <1>1, <1>3, <1>4, <1>5, <1>6, RowPut
<1>8. /\ Terms(s) /\ Dates(s) /\ sub'[s].status = sub[s].status
      /\ sub'[s].ends = TRUE /\ sub'[s].scheduled = None
  BY <1>4, <1>6, <1>7 DEF Terms, Dates
<1> QED
  BY <1>1, <1>2, <1>7, <1>8 DEF MarkEnds, s

LEMMA ScheduleDoes ==
    ASSUME TypeInv, NEW h \in Handlers, Schedule(h)
    PROVE  LET s == task[h].s
           IN  /\ task[h].step = "schedule" /\ s \in Subs /\ task[h].tier \in Tiers /\ Leaves(h)
               /\ OnlyRow(s) /\ Terms(s) /\ Dates(s) /\ sub'[s].status = sub[s].status
               /\ sub'[s].ends = FALSE /\ sub'[s].scheduled = task[h].tier
               /\ UNCHANGED <<kind, today, plan, rzp, queue, seen, invoices, credits>>
<1> DEFINE s == task[h].s
           tier == task[h].tier
           new(r) == [r EXCEPT !.ends = FALSE, !.scheduled = tier]
<1>1. task[h].step = "schedule" /\ s \in Subs /\ tier \in Tiers
  BY AtStep DEF Schedule, At, TaskInOrder
<1>2. Leaves(h)
  BY Leaving DEF Schedule, TypeInv
<1>3. sub' = [sub EXCEPT ![s] = new(sub[s])]
  BY DEF Schedule
<1> HIDE DEF tier
<1>4. \A r \in Row : /\ new(r) \in Row /\ new(r).status = r.status /\ new(r).grace = r.grace
                     /\ new(r).end = r.end /\ new(r).tier = r.tier /\ new(r).ends = FALSE
                     /\ new(r).scheduled = tier /\ new(r).replaces = r.replaces
                     /\ new(r).admin = r.admin
  BY <1>1 DEF Row
<1>5. sub \in [Subs -> Row]
  BY DEF TypeInv, TypeOK
<1>6. sub[s] \in Row
  BY <1>1, <1>5
<1> HIDE DEF new, s
<1>7. OnlyRow(s) /\ sub'[s] = new(sub[s])
  BY <1>1, <1>3, <1>4, <1>5, <1>6, RowPut
<1>8. /\ Terms(s) /\ Dates(s) /\ sub'[s].status = sub[s].status
      /\ sub'[s].ends = FALSE /\ sub'[s].scheduled = tier
  BY <1>4, <1>6, <1>7 DEF Terms, Dates
<1> QED
  BY <1>1, <1>2, <1>7, <1>8 DEF Schedule, s, tier

LEMMA StopNowDoes ==
    ASSUME TypeInv, NEW h \in Handlers, StopNow(h)
    PROVE  LET s == task[h].s
           IN  /\ task[h].step = "stopNow" /\ s \in Subs /\ task[h].tier \in Tiers
               /\ \/ CanStop(s) /\ Stopped({s}) /\ Moves(h, "drop")
                  \/ Leaves(h) /\ UNCHANGED <<rzp, queue>>
               /\ UNCHANGED <<kind, today, sub, plan, seen, invoices, credits>>
<1> DEFINE s == task[h].s
<1>1. task[h].step = "stopNow" /\ s \in Subs /\ task[h].tier \in Tiers
  BY AtStep DEF StopNow, At, TaskInOrder
<1>2. UNCHANGED <<kind, today, sub, plan, seen, invoices, credits>>
  BY DEF StopNow
<1>3. CASE CanStop(s) /\ StopCharging({s}) /\ Go(h, "drop")
  <2>1. Stopped({s})
    BY <1>1, <1>3, Stopping DEF TypeInv
  <2>2. Moves(h, "drop")
    BY <1>3, Moving DEF TypeInv, Steps
  <2> QED
    BY <1>1, <1>2, <1>3, <2>1, <2>2
<1>4. CASE (Down \/ ~CanStop(s)) /\ Stop(h) /\ UNCHANGED <<rzp, queue>>
  BY <1>1, <1>2, <1>4, Leaving DEF TypeInv
<1> QED
  BY <1>3, <1>4 DEF StopNow

LEMMA DropDoes ==
    ASSUME TypeInv, NEW h \in Handlers, Drop(h)
    PROVE  /\ task[h].step = "drop" /\ task[h].s \in Subs /\ task[h].tier \in Tiers
           /\ OnlyRow(task[h].s) /\ Cancels(task[h].s)
           /\ Moves(h, "credit") \/ Moves(h, "browse")
           /\ UNCHANGED <<kind, today, plan, rzp, queue, seen, invoices, credits>>
<1>1. task[h].step = "drop" /\ task[h].s \in Subs /\ task[h].tier \in Tiers
  BY AtStep DEF Drop, At, TaskInOrder
<1>2. OnlyRow(task[h].s) /\ Cancels(task[h].s)
  BY <1>1, RowCancelled DEF Drop, TypeInv, TypeOK
<1>3. "credit" \in Steps /\ "browse" \in Steps
  BY DEF Steps, Buying
<1>4. Go(h, "credit") \/ Go(h, "browse")
  BY DEF Drop
<1>5. Moves(h, "credit") \/ Moves(h, "browse")
  BY <1>3, <1>4, Moving DEF TypeInv
<1> QED
  BY <1>1, <1>2, <1>5 DEF Drop

LEMMA CreditDoes ==
    ASSUME TypeInv, NEW h \in Handlers, Credit(h)
    PROVE  /\ task[h].step = "credit" /\ task[h].tier \in Tiers /\ Moves(h, "browse")
           /\ credits' \in [Subs -> Nat]
           /\ UNCHANGED <<kind, today, sub, plan, rzp, queue, seen, invoices>>
<1>1. Moves(h, "browse") /\ task[h].step = "credit" /\ task[h].tier \in Tiers
  BY Moving, AtStep DEF Credit, At, TaskInOrder, TypeInv, Steps, Buying
<1> DEFINE o == task[h].s
<1>2. credits' = [credits EXCEPT ![o] = credits[o] + 1]
  BY DEF Credit
<1>3. credits' \in [Subs -> Nat]
  <2>1. credits \in [Subs -> Nat] /\ o \in Subs
    BY AtStep DEF Credit, At, TaskInOrder, TypeInv, TypeOK
  <2> HIDE DEF o
  <2>2. credits[o] + 1 \in Nat
    BY <2>1
  <2> QED
    BY <1>2, <2>1, <2>2
<1> QED
  BY <1>1, <1>3 DEF Credit

LEMMA ClearDoes ==
    ASSUME TypeInv, NEW h \in Handlers, Clear(h)
    PROVE  /\ task[h].step = "clear" /\ task[h].tier \in Tiers /\ Moves(h, "grant")
           /\ sub' \in [Subs -> Row]
           /\ \A s \in Subs : IF s \in task[h].halted THEN Cancels(s) ELSE sub'[s] = sub[s]
           /\ UNCHANGED <<kind, today, plan, rzp, queue, seen, invoices, credits>>
<1>1. Moves(h, "grant") /\ task[h].step = "clear" /\ task[h].tier \in Tiers
  BY Moving, AtStep DEF Clear, At, TaskInOrder, TypeInv, Steps
<1> DEFINE S == task[h].halted
<1>2. S \in SUBSET Subs /\ sub \in [Subs -> Row]
  BY AtStep DEF TypeInv, TypeOK
<1>3. sub' = [s \in Subs |-> IF s \in S THEN [sub[s] EXCEPT !.status = "cancelled"] ELSE sub[s]]
  BY DEF Clear
<1> HIDE DEF S
<1>4. /\ sub' \in [Subs -> Row]
      /\ \A s \in Subs : IF s \in S THEN Cancels(s) ELSE sub'[s] = sub[s]
  BY <1>2, <1>3, RowsCancelled
<1> QED
  BY <1>1, <1>4 DEF Clear, S

LEMMA GrantRowDoes ==
    ASSUME TypeInv, NEW h \in Handlers, GrantRow(h)
    PROVE  /\ task[h].step = "grant" /\ task[h].tier \in Tiers /\ Leaves(h)
           /\ \/ sub' = sub
              \/ /\ Next1 \in Fresh /\ ~Taken(sub, Next1, task[h].tier) /\ OnlyRow(Next1)
                 /\ sub'[Next1].status = "active" /\ sub'[Next1].tier = task[h].tier
                 /\ sub'[Next1].end = None /\ sub'[Next1].grace = None
                 /\ sub'[Next1].ends = FALSE /\ sub'[Next1].scheduled = None
                 /\ sub'[Next1].replaces = None /\ sub'[Next1].admin = TRUE
           /\ UNCHANGED <<kind, today, plan, rzp, queue, seen, invoices, credits>>
<1>1. Leaves(h) /\ task[h].step = "grant" /\ task[h].tier \in Tiers
  BY Leaving, AtStep DEF GrantRow, At, TaskInOrder, TypeInv
<1>2. UNCHANGED <<kind, today, plan, rzp, queue, seen, invoices, credits>>
  BY DEF GrantRow
<1>3. CASE Fresh = {} \/ Taken(sub, Next1, task[h].tier)
  BY <1>1, <1>2, <1>3 DEF GrantRow
<1>4. CASE ~(Fresh = {} \/ Taken(sub, Next1, task[h].tier))
  <2> DEFINE n == Next1
             tier == task[h].tier
             row == [NoRow EXCEPT !.status = "active", !.tier = tier, !.admin = TRUE]
  <2>1. n \in Fresh /\ n \in Subs
    BY <1>4, FirstIsFresh DEF Fresh
  <2>2. sub \in [Subs -> Row] /\ sub' = [sub EXCEPT ![n] = row]
    BY <1>4 DEF GrantRow, TypeInv, TypeOK
  <2>3. n = Next1 /\ tier = task[h].tier
    OBVIOUS
  <2> HIDE DEF n, tier
  <2>4. /\ row \in Row /\ row.status = "active" /\ row.tier = tier /\ row.end = None
        /\ row.grace = None /\ row.ends = FALSE /\ row.scheduled = None
        /\ row.replaces = None /\ row.admin = TRUE
    BY <1>1, <2>3, IdleTyped DEF Row, NoRow, Statuses
  <2> HIDE DEF row
  <2>5. OnlyRow(n) /\ sub'[n] = row
    BY <2>1, <2>2, <2>4, RowPut
  <2> QED
    BY <1>1, <1>2, <1>4, <2>1, <2>3, <2>4, <2>5
<1> QED
  BY <1>3, <1>4

\* A handler that was free begins.
Begins(h, by, step, s, row, event, tier, old, halted) ==
    /\ task' \in [Handlers -> Task] /\ Others(h) /\ task[h].step = "idle"
    /\ task'[h].by = by /\ task'[h].step = step /\ task'[h].s = s /\ task'[h].row = row
    /\ task'[h].event = event /\ task'[h].tier = tier /\ task'[h].old = old
    /\ task'[h].halted = halted

LEMMA Beginning ==
    ASSUME TypeOK, NEW h \in Handlers, NEW t \in Task, Start(h, t)
    PROVE  Begins(h, t.by, t.step, t.s, t.row, t.event, t.tier, t.old, t.halted)
BY StartDoes DEF Begins

LEMMA IdleFields == Idle.event = NoEvent /\ Idle.tier = None /\ Idle.credit = FALSE
BY DEF Idle

LEMMA FirstStepOf ==
    ASSUME NEW e \in Event, NEW row \in Row
    PROVE  FirstStep(e, row) \in {"readToActivate", "renew", "fail", "halt", "end"}
BY DEF FirstStep, Event

LEMMA DeliverDoes ==
    ASSUME TypeInv, NEW h \in Handlers, NEW s \in Subs, Deliver(h, s)
    PROVE  /\ queue[s] # <<>> /\ Head(queue[s]) \in Event /\ NoRace(s)
           /\ \A k \in Handlers : task[k].by = "webhook" => task[k].s # s
           /\ \/ /\ seen[s] /\ UNCHANGED task
                 /\ queue' \in [Subs -> Seq(Event)] /\ seen' \in [Subs -> BOOLEAN]
                 /\ queue'[s] = Tail(queue[s]) /\ seen'[s] = FALSE
                 /\ \A t \in Subs : t # s => queue'[t] = queue[t] /\ seen'[t] = seen[t]
              \/ /\ ~seen[s] /\ UNCHANGED queue
                 /\ Begins(h, "webhook", FirstStep(Head(queue[s]), sub[s]), s, sub[s],
                           Head(queue[s]), None, None, {})
                 /\ seen' \in [Subs -> BOOLEAN] /\ seen'[s] = TRUE
                 /\ \A t \in Subs : t # s => seen'[t] = seen[t]
           /\ UNCHANGED <<kind, today, sub, plan, rzp, invoices, credits>>
<1> DEFINE e == Head(queue[s])
           step == FirstStep(e, sub[s])
<1>1. /\ queue[s] # <<>> /\ queue \in [Subs -> Seq(Event)] /\ seen \in [Subs -> BOOLEAN]
      /\ sub[s] \in Row
  BY DEF Deliver, TypeInv, TypeOK
<1>2. e \in Event /\ Tail(queue[s]) \in Seq(Event)
  BY <1>1, HeadTailProperties
<1>3. /\ NoRace(s) /\ (\A k \in Handlers : task[k].by = "webhook" => task[k].s # s)
      /\ UNCHANGED <<kind, today, sub, plan, rzp, invoices, credits>>
  BY DEF Deliver
<1>4. CASE /\ seen[s] /\ queue' = [queue EXCEPT ![s] = Tail(@)]
           /\ seen' = [seen EXCEPT ![s] = FALSE] /\ UNCHANGED task
  <2>1. /\ queue' \in [Subs -> Seq(Event)] /\ seen' \in [Subs -> BOOLEAN]
        /\ queue'[s] = Tail(queue[s]) /\ seen'[s] = FALSE
        /\ \A t \in Subs : t # s => queue'[t] = queue[t] /\ seen'[t] = seen[t]
    BY <1>1, <1>2, <1>4
  <2> QED
    BY <1>1, <1>2, <1>3, <1>4, <2>1
<1>5. CASE /\ ~seen[s] /\ seen' = [seen EXCEPT ![s] = TRUE] /\ UNCHANGED queue
           /\ Start(h, [Idle EXCEPT !.by = "webhook", !.step = step, !.s = s,
                                    !.row = sub[s], !.event = e])
  <2>1. step \in Steps
    BY <1>1, <1>2, FirstStepOf DEF Steps, Activating
  <2>2. seen' \in [Subs -> BOOLEAN] /\ seen'[s] = TRUE
        /\ \A t \in Subs : t # s => seen'[t] = seen[t]
    BY <1>1, <1>5
  <2> DEFINE row == sub[s]
             t == [Idle EXCEPT !.by = "webhook", !.step = step, !.s = s, !.row = row, !.event = e]
  <2>a. row \in Row /\ Start(h, t)
    BY <1>1, <1>5
  <2> HIDE DEF e, step, row
  <2>3. t \in Task /\ t.by = "webhook" /\ t.step = step /\ t.s = s
      /\ t.row = row /\ t.event = e /\ t.tier = None
      /\ t.old = None /\ t.halted = {}
    BY <1>2, <2>1, <2>a, IdleTyped, IdleFields DEF Task
  <2> HIDE DEF t
  <2>4. Begins(h, "webhook", step, s, row, e, None, None, {})
    BY <2>3, <2>a, Beginning DEF TypeInv
  <2> QED
    BY <1>1, <1>2, <1>3, <1>5, <2>2, <2>4 DEF e, step, row
<1> QED
  BY <1>4, <1>5 DEF Deliver

LEMMA CallbackDoes ==
    ASSUME TypeInv, NEW h \in Handlers, NEW s \in Subs, Callback(h, s)
    PROVE  /\ rzp[s].callback = TRUE /\ NoRace(s) /\ OnlyMandate(s)
           /\ Begins(h, "callback", "readToActivate", s, NoRow,
                     [type |-> "activated", charge |-> 1, try |-> 0], None, None, {})
           /\ rzp'[s].state = rzp[s].state /\ rzp'[s].due = rzp[s].due
           /\ rzp'[s].ends = rzp[s].ends /\ rzp'[s].paid = rzp[s].paid
           /\ rzp'[s].tries = rzp[s].tries /\ rzp'[s].shown = rzp[s].shown
           /\ rzp'[s].callback = FALSE
           /\ UNCHANGED <<kind, today, sub, plan, queue, seen, invoices, credits>>
<1> DEFINE e == [type |-> "activated", charge |-> 1, try |-> 0]
           new(m) == [m EXCEPT !.callback = FALSE]
           t == [Idle EXCEPT !.by = "callback", !.step = "readToActivate", !.s = s, !.event = e]
<1>1. /\ rzp[s].callback /\ NoRace(s) /\ rzp' = [rzp EXCEPT ![s] = new(rzp[s])]
      /\ UNCHANGED <<kind, today, sub, plan, queue, seen, invoices, credits>>
      /\ Start(h, t)
  BY DEF Callback
<1>2. rzp \in [Subs -> Mandate] /\ rzp[s] \in Mandate
  BY DEF TypeInv, TypeOK
<1>3. e \in Event
  <2>1. rzp[s].paid \in 0 .. MaxCharges /\ rzp[s].paid > 0
    BY <1>1, <1>2, MandateFields DEF TypeInv, MandatesInOrder, MandateInOrder
  <2> QED
    BY <2>1, Bounds DEF Event
<1>4. "readToActivate" \in Steps
  BY DEF Steps, Activating
<1>5. \A m \in Mandate : /\ new(m) \in Mandate /\ new(m).state = m.state /\ new(m).due = m.due
                         /\ new(m).ends = m.ends /\ new(m).paid = m.paid
                         /\ new(m).tries = m.tries /\ new(m).shown = m.shown
                         /\ new(m).callback = FALSE
  BY DEF Mandate
<1>6. rzp[s].callback = TRUE
  BY <1>1, <1>2, MandateFields
<1> HIDE DEF e, new
<1>7. t \in Task /\ t.by = "callback" /\ t.step = "readToActivate" /\ t.s = s
      /\ t.row = NoRow /\ t.event = e /\ t.tier = None
      /\ t.old = None /\ t.halted = {}
  BY <1>3, <1>4, IdleTyped, IdleFields DEF Task
<1> HIDE DEF t
<1>8. Begins(h, "callback", "readToActivate", s, NoRow, e, None, None, {})
  BY <1>1, <1>7, Beginning DEF TypeInv
<1>9. OnlyMandate(s) /\ rzp'[s] = new(rzp[s])
  BY <1>1, <1>2, <1>5, MandatePut
<1>10. /\ rzp'[s].state = rzp[s].state /\ rzp'[s].due = rzp[s].due
       /\ rzp'[s].ends = rzp[s].ends /\ rzp'[s].paid = rzp[s].paid
       /\ rzp'[s].tries = rzp[s].tries /\ rzp'[s].shown = rzp[s].shown
       /\ rzp'[s].callback = FALSE
  BY <1>2, <1>5, <1>9
<1> QED
  BY <1>1, <1>6, <1>8, <1>9, <1>10 DEF e

LEMMA OverdueDoes ==
    ASSUME TypeInv, NEW h \in Handlers, NEW s \in Subs, Overdue(h, s)
    PROVE  /\ IsLive(s)
           /\ \/ GraceOver(sub[s]) /\ OverdueStep(sub[s]) = "halt"
              \/ PeriodOver(sub[s]) /\ sub[s].ends /\ OverdueStep(sub[s]) = "end"
              \/ /\ PeriodOver(sub[s]) /\ ~sub[s].ends /\ sub[s].scheduled \in Tiers
                 /\ OverdueStep(sub[s]) = "endToBuy"
           /\ Begins(h, "read", OverdueStep(sub[s]), s, sub[s], NoEvent, sub[s].scheduled, None, {})
           /\ UNCHANGED <<kind, today, sub, plan, rzp, queue, seen, invoices, credits>>
<1> DEFINE step == OverdueStep(sub[s])
<1>1. sub[s] \in Row
  BY DEF TypeInv, TypeOK
<1>2. sub[s].scheduled \in Tiers \cup {None}
  BY <1>1, RowFields
<1>3. /\ IsLive(s) /\ step # "idle"
      /\ UNCHANGED <<kind, today, sub, plan, rzp, queue, seen, invoices, credits>>
  BY DEF Overdue
<1>4. \/ GraceOver(sub[s]) /\ step = "halt"
      \/ PeriodOver(sub[s]) /\ sub[s].ends /\ step = "end"
      \/ PeriodOver(sub[s]) /\ ~sub[s].ends /\ sub[s].scheduled \in Tiers /\ step = "endToBuy"
  BY <1>2, <1>3 DEF OverdueStep
<1>5. step \in Steps
  BY <1>4 DEF Steps
<1> DEFINE row == sub[s]
           tier == sub[s].scheduled
           t == [Idle EXCEPT !.by = "read", !.step = step, !.s = s, !.row = row, !.tier = tier]
<1>6. Start(h, t) /\ row \in Row /\ tier \in Tiers \cup {None}
  BY <1>1, <1>2 DEF Overdue
<1> HIDE DEF step, row, tier
<1>7. t \in Task /\ t.by = "read" /\ t.step = step /\ t.s = s
      /\ t.row = row /\ t.event = NoEvent /\ t.tier = tier
      /\ t.old = None /\ t.halted = {}
  BY <1>5, <1>6, IdleTyped, IdleFields DEF Task
<1> HIDE DEF t
<1>8. Begins(h, "read", step, s, row, NoEvent, tier, None, {})
  BY <1>6, <1>7, Beginning DEF TypeInv
<1> QED
  BY <1>3, <1>4, <1>8 DEF step, row, tier

LEMMA BuyDoes ==
    ASSUME TypeInv, NEW h \in Handlers, NEW tier \in Tiers, Buy(h, tier)
    PROVE  /\ OwnerFree /\ MayBuy(tier)
           /\ Begins(h, "owner", "browse", None, NoRow, NoEvent, tier, None, {})
           /\ UNCHANGED <<kind, today, sub, plan, rzp, queue, seen, invoices, credits>>
<1> DEFINE t == [Idle EXCEPT !.by = "owner", !.step = "browse", !.tier = tier]
<1>1. Start(h, t) /\ "browse" \in Steps
  BY DEF Buy, Steps, Buying
<1>2. t \in Task /\ t.by = "owner" /\ t.step = "browse" /\ t.s = None
      /\ t.row = NoRow /\ t.event = NoEvent /\ t.tier = tier
      /\ t.old = None /\ t.halted = {}
  BY <1>1, IdleTyped, IdleFields DEF Task
<1> HIDE DEF t
<1>3. Begins(h, "owner", "browse", None, NoRow, NoEvent, tier, None, {})
  BY <1>1, <1>2, Beginning DEF TypeInv
<1> QED
  BY <1>3 DEF Buy

LEMMA ChangePlanDoes ==
    ASSUME TypeInv, NEW h \in Handlers, NEW s \in Subs, NEW tier \in Tiers, ChangePlan(h, s, tier)
    PROVE  /\ kind = "plan" /\ OwnerFree
           /\ \/ /\ sub[s].status = "halted" /\ MayBuy(tier)
                 /\ Begins(h, "owner", "browse", None, NoRow, NoEvent, tier, None, {})
              \/ /\ IsLive(s) /\ tier < sub[s].tier
                 /\ Begins(h, "owner", "stopAtEnd", s, NoRow, NoEvent, tier, None, {})
              \/ /\ IsLive(s) /\ tier > sub[s].tier /\ MayBuy(tier)
                 /\ Begins(h, "owner", "stopNow", s, NoRow, NoEvent, tier, None, {})
           /\ UNCHANGED <<kind, today, sub, plan, rzp, queue, seen, invoices, credits>>
<1> DEFINE credit == sub[s].end > today
<1>1. /\ kind = "plan" /\ OwnerFree
      /\ UNCHANGED <<kind, today, sub, plan, rzp, queue, seen, invoices, credits>>
  BY DEF ChangePlan
<1>2. \/ /\ sub[s].status = "halted" /\ MayBuy(tier)
         /\ Start(h, [Idle EXCEPT !.by = "owner", !.step = "browse", !.tier = tier])
      \/ /\ IsLive(s) /\ tier < sub[s].tier
         /\ Start(h, [Idle EXCEPT !.by = "owner", !.step = "stopAtEnd", !.s = s, !.tier = tier])
      \/ /\ IsLive(s) /\ tier > sub[s].tier /\ MayBuy(tier)
         /\ Start(h, [Idle EXCEPT !.by = "owner", !.step = "stopNow", !.s = s, !.tier = tier,
                                  !.credit = credit])
  BY DEF ChangePlan
<1>3. "browse" \in Steps /\ "stopAtEnd" \in Steps /\ "stopNow" \in Steps /\ credit \in BOOLEAN
  BY DEF Steps, Buying
<1> HIDE DEF credit
<1>4. ASSUME Start(h, [Idle EXCEPT !.by = "owner", !.step = "browse", !.tier = tier])
     PROVE  Begins(h, "owner", "browse", None, NoRow, NoEvent, tier, None, {})
  <2> DEFINE t == [Idle EXCEPT !.by = "owner", !.step = "browse", !.tier = tier]
  <2>1. t \in Task /\ t.by = "owner" /\ t.step = "browse" /\ t.s = None
        /\ t.row = NoRow /\ t.event = NoEvent /\ t.tier = tier
        /\ t.old = None /\ t.halted = {}
    BY <1>3, IdleTyped, IdleFields DEF Task
  <2>2. Start(h, t)
    BY <1>4
  <2> HIDE DEF t
  <2> QED
    BY <2>1, <2>2, Beginning DEF TypeInv
<1>5. ASSUME Start(h, [Idle EXCEPT !.by = "owner", !.step = "stopAtEnd", !.s = s, !.tier = tier])
     PROVE  Begins(h, "owner", "stopAtEnd", s, NoRow, NoEvent, tier, None, {})
  <2> DEFINE t == [Idle EXCEPT !.by = "owner", !.step = "stopAtEnd", !.s = s, !.tier = tier]
  <2>1. t \in Task /\ t.by = "owner" /\ t.step = "stopAtEnd" /\ t.s = s
        /\ t.row = NoRow /\ t.event = NoEvent /\ t.tier = tier
        /\ t.old = None /\ t.halted = {}
    BY <1>3, IdleTyped, IdleFields DEF Task
  <2>2. Start(h, t)
    BY <1>5
  <2> HIDE DEF t
  <2> QED
    BY <2>1, <2>2, Beginning DEF TypeInv
<1>6. ASSUME Start(h, [Idle EXCEPT !.by = "owner", !.step = "stopNow", !.s = s, !.tier = tier, !.credit = credit])
     PROVE  Begins(h, "owner", "stopNow", s, NoRow, NoEvent, tier, None, {})
  <2> DEFINE t == [Idle EXCEPT !.by = "owner", !.step = "stopNow", !.s = s, !.tier = tier, !.credit = credit]
  <2>1. t \in Task /\ t.by = "owner" /\ t.step = "stopNow" /\ t.s = s
        /\ t.row = NoRow /\ t.event = NoEvent /\ t.tier = tier
        /\ t.old = None /\ t.halted = {}
    BY <1>3, IdleTyped, IdleFields DEF Task
  <2>2. Start(h, t)
    BY <1>6
  <2> HIDE DEF t
  <2> QED
    BY <2>1, <2>2, Beginning DEF TypeInv
<1> QED
  BY <1>1, <1>2, <1>4, <1>5, <1>6

LEMMA ChangeAddonDoes ==
    ASSUME TypeInv, NEW h \in Handlers, NEW s \in Subs, NEW tier \in Tiers,
           ChangeAddon(h, s, tier)
    PROVE  /\ kind = "addon" /\ OwnerFree /\ IsLive(s) /\ ~sub[s].admin /\ ~sub[s].ends
           /\ \/ /\ tier < sub[s].tier
                 /\ Begins(h, "owner", "stopAtEnd", s, NoRow, NoEvent, tier, None, {})
              \/ /\ tier > sub[s].tier /\ MayBuy(tier)
                 /\ Begins(h, "owner", "browse", None, NoRow, NoEvent, tier, s, {})
           /\ UNCHANGED <<kind, today, sub, plan, rzp, queue, seen, invoices, credits>>
<1>1. /\ kind = "addon" /\ OwnerFree /\ IsLive(s) /\ ~sub[s].admin /\ ~sub[s].ends
      /\ UNCHANGED <<kind, today, sub, plan, rzp, queue, seen, invoices, credits>>
  BY DEF ChangeAddon
<1>2. \/ /\ tier < sub[s].tier
         /\ Start(h, [Idle EXCEPT !.by = "owner", !.step = "stopAtEnd", !.s = s, !.tier = tier])
      \/ /\ tier > sub[s].tier /\ MayBuy(tier)
         /\ Start(h, [Idle EXCEPT !.by = "owner", !.step = "browse", !.tier = tier, !.old = s])
  BY DEF ChangeAddon
<1>3. "browse" \in Steps /\ "stopAtEnd" \in Steps
  BY DEF Steps, Buying
<1>4. ASSUME Start(h, [Idle EXCEPT !.by = "owner", !.step = "stopAtEnd", !.s = s, !.tier = tier])
     PROVE  Begins(h, "owner", "stopAtEnd", s, NoRow, NoEvent, tier, None, {})
  <2> DEFINE t == [Idle EXCEPT !.by = "owner", !.step = "stopAtEnd", !.s = s, !.tier = tier]
  <2>1. t \in Task /\ t.by = "owner" /\ t.step = "stopAtEnd" /\ t.s = s
        /\ t.row = NoRow /\ t.event = NoEvent /\ t.tier = tier
        /\ t.old = None /\ t.halted = {}
    BY <1>3, IdleTyped, IdleFields DEF Task
  <2>2. Start(h, t)
    BY <1>4
  <2> HIDE DEF t
  <2> QED
    BY <2>1, <2>2, Beginning DEF TypeInv
<1>5. ASSUME Start(h, [Idle EXCEPT !.by = "owner", !.step = "browse", !.tier = tier, !.old = s])
     PROVE  Begins(h, "owner", "browse", None, NoRow, NoEvent, tier, s, {})
  <2> DEFINE t == [Idle EXCEPT !.by = "owner", !.step = "browse", !.tier = tier, !.old = s]
  <2>1. t \in Task /\ t.by = "owner" /\ t.step = "browse" /\ t.s = None
        /\ t.row = NoRow /\ t.event = NoEvent /\ t.tier = tier
        /\ t.old = s /\ t.halted = {}
    BY <1>3, IdleTyped, IdleFields DEF Task
  <2>2. Start(h, t)
    BY <1>5
  <2> HIDE DEF t
  <2> QED
    BY <2>1, <2>2, Beginning DEF TypeInv
<1> QED
  BY <1>1, <1>2, <1>4, <1>5

LEMMA CancelDoes ==
    ASSUME TypeInv, NEW h \in Handlers, NEW s \in Subs, Cancel(h, s)
    PROVE  /\ OwnerFree /\ IsLive(s) /\ ~sub[s].ends /\ ~sub[s].admin
           /\ Begins(h, "owner", "stopAtEnd", s, NoRow, NoEvent, None, None, {})
           /\ UNCHANGED <<kind, today, sub, plan, rzp, queue, seen, invoices, credits>>
<1> DEFINE t == [Idle EXCEPT !.by = "owner", !.step = "stopAtEnd", !.s = s]
<1>1. Start(h, t) /\ "stopAtEnd" \in Steps
  BY DEF Cancel, Steps, Buying
<1>2. t \in Task /\ t.by = "owner" /\ t.step = "stopAtEnd" /\ t.s = s
      /\ t.row = NoRow /\ t.event = NoEvent /\ t.tier = None
      /\ t.old = None /\ t.halted = {}
  BY <1>1, IdleTyped, IdleFields DEF Task
<1> HIDE DEF t
<1>3. Begins(h, "owner", "stopAtEnd", s, NoRow, NoEvent, None, None, {})
  BY <1>1, <1>2, Beginning DEF TypeInv
<1> QED
  BY <1>3 DEF Cancel

LEMMA GrantDoes ==
    ASSUME TypeInv, NEW h \in Handlers, NEW tier \in Tiers, Grant(h, tier)
    PROVE  /\ kind = "addon" /\ OwnerFree /\ MayBuy(tier) /\ \A s \in Subs : ~IsLive(s)
           /\ "grantHalted" \in Uses \/ \A s \in Subs : sub[s].status # "halted"
           /\ Begins(h, "admin", "clear", None, NoRow, NoEvent, tier, None,
                     {s \in Subs : sub[s].status \in {"created", "halted"}})
           /\ UNCHANGED <<kind, today, sub, plan, rzp, queue, seen, invoices, credits>>
<1> DEFINE S == {s \in Subs : sub[s].status \in {"created", "halted"}}
<1> DEFINE t == [Idle EXCEPT !.by = "admin", !.step = "clear", !.tier = tier, !.halted = S]
<1>1. Start(h, t) /\ "clear" \in Steps /\ S \in SUBSET Subs
  BY DEF Grant, Steps
<1> HIDE DEF S
<1>2. t \in Task /\ t.by = "admin" /\ t.step = "clear" /\ t.s = None
      /\ t.row = NoRow /\ t.event = NoEvent /\ t.tier = tier
      /\ t.old = None /\ t.halted = S
  BY <1>1, IdleTyped, IdleFields DEF Task
<1> HIDE DEF t
<1>4. Begins(h, "admin", "clear", None, NoRow, NoEvent, tier, None, S)
  BY <1>1, <1>2, Beginning DEF TypeInv
<1> QED
  BY <1>4 DEF Grant, S

LEMMA RevokeDoes ==
    ASSUME TypeInv, NEW h \in Handlers, NEW s \in Subs, Revoke(h, s)
    PROVE  /\ OwnerFree /\ sub[s].admin /\ sub[s].status \in {"active", "past_due", "halted"}
           /\ Begins(h, "admin", "end", s, NoRow, NoEvent, None, None, {})
           /\ UNCHANGED <<kind, today, sub, plan, rzp, queue, seen, invoices, credits>>
<1> DEFINE t == [Idle EXCEPT !.by = "admin", !.step = "end", !.s = s]
<1>1. Start(h, t) /\ "end" \in Steps
  BY DEF Revoke, Steps, Buying
<1>2. t \in Task /\ t.by = "admin" /\ t.step = "end" /\ t.s = s
      /\ t.row = NoRow /\ t.event = NoEvent /\ t.tier = None
      /\ t.old = None /\ t.halted = {}
  BY <1>1, IdleTyped, IdleFields DEF Task
<1> HIDE DEF t
<1>3. Begins(h, "admin", "end", s, NoRow, NoEvent, None, None, {})
  BY <1>1, <1>2, Beginning DEF TypeInv
<1> QED
  BY <1>3 DEF Revoke

-----------------------------------------------------------------------------
(* Razorpay, the customer, and time.                                       *)

\* Razorpay has something to tell of s, after what it told before.
Told(s, e) ==
    /\ e \in Event /\ queue' \in [Subs -> Seq(Event)]
    /\ queue'[s] = Append(queue[s], e) /\ \A t \in Subs : t # s => queue'[t] = queue[t]

LEMMA Telling ==
    ASSUME TypeOK, NEW s \in Subs, NEW type, NEW charge, NEW try,
           [type |-> type, charge |-> charge, try |-> try] \in Event, Tell(s, type, charge, try)
    PROVE  Told(s, [type |-> type, charge |-> charge, try |-> try])
<1> DEFINE e == [type |-> type, charge |-> charge, try |-> try]
<1>1. queue \in [Subs -> Seq(Event)] /\ queue' = [queue EXCEPT ![s] = Append(queue[s], e)]
      /\ e \in Event
  BY DEF TypeOK, Tell
<1> HIDE DEF e
<1>2. Append(queue[s], e) \in Seq(Event)
  BY <1>1, AppendProperties
<1>3. Told(s, e)
  BY <1>1, <1>2 DEF Told
<1> QED
  BY <1>3 DEF e

\* ... or two things, the first payment as both.
ToldBoth(s, d, e) ==
    /\ d \in Event /\ e \in Event /\ queue' \in [Subs -> Seq(Event)]
    /\ queue'[s] = Append(Append(queue[s], d), e)
    /\ \A t \in Subs : t # s => queue'[t] = queue[t]

\* A first payment, told as type.
FirstAs(type) == [type |-> type, charge |-> 1, try |-> 0]

\* A first payment is told, once or twice, and first as type.
ToldFirst(s, type) ==
    \/ Told(s, FirstAs(type))
    \/ /\ "toldTwice" \in Faults
       /\ \E other \in {"activated", "charged"} : ToldBoth(s, FirstAs(type), FirstAs(other))

LEMMA TellingBoth ==
    ASSUME TypeOK, MaxCharges > 0, NEW s \in Subs, NEW type \in {"activated", "charged"},
           TellBoth(s, type)
    PROVE  \E other \in {"activated", "charged"} : ToldBoth(s, FirstAs(type), FirstAs(other))
<1> DEFINE other == IF type = "activated" THEN "charged" ELSE "activated"
           d == FirstAs(type)
           e == FirstAs(other)
<1>1. /\ queue \in [Subs -> Seq(Event)] /\ other \in {"activated", "charged"}
      /\ queue' = [queue EXCEPT ![s] = Append(Append(queue[s], d), e)]
  BY DEF TypeOK, TellBoth, FirstAs
<1>2. d \in Event /\ e \in Event
  BY <1>1, Bounds DEF FirstAs, Event
<1> HIDE DEF d, e, other
<1>3. Append(queue[s], d) \in Seq(Event)
  BY <1>1, <1>2, AppendProperties
<1>4. Append(Append(queue[s], d), e) \in Seq(Event)
  BY <1>2, <1>3, AppendProperties
<1>5. ToldBoth(s, d, e)
  BY <1>1, <1>2, <1>4 DEF ToldBoth
<1> QED
  BY <1>1, <1>5 DEF d, e

LEMMA PayDoes ==
    ASSUME TypeInv, NEW s \in Subs, Pay(s)
    PROVE  /\ rzp[s].state = "open" /\ rzp[s].shown = TRUE /\ MaxCharges > 0
           /\ \A h \in Handlers : task[h].step = "idle"
           /\ "payReplaced" \in Uses \/ sub[s].status = "created"
           /\ \E type \in {"activated", "charged"} :
                 /\ ToldFirst(s, type)
                 /\ rzp'[s].callback = (type = "activated" \/ "chargedFirst" \in Faults)
           /\ OnlyMandate(s)
           /\ rzp'[s].state = "active" /\ rzp'[s].due = today + Period /\ rzp'[s].paid = 1
           /\ rzp'[s].ends = rzp[s].ends /\ rzp'[s].tries = rzp[s].tries
           /\ rzp'[s].shown = rzp[s].shown
           /\ UNCHANGED <<kind, today, sub, plan, seen, invoices, credits, task>>
<1>1. rzp \in [Subs -> Mandate] /\ rzp[s] \in Mandate
  BY DEF TypeInv, TypeOK
<1>2. PICK type \in {"activated", "charged"} :
          /\ Tell(s, type, 1, 0) \/ ("toldTwice" \in Faults /\ TellBoth(s, type))
          /\ rzp' = [rzp EXCEPT ![s] = [@ EXCEPT
                 !.state = "active", !.due = today + Period, !.paid = 1,
                 !.callback = (type = "activated" \/ "chargedFirst" \in Faults)]]
  BY DEF Pay
<1>3. /\ rzp[s].state = "open" /\ rzp[s].shown = TRUE /\ MaxCharges > 0
      /\ \A h \in Handlers : task[h].step = "idle"
      /\ "payReplaced" \in Uses \/ sub[s].status = "created"
      /\ UNCHANGED <<kind, today, sub, plan, seen, invoices, credits, task>>
  BY <1>1, MandateFields DEF Pay, At
<1> DEFINE back == type = "activated" \/ "chargedFirst" \in Faults
           due == today + Period
           new(m) == [m EXCEPT !.state = "active", !.due = due, !.paid = 1, !.callback = back]
<1>4. [type |-> type, charge |-> 1, try |-> 0] \in Event
  BY <1>3, Bounds DEF Event
<1>5. ToldFirst(s, type)
  <2>1. CASE Tell(s, type, 1, 0)
    BY <2>1, <1>4, Telling DEF TypeInv, ToldFirst, FirstAs
  <2>2. CASE "toldTwice" \in Faults /\ TellBoth(s, type)
    BY <2>2, <1>3, TellingBoth DEF TypeInv, ToldFirst
  <2> QED
    BY <1>2, <2>1, <2>2
<1>6. due \in 0 .. MaxDay + Period /\ back \in BOOLEAN /\ 1 \in 0 .. MaxCharges
  BY <1>3, Bounds DEF TypeInv, TypeOK
<1>7. rzp' = [rzp EXCEPT ![s] = new(rzp[s])]
  BY <1>2
<1>8. due = today + Period /\ back = (type = "activated" \/ "chargedFirst" \in Faults)
  OBVIOUS
<1> HIDE DEF back, due
<1>9. \A m \in Mandate : /\ new(m) \in Mandate /\ new(m).state = "active" /\ new(m).due = due
                         /\ new(m).paid = 1 /\ new(m).callback = back /\ new(m).ends = m.ends
                         /\ new(m).tries = m.tries /\ new(m).shown = m.shown
  BY <1>6 DEF Mandate
<1> HIDE DEF new
<1>10. OnlyMandate(s) /\ rzp'[s] = new(rzp[s])
  BY <1>1, <1>7, <1>9, MandatePut
<1>11. /\ rzp'[s].state = "active" /\ rzp'[s].due = due /\ rzp'[s].paid = 1
       /\ rzp'[s].ends = rzp[s].ends /\ rzp'[s].tries = rzp[s].tries
       /\ rzp'[s].shown = rzp[s].shown /\ rzp'[s].callback = back
  BY <1>1, <1>9, <1>10
<1> QED
  BY <1>3, <1>5, <1>8, <1>10, <1>11

LEMMA ChargeDoes ==
    ASSUME TypeInv, NEW s \in Subs, Charge(s)
    PROVE  /\ \/ rzp[s].state = "active" /\ rzp[s].due <= today /\ rzp[s].ends = FALSE
              \/ rzp[s].state \in {"pending", "halted"}
           /\ Told(s, [type |-> "charged", charge |-> rzp[s].paid + 1, try |-> 0])
           /\ OnlyMandate(s) /\ rzp[s].paid + 1 \in Charges
           /\ rzp'[s].state = "active" /\ rzp'[s].due = today + Period
           /\ rzp'[s].paid = rzp[s].paid + 1
           /\ rzp'[s].ends = rzp[s].ends /\ rzp'[s].shown = rzp[s].shown
           /\ rzp'[s].callback = rzp[s].callback
           /\ UNCHANGED <<kind, today, sub, plan, seen, invoices, credits, task>>
<1>1. rzp \in [Subs -> Mandate] /\ rzp[s] \in Mandate
  BY DEF TypeInv, TypeOK
<1>2. /\ \/ rzp[s].state = "active" /\ rzp[s].due <= today /\ rzp[s].ends = FALSE
         \/ rzp[s].state \in {"pending", "halted"}
      /\ rzp[s].paid < MaxCharges /\ Tell(s, "charged", rzp[s].paid + 1, 0)
      /\ UNCHANGED <<kind, today, sub, plan, seen, invoices, credits, task>>
  BY <1>1, MandateFields DEF Charge
<1> DEFINE n == rzp[s].paid + 1
           e == [type |-> "charged", charge |-> n, try |-> 0]
           due == today + Period
           new(m) == [m EXCEPT !.state = "active", !.due = due, !.paid = m.paid + 1, !.tries = 0]
<1>3. n \in 0 .. MaxCharges /\ n \in Charges
  BY <1>1, <1>2, MandateFields, Bounds DEF Charges
<1>4. e \in Event
  BY <1>3, Bounds DEF Event
<1>5. Told(s, e)
  BY <1>2, <1>4, Telling DEF TypeInv
<1>6. due \in 0 .. MaxDay + Period /\ 0 \in 0 .. MaxTries
  <2>1. today \in 1 .. MaxDay
    BY DEF TypeInv, TypeOK
  <2>2. due \in 0 .. MaxDay + Period
    BY <2>1, Bounds
  <2>3. 0 \in 0 .. MaxTries
    BY Bounds
  <2> QED
    BY <2>2, <2>3
<1>7. rzp' = [rzp EXCEPT ![s] = new(rzp[s])]
  BY DEF Charge
<1>8. due = today + Period
  OBVIOUS
<1> HIDE DEF due
<1>9. \A m \in Mandate : m.paid + 1 \in 0 .. MaxCharges =>
         /\ new(m) \in Mandate /\ new(m).state = "active" /\ new(m).due = due
         /\ new(m).paid = m.paid + 1 /\ new(m).callback = m.callback /\ new(m).ends = m.ends
         /\ new(m).shown = m.shown
  BY <1>6 DEF Mandate
<1>a. rzp[s].paid + 1 \in 0 .. MaxCharges
  BY <1>3
<1> HIDE DEF new, e, n
<1>10. OnlyMandate(s) /\ rzp'[s] = new(rzp[s])
  BY <1>1, <1>7, <1>9, <1>a, MandatePut
<1>11. /\ rzp'[s].state = "active" /\ rzp'[s].due = due /\ rzp'[s].paid = rzp[s].paid + 1
       /\ rzp'[s].ends = rzp[s].ends /\ rzp'[s].callback = rzp[s].callback
       /\ rzp'[s].shown = rzp[s].shown
  BY <1>1, <1>9, <1>a, <1>10
<1> QED
  BY <1>2, <1>3, <1>5, <1>8, <1>10, <1>11 DEF e, n

\* Attempts that fail.
Unpaid(s) ==
    /\ OnlyMandate(s) /\ rzp'[s].due = rzp[s].due /\ rzp'[s].paid = rzp[s].paid
    /\ rzp'[s].ends = rzp[s].ends /\ rzp'[s].shown = rzp[s].shown
    /\ rzp'[s].callback = rzp[s].callback

LEMMA DeclineDoes ==
    ASSUME TypeInv, NEW s \in Subs, Decline(s)
    PROVE  /\ \/ rzp[s].state = "active" /\ rzp[s].due <= today /\ rzp[s].ends = FALSE
              \/ rzp[s].state = "pending"
           /\ Told(s, [type |-> "pending", charge |-> rzp[s].paid, try |-> rzp[s].tries + 1])
           /\ Unpaid(s) /\ rzp'[s].state = "pending"
           /\ UNCHANGED <<kind, today, sub, plan, seen, invoices, credits, task>>
<1>1. rzp \in [Subs -> Mandate] /\ rzp[s] \in Mandate
  BY DEF TypeInv, TypeOK
<1>2. /\ \/ rzp[s].state = "active" /\ rzp[s].due <= today /\ rzp[s].ends = FALSE
         \/ rzp[s].state = "pending"
      /\ rzp[s].tries < MaxTries /\ Tell(s, "pending", rzp[s].paid, rzp[s].tries + 1)
      /\ UNCHANGED <<kind, today, sub, plan, seen, invoices, credits, task>>
  BY <1>1, MandateFields DEF Decline
<1> DEFINE n == rzp[s].tries + 1
           paid == rzp[s].paid
           e == [type |-> "pending", charge |-> paid, try |-> n]
           new(m) == [m EXCEPT !.state = "pending", !.tries = m.tries + 1]
<1>b. rzp[s].tries \in 0 .. MaxTries /\ rzp[s].paid \in 0 .. MaxCharges
  BY <1>1, MandateFields
<1>3. n \in 0 .. MaxTries /\ paid \in 0 .. MaxCharges
  BY <1>b, <1>2, Bounds
<1>7. rzp' = [rzp EXCEPT ![s] = new(rzp[s])]
  BY <1>1 DEF Decline
<1>9. \A m \in Mandate : m.tries + 1 \in 0 .. MaxTries =>
         /\ new(m) \in Mandate /\ new(m).state = "pending" /\ new(m).due = m.due
         /\ new(m).paid = m.paid /\ new(m).callback = m.callback /\ new(m).ends = m.ends
         /\ new(m).shown = m.shown
  BY DEF Mandate
<1>a. rzp[s].tries + 1 \in 0 .. MaxTries /\ Tell(s, "pending", paid, n)
  BY <1>2, <1>3
<1> HIDE DEF new, n, paid
<1>4. e \in Event
  BY <1>3 DEF Event
<1>5. Told(s, e)
  BY <1>a, <1>4, Telling DEF TypeInv
<1> HIDE DEF e
<1>10. OnlyMandate(s) /\ rzp'[s] = new(rzp[s])
  BY <1>1, <1>7, <1>9, <1>a, MandatePut
<1>11. Unpaid(s) /\ rzp'[s].state = "pending"
  BY <1>1, <1>9, <1>a, <1>10 DEF Unpaid
<1> QED
  BY <1>2, <1>5, <1>11 DEF e, n, paid

LEMMA GiveUpDoes ==
    ASSUME TypeInv, NEW s \in Subs, GiveUp(s)
    PROVE  /\ rzp[s].state = "pending" /\ Unpaid(s) /\ rzp'[s].state = "halted"
           /\ Told(s, [type |-> "halted", charge |-> rzp[s].paid, try |-> rzp[s].tries])
           /\ UNCHANGED <<kind, today, sub, plan, seen, invoices, credits, task>>
<1>1. rzp \in [Subs -> Mandate] /\ rzp[s] \in Mandate
  BY DEF TypeInv, TypeOK
<1>2. /\ rzp[s].state = "pending" /\ Tell(s, "halted", rzp[s].paid, rzp[s].tries)
      /\ UNCHANGED <<kind, today, sub, plan, seen, invoices, credits, task>>
  BY DEF GiveUp
<1> DEFINE n == rzp[s].tries
           paid == rzp[s].paid
           e == [type |-> "halted", charge |-> paid, try |-> n]
           new(m) == [m EXCEPT !.state = "halted"]
<1>3. n \in 0 .. MaxTries /\ paid \in 0 .. MaxCharges /\ Tell(s, "halted", paid, n)
  BY <1>1, <1>2, MandateFields
<1>7. rzp' = [rzp EXCEPT ![s] = new(rzp[s])]
  BY DEF GiveUp
<1>9. \A m \in Mandate :
         /\ new(m) \in Mandate /\ new(m).state = "halted" /\ new(m).due = m.due
         /\ new(m).paid = m.paid /\ new(m).callback = m.callback /\ new(m).ends = m.ends
         /\ new(m).shown = m.shown
  BY DEF Mandate
<1> HIDE DEF new, n, paid
<1>4. e \in Event
  BY <1>3 DEF Event
<1>5. Told(s, e)
  BY <1>3, <1>4, Telling DEF TypeInv
<1> HIDE DEF e
<1>10. OnlyMandate(s) /\ rzp'[s] = new(rzp[s])
  BY <1>1, <1>7, <1>9, MandatePut
<1>11. Unpaid(s) /\ rzp'[s].state = "halted"
  BY <1>1, <1>9, <1>10 DEF Unpaid
<1> QED
  BY <1>2, <1>5, <1>11 DEF e, n, paid

LEMMA CycleEndsDoes ==
    ASSUME TypeInv, NEW s \in Subs, CycleEnds(s)
    PROVE  /\ rzp[s].state = "active" /\ rzp[s].due <= today /\ rzp[s].ends = TRUE
           /\ Stopped({s})
           /\ UNCHANGED <<kind, today, sub, plan, seen, invoices, credits, task>>
<1>1. rzp[s] \in Mandate
  BY DEF TypeInv, TypeOK
<1>2. rzp[s].ends = TRUE
  BY <1>1, MandateFields DEF CycleEnds
<1>3. StopCharging({s}) /\ {s} \in SUBSET Subs
  BY DEF CycleEnds
<1>4. Stopped({s})
  BY <1>3, Stopping DEF TypeInv
<1> QED
  BY <1>2, <1>4 DEF CycleEnds

LEMMA TickDoes ==
    ASSUME TypeInv, Tick
    PROVE  /\ today' = today + 1 /\ today' \in 1 .. MaxDay
           /\ \A h \in Handlers : task[h].step = "idle"
           /\ \A s \in Subs : rzp[s].state = "active" => rzp[s].due > today
           /\ rzp' \in [Subs -> Mandate]
           /\ \A s \in Subs : /\ rzp'[s].state = rzp[s].state /\ rzp'[s].due = rzp[s].due
                              /\ rzp'[s].ends = rzp[s].ends /\ rzp'[s].paid = rzp[s].paid
                              /\ rzp'[s].tries = rzp[s].tries /\ rzp'[s].shown = rzp[s].shown
                              /\ rzp'[s].callback = FALSE
           /\ UNCHANGED <<kind, sub, plan, queue, seen, invoices, credits, task>>
<1> DEFINE new(m) == [m EXCEPT !.callback = FALSE]
<1>1. rzp' = [s \in Subs |-> new(rzp[s])] /\ rzp \in [Subs -> Mandate]
  BY DEF Tick, TypeInv, TypeOK
<1>2. \A m \in Mandate : /\ new(m) \in Mandate /\ new(m).state = m.state /\ new(m).due = m.due
                         /\ new(m).ends = m.ends /\ new(m).paid = m.paid
                         /\ new(m).tries = m.tries /\ new(m).shown = m.shown
                         /\ new(m).callback = FALSE
  BY DEF Mandate
<1> HIDE DEF new
<1>3. rzp' \in [Subs -> Mandate]
  BY <1>1, <1>2
<1>4. ASSUME NEW s \in Subs
      PROVE  /\ rzp'[s].state = rzp[s].state /\ rzp'[s].due = rzp[s].due
             /\ rzp'[s].ends = rzp[s].ends /\ rzp'[s].paid = rzp[s].paid
             /\ rzp'[s].tries = rzp[s].tries /\ rzp'[s].shown = rzp[s].shown
             /\ rzp'[s].callback = FALSE
  <2>1. rzp[s] \in Mandate /\ rzp'[s] = new(rzp[s])
    BY <1>1
  <2> QED
    BY <1>2, <2>1
<1>5. today' = today + 1 /\ today' \in 1 .. MaxDay
  BY Bounds DEF Tick, TypeInv, TypeOK
<1>6. /\ \A h \in Handlers : task[h].step = "idle"
      /\ \A s \in Subs : rzp[s].state = "active" => rzp[s].due > today
      /\ UNCHANGED <<kind, sub, plan, queue, seen, invoices, credits, task>>
  BY DEF Tick, At
<1> QED
  BY <1>3, <1>4, <1>5, <1>6

LEMMA CrashDoes ==
    ASSUME TypeInv, NEW h \in Handlers, Crash(h)
    PROVE  /\ task[h].step # "idle" /\ Leaves(h)
           /\ \/ "crashAtEvent" \in Faults
              \/ task[h].by \in {"owner", "admin", "read"} /\ task[h].step # "release"
           /\ UNCHANGED <<kind, today, sub, plan, rzp, queue, seen, invoices, credits>>
<1>1. Throw(h)
  BY DEF Crash
<1> QED
  BY <1>1, Throwing DEF Crash, At, TypeInv

-----------------------------------------------------------------------------
(* Types are kept.                                                         *)

LEMMA AfterAppend ==
    ASSUME NEW q \in Seq(Event), NEW e \in Event
    PROVE  /\ Append(q, e) \in Seq(Event) /\ Append(q, e) # <<>>
           /\ q # <<>> => Head(Append(q, e)) = Head(q)
<1>1. /\ Append(q, e) \in Seq(Event) /\ Len(Append(q, e)) = Len(q) + 1
      /\ \A i \in 1 .. Len(q) : Append(q, e)[i] = q[i]
  BY AppendProperties
<1>a. Len(q) \in Nat
  BY LenProperties
<1>b. Len(Append(q, e)) # 0
  BY <1>1, <1>a
<1>2. Append(q, e) # <<>> /\ Len(q) \in Nat
  BY <1>a, <1>b, EmptySeq
<1>3. ASSUME q # <<>> PROVE Head(Append(q, e)) = Head(q)
  <2>1. Len(q) > 0
    BY <1>3, <1>2, EmptySeq
  <2> QED
    BY <1>1, <1>2, <2>1
<1> QED
  BY <1>1, <1>2, <1>3

LEMMA TypeOKKept ==
    ASSUME TypeInv, [Next]_vars
    PROVE  TypeOK'
<1>1. ASSUME Tick PROVE TypeOK'
  BY TickDoes, <1>1 DEF TypeInv, TypeOK
<1>2. ASSUME NEW s \in Subs, Pay(s) PROVE TypeOK'
  BY PayDoes, <1>2 DEF TypeInv, TypeOK, OnlyMandate, ToldFirst, ToldBoth, Told
<1>3. ASSUME NEW s \in Subs, Charge(s) PROVE TypeOK'
  BY ChargeDoes, <1>3 DEF TypeInv, TypeOK, OnlyMandate, Told
<1>4. ASSUME NEW s \in Subs, Decline(s) PROVE TypeOK'
  BY DeclineDoes, <1>4 DEF TypeInv, TypeOK, Unpaid, OnlyMandate, Told
<1>5. ASSUME NEW s \in Subs, GiveUp(s) PROVE TypeOK'
  BY GiveUpDoes, <1>5 DEF TypeInv, TypeOK, Unpaid, OnlyMandate, Told
<1>6. ASSUME NEW s \in Subs, CycleEnds(s) PROVE TypeOK'
  BY CycleEndsDoes, <1>6 DEF TypeInv, TypeOK, Stopped
<1>7. ASSUME NEW h \in Handlers, ReadToActivate(h) PROVE TypeOK'
  BY ReadToActivateDoes, <1>7, ZenonT(60) DEF TypeInv, TypeOK, Answers, Leaves
<1>8. ASSUME NEW h \in Handlers, Activate(h) PROVE TypeOK'
  BY ActivateDoes, <1>8 DEF TypeInv, TypeOK, Leaves, Moves, OnlyRow
<1>9. ASSUME NEW h \in Handlers, SetPlan(h) PROVE TypeOK'
  BY SetPlanDoes, <1>9 DEF TypeInv, TypeOK, Moves
<1>10. ASSUME NEW h \in Handlers, CancelReplaced(h) PROVE TypeOK'
  BY CancelReplacedDoes, <1>10 DEF TypeInv, TypeOK, Moves, Stopped
<1>11. ASSUME NEW h \in Handlers, Retire(h) PROVE TypeOK'
  BY RetireDoes, <1>11 DEF TypeInv, TypeOK, Moves, OnlyRow
<1>12. ASSUME NEW h \in Handlers, CreditReplaced(h) PROVE TypeOK'
  BY CreditReplacedDoes, <1>12 DEF TypeInv, TypeOK, Moves
<1>13. ASSUME NEW h \in Handlers, Invoice(h) PROVE TypeOK'
  BY InvoiceDoes, <1>13 DEF TypeInv, TypeOK, Answers, Leaves
<1>14. ASSUME NEW h \in Handlers, Renew(h) PROVE TypeOK'
  BY RenewDoes, <1>14 DEF TypeInv, TypeOK, Moves, OnlyRow
<1>15. ASSUME NEW h \in Handlers, Fail(h) PROVE TypeOK'
  BY FailDoes, <1>15 DEF TypeInv, TypeOK, Answers, Leaves, OnlyRow
<1>16. ASSUME NEW h \in Handlers, Halt(h) PROVE TypeOK'
  BY HaltDoes, <1>16 DEF TypeInv, TypeOK, Answers, Leaves, OnlyRow
<1>17. ASSUME NEW h \in Handlers, End(h) PROVE TypeOK'
  BY EndDoes, <1>17 DEF TypeInv, TypeOK, Answers, Leaves, OnlyRow
<1>18. ASSUME NEW h \in Handlers, EndToBuy(h) PROVE TypeOK'
  BY EndToBuyDoes, <1>18 DEF TypeInv, TypeOK, Moves, OnlyRow
<1>19. ASSUME NEW h \in Handlers, Browse(h) PROVE TypeOK'
  BY BrowseDoes, <1>19 DEF TypeInv, TypeOK, Leaves
<1>20. ASSUME NEW h \in Handlers, DropOpen(h) PROVE TypeOK'
  BY DropOpenDoes, <1>20 DEF TypeInv, TypeOK, Moves
<1>21. ASSUME NEW h \in Handlers, Subscribe(h) PROVE TypeOK'
  BY SubscribeDoes, <1>21 DEF TypeInv, TypeOK, Leaves, OnlyMandate
<1>22. ASSUME NEW h \in Handlers, Insert(h) PROVE TypeOK'
  BY InsertDoes, <1>22 DEF TypeInv, TypeOK, Leaves, Moves
<1>23. ASSUME NEW h \in Handlers, Release(h) PROVE TypeOK'
  BY ReleaseDoes, <1>23 DEF TypeInv, TypeOK, Leaves
<1>24. ASSUME NEW h \in Handlers, StopAtEnd(h) PROVE TypeOK'
  BY StopAtEndDoes, <1>24 DEF TypeInv, TypeOK, Leaves, Moves, OnlyMandate
<1>25. ASSUME NEW h \in Handlers, MarkEnds(h) PROVE TypeOK'
  BY MarkEndsDoes, <1>25 DEF TypeInv, TypeOK, Leaves, OnlyRow
<1>26. ASSUME NEW h \in Handlers, Schedule(h) PROVE TypeOK'
  BY ScheduleDoes, <1>26 DEF TypeInv, TypeOK, Leaves, OnlyRow
<1>27. ASSUME NEW h \in Handlers, StopNow(h) PROVE TypeOK'
  BY StopNowDoes, <1>27 DEF TypeInv, TypeOK, Leaves, Moves, Stopped
<1>28. ASSUME NEW h \in Handlers, Drop(h) PROVE TypeOK'
  BY DropDoes, <1>28 DEF TypeInv, TypeOK, Moves, OnlyRow
<1>29. ASSUME NEW h \in Handlers, Credit(h) PROVE TypeOK'
  BY CreditDoes, <1>29 DEF TypeInv, TypeOK, Moves
<1>30. ASSUME NEW h \in Handlers, Clear(h) PROVE TypeOK'
  BY ClearDoes, <1>30 DEF TypeInv, TypeOK, Moves
<1>31. ASSUME NEW h \in Handlers, GrantRow(h) PROVE TypeOK'
  BY GrantRowDoes, <1>31 DEF TypeInv, TypeOK, Leaves, OnlyRow
<1>32. ASSUME NEW h \in Handlers, Crash(h) PROVE TypeOK'
  BY CrashDoes, <1>32 DEF TypeInv, TypeOK, Leaves
<1>33. ASSUME NEW h \in Handlers, NEW tier \in Tiers, Buy(h, tier) PROVE TypeOK'
  BY BuyDoes, <1>33 DEF TypeInv, TypeOK, Begins
<1>34. ASSUME NEW h \in Handlers, NEW tier \in Tiers, Grant(h, tier) PROVE TypeOK'
  BY GrantDoes, <1>34 DEF TypeInv, TypeOK, Begins
<1>35. ASSUME NEW h \in Handlers, NEW s \in Subs, Deliver(h, s) PROVE TypeOK'
  <2>1. /\ queue' \in [Subs -> Seq(Event)] \/ UNCHANGED queue
        /\ task' \in [Handlers -> Task] \/ UNCHANGED task
    BY <1>35, DeliverDoes DEF Begins
  <2>2. seen' \in [Subs -> BOOLEAN]
    BY <1>35, DeliverDoes
  <2>3. UNCHANGED <<kind, today, sub, plan, rzp, invoices, credits>>
    BY <1>35, DeliverDoes
  <2> QED
    BY <2>1, <2>2, <2>3, ZenonT(60) DEF TypeInv, TypeOK
<1>36. ASSUME NEW h \in Handlers, NEW s \in Subs, Callback(h, s) PROVE TypeOK'
  BY CallbackDoes, <1>36, ZenonT(60) DEF TypeInv, TypeOK, Begins, OnlyMandate
<1>37. ASSUME NEW h \in Handlers, NEW s \in Subs, Overdue(h, s) PROVE TypeOK'
  BY OverdueDoes, <1>37 DEF TypeInv, TypeOK, Begins
<1>38. ASSUME NEW h \in Handlers, NEW s \in Subs, Cancel(h, s) PROVE TypeOK'
  BY CancelDoes, <1>38 DEF TypeInv, TypeOK, Begins
<1>39. ASSUME NEW h \in Handlers, NEW s \in Subs, Revoke(h, s) PROVE TypeOK'
  BY RevokeDoes, <1>39 DEF TypeInv, TypeOK, Begins
<1>40. ASSUME NEW h \in Handlers, NEW s \in Subs, NEW tier \in Tiers, ChangePlan(h, s, tier) PROVE
   TypeOK'
  BY ChangePlanDoes, <1>40 DEF TypeInv, TypeOK, Begins
<1>41. ASSUME NEW h \in Handlers, NEW s \in Subs, NEW tier \in Tiers, ChangeAddon(h, s, tier)
   PROVE TypeOK'
  BY ChangeAddonDoes, <1>41 DEF TypeInv, TypeOK, Begins
<1>42. CASE UNCHANGED vars
  BY <1>42 DEF vars, TypeInv, TypeOK
<1> QED
  BY <1>1, <1>2, <1>3, <1>4, <1>5, <1>6, <1>7, <1>8, <1>9, <1>10, <1>11, <1>12, <1>13, <1>14,
     <1>15, <1>16, <1>17, <1>18, <1>19, <1>20, <1>21, <1>22, <1>23, <1>24, <1>25, <1>26, <1>27,
     <1>28, <1>29, <1>30, <1>31, <1>32, <1>33, <1>34, <1>35, <1>36, <1>37, <1>38, <1>39, <1>40,
     <1>41, <1>42 DEF Next, Step

LEMMA OneTask ==
    ASSUME TypeInv, NEW h \in Handlers, Others(h), TaskInOrder(task'[h])
    PROVE  TasksInOrder'
BY DEF TypeInv, TasksInOrder, Others

LEMMA SameTasks ==
    ASSUME TypeInv, UNCHANGED task
    PROVE  TasksInOrder'
BY DEF TypeInv, TasksInOrder, TaskInOrder

LEMMA LeftTask ==
    ASSUME TypeInv, NEW h \in Handlers, Leaves(h)
    PROVE  TasksInOrder'
<1>1. TaskInOrder(Idle)
  BY IdleTyped DEF TaskInOrder, OfEvent, Activating, Buying
<1> QED
  BY <1>1, OneTask DEF Leaves

LEMMA TasksKept ==
    ASSUME TypeInv, [Next]_vars
    PROVE  TasksInOrder'
<1>1. ASSUME Tick PROVE TasksInOrder'
  BY TickDoes, <1>1, SameTasks
<1>2. ASSUME NEW s \in Subs, Pay(s) PROVE TasksInOrder'
  BY PayDoes, <1>2, SameTasks
<1>3. ASSUME NEW s \in Subs, Charge(s) PROVE TasksInOrder'
  BY ChargeDoes, <1>3, SameTasks
<1>4. ASSUME NEW s \in Subs, Decline(s) PROVE TasksInOrder'
  BY DeclineDoes, <1>4, SameTasks
<1>5. ASSUME NEW s \in Subs, GiveUp(s) PROVE TasksInOrder'
  BY GiveUpDoes, <1>5, SameTasks
<1>6. ASSUME NEW s \in Subs, CycleEnds(s) PROVE TasksInOrder'
  BY CycleEndsDoes, <1>6, SameTasks
<1>7. ASSUME NEW h \in Handlers, ReadToActivate(h) PROVE TasksInOrder'
  <2>1. TaskInOrder(task[h])
    BY AtStep
  <2>2. Leaves(h) \/ (Others(h) /\ TaskInOrder(task'[h]))
    BY <1>7, <2>1, ReadToActivateDoes DEF TaskInOrder, Moves, Kept, Begins, OfEvent, Activating,
       Buying, Answers
  <2> QED
    BY <2>2, OneTask, LeftTask
<1>8. ASSUME NEW h \in Handlers, Activate(h) PROVE TasksInOrder'
  <2>1. TaskInOrder(task[h])
    BY AtStep
  <2>a. task[h].row \in Row
    BY AtStep
  <2>b. task[h].row.replaces \in Subs \cup {None}
    BY <2>a, RowFields
  <2>2. Leaves(h) \/ (Others(h) /\ TaskInOrder(task'[h]))
    BY <1>8, <2>1, <2>b, ActivateDoes DEF TaskInOrder, Moves, Kept, Begins, OfEvent, Activating, Buying,
       AfterActivate
  <2> QED
    BY <2>2, OneTask, LeftTask
<1>9. ASSUME NEW h \in Handlers, SetPlan(h) PROVE TasksInOrder'
  <2>1. TaskInOrder(task[h])
    BY AtStep
  <2>2. Others(h) /\ TaskInOrder(task'[h])
    BY <1>9, <2>1, SetPlanDoes DEF TaskInOrder, Moves, Kept, Begins, OfEvent, Activating, Buying
  <2> QED
    BY <2>2, OneTask
<1>10. ASSUME NEW h \in Handlers, CancelReplaced(h) PROVE TasksInOrder'
  <2>1. TaskInOrder(task[h])
    BY AtStep
  <2>2. Others(h) /\ TaskInOrder(task'[h])
    BY <1>10, <2>1, CancelReplacedDoes DEF TaskInOrder, Moves, Kept, Begins, OfEvent, Activating,
       Buying
  <2> QED
    BY <2>2, OneTask
<1>11. ASSUME NEW h \in Handlers, Retire(h) PROVE TasksInOrder'
  <2>1. TaskInOrder(task[h])
    BY AtStep
  <2>2. Others(h) /\ TaskInOrder(task'[h])
    BY <1>11, <2>1, RetireDoes DEF TaskInOrder, Moves, Kept, Begins, OfEvent, Activating, Buying
  <2> QED
    BY <2>2, OneTask
<1>12. ASSUME NEW h \in Handlers, CreditReplaced(h) PROVE TasksInOrder'
  <2>1. TaskInOrder(task[h])
    BY AtStep
  <2>2. Others(h) /\ TaskInOrder(task'[h])
    BY <1>12, <2>1, CreditReplacedDoes DEF TaskInOrder, Moves, Kept, Begins, OfEvent, Activating,
       Buying
  <2> QED
    BY <2>2, OneTask
<1>13. ASSUME NEW h \in Handlers, Invoice(h) PROVE TasksInOrder'
  BY InvoiceDoes, <1>13, LeftTask DEF Answers
<1>14. ASSUME NEW h \in Handlers, Renew(h) PROVE TasksInOrder'
  <2>1. TaskInOrder(task[h])
    BY AtStep
  <2>2. Others(h) /\ TaskInOrder(task'[h])
    BY <1>14, <2>1, RenewDoes DEF TaskInOrder, Moves, Kept, Begins, OfEvent, Activating, Buying
  <2> QED
    BY <2>2, OneTask
<1>15. ASSUME NEW h \in Handlers, Fail(h) PROVE TasksInOrder'
  BY FailDoes, <1>15, LeftTask DEF Answers
<1>16. ASSUME NEW h \in Handlers, Halt(h) PROVE TasksInOrder'
  BY HaltDoes, <1>16, LeftTask DEF Answers
<1>17. ASSUME NEW h \in Handlers, End(h) PROVE TasksInOrder'
  BY EndDoes, <1>17, LeftTask DEF Answers
<1>18. ASSUME NEW h \in Handlers, EndToBuy(h) PROVE TasksInOrder'
  <2>1. TaskInOrder(task[h])
    BY AtStep
  <2>2. Others(h) /\ TaskInOrder(task'[h])
    BY <1>18, <2>1, EndToBuyDoes DEF TaskInOrder, Moves, Kept, Begins, OfEvent, Activating, Buying
  <2> QED
    BY <2>2, OneTask
<1>19. ASSUME NEW h \in Handlers, Browse(h) PROVE TasksInOrder'
  <2>1. TaskInOrder(task[h])
    BY AtStep
  <2>2. Leaves(h) \/ (Others(h) /\ TaskInOrder(task'[h]))
    BY <1>19, <2>1, BrowseDoes DEF TaskInOrder, Moves, Kept, Begins, OfEvent, Activating, Buying
  <2> QED
    BY <2>2, OneTask, LeftTask
<1>20. ASSUME NEW h \in Handlers, DropOpen(h) PROVE TasksInOrder'
  <2>1. TaskInOrder(task[h])
    BY AtStep
  <2>2. Others(h) /\ TaskInOrder(task'[h])
    BY <1>20, <2>1, DropOpenDoes DEF TaskInOrder, Moves, Kept, Begins, OfEvent, Activating, Buying
  <2> QED
    BY <2>2, OneTask
<1>21. ASSUME NEW h \in Handlers, Subscribe(h) PROVE TasksInOrder'
  <2>1. TaskInOrder(task[h])
    BY AtStep
  <2>2. Leaves(h) \/ (Others(h) /\ TaskInOrder(task'[h]))
    BY <1>21, <2>1, SubscribeDoes DEF TaskInOrder, Moves, Kept, Begins, OfEvent, Activating, Buying,
       Fresh
  <2> QED
    BY <2>2, OneTask, LeftTask
<1>22. ASSUME NEW h \in Handlers, Insert(h) PROVE TasksInOrder'
  <2>1. TaskInOrder(task[h]) /\ task[h].step = "insert"
    BY <1>22, AtStep, InsertDoes
  <2>2. CASE Leaves(h)
    BY <2>2, LeftTask
  <2>3. CASE Moves(h, "release")
    <3>1. TaskInOrder(task'[h])
      BY <2>1, <2>3 DEF TaskInOrder, Moves, Kept, OfEvent, Activating, Buying
    <3> QED
      BY <2>3, <3>1, OneTask DEF Moves
  <2> QED
    BY <1>22, <2>2, <2>3, InsertDoes
<1>23. ASSUME NEW h \in Handlers, Release(h) PROVE TasksInOrder'
  BY ReleaseDoes, <1>23, LeftTask DEF Answers
<1>24. ASSUME NEW h \in Handlers, StopAtEnd(h) PROVE TasksInOrder'
  <2>1. TaskInOrder(task[h]) /\ task[h].tier \in Tiers \cup {None}
    BY AtStep
  <2>2. Leaves(h) \/ (Others(h) /\ TaskInOrder(task'[h]))
    BY <1>24, <2>1, StopAtEndDoes DEF TaskInOrder, Moves, Kept, Begins, OfEvent, Activating, Buying
  <2> QED
    BY <2>2, OneTask, LeftTask
<1>25. ASSUME NEW h \in Handlers, MarkEnds(h) PROVE TasksInOrder'
  BY MarkEndsDoes, <1>25, LeftTask DEF Answers
<1>26. ASSUME NEW h \in Handlers, Schedule(h) PROVE TasksInOrder'
  BY ScheduleDoes, <1>26, LeftTask DEF Answers
<1>27. ASSUME NEW h \in Handlers, StopNow(h) PROVE TasksInOrder'
  <2>1. TaskInOrder(task[h])
    BY AtStep
  <2>2. Leaves(h) \/ (Others(h) /\ TaskInOrder(task'[h]))
    BY <1>27, <2>1, StopNowDoes DEF TaskInOrder, Moves, Kept, Begins, OfEvent, Activating, Buying
  <2> QED
    BY <2>2, OneTask, LeftTask
<1>28. ASSUME NEW h \in Handlers, Drop(h) PROVE TasksInOrder'
  <2>1. TaskInOrder(task[h])
    BY AtStep
  <2>2. Others(h) /\ TaskInOrder(task'[h])
    BY <1>28, <2>1, DropDoes DEF TaskInOrder, Moves, Kept, Begins, OfEvent, Activating, Buying
  <2> QED
    BY <2>2, OneTask
<1>29. ASSUME NEW h \in Handlers, Credit(h) PROVE TasksInOrder'
  <2>1. TaskInOrder(task[h])
    BY AtStep
  <2>2. Others(h) /\ TaskInOrder(task'[h])
    BY <1>29, <2>1, CreditDoes DEF TaskInOrder, Moves, Kept, Begins, OfEvent, Activating, Buying
  <2> QED
    BY <2>2, OneTask
<1>30. ASSUME NEW h \in Handlers, Clear(h) PROVE TasksInOrder'
  <2>1. TaskInOrder(task[h])
    BY AtStep
  <2>2. Others(h) /\ TaskInOrder(task'[h])
    BY <1>30, <2>1, ClearDoes DEF TaskInOrder, Moves, Kept, Begins, OfEvent, Activating, Buying
  <2> QED
    BY <2>2, OneTask
<1>31. ASSUME NEW h \in Handlers, GrantRow(h) PROVE TasksInOrder'
  BY GrantRowDoes, <1>31, LeftTask DEF Answers
<1>32. ASSUME NEW h \in Handlers, Crash(h) PROVE TasksInOrder'
  BY CrashDoes, <1>32, LeftTask DEF Answers
<1>33. ASSUME NEW h \in Handlers, NEW tier \in Tiers, Buy(h, tier) PROVE TasksInOrder'
  <2>1. TaskInOrder(task[h])
    BY AtStep
  <2>2. Others(h) /\ TaskInOrder(task'[h])
    BY <1>33, <2>1, BuyDoes, Bounds DEF TaskInOrder, Moves, Kept, Begins, OfEvent, Activating, Buying
  <2> QED
    BY <2>2, OneTask
<1>34. ASSUME NEW h \in Handlers, NEW tier \in Tiers, Grant(h, tier) PROVE TasksInOrder'
  <2>1. TaskInOrder(task[h])
    BY AtStep
  <2>2. Others(h) /\ TaskInOrder(task'[h])
    BY <1>34, <2>1, GrantDoes, Bounds DEF TaskInOrder, Moves, Kept, Begins, OfEvent, Activating,
       Buying
  <2> QED
    BY <2>2, OneTask
<1>35. ASSUME NEW h \in Handlers, NEW s \in Subs, Deliver(h, s) PROVE TasksInOrder'
  <2>1. CASE UNCHANGED task
    BY <2>1 DEF TypeInv, TasksInOrder, TaskInOrder
  <2>2. CASE Begins(h, "webhook", FirstStep(Head(queue[s]), sub[s]), s, sub[s], Head(queue[s]),
                    None, None, {})
    <3>1. Head(queue[s]) \in Event /\ sub[s] \in Row
      BY <1>35, DeliverDoes DEF TypeInv, TypeOK
    <3>2. task'[h].step \in {"readToActivate", "renew", "fail", "halt", "end"}
      BY <2>2, <3>1, FirstStepOf DEF Begins
    <3>3. Others(h) /\ TaskInOrder(task'[h])
      BY <2>2, <3>2 DEF TaskInOrder, Begins, OfEvent, Activating, Buying
    <3> QED
      BY <3>3, OneTask
  <2> QED
    BY <1>35, <2>1, <2>2, DeliverDoes
<1>36. ASSUME NEW h \in Handlers, NEW s \in Subs, Callback(h, s) PROVE TasksInOrder'
  <2>1. TaskInOrder(task[h])
    BY AtStep
  <2>2. Others(h) /\ TaskInOrder(task'[h])
    BY <1>36, <2>1, CallbackDoes DEF TaskInOrder, Moves, Kept, Begins, OfEvent, Activating, Buying
  <2> QED
    BY <2>2, OneTask
<1>37. ASSUME NEW h \in Handlers, NEW s \in Subs, Overdue(h, s) PROVE TasksInOrder'
  <2>1. TaskInOrder(task[h])
    BY AtStep
  <2>2. Others(h) /\ TaskInOrder(task'[h])
    BY <1>37, <2>1, OverdueDoes DEF TaskInOrder, Moves, Kept, Begins, OfEvent, Activating, Buying
  <2> QED
    BY <2>2, OneTask
<1>38. ASSUME NEW h \in Handlers, NEW s \in Subs, Cancel(h, s) PROVE TasksInOrder'
  <2>1. TaskInOrder(task[h])
    BY AtStep
  <2>2. Others(h) /\ TaskInOrder(task'[h])
    BY <1>38, <2>1, CancelDoes DEF TaskInOrder, Moves, Kept, Begins, OfEvent, Activating, Buying
  <2> QED
    BY <2>2, OneTask
<1>39. ASSUME NEW h \in Handlers, NEW s \in Subs, Revoke(h, s) PROVE TasksInOrder'
  <2>1. TaskInOrder(task[h])
    BY AtStep
  <2>2. Others(h) /\ TaskInOrder(task'[h])
    BY <1>39, <2>1, RevokeDoes DEF TaskInOrder, Moves, Kept, Begins, OfEvent, Activating, Buying
  <2> QED
    BY <2>2, OneTask
<1>40. ASSUME NEW h \in Handlers, NEW s \in Subs, NEW tier \in Tiers, ChangePlan(h, s, tier) PROVE
   TasksInOrder'
  <2>1. TaskInOrder(task[h])
    BY AtStep
  <2>2. Others(h) /\ TaskInOrder(task'[h])
    BY <1>40, <2>1, ChangePlanDoes DEF TaskInOrder, Moves, Kept, Begins, OfEvent, Activating, Buying
  <2> QED
    BY <2>2, OneTask
<1>41. ASSUME NEW h \in Handlers, NEW s \in Subs, NEW tier \in Tiers, ChangeAddon(h, s, tier)
   PROVE TasksInOrder'
  <2>1. TaskInOrder(task[h])
    BY AtStep
  <2>2. Others(h) /\ TaskInOrder(task'[h])
    BY <1>41, <2>1, ChangeAddonDoes DEF TaskInOrder, Moves, Kept, Begins, OfEvent, Activating, Buying
  <2> QED
    BY <2>2, OneTask
<1>42. CASE UNCHANGED vars
  BY <1>42, SameTasks DEF vars
<1> QED
  BY <1>1, <1>2, <1>3, <1>4, <1>5, <1>6, <1>7, <1>8, <1>9, <1>10, <1>11, <1>12, <1>13, <1>14,
     <1>15, <1>16, <1>17, <1>18, <1>19, <1>20, <1>21, <1>22, <1>23, <1>24, <1>25, <1>26, <1>27,
     <1>28, <1>29, <1>30, <1>31, <1>32, <1>33, <1>34, <1>35, <1>36, <1>37, <1>38, <1>39, <1>40,
     <1>41, <1>42 DEF Next, Step

LEMMA SameMandates ==
    ASSUME TypeInv, UNCHANGED rzp
    PROVE  MandatesInOrder'
BY DEF TypeInv, MandatesInOrder, MandateInOrder

LEMMA OneMandate ==
    ASSUME TypeInv, NEW s \in Subs, OnlyMandate(s), MandateInOrder(rzp'[s])
    PROVE  MandatesInOrder'
BY DEF TypeInv, MandatesInOrder, OnlyMandate

LEMMA AtRazorpay ==
    ASSUME TypeInv, NEW s \in Subs
    PROVE  /\ rzp[s] \in Mandate /\ MandateInOrder(rzp[s])
           /\ rzp[s].state \in {"none", "open", "active", "pending", "halted", "cancelled"}
           /\ rzp[s].due \in 0 .. MaxDay + Period /\ rzp[s].ends \in BOOLEAN
           /\ rzp[s].paid \in 0 .. MaxCharges
           /\ rzp[s].tries \in 0 .. MaxTries /\ rzp[s].shown \in BOOLEAN
           /\ rzp[s].callback \in BOOLEAN
<1>1. rzp[s] \in Mandate /\ MandateInOrder(rzp[s])
  BY DEF TypeInv, TypeOK, MandatesInOrder
<1> QED
  BY <1>1, MandateFields

\* Only what was paid is ever stopped.
LEMMA StoppedMandates ==
    ASSUME TypeInv, NEW S \in SUBSET Subs, Stopped(S), \A s \in S : rzp[s].paid > 0
    PROVE  MandatesInOrder'
<1> SUFFICES ASSUME NEW s \in Subs PROVE MandateInOrder(rzp'[s])
  BY DEF MandatesInOrder
<1>1. MandateInOrder(rzp[s]) /\ rzp[s].paid \in 0 .. MaxCharges
  BY AtRazorpay
<1>2. CASE s \in S
  BY <1>1, <1>2, Bounds DEF Stopped, EndsAt, MandateInOrder
<1>3. CASE s \notin S
  BY <1>1, <1>3 DEF Stopped
<1> QED
  BY <1>2, <1>3

LEMMA StoppableIsPaid ==
    ASSUME TypeInv, NEW s \in Subs, CanStop(s)
    PROVE  rzp[s].paid > 0
<1>1. MandateInOrder(rzp[s]) /\ rzp[s].paid \in 0 .. MaxCharges
  BY AtRazorpay
<1> QED
  BY <1>1, Bounds DEF CanStop, MandateInOrder

LEMMA MandatesKept ==
    ASSUME TypeInv, [Next]_vars
    PROVE  MandatesInOrder'
<1>1. ASSUME Tick PROVE MandatesInOrder'
  <2> SUFFICES ASSUME NEW s \in Subs PROVE MandateInOrder(rzp'[s])
    BY DEF MandatesInOrder
  <2>1. MandateInOrder(rzp[s])
    BY AtRazorpay
  <2> QED
    BY <1>1, <2>1, TickDoes DEF MandateInOrder
<1>2. ASSUME NEW s \in Subs, Pay(s) PROVE MandatesInOrder'
  <2>1. OnlyMandate(s) /\ rzp'[s].state = "active" /\ rzp'[s].paid = 1
    BY <1>2, PayDoes
  <2>2. MandateInOrder(rzp'[s])
    BY <2>1 DEF MandateInOrder
  <2> QED
    BY <2>1, <2>2, OneMandate
<1>3. ASSUME NEW s \in Subs, Charge(s) PROVE MandatesInOrder'
  <2>1. OnlyMandate(s) /\ rzp'[s].state = "active" /\ rzp'[s].paid = rzp[s].paid + 1
    BY <1>3, ChargeDoes
  <2>2. rzp[s].paid \in Nat
    BY AtRazorpay, Bounds
  <2>3. MandateInOrder(rzp'[s])
    BY <2>1, <2>2 DEF MandateInOrder
  <2> QED
    BY <2>1, <2>3, OneMandate
<1>4. ASSUME NEW s \in Subs, Decline(s) PROVE MandatesInOrder'
  <2>1. MandateInOrder(rzp[s]) /\ rzp[s].paid \in 0 .. MaxCharges
    BY <1>4, AtRazorpay
  <2>2. OnlyMandate(s) /\ MandateInOrder(rzp'[s])
    BY <1>4, <2>1, DeclineDoes, Bounds DEF MandateInOrder, Unpaid
  <2> QED
    BY <2>2, OneMandate
<1>5. ASSUME NEW s \in Subs, GiveUp(s) PROVE MandatesInOrder'
  <2>1. MandateInOrder(rzp[s]) /\ rzp[s].paid \in 0 .. MaxCharges
    BY <1>5, AtRazorpay
  <2>2. OnlyMandate(s) /\ MandateInOrder(rzp'[s])
    BY <1>5, <2>1, GiveUpDoes, Bounds DEF MandateInOrder, Unpaid
  <2> QED
    BY <2>2, OneMandate
<1>6. ASSUME NEW s \in Subs, CycleEnds(s) PROVE MandatesInOrder'
  <2>1. rzp[s].paid > 0
    BY <1>6, CycleEndsDoes, StoppableIsPaid DEF CanStop
  <2> QED
    BY <1>6, <2>1, CycleEndsDoes, StoppedMandates
<1>7. ASSUME NEW h \in Handlers, ReadToActivate(h) PROVE MandatesInOrder'
  BY ReadToActivateDoes, <1>7, SameMandates
<1>8. ASSUME NEW h \in Handlers, Activate(h) PROVE MandatesInOrder'
  BY ActivateDoes, <1>8, SameMandates
<1>9. ASSUME NEW h \in Handlers, SetPlan(h) PROVE MandatesInOrder'
  BY SetPlanDoes, <1>9, SameMandates
<1>10. ASSUME NEW h \in Handlers, CancelReplaced(h) PROVE MandatesInOrder'
  <2> DEFINE o == task[h].row.replaces
  <2>1. o \in Subs /\ (UNCHANGED rzp \/ (CanStop(o) /\ Stopped({o})))
    BY <1>10, CancelReplacedDoes
  <2> HIDE DEF o
  <2>2. CASE CanStop(o) /\ Stopped({o})
    BY <2>1, <2>2, StoppableIsPaid, StoppedMandates
  <2> QED
    BY <2>1, <2>2, SameMandates
<1>11. ASSUME NEW h \in Handlers, Retire(h) PROVE MandatesInOrder'
  BY RetireDoes, <1>11, SameMandates
<1>12. ASSUME NEW h \in Handlers, CreditReplaced(h) PROVE MandatesInOrder'
  BY CreditReplacedDoes, <1>12, SameMandates
<1>13. ASSUME NEW h \in Handlers, Invoice(h) PROVE MandatesInOrder'
  BY InvoiceDoes, <1>13, SameMandates
<1>14. ASSUME NEW h \in Handlers, Renew(h) PROVE MandatesInOrder'
  BY RenewDoes, <1>14, SameMandates
<1>15. ASSUME NEW h \in Handlers, Fail(h) PROVE MandatesInOrder'
  BY FailDoes, <1>15, SameMandates
<1>16. ASSUME NEW h \in Handlers, Halt(h) PROVE MandatesInOrder'
  BY HaltDoes, <1>16, SameMandates
<1>17. ASSUME NEW h \in Handlers, End(h) PROVE MandatesInOrder'
  BY EndDoes, <1>17, SameMandates
<1>18. ASSUME NEW h \in Handlers, EndToBuy(h) PROVE MandatesInOrder'
  BY EndToBuyDoes, <1>18, SameMandates
<1>19. ASSUME NEW h \in Handlers, Browse(h) PROVE MandatesInOrder'
  BY BrowseDoes, <1>19, SameMandates
<1>20. ASSUME NEW h \in Handlers, DropOpen(h) PROVE MandatesInOrder'
  BY DropOpenDoes, <1>20, SameMandates
<1>21. ASSUME NEW h \in Handlers, Subscribe(h) PROVE MandatesInOrder'
  <2>1. CASE UNCHANGED rzp
    BY <2>1, SameMandates
  <2>2. CASE Next1 \in Fresh /\ ~UNCHANGED rzp
    <3> DEFINE n == Next1
    <3>1. n \in Subs /\ rzp[n].state = "none"
      BY <2>2 DEF Fresh
    <3>2. /\ OnlyMandate(n) /\ rzp'[n].state = "open" /\ rzp'[n].paid = rzp[n].paid
          /\ rzp'[n].callback = rzp[n].callback /\ rzp'[n].ends = rzp[n].ends
      BY <1>21, <2>2, SubscribeDoes
    <3> HIDE DEF n
    <3>3. MandateInOrder(rzp[n])
      BY <3>1, AtRazorpay
    <3>4. MandateInOrder(rzp'[n])
      BY <3>1, <3>2, <3>3 DEF MandateInOrder
    <3> QED
      BY <3>1, <3>2, <3>4, OneMandate
  <2> QED
    BY <1>21, <2>1, <2>2, SubscribeDoes
<1>22. ASSUME NEW h \in Handlers, Insert(h) PROVE MandatesInOrder'
  BY InsertDoes, <1>22, SameMandates
<1>23. ASSUME NEW h \in Handlers, Release(h) PROVE MandatesInOrder'
  <2> SUFFICES ASSUME NEW s \in Subs PROVE MandateInOrder(rzp'[s])
    BY DEF MandatesInOrder
  <2>1. MandateInOrder(rzp[s]) /\ rzp[s].paid \in 0 .. MaxCharges /\ (CanStop(s) => rzp[s].paid > 0)
    BY AtRazorpay, StoppableIsPaid
  <2>2. \/ EndsAt(s) /\ CanStop(s)
        \/ ShownTo(s, task[h].by)
        \/ rzp'[s] = rzp[s]
    BY <1>23, ReleaseDoes
  <2> QED
    BY <2>1, <2>2, Bounds DEF MandateInOrder, EndsAt, ShownTo
<1>24. ASSUME NEW h \in Handlers, StopAtEnd(h) PROVE MandatesInOrder'
  <2> DEFINE o == task[h].s
  <2>1. /\ o \in Subs
        /\ \/ UNCHANGED rzp
           \/ /\ CanStop(o) /\ OnlyMandate(o) /\ rzp'[o].state = rzp[o].state
              /\ rzp'[o].paid = rzp[o].paid /\ rzp'[o].shown = rzp[o].shown
              /\ rzp'[o].callback = rzp[o].callback
    BY <1>24, StopAtEndDoes
  <2> HIDE DEF o
  <2>2. MandateInOrder(rzp[o]) /\ (CanStop(o) => rzp[o].paid > 0)
    BY <2>1, AtRazorpay, StoppableIsPaid
  <2>3. UNCHANGED rzp \/ MandateInOrder(rzp'[o])
    BY <2>1, <2>2 DEF MandateInOrder
  <2> QED
    BY <2>1, <2>3, SameMandates, OneMandate
<1>25. ASSUME NEW h \in Handlers, MarkEnds(h) PROVE MandatesInOrder'
  BY MarkEndsDoes, <1>25, SameMandates
<1>26. ASSUME NEW h \in Handlers, Schedule(h) PROVE MandatesInOrder'
  BY ScheduleDoes, <1>26, SameMandates
<1>27. ASSUME NEW h \in Handlers, StopNow(h) PROVE MandatesInOrder'
  <2> DEFINE o == task[h].s
  <2>1. o \in Subs /\ (UNCHANGED rzp \/ (CanStop(o) /\ Stopped({o})))
    BY <1>27, StopNowDoes
  <2> HIDE DEF o
  <2>2. CASE CanStop(o) /\ Stopped({o})
    BY <2>1, <2>2, StoppableIsPaid, StoppedMandates
  <2> QED
    BY <2>1, <2>2, SameMandates
<1>28. ASSUME NEW h \in Handlers, Drop(h) PROVE MandatesInOrder'
  BY DropDoes, <1>28, SameMandates
<1>29. ASSUME NEW h \in Handlers, Credit(h) PROVE MandatesInOrder'
  BY CreditDoes, <1>29, SameMandates
<1>30. ASSUME NEW h \in Handlers, Clear(h) PROVE MandatesInOrder'
  BY ClearDoes, <1>30, SameMandates
<1>31. ASSUME NEW h \in Handlers, GrantRow(h) PROVE MandatesInOrder'
  BY GrantRowDoes, <1>31, SameMandates
<1>32. ASSUME NEW h \in Handlers, Crash(h) PROVE MandatesInOrder'
  BY CrashDoes, <1>32, SameMandates
<1>33. ASSUME NEW h \in Handlers, NEW tier \in Tiers, Buy(h, tier) PROVE MandatesInOrder'
  BY BuyDoes, <1>33, SameMandates
<1>34. ASSUME NEW h \in Handlers, NEW tier \in Tiers, Grant(h, tier) PROVE MandatesInOrder'
  BY GrantDoes, <1>34, SameMandates
<1>35. ASSUME NEW h \in Handlers, NEW s \in Subs, Deliver(h, s) PROVE MandatesInOrder'
  BY DeliverDoes, <1>35, SameMandates
<1>36. ASSUME NEW h \in Handlers, NEW s \in Subs, Callback(h, s) PROVE MandatesInOrder'
  <2>1. MandateInOrder(rzp[s]) /\ rzp[s].paid \in 0 .. MaxCharges
    BY <1>36, AtRazorpay
  <2>2. OnlyMandate(s) /\ MandateInOrder(rzp'[s])
    BY <1>36, <2>1, CallbackDoes, Bounds DEF MandateInOrder, Unpaid
  <2> QED
    BY <2>2, OneMandate
<1>37. ASSUME NEW h \in Handlers, NEW s \in Subs, Overdue(h, s) PROVE MandatesInOrder'
  BY OverdueDoes, <1>37, SameMandates
<1>38. ASSUME NEW h \in Handlers, NEW s \in Subs, Cancel(h, s) PROVE MandatesInOrder'
  BY CancelDoes, <1>38, SameMandates
<1>39. ASSUME NEW h \in Handlers, NEW s \in Subs, Revoke(h, s) PROVE MandatesInOrder'
  BY RevokeDoes, <1>39, SameMandates
<1>40. ASSUME NEW h \in Handlers, NEW s \in Subs, NEW tier \in Tiers, ChangePlan(h, s, tier) PROVE
   MandatesInOrder'
  BY ChangePlanDoes, <1>40, SameMandates
<1>41. ASSUME NEW h \in Handlers, NEW s \in Subs, NEW tier \in Tiers, ChangeAddon(h, s, tier)
   PROVE MandatesInOrder'
  BY ChangeAddonDoes, <1>41, SameMandates
<1>42. CASE UNCHANGED vars
  BY <1>42, SameMandates DEF vars
<1> QED
  BY <1>1, <1>2, <1>3, <1>4, <1>5, <1>6, <1>7, <1>8, <1>9, <1>10, <1>11, <1>12, <1>13, <1>14,
     <1>15, <1>16, <1>17, <1>18, <1>19, <1>20, <1>21, <1>22, <1>23, <1>24, <1>25, <1>26, <1>27,
     <1>28, <1>29, <1>30, <1>31, <1>32, <1>33, <1>34, <1>35, <1>36, <1>37, <1>38, <1>39, <1>40,
     <1>41, <1>42 DEF Next, Step

-----------------------------------------------------------------------------
(* What is on its way.                                                     *)

\* No delivery begins or ends, and what is next of each queue stays next.
NoNewDelivery ==
    \A k \in Handlers : task'[k].by = "webhook" =>
        task[k].by = "webhook" /\ task'[k].s = task[k].s /\ task'[k].event = task[k].event

QueuesGrow ==
    \A s \in Subs : queue[s] # <<>> => queue'[s] # <<>> /\ Head(queue'[s]) = Head(queue[s])

LEMMA SameDeliveries ==
    ASSUME TypeInv, NoNewDelivery, QueuesGrow
    PROVE  Deliveries'
<1> SUFFICES ASSUME NEW h \in Handlers, task'[h].by = "webhook"
             PROVE  /\ queue'[task'[h].s] # <<>> /\ task'[h].event = Head(queue'[task'[h].s])
                    /\ \A k \in Handlers : task'[k].by = "webhook" /\ task'[k].s = task'[h].s
                                              => k = h
  BY DEF Deliveries
<1>1. task[h].by = "webhook" /\ task'[h].s = task[h].s /\ task'[h].event = task[h].event
  BY DEF NoNewDelivery
<1>2. /\ queue[task[h].s] # <<>> /\ task[h].event = Head(queue[task[h].s])
      /\ \A k \in Handlers : task[k].by = "webhook" /\ task[k].s = task[h].s => k = h
  BY <1>1 DEF TypeInv, Deliveries
<1>3. task[h].s \in Subs
  BY <1>1, AtStep DEF TaskInOrder, OfEvent, Activating
<1>4. queue'[task[h].s] # <<>> /\ Head(queue'[task[h].s]) = Head(queue[task[h].s])
  BY <1>2, <1>3 DEF QueuesGrow
<1>5. \A k \in Handlers : task'[k].by = "webhook" /\ task'[k].s = task'[h].s => k = h
  BY <1>1, <1>2 DEF NoNewDelivery
<1> QED
  BY <1>1, <1>2, <1>4, <1>5

LEMMA SameQueues ==
    ASSUME UNCHANGED queue
    PROVE  QueuesGrow
BY DEF QueuesGrow

LEMMA ToldQueues ==
    ASSUME TypeInv, NEW s \in Subs, NEW e, Told(s, e)
    PROVE  QueuesGrow
<1>1. queue[s] \in Seq(Event) /\ e \in Event /\ queue'[s] = Append(queue[s], e)
  BY DEF TypeInv, TypeOK, Told
<1>2. queue[s] # <<>> => queue'[s] # <<>> /\ Head(queue'[s]) = Head(queue[s])
  BY <1>1, AfterAppend
<1>3. \A t \in Subs : t # s => queue'[t] = queue[t]
  BY DEF Told
<1> QED
  BY <1>2, <1>3 DEF QueuesGrow

LEMMA ToldBothQueues ==
    ASSUME TypeInv, NEW s \in Subs, NEW d, NEW e, ToldBoth(s, d, e)
    PROVE  QueuesGrow
<1>1. /\ queue[s] \in Seq(Event) /\ d \in Event /\ e \in Event
      /\ queue'[s] = Append(Append(queue[s], d), e)
  BY DEF TypeInv, TypeOK, ToldBoth
<1>2. /\ Append(queue[s], d) \in Seq(Event) /\ Append(queue[s], d) # <<>>
      /\ queue[s] # <<>> => Head(Append(queue[s], d)) = Head(queue[s])
  BY <1>1, AppendProperties, AfterAppend
<1>3. queue[s] # <<>> => queue'[s] # <<>> /\ Head(queue'[s]) = Head(queue[s])
  BY <1>1, <1>2, AfterAppend
<1>4. \A t \in Subs : t # s => queue'[t] = queue[t]
  BY DEF ToldBoth
<1> QED
  BY <1>3, <1>4 DEF QueuesGrow

LEMMA StoppedQueue ==
    ASSUME TypeInv, NEW s \in Subs, EndsAt(s)
    PROVE  /\ queue'[s] # <<>> /\ queue[s] # <<>> => Head(queue'[s]) = Head(queue[s])
           /\ queue'[s] = Append(queue[s], EndedEvent(s))
<1>1. queue[s] \in Seq(Event)
  BY DEF TypeInv, TypeOK
<1>2. EndedEvent(s) \in Event /\ queue'[s] = Append(queue[s], EndedEvent(s))
  BY DEF EndsAt
<1> QED
  BY <1>1, <1>2, AfterAppend

LEMMA StoppedQueues ==
    ASSUME TypeInv, NEW S \in SUBSET Subs, Stopped(S)
    PROVE  QueuesGrow
<1> SUFFICES ASSUME NEW s \in Subs, queue[s] # <<>>
             PROVE  queue'[s] # <<>> /\ Head(queue'[s]) = Head(queue[s])
  BY DEF QueuesGrow
<1>1. CASE s \in S
  BY <1>1, StoppedQueue DEF Stopped
<1>2. CASE s \notin S
  BY <1>2 DEF Stopped
<1> QED
  BY <1>1, <1>2

LEMMA ReleasedQueues ==
    ASSUME TypeInv, NEW h \in Handlers, Release(h)
    PROVE  QueuesGrow
<1> SUFFICES ASSUME NEW s \in Subs, queue[s] # <<>>
             PROVE  queue'[s] # <<>> /\ Head(queue'[s]) = Head(queue[s])
  BY DEF QueuesGrow
<1>1. EndsAt(s) \/ queue'[s] = queue[s]
  BY ReleaseDoes
<1> QED
  BY <1>1, StoppedQueue

LEMMA MovedDelivery ==
    ASSUME NEW h \in Handlers, Others(h),
           \/ task'[h].by # "webhook"
           \/ /\ task'[h].by = task[h].by /\ task'[h].s = task[h].s
              /\ task'[h].event = task[h].event
    PROVE  NoNewDelivery
BY DEF NoNewDelivery, Others

\* The delivery of an event is over.
LEMMA AnsweredDeliveries ==
    ASSUME TypeInv, NEW h \in Handlers, Answers(h)
    PROVE  Deliveries'
<1>1. Others(h) /\ task'[h].by = "nobody"
  BY IdleTyped DEF Answers, Leaves
<1>2. CASE task[h].by # "webhook"
  BY <1>1, <1>2, MovedDelivery, SameQueues, SameDeliveries DEF Answers
<1>3. CASE task[h].by = "webhook"
  <2> SUFFICES ASSUME NEW k \in Handlers, task'[k].by = "webhook"
               PROVE  /\ queue'[task'[k].s] # <<>> /\ task'[k].event = Head(queue'[task'[k].s])
                      /\ \A i \in Handlers : task'[i].by = "webhook" /\ task'[i].s = task'[k].s
                                                => i = k
    BY DEF Deliveries
  <2>1. k # h /\ task'[k] = task[k]
    BY <1>1 DEF Others
  <2>2. /\ queue[task[k].s] # <<>> /\ task[k].event = Head(queue[task[k].s])
        /\ \A i \in Handlers : task[i].by = "webhook" /\ task[i].s = task[k].s => i = k
    BY <2>1 DEF TypeInv, Deliveries
  <2>3. task[k].s # task[h].s /\ task[k].s \in Subs
    BY <1>3, <2>1, <2>2, AtStep DEF TaskInOrder, OfEvent, Activating
  <2>4. queue'[task[k].s] = queue[task[k].s]
    BY <1>3, <2>3 DEF Answers
  <2>5. \A i \in Handlers : task'[i].by = "webhook" /\ task'[i].s = task'[k].s => i = k
    BY <1>1, <2>1, <2>2 DEF Others
  <2> QED
    BY <2>1, <2>2, <2>4, <2>5
<1> QED
  BY <1>2, <1>3

LEMMA DeliveriesKept ==
    ASSUME TypeInv, [Next]_vars
    PROVE  Deliveries'
<1>1. ASSUME Tick PROVE Deliveries'
  <2>1. NoNewDelivery
    BY <1>1, TickDoes DEF NoNewDelivery
  <2>2. QueuesGrow
    BY <1>1, TickDoes, SameQueues
  <2> QED
    BY <2>1, <2>2, SameDeliveries
<1>2. ASSUME NEW s \in Subs, Pay(s) PROVE Deliveries'
  <2>1. NoNewDelivery
    BY <1>2, PayDoes DEF NoNewDelivery
  <2>2. QueuesGrow
    BY <1>2, PayDoes, ToldQueues, ToldBothQueues DEF ToldFirst
  <2> QED
    BY <2>1, <2>2, SameDeliveries
<1>3. ASSUME NEW s \in Subs, Charge(s) PROVE Deliveries'
  <2>1. NoNewDelivery
    BY <1>3, ChargeDoes DEF NoNewDelivery
  <2>2. QueuesGrow
    BY <1>3, ChargeDoes, ToldQueues
  <2> QED
    BY <2>1, <2>2, SameDeliveries
<1>4. ASSUME NEW s \in Subs, Decline(s) PROVE Deliveries'
  <2>1. NoNewDelivery
    BY <1>4, DeclineDoes DEF NoNewDelivery
  <2>2. QueuesGrow
    BY <1>4, DeclineDoes, ToldQueues
  <2> QED
    BY <2>1, <2>2, SameDeliveries
<1>5. ASSUME NEW s \in Subs, GiveUp(s) PROVE Deliveries'
  <2>1. NoNewDelivery
    BY <1>5, GiveUpDoes DEF NoNewDelivery
  <2>2. QueuesGrow
    BY <1>5, GiveUpDoes, ToldQueues
  <2> QED
    BY <2>1, <2>2, SameDeliveries
<1>6. ASSUME NEW s \in Subs, CycleEnds(s) PROVE Deliveries'
  <2>1. NoNewDelivery
    BY <1>6, CycleEndsDoes DEF NoNewDelivery
  <2>2. QueuesGrow
    BY <1>6, CycleEndsDoes, StoppedQueues
  <2> QED
    BY <2>1, <2>2, SameDeliveries
<1>7. ASSUME NEW h \in Handlers, ReadToActivate(h) PROVE Deliveries'
  <2>1. CASE Answers(h)
    BY <2>1, AnsweredDeliveries
  <2>2. CASE ~Answers(h)
    <3>1. UNCHANGED queue /\ Others(h)
      BY <1>7, <2>2, ReadToActivateDoes DEF Leaves
    <3>2. \/ task'[h].by # "webhook"
          \/ /\ task'[h].by = task[h].by /\ task'[h].s = task[h].s
             /\ task'[h].event = task[h].event
      BY <1>7, <2>2, ReadToActivateDoes, IdleTyped DEF Leaves
    <3> QED
      BY <3>1, <3>2, MovedDelivery, SameQueues, SameDeliveries
  <2> QED
    BY <2>1, <2>2
<1>8. ASSUME NEW h \in Handlers, Activate(h) PROVE Deliveries'
  <2>1. Others(h) /\ \/ task'[h].by # "webhook"
                     \/ /\ task'[h].by = task[h].by /\ task'[h].s = task[h].s
                        /\ task'[h].event = task[h].event
    BY <1>8, ActivateDoes, IdleTyped DEF Leaves, Moves, Kept, Begins
  <2>2. QueuesGrow
    BY <1>8, ActivateDoes, SameQueues
  <2> QED
    BY <2>1, <2>2, MovedDelivery, SameDeliveries
<1>9. ASSUME NEW h \in Handlers, SetPlan(h) PROVE Deliveries'
  <2>1. Others(h) /\ \/ task'[h].by # "webhook"
                     \/ /\ task'[h].by = task[h].by /\ task'[h].s = task[h].s
                        /\ task'[h].event = task[h].event
    BY <1>9, SetPlanDoes, IdleTyped DEF Leaves, Moves, Kept, Begins
  <2>2. QueuesGrow
    BY <1>9, SetPlanDoes, SameQueues
  <2> QED
    BY <2>1, <2>2, MovedDelivery, SameDeliveries
<1>10. ASSUME NEW h \in Handlers, CancelReplaced(h) PROVE Deliveries'
  <2>1. Others(h) /\ \/ task'[h].by # "webhook"
                     \/ /\ task'[h].by = task[h].by /\ task'[h].s = task[h].s
                        /\ task'[h].event = task[h].event
    BY <1>10, CancelReplacedDoes, IdleTyped DEF Leaves, Moves, Kept, Begins
  <2>2. QueuesGrow
    <3>1. task[h].row.replaces \in Subs /\ (UNCHANGED queue \/ Stopped({task[h].row.replaces}))
      BY <1>10, CancelReplacedDoes
    <3> QED
      BY <3>1, SameQueues, StoppedQueues
  <2> QED
    BY <2>1, <2>2, MovedDelivery, SameDeliveries
<1>11. ASSUME NEW h \in Handlers, Retire(h) PROVE Deliveries'
  <2>1. Others(h) /\ \/ task'[h].by # "webhook"
                     \/ /\ task'[h].by = task[h].by /\ task'[h].s = task[h].s
                        /\ task'[h].event = task[h].event
    BY <1>11, RetireDoes, IdleTyped DEF Leaves, Moves, Kept, Begins
  <2>2. QueuesGrow
    BY <1>11, RetireDoes, SameQueues
  <2> QED
    BY <2>1, <2>2, MovedDelivery, SameDeliveries
<1>12. ASSUME NEW h \in Handlers, CreditReplaced(h) PROVE Deliveries'
  <2>1. Others(h) /\ \/ task'[h].by # "webhook"
                     \/ /\ task'[h].by = task[h].by /\ task'[h].s = task[h].s
                        /\ task'[h].event = task[h].event
    BY <1>12, CreditReplacedDoes, IdleTyped DEF Leaves, Moves, Kept, Begins
  <2>2. QueuesGrow
    BY <1>12, CreditReplacedDoes, SameQueues
  <2> QED
    BY <2>1, <2>2, MovedDelivery, SameDeliveries
<1>13. ASSUME NEW h \in Handlers, Invoice(h) PROVE Deliveries'
  BY InvoiceDoes, <1>13, AnsweredDeliveries
<1>14. ASSUME NEW h \in Handlers, Renew(h) PROVE Deliveries'
  <2>1. Others(h) /\ \/ task'[h].by # "webhook"
                     \/ /\ task'[h].by = task[h].by /\ task'[h].s = task[h].s
                        /\ task'[h].event = task[h].event
    BY <1>14, RenewDoes, IdleTyped DEF Leaves, Moves, Kept, Begins
  <2>2. QueuesGrow
    BY <1>14, RenewDoes, SameQueues
  <2> QED
    BY <2>1, <2>2, MovedDelivery, SameDeliveries
<1>15. ASSUME NEW h \in Handlers, Fail(h) PROVE Deliveries'
  BY FailDoes, <1>15, AnsweredDeliveries
<1>16. ASSUME NEW h \in Handlers, Halt(h) PROVE Deliveries'
  BY HaltDoes, <1>16, AnsweredDeliveries
<1>17. ASSUME NEW h \in Handlers, End(h) PROVE Deliveries'
  BY EndDoes, <1>17, AnsweredDeliveries
<1>18. ASSUME NEW h \in Handlers, EndToBuy(h) PROVE Deliveries'
  <2>1. Others(h) /\ \/ task'[h].by # "webhook"
                     \/ /\ task'[h].by = task[h].by /\ task'[h].s = task[h].s
                        /\ task'[h].event = task[h].event
    BY <1>18, EndToBuyDoes, IdleTyped DEF Leaves, Moves, Kept, Begins
  <2>2. QueuesGrow
    BY <1>18, EndToBuyDoes, SameQueues
  <2> QED
    BY <2>1, <2>2, MovedDelivery, SameDeliveries
<1>19. ASSUME NEW h \in Handlers, Browse(h) PROVE Deliveries'
  <2>1. Others(h) /\ \/ task'[h].by # "webhook"
                     \/ /\ task'[h].by = task[h].by /\ task'[h].s = task[h].s
                        /\ task'[h].event = task[h].event
    BY <1>19, BrowseDoes, IdleTyped DEF Leaves, Moves, Kept, Begins
  <2>2. QueuesGrow
    BY <1>19, BrowseDoes, SameQueues
  <2> QED
    BY <2>1, <2>2, MovedDelivery, SameDeliveries
<1>20. ASSUME NEW h \in Handlers, DropOpen(h) PROVE Deliveries'
  <2>1. Others(h) /\ \/ task'[h].by # "webhook"
                     \/ /\ task'[h].by = task[h].by /\ task'[h].s = task[h].s
                        /\ task'[h].event = task[h].event
    BY <1>20, DropOpenDoes, IdleTyped DEF Leaves, Moves, Kept, Begins
  <2>2. QueuesGrow
    BY <1>20, DropOpenDoes, SameQueues
  <2> QED
    BY <2>1, <2>2, MovedDelivery, SameDeliveries
<1>21. ASSUME NEW h \in Handlers, Subscribe(h) PROVE Deliveries'
  <2>1. UNCHANGED queue /\ (Leaves(h) \/ (Others(h) /\ task'[h].by = task[h].by))
    BY <1>21, SubscribeDoes
  <2>2. task[h].by # "webhook"
    BY <1>21, AtStep, SubscribeDoes DEF TaskInOrder, OfEvent, Activating
  <2>3. Others(h) /\ task'[h].by # "webhook"
    BY <2>1, <2>2, IdleTyped DEF Leaves
  <2> QED
    BY <2>1, <2>3, MovedDelivery, SameQueues, SameDeliveries
<1>22. ASSUME NEW h \in Handlers, Insert(h) PROVE Deliveries'
  <2>1. Others(h) /\ \/ task'[h].by # "webhook"
                     \/ /\ task'[h].by = task[h].by /\ task'[h].s = task[h].s
                        /\ task'[h].event = task[h].event
    BY <1>22, InsertDoes, IdleTyped DEF Leaves, Moves, Kept, Begins
  <2>2. QueuesGrow
    BY <1>22, InsertDoes, SameQueues
  <2> QED
    BY <2>1, <2>2, MovedDelivery, SameDeliveries
<1>23. ASSUME NEW h \in Handlers, Release(h) PROVE Deliveries'
  <2>1. Others(h) /\ \/ task'[h].by # "webhook"
                     \/ /\ task'[h].by = task[h].by /\ task'[h].s = task[h].s
                        /\ task'[h].event = task[h].event
    BY <1>23, ReleaseDoes, IdleTyped DEF Leaves, Moves, Kept, Begins
  <2>2. QueuesGrow
    BY <1>23, ReleasedQueues
  <2> QED
    BY <2>1, <2>2, MovedDelivery, SameDeliveries
<1>24. ASSUME NEW h \in Handlers, StopAtEnd(h) PROVE Deliveries'
  <2>1. Others(h) /\ \/ task'[h].by # "webhook"
                     \/ /\ task'[h].by = task[h].by /\ task'[h].s = task[h].s
                        /\ task'[h].event = task[h].event
    BY <1>24, StopAtEndDoes, IdleTyped DEF Leaves, Moves, Kept, Begins
  <2>2. QueuesGrow
    BY <1>24, StopAtEndDoes, SameQueues
  <2> QED
    BY <2>1, <2>2, MovedDelivery, SameDeliveries
<1>25. ASSUME NEW h \in Handlers, MarkEnds(h) PROVE Deliveries'
  <2>1. Others(h) /\ \/ task'[h].by # "webhook"
                     \/ /\ task'[h].by = task[h].by /\ task'[h].s = task[h].s
                        /\ task'[h].event = task[h].event
    BY <1>25, MarkEndsDoes, IdleTyped DEF Leaves, Moves, Kept, Begins
  <2>2. QueuesGrow
    BY <1>25, MarkEndsDoes, SameQueues
  <2> QED
    BY <2>1, <2>2, MovedDelivery, SameDeliveries
<1>26. ASSUME NEW h \in Handlers, Schedule(h) PROVE Deliveries'
  <2>1. Others(h) /\ \/ task'[h].by # "webhook"
                     \/ /\ task'[h].by = task[h].by /\ task'[h].s = task[h].s
                        /\ task'[h].event = task[h].event
    BY <1>26, ScheduleDoes, IdleTyped DEF Leaves, Moves, Kept, Begins
  <2>2. QueuesGrow
    BY <1>26, ScheduleDoes, SameQueues
  <2> QED
    BY <2>1, <2>2, MovedDelivery, SameDeliveries
<1>27. ASSUME NEW h \in Handlers, StopNow(h) PROVE Deliveries'
  <2>1. Others(h) /\ \/ task'[h].by # "webhook"
                     \/ /\ task'[h].by = task[h].by /\ task'[h].s = task[h].s
                        /\ task'[h].event = task[h].event
    BY <1>27, StopNowDoes, IdleTyped DEF Leaves, Moves, Kept, Begins
  <2>2. QueuesGrow
    <3>1. task[h].s \in Subs /\ (UNCHANGED queue \/ Stopped({task[h].s}))
      BY <1>27, StopNowDoes
    <3> QED
      BY <3>1, SameQueues, StoppedQueues
  <2> QED
    BY <2>1, <2>2, MovedDelivery, SameDeliveries
<1>28. ASSUME NEW h \in Handlers, Drop(h) PROVE Deliveries'
  <2>1. Others(h) /\ \/ task'[h].by # "webhook"
                     \/ /\ task'[h].by = task[h].by /\ task'[h].s = task[h].s
                        /\ task'[h].event = task[h].event
    BY <1>28, DropDoes, IdleTyped DEF Leaves, Moves, Kept, Begins
  <2>2. QueuesGrow
    BY <1>28, DropDoes, SameQueues
  <2> QED
    BY <2>1, <2>2, MovedDelivery, SameDeliveries
<1>29. ASSUME NEW h \in Handlers, Credit(h) PROVE Deliveries'
  <2>1. Others(h) /\ \/ task'[h].by # "webhook"
                     \/ /\ task'[h].by = task[h].by /\ task'[h].s = task[h].s
                        /\ task'[h].event = task[h].event
    BY <1>29, CreditDoes, IdleTyped DEF Leaves, Moves, Kept, Begins
  <2>2. QueuesGrow
    BY <1>29, CreditDoes, SameQueues
  <2> QED
    BY <2>1, <2>2, MovedDelivery, SameDeliveries
<1>30. ASSUME NEW h \in Handlers, Clear(h) PROVE Deliveries'
  <2>1. Others(h) /\ \/ task'[h].by # "webhook"
                     \/ /\ task'[h].by = task[h].by /\ task'[h].s = task[h].s
                        /\ task'[h].event = task[h].event
    BY <1>30, ClearDoes, IdleTyped DEF Leaves, Moves, Kept, Begins
  <2>2. QueuesGrow
    BY <1>30, ClearDoes, SameQueues
  <2> QED
    BY <2>1, <2>2, MovedDelivery, SameDeliveries
<1>31. ASSUME NEW h \in Handlers, GrantRow(h) PROVE Deliveries'
  <2>1. Others(h) /\ \/ task'[h].by # "webhook"
                     \/ /\ task'[h].by = task[h].by /\ task'[h].s = task[h].s
                        /\ task'[h].event = task[h].event
    BY <1>31, GrantRowDoes, IdleTyped DEF Leaves, Moves, Kept, Begins
  <2>2. QueuesGrow
    BY <1>31, GrantRowDoes, SameQueues
  <2> QED
    BY <2>1, <2>2, MovedDelivery, SameDeliveries
<1>32. ASSUME NEW h \in Handlers, Crash(h) PROVE Deliveries'
  <2>1. Others(h) /\ \/ task'[h].by # "webhook"
                     \/ /\ task'[h].by = task[h].by /\ task'[h].s = task[h].s
                        /\ task'[h].event = task[h].event
    BY <1>32, CrashDoes, IdleTyped DEF Leaves, Moves, Kept, Begins
  <2>2. QueuesGrow
    BY <1>32, CrashDoes, SameQueues
  <2> QED
    BY <2>1, <2>2, MovedDelivery, SameDeliveries
<1>33. ASSUME NEW h \in Handlers, NEW tier \in Tiers, Buy(h, tier) PROVE Deliveries'
  <2>1. Others(h) /\ \/ task'[h].by # "webhook"
                     \/ /\ task'[h].by = task[h].by /\ task'[h].s = task[h].s
                        /\ task'[h].event = task[h].event
    BY <1>33, BuyDoes, IdleTyped DEF Leaves, Moves, Kept, Begins
  <2>2. QueuesGrow
    BY <1>33, BuyDoes, SameQueues
  <2> QED
    BY <2>1, <2>2, MovedDelivery, SameDeliveries
<1>34. ASSUME NEW h \in Handlers, NEW tier \in Tiers, Grant(h, tier) PROVE Deliveries'
  <2>1. Others(h) /\ \/ task'[h].by # "webhook"
                     \/ /\ task'[h].by = task[h].by /\ task'[h].s = task[h].s
                        /\ task'[h].event = task[h].event
    BY <1>34, GrantDoes, IdleTyped DEF Leaves, Moves, Kept, Begins
  <2>2. QueuesGrow
    BY <1>34, GrantDoes, SameQueues
  <2> QED
    BY <2>1, <2>2, MovedDelivery, SameDeliveries
<1>35. ASSUME NEW h \in Handlers, NEW s \in Subs, Deliver(h, s) PROVE Deliveries'
  <2>1. CASE UNCHANGED task
    <3> SUFFICES ASSUME NEW k \in Handlers, task[k].by = "webhook"
                 PROVE  /\ queue'[task[k].s] # <<>> /\ task[k].event = Head(queue'[task[k].s])
                        /\ \A i \in Handlers : task[i].by = "webhook" /\ task[i].s = task[k].s
                                                  => i = k
      BY <2>1 DEF Deliveries
    <3>1. /\ queue[task[k].s] # <<>> /\ task[k].event = Head(queue[task[k].s])
          /\ \A i \in Handlers : task[i].by = "webhook" /\ task[i].s = task[k].s => i = k
      BY DEF TypeInv, Deliveries
    <3>2. task[k].s # s /\ task[k].s \in Subs
      BY <1>35, DeliverDoes, AtStep DEF TaskInOrder, OfEvent, Activating
    <3>3. queue'[task[k].s] = queue[task[k].s]
      BY <1>35, <3>2, DeliverDoes
    <3> QED
      BY <3>1, <3>3
  <2>2. CASE /\ UNCHANGED queue
             /\ Begins(h, "webhook", FirstStep(Head(queue[s]), sub[s]), s, sub[s],
                       Head(queue[s]), None, None, {})
    <3>1. /\ queue[s] # <<>> /\ \A k \in Handlers : task[k].by = "webhook" => task[k].s # s
          /\ Others(h) /\ task'[h].s = s /\ task'[h].event = Head(queue[s])
      <4>1. queue[s] # <<>> /\ \A k \in Handlers : task[k].by = "webhook" => task[k].s # s
        BY <1>35, DeliverDoes
      <4> QED
        BY <2>2, <4>1 DEF Begins
    <3> SUFFICES ASSUME NEW k \in Handlers, task'[k].by = "webhook"
                 PROVE  /\ queue[task'[k].s] # <<>> /\ task'[k].event = Head(queue[task'[k].s])
                        /\ \A i \in Handlers : task'[i].by = "webhook" /\ task'[i].s = task'[k].s
                                                  => i = k
      BY <2>2 DEF Deliveries
    <3>2. CASE k = h
      BY <3>1, <3>2 DEF Others
    <3>3. CASE k # h
      <4>1. task'[k] = task[k]
        BY <3>1, <3>3 DEF Others
      <4>2. /\ queue[task[k].s] # <<>> /\ task[k].event = Head(queue[task[k].s])
            /\ \A i \in Handlers : task[i].by = "webhook" /\ task[i].s = task[k].s => i = k
        BY <4>1 DEF TypeInv, Deliveries
      <4>3. task[k].s # s
        BY <3>1, <4>1
      <4> QED
        BY <3>1, <4>1, <4>2, <4>3 DEF Others
    <3> QED
      BY <3>2, <3>3
  <2> QED
    BY <1>35, <2>1, <2>2, DeliverDoes
<1>36. ASSUME NEW h \in Handlers, NEW s \in Subs, Callback(h, s) PROVE Deliveries'
  <2>1. Others(h) /\ \/ task'[h].by # "webhook"
                     \/ /\ task'[h].by = task[h].by /\ task'[h].s = task[h].s
                        /\ task'[h].event = task[h].event
    BY <1>36, CallbackDoes, IdleTyped DEF Leaves, Moves, Kept, Begins
  <2>2. QueuesGrow
    BY <1>36, CallbackDoes, SameQueues
  <2> QED
    BY <2>1, <2>2, MovedDelivery, SameDeliveries
<1>37. ASSUME NEW h \in Handlers, NEW s \in Subs, Overdue(h, s) PROVE Deliveries'
  <2>1. Others(h) /\ \/ task'[h].by # "webhook"
                     \/ /\ task'[h].by = task[h].by /\ task'[h].s = task[h].s
                        /\ task'[h].event = task[h].event
    BY <1>37, OverdueDoes, IdleTyped DEF Leaves, Moves, Kept, Begins
  <2>2. QueuesGrow
    BY <1>37, OverdueDoes, SameQueues
  <2> QED
    BY <2>1, <2>2, MovedDelivery, SameDeliveries
<1>38. ASSUME NEW h \in Handlers, NEW s \in Subs, Cancel(h, s) PROVE Deliveries'
  <2>1. Others(h) /\ \/ task'[h].by # "webhook"
                     \/ /\ task'[h].by = task[h].by /\ task'[h].s = task[h].s
                        /\ task'[h].event = task[h].event
    BY <1>38, CancelDoes, IdleTyped DEF Leaves, Moves, Kept, Begins
  <2>2. QueuesGrow
    BY <1>38, CancelDoes, SameQueues
  <2> QED
    BY <2>1, <2>2, MovedDelivery, SameDeliveries
<1>39. ASSUME NEW h \in Handlers, NEW s \in Subs, Revoke(h, s) PROVE Deliveries'
  <2>1. Others(h) /\ \/ task'[h].by # "webhook"
                     \/ /\ task'[h].by = task[h].by /\ task'[h].s = task[h].s
                        /\ task'[h].event = task[h].event
    BY <1>39, RevokeDoes, IdleTyped DEF Leaves, Moves, Kept, Begins
  <2>2. QueuesGrow
    BY <1>39, RevokeDoes, SameQueues
  <2> QED
    BY <2>1, <2>2, MovedDelivery, SameDeliveries
<1>40. ASSUME NEW h \in Handlers, NEW s \in Subs, NEW tier \in Tiers, ChangePlan(h, s, tier) PROVE
   Deliveries'
  <2>1. Others(h) /\ \/ task'[h].by # "webhook"
                     \/ /\ task'[h].by = task[h].by /\ task'[h].s = task[h].s
                        /\ task'[h].event = task[h].event
    BY <1>40, ChangePlanDoes, IdleTyped DEF Leaves, Moves, Kept, Begins
  <2>2. QueuesGrow
    BY <1>40, ChangePlanDoes, SameQueues
  <2> QED
    BY <2>1, <2>2, MovedDelivery, SameDeliveries
<1>41. ASSUME NEW h \in Handlers, NEW s \in Subs, NEW tier \in Tiers, ChangeAddon(h, s, tier)
   PROVE Deliveries'
  <2>1. Others(h) /\ \/ task'[h].by # "webhook"
                     \/ /\ task'[h].by = task[h].by /\ task'[h].s = task[h].s
                        /\ task'[h].event = task[h].event
    BY <1>41, ChangeAddonDoes, IdleTyped DEF Leaves, Moves, Kept, Begins
  <2>2. QueuesGrow
    BY <1>41, ChangeAddonDoes, SameQueues
  <2> QED
    BY <2>1, <2>2, MovedDelivery, SameDeliveries
<1>42. CASE UNCHANGED vars
  <2>1. NoNewDelivery /\ QueuesGrow
    BY <1>42 DEF vars, NoNewDelivery, QueuesGrow
  <2> QED
    BY <2>1, SameDeliveries
<1> QED
  BY <1>1, <1>2, <1>3, <1>4, <1>5, <1>6, <1>7, <1>8, <1>9, <1>10, <1>11, <1>12, <1>13, <1>14,
     <1>15, <1>16, <1>17, <1>18, <1>19, <1>20, <1>21, <1>22, <1>23, <1>24, <1>25, <1>26, <1>27,
     <1>28, <1>29, <1>30, <1>31, <1>32, <1>33, <1>34, <1>35, <1>36, <1>37, <1>38, <1>39, <1>40,
     <1>41, <1>42 DEF Next, Step

LEMMA TypeInvInit ==
    Init => TypeInv
<1> SUFFICES ASSUME Init PROVE TypeInv
  OBVIOUS
<1>1. TypeOK
  BY IdleTyped, Bounds DEF Init, TypeOK
<1>2. TasksInOrder
  BY IdleTyped DEF Init, TasksInOrder, TaskInOrder, OfEvent, Activating, Buying
<1>3. Deliveries
  BY IdleTyped DEF Init, Deliveries
<1>4. MandatesInOrder
  BY DEF Init, MandatesInOrder, MandateInOrder, NoMandate
<1> QED
  BY <1>1, <1>2, <1>3, <1>4 DEF TypeInv

LEMMA TypeInvNext ==
    TypeInv /\ [Next]_vars => TypeInv'
BY TypeOKKept, TasksKept, MandatesKept, DeliveriesKept DEF TypeInv

\* The rows, the subscriptions at Razorpay, the events on their way and what the handlers
\* do keep their types: no step writes a status, a date or a deadline that the columns of
\* billing_subscriptions do not hold, and no step is taken for a subscription that is not
\* there, in whatever order requests, deliveries and reads interleave.
THEOREM TypeCorrect == Spec => []TypeOK
<1>1. TypeInv => TypeOK
  BY DEF TypeInv
<1> QED
  BY <1>1, TypeInvInit, TypeInvNext, PTL DEF Spec

-----------------------------------------------------------------------------
(* How the rows, Razorpay and the handlers hang together.                  *)

\* It gives access, or would if it were paid.
Held(s) == sub[s].status \in {"active", "past_due", "halted"}

\* It was active once: no status leads back.
Was(s) == sub[s].status \notin {"none", "created"}

\* A checkout is nobody else's until it is handed over.
Checkout(h) ==
    task[h].step \in {"insert", "release"} =>
        /\ rzp[task[h].s].state = "open" /\ ~rzp[task[h].s].shown
        /\ task[h].step = "insert" => sub[task[h].s].status = "none"
        /\ task[h].step = "release" =>
              /\ sub[task[h].s].status \in {"created", "cancelled"}
              /\ sub[task[h].s].tier = task[h].tier /\ sub[task[h].s].replaces = task[h].old
        /\ \A k \in Handlers : task[k].step \in {"insert", "release"} /\ task[k].s = task[h].s
                                  => k = h

Checkouts == \A h \in Handlers : Checkout(h)

RowInOrder(s) ==
    /\ sub[s].status = "none" => sub[s] = NoRow /\ ~rzp[s].shown
    /\ sub[s].status # "none" => sub[s].tier \in Tiers /\ (sub[s].admin \/ rzp[s].state # "none")
    /\ sub[s].admin => rzp[s].state = "none" /\ Was(s)
    /\ rzp[s].shown => rzp[s].state # "none"
    /\ rzp[s].paid > 0 => rzp[s].shown
    /\ Held(s) => rzp[s].paid > 0 \/ sub[s].admin
    /\ rzp[s].state = "cancelled" \/ rzp[s].ends => Was(s)
    /\ rzp[s].due <= today + Period

RowsInOrder == \A s \in Subs : RowInOrder(s)

\* What a row replaces was active.
Replacing == \A s \in Subs : sub[s].replaces # None => Was(sub[s].replaces)

QueueInOrder(s) ==
    /\ queue[s] # <<>> => rzp[s].paid > 0
    /\ seen[s] => queue[s] # <<>>
    /\ \A i \in 1 .. Len(queue[s]) : /\ queue[s][i].type = "cancelled" => rzp[s].state = "cancelled"
                                     /\ queue[s][i].type = "activated" => queue[s][i].charge = 1

QueuesInOrder == \A s \in Subs : QueueInOrder(s)

\* Steps that are only taken for what was active.
OfWas == {"setPlan", "cancelReplaced", "retire", "creditReplaced", "invoice", "renew", "stopAtEnd",
          "schedule", "markEnds", "stopNow", "drop", "credit", "endToBuy"}

WorkInOrder(t) ==
    /\ t.by \in {"webhook", "callback"} => rzp[t.s].paid > 0
    /\ t.step \in OfWas => Was(t.s)
    /\ t.step \in {"halt", "end"} /\ t.by \in {"read", "admin"} => Was(t.s)
    /\ t.step \in {"dropOpen", "subscribe", "insert", "release"} => \A s \in t.halted : Was(s)
    /\ t.step = "clear" => \A s \in t.halted : sub[s].status # "none"
    /\ t.old # None => Was(t.old)
    /\ t.row.replaces # None => Was(t.row.replaces)
    /\ t.step \in {"activate", "setPlan", "cancelReplaced", "retire", "creditReplaced"} =>
          t.row.tier = sub[t.s].tier /\ t.row.replaces = sub[t.s].replaces
    /\ t.step = "fail" /\ sub[t.s].grace # None => t.row.grace = sub[t.s].grace

WorksInOrder == \A h \in Handlers : WorkInOrder(task[h])

\* It takes a place in the unique indexes of billing_subscriptions and org_addons.
Indexed(s) == sub[s].status \notin {"none", "cancelled"}

Unique ==
    \A s, t \in Subs : s # t /\ Indexed(s) /\ Indexed(t) => kind = "addon" /\ sub[s].tier # sub[t].tier

Struct ==
    /\ TypeInv /\ Checkouts /\ RowsInOrder /\ Replacing /\ QueuesInOrder /\ WorksInOrder /\ Unique

LEMMA AtRow ==
    ASSUME TypeInv, NEW s \in Subs
    PROVE  /\ sub[s] \in Row /\ sub[s].status \in Statuses /\ sub[s].tier \in Tiers \cup {None}
           /\ sub[s].end \in Nat /\ sub[s].grace \in Nat /\ sub[s].ends \in BOOLEAN
           /\ sub[s].scheduled \in Tiers \cup {None} /\ sub[s].replaces \in Subs \cup {None}
           /\ sub[s].admin \in BOOLEAN
           /\ queue[s] \in Seq(Event) /\ seen[s] \in BOOLEAN
<1>1. sub[s] \in Row /\ queue[s] \in Seq(Event) /\ seen[s] \in BOOLEAN
  BY DEF TypeInv, TypeOK
<1>2. 0 .. MaxDay + Grace \subseteq Nat
  BY Bounds
<1> QED
  BY <1>1, <1>2, RowFields

LEMMA StructAt ==
    ASSUME Struct, NEW s \in Subs
    PROVE  /\ RowInOrder(s) /\ QueueInOrder(s)
           /\ sub[s].replaces # None => Was(sub[s].replaces)
BY DEF Struct, RowsInOrder, QueuesInOrder, Replacing

LEMMA StructOf ==
    ASSUME Struct, NEW h \in Handlers
    PROVE  Checkout(h) /\ WorkInOrder(task[h])
BY DEF Struct, Checkouts, WorksInOrder

\* What was sold stays sold, and no status leads back.
RowLasts(s) ==
    /\ sub[s].status # "none" => sub'[s].status # "none" /\ Terms(s)
    /\ Was(s) => sub'[s].status \notin {"none", "created"}

\* What was paid stays paid, what Razorpay stopped stays stopped.
MandateLasts(s) ==
    /\ rzp'[s].paid >= rzp[s].paid
    /\ rzp[s].shown => rzp'[s].shown
    /\ rzp[s].state # "none" => rzp'[s].state # "none"
    /\ rzp[s].state \notin {"none", "open"} => rzp'[s].state \notin {"none", "open"}
    /\ rzp[s].state = "cancelled" => rzp'[s].state = "cancelled"
    /\ rzp[s].ends => rzp'[s].ends

RowsLast == \A s \in Subs : RowLasts(s)
MandatesLast == \A s \in Subs : MandateLasts(s)

LEMMA SameRowsLast ==
    ASSUME UNCHANGED sub
    PROVE  RowsLast
BY DEF RowsLast, RowLasts, Was, Terms

LEMMA OneRowLasts ==
    ASSUME NEW s \in Subs, OnlyRow(s), RowLasts(s)
    PROVE  RowsLast
BY DEF RowsLast, RowLasts, Was, Terms, OnlyRow

LEMMA SameMandatesLast ==
    ASSUME TypeInv, UNCHANGED rzp
    PROVE  MandatesLast
BY AtRazorpay DEF MandatesLast, MandateLasts

LEMMA OneMandateLasts ==
    ASSUME TypeInv, NEW s \in Subs, OnlyMandate(s), MandateLasts(s)
    PROVE  MandatesLast
BY AtRazorpay DEF MandatesLast, MandateLasts, OnlyMandate

LEMMA StoppedLast ==
    ASSUME TypeInv, NEW S \in SUBSET Subs, Stopped(S), \A s \in S : CanStop(s)
    PROVE  MandatesLast
BY AtRazorpay DEF MandatesLast, MandateLasts, Stopped, EndsAt, CanStop

LEMMA Counted ==
    ASSUME TypeInv, NEW s \in Subs
    PROVE  rzp[s].paid \in Nat /\ rzp[s].due \in Nat /\ rzp[s].tries \in Nat /\ today \in Nat
<1>1. rzp[s].paid \in 0 .. MaxCharges /\ rzp[s].due \in 0 .. MaxDay + Period
      /\ rzp[s].tries \in 0 .. MaxTries
  BY AtRazorpay
<1>2. today \in 1 .. MaxDay
  BY DEF TypeInv, TypeOK
<1> QED
  BY <1>1, <1>2, Bounds

LEMMA WorkedWas ==
    ASSUME Struct, NEW h \in Handlers, task[h].step \in OfWas
    PROVE  Was(task[h].s)
<1>1. WorkInOrder(task[h])
  BY StructOf
<1> QED
  BY <1>1 DEF WorkInOrder

LEMMA ReplacedWas ==
    ASSUME Struct, NEW h \in Handlers, task[h].row.replaces \in Subs
    PROVE  Was(task[h].row.replaces)
BY StructOf, Bounds DEF WorkInOrder

\* Only what has a row can be paid.
LEMMA PaidIsSold ==
    ASSUME Struct, NEW s \in Subs, rzp[s].paid > 0
    PROVE  sub[s].status # "none" /\ ~sub[s].admin
<1>1. TypeInv
  BY DEF Struct
<1> QED
  BY <1>1, StructAt, AtRazorpay DEF RowInOrder, MandateInOrder

LEMMA RowsLastAlways ==
    ASSUME Struct, [Next]_vars
    PROVE  RowsLast
<1>1. ASSUME Tick PROVE RowsLast
  <2> TypeInv
    BY DEF Struct
  <2> QED
    BY <1>1, TickDoes, SameRowsLast
<1>2. ASSUME NEW s \in Subs, Pay(s) PROVE RowsLast
  <2> TypeInv
    BY DEF Struct
  <2> QED
    BY <1>2, PayDoes, SameRowsLast
<1>3. ASSUME NEW s \in Subs, Charge(s) PROVE RowsLast
  <2> TypeInv
    BY DEF Struct
  <2> QED
    BY <1>3, ChargeDoes, SameRowsLast
<1>4. ASSUME NEW s \in Subs, Decline(s) PROVE RowsLast
  <2> TypeInv
    BY DEF Struct
  <2> QED
    BY <1>4, DeclineDoes, SameRowsLast
<1>5. ASSUME NEW s \in Subs, GiveUp(s) PROVE RowsLast
  <2> TypeInv
    BY DEF Struct
  <2> QED
    BY <1>5, GiveUpDoes, SameRowsLast
<1>6. ASSUME NEW s \in Subs, CycleEnds(s) PROVE RowsLast
  <2> TypeInv
    BY DEF Struct
  <2> QED
    BY <1>6, CycleEndsDoes, SameRowsLast
<1>7. ASSUME NEW h \in Handlers, ReadToActivate(h) PROVE RowsLast
  <2> TypeInv
    BY DEF Struct
  <2> QED
    BY <1>7, ReadToActivateDoes, SameRowsLast
<1>8. ASSUME NEW h \in Handlers, Activate(h) PROVE RowsLast
  <2> TypeInv
    BY DEF Struct
  <2> DEFINE s == task[h].s
  <2>1. s \in Subs /\ (OnlyRow(s) \/ sub' = sub)
    BY <1>8, ActivateDoes
  <2>2. sub[s].status # "none"
    BY <1>8, <2>1, ActivateDoes, PaidIsSold, StructOf, StructAt, AtStep
       DEF WorkInOrder, TaskInOrder, Activating, Buying, OfEvent, Was, OfWas
  <2>3. CASE sub' = sub
    BY <2>3, SameRowsLast
  <2>4. CASE OnlyRow(s) /\ sub' # sub
    <3>1. RowLasts(s)
      BY <1>8, <2>1, <2>2, <2>4, ActivateDoes DEF RowLasts, Was, Terms, Cancels
    <3> QED
      BY <2>1, <2>4, <3>1, OneRowLasts
  <2> QED
    BY <2>1, <2>3, <2>4
<1>9. ASSUME NEW h \in Handlers, SetPlan(h) PROVE RowsLast
  <2> TypeInv
    BY DEF Struct
  <2> QED
    BY <1>9, SetPlanDoes, SameRowsLast
<1>10. ASSUME NEW h \in Handlers, CancelReplaced(h) PROVE RowsLast
  <2> TypeInv
    BY DEF Struct
  <2> QED
    BY <1>10, CancelReplacedDoes, SameRowsLast
<1>11. ASSUME NEW h \in Handlers, Retire(h) PROVE RowsLast
  <2> TypeInv
    BY DEF Struct
  <2> DEFINE s == task[h].row.replaces
  <2>1. s \in Subs /\ (OnlyRow(s) \/ sub' = sub)
    BY <1>11, RetireDoes
  <2>2. sub[s].status # "none"
    BY <1>11, <2>1, RetireDoes, ReplacedWas DEF OfWas, Was
  <2>3. CASE sub' = sub
    BY <2>3, SameRowsLast
  <2>4. CASE OnlyRow(s) /\ sub' # sub
    <3>1. RowLasts(s)
      BY <1>11, <2>1, <2>2, <2>4, RetireDoes DEF RowLasts, Was, Terms, Cancels
    <3> QED
      BY <2>1, <2>4, <3>1, OneRowLasts
  <2> QED
    BY <2>1, <2>3, <2>4
<1>12. ASSUME NEW h \in Handlers, CreditReplaced(h) PROVE RowsLast
  <2> TypeInv
    BY DEF Struct
  <2> QED
    BY <1>12, CreditReplacedDoes, SameRowsLast
<1>13. ASSUME NEW h \in Handlers, Invoice(h) PROVE RowsLast
  <2> TypeInv
    BY DEF Struct
  <2> QED
    BY <1>13, InvoiceDoes, SameRowsLast
<1>14. ASSUME NEW h \in Handlers, Renew(h) PROVE RowsLast
  <2> TypeInv
    BY DEF Struct
  <2> DEFINE s == task[h].s
  <2>1. s \in Subs /\ (OnlyRow(s) \/ sub' = sub)
    BY <1>14, RenewDoes
  <2>2. sub[s].status # "none"
    BY <1>14, <2>1, RenewDoes, WorkedWas DEF OfWas, Was
  <2>3. CASE sub' = sub
    BY <2>3, SameRowsLast
  <2>4. CASE OnlyRow(s) /\ sub' # sub
    <3>1. RowLasts(s)
      BY <1>14, <2>1, <2>2, <2>4, RenewDoes DEF RowLasts, Was, Terms, Cancels
    <3> QED
      BY <2>1, <2>4, <3>1, OneRowLasts
  <2> QED
    BY <2>1, <2>3, <2>4
<1>15. ASSUME NEW h \in Handlers, Fail(h) PROVE RowsLast
  <2> TypeInv
    BY DEF Struct
  <2> DEFINE s == task[h].s
  <2>1. s \in Subs /\ (OnlyRow(s) \/ sub' = sub)
    BY <1>15, FailDoes
  <2>2. sub[s].status # "none" \/ sub' = sub
    BY <1>15, <2>1, FailDoes DEF IsLive
  <2>3. CASE sub' = sub
    BY <2>3, SameRowsLast
  <2>4. CASE OnlyRow(s) /\ sub' # sub
    <3>1. RowLasts(s)
      BY <1>15, <2>1, <2>2, <2>4, FailDoes DEF RowLasts, Was, Terms, Cancels
    <3> QED
      BY <2>1, <2>4, <3>1, OneRowLasts
  <2> QED
    BY <2>1, <2>3, <2>4
<1>16. ASSUME NEW h \in Handlers, Halt(h) PROVE RowsLast
  <2> TypeInv
    BY DEF Struct
  <2> DEFINE s == task[h].s
  <2>1. s \in Subs /\ (OnlyRow(s) \/ sub' = sub)
    BY <1>16, HaltDoes
  <2>2. sub[s].status # "none" \/ sub' = sub
    BY <1>16, <2>1, HaltDoes DEF IsLive
  <2>3. CASE sub' = sub
    BY <2>3, SameRowsLast
  <2>4. CASE OnlyRow(s) /\ sub' # sub
    <3>1. RowLasts(s)
      BY <1>16, <2>1, <2>2, <2>4, HaltDoes DEF RowLasts, Was, Terms, Cancels
    <3> QED
      BY <2>1, <2>4, <3>1, OneRowLasts
  <2> QED
    BY <2>1, <2>3, <2>4
<1>17. ASSUME NEW h \in Handlers, End(h) PROVE RowsLast
  <2> TypeInv
    BY DEF Struct
  <2> DEFINE s == task[h].s
  <2>1. s \in Subs /\ (OnlyRow(s) \/ sub' = sub)
    BY <1>17, EndDoes
  <2>2. sub[s].status # "none"
    BY <1>17, <2>1, EndDoes, PaidIsSold, StructOf, StructAt, AtStep
       DEF WorkInOrder, TaskInOrder, Activating, Buying, OfEvent, Was, OfWas
  <2>3. CASE sub' = sub
    BY <2>3, SameRowsLast
  <2>4. CASE OnlyRow(s) /\ sub' # sub
    <3>1. RowLasts(s)
      BY <1>17, <2>1, <2>2, <2>4, EndDoes DEF RowLasts, Was, Terms, Cancels
    <3> QED
      BY <2>1, <2>4, <3>1, OneRowLasts
  <2> QED
    BY <2>1, <2>3, <2>4
<1>18. ASSUME NEW h \in Handlers, EndToBuy(h) PROVE RowsLast
  <2> TypeInv
    BY DEF Struct
  <2> DEFINE s == task[h].s
  <2>1. s \in Subs /\ (OnlyRow(s) \/ sub' = sub)
    BY <1>18, EndToBuyDoes
  <2>2. sub[s].status # "none"
    BY <1>18, <2>1, EndToBuyDoes, WorkedWas DEF OfWas, Was
  <2>3. CASE sub' = sub
    BY <2>3, SameRowsLast
  <2>4. CASE OnlyRow(s) /\ sub' # sub
    <3>1. RowLasts(s)
      BY <1>18, <2>1, <2>2, <2>4, EndToBuyDoes DEF RowLasts, Was, Terms, Cancels
    <3> QED
      BY <2>1, <2>4, <3>1, OneRowLasts
  <2> QED
    BY <2>1, <2>3, <2>4
<1>19. ASSUME NEW h \in Handlers, Browse(h) PROVE RowsLast
  <2> TypeInv
    BY DEF Struct
  <2> QED
    BY <1>19, BrowseDoes, SameRowsLast
<1>20. ASSUME NEW h \in Handlers, DropOpen(h) PROVE RowsLast
  <2> TypeInv
    BY DEF Struct
  <2> QED
    BY <1>20, DropOpenDoes DEF RowsLast, RowLasts, Was, Terms, Cancels
<1>21. ASSUME NEW h \in Handlers, Subscribe(h) PROVE RowsLast
  <2> TypeInv
    BY DEF Struct
  <2> QED
    BY <1>21, SubscribeDoes, SameRowsLast
<1>22. ASSUME NEW h \in Handlers, Insert(h) PROVE RowsLast
  <2> TypeInv
    BY DEF Struct
  <2>1. CASE sub' = sub
    BY <2>1, SameRowsLast
  <2>2. CASE sub' # sub
    <3>1. sub[task[h].s].status = "none"
      BY <1>22, InsertDoes, StructOf DEF Checkout
    <3>2. \A i \in Retired(h) : sub[i].status # "none"
      BY <1>22, InsertDoes, StructOf DEF Retired, WorkInOrder, Was
    <3>3. /\ task[h].s \in Subs
          /\ \A i \in Subs \ {task[h].s} : IF i \in Retired(h) THEN Cancels(i) ELSE sub'[i] = sub[i]
      BY <1>22, <2>2, InsertDoes
    <3> QED
      BY <3>1, <3>2, <3>3 DEF RowsLast, RowLasts, Was, Terms, Cancels
  <2> QED
    BY <2>1, <2>2
<1>23. ASSUME NEW h \in Handlers, Release(h) PROVE RowsLast
  <2> TypeInv
    BY DEF Struct
  <2> QED
    BY <1>23, ReleaseDoes, SameRowsLast
<1>24. ASSUME NEW h \in Handlers, StopAtEnd(h) PROVE RowsLast
  <2> TypeInv
    BY DEF Struct
  <2> QED
    BY <1>24, StopAtEndDoes, SameRowsLast
<1>25. ASSUME NEW h \in Handlers, MarkEnds(h) PROVE RowsLast
  <2> TypeInv
    BY DEF Struct
  <2> DEFINE s == task[h].s
  <2>1. s \in Subs /\ (OnlyRow(s) \/ sub' = sub)
    BY <1>25, MarkEndsDoes
  <2>2. sub[s].status # "none"
    BY <1>25, <2>1, MarkEndsDoes, WorkedWas DEF OfWas, Was
  <2>3. CASE sub' = sub
    BY <2>3, SameRowsLast
  <2>4. CASE OnlyRow(s) /\ sub' # sub
    <3>1. RowLasts(s)
      BY <1>25, <2>1, <2>2, <2>4, MarkEndsDoes DEF RowLasts, Was, Terms, Cancels
    <3> QED
      BY <2>1, <2>4, <3>1, OneRowLasts
  <2> QED
    BY <2>1, <2>3, <2>4
<1>26. ASSUME NEW h \in Handlers, Schedule(h) PROVE RowsLast
  <2> TypeInv
    BY DEF Struct
  <2> DEFINE s == task[h].s
  <2>1. s \in Subs /\ (OnlyRow(s) \/ sub' = sub)
    BY <1>26, ScheduleDoes
  <2>2. sub[s].status # "none"
    BY <1>26, <2>1, ScheduleDoes, WorkedWas DEF OfWas, Was
  <2>3. CASE sub' = sub
    BY <2>3, SameRowsLast
  <2>4. CASE OnlyRow(s) /\ sub' # sub
    <3>1. RowLasts(s)
      BY <1>26, <2>1, <2>2, <2>4, ScheduleDoes DEF RowLasts, Was, Terms, Cancels
    <3> QED
      BY <2>1, <2>4, <3>1, OneRowLasts
  <2> QED
    BY <2>1, <2>3, <2>4
<1>27. ASSUME NEW h \in Handlers, StopNow(h) PROVE RowsLast
  <2> TypeInv
    BY DEF Struct
  <2> QED
    BY <1>27, StopNowDoes, SameRowsLast
<1>28. ASSUME NEW h \in Handlers, Drop(h) PROVE RowsLast
  <2> TypeInv
    BY DEF Struct
  <2> DEFINE s == task[h].s
  <2>1. s \in Subs /\ (OnlyRow(s) \/ sub' = sub)
    BY <1>28, DropDoes
  <2>2. sub[s].status # "none"
    BY <1>28, <2>1, DropDoes, WorkedWas DEF OfWas, Was
  <2>3. CASE sub' = sub
    BY <2>3, SameRowsLast
  <2>4. CASE OnlyRow(s) /\ sub' # sub
    <3>1. RowLasts(s)
      BY <1>28, <2>1, <2>2, <2>4, DropDoes DEF RowLasts, Was, Terms, Cancels
    <3> QED
      BY <2>1, <2>4, <3>1, OneRowLasts
  <2> QED
    BY <2>1, <2>3, <2>4
<1>29. ASSUME NEW h \in Handlers, Credit(h) PROVE RowsLast
  <2> TypeInv
    BY DEF Struct
  <2> QED
    BY <1>29, CreditDoes, SameRowsLast
<1>30. ASSUME NEW h \in Handlers, Clear(h) PROVE RowsLast
  <2> TypeInv
    BY DEF Struct
  <2>1. \A s \in task[h].halted : sub[s].status # "none"
    BY <1>30, ClearDoes, StructOf DEF WorkInOrder
  <2> QED
    BY <1>30, <2>1, ClearDoes DEF RowsLast, RowLasts, Was, Terms, Cancels
<1>31. ASSUME NEW h \in Handlers, GrantRow(h) PROVE RowsLast
  <2> TypeInv
    BY DEF Struct
  <2>1. CASE sub' = sub
    BY <2>1, SameRowsLast
  <2>2. CASE sub' # sub
    <3>1. Next1 \in Subs /\ sub[Next1].status = "none" /\ OnlyRow(Next1)
      BY <1>31, <2>2, GrantRowDoes DEF Fresh
    <3>2. RowLasts(Next1)
      BY <3>1 DEF RowLasts, Was
    <3> QED
      BY <3>1, <3>2, OneRowLasts
  <2> QED
    BY <2>1, <2>2
<1>32. ASSUME NEW h \in Handlers, Crash(h) PROVE RowsLast
  <2> TypeInv
    BY DEF Struct
  <2> QED
    BY <1>32, CrashDoes, SameRowsLast
<1>33. ASSUME NEW h \in Handlers, NEW tier \in Tiers, Buy(h, tier) PROVE RowsLast
  <2> TypeInv
    BY DEF Struct
  <2> QED
    BY <1>33, BuyDoes, SameRowsLast
<1>34. ASSUME NEW h \in Handlers, NEW tier \in Tiers, Grant(h, tier) PROVE RowsLast
  <2> TypeInv
    BY DEF Struct
  <2> QED
    BY <1>34, GrantDoes, SameRowsLast
<1>35. ASSUME NEW h \in Handlers, NEW s \in Subs, Deliver(h, s) PROVE RowsLast
  <2> TypeInv
    BY DEF Struct
  <2> QED
    BY <1>35, DeliverDoes, SameRowsLast
<1>36. ASSUME NEW h \in Handlers, NEW s \in Subs, Callback(h, s) PROVE RowsLast
  <2> TypeInv
    BY DEF Struct
  <2> QED
    BY <1>36, CallbackDoes, SameRowsLast
<1>37. ASSUME NEW h \in Handlers, NEW s \in Subs, Overdue(h, s) PROVE RowsLast
  <2> TypeInv
    BY DEF Struct
  <2> QED
    BY <1>37, OverdueDoes, SameRowsLast
<1>38. ASSUME NEW h \in Handlers, NEW s \in Subs, Cancel(h, s) PROVE RowsLast
  <2> TypeInv
    BY DEF Struct
  <2> QED
    BY <1>38, CancelDoes, SameRowsLast
<1>39. ASSUME NEW h \in Handlers, NEW s \in Subs, Revoke(h, s) PROVE RowsLast
  <2> TypeInv
    BY DEF Struct
  <2> QED
    BY <1>39, RevokeDoes, SameRowsLast
<1>40. ASSUME NEW h \in Handlers, NEW s \in Subs, NEW tier \in Tiers, ChangePlan(h, s, tier) PROVE
   RowsLast
  <2> TypeInv
    BY DEF Struct
  <2> QED
    BY <1>40, ChangePlanDoes, SameRowsLast
<1>41. ASSUME NEW h \in Handlers, NEW s \in Subs, NEW tier \in Tiers, ChangeAddon(h, s, tier)
   PROVE RowsLast
  <2> TypeInv
    BY DEF Struct
  <2> QED
    BY <1>41, ChangeAddonDoes, SameRowsLast
<1>42. CASE UNCHANGED vars
  BY <1>42, SameRowsLast DEF vars
<1> QED
  BY <1>1, <1>2, <1>3, <1>4, <1>5, <1>6, <1>7, <1>8, <1>9, <1>10, <1>11, <1>12, <1>13, <1>14,
     <1>15, <1>16, <1>17, <1>18, <1>19, <1>20, <1>21, <1>22, <1>23, <1>24, <1>25, <1>26, <1>27,
     <1>28, <1>29, <1>30, <1>31, <1>32, <1>33, <1>34, <1>35, <1>36, <1>37, <1>38, <1>39, <1>40,
     <1>41, <1>42 DEF Next, Step

LEMMA MandatesLastAlways ==
    ASSUME Struct, [Next]_vars
    PROVE  MandatesLast
<1>1. ASSUME Tick PROVE MandatesLast
  <2> TypeInv
    BY DEF Struct
  <2> QED
    <3> SUFFICES ASSUME NEW s \in Subs PROVE MandateLasts(s)
      BY DEF MandatesLast
    <3>1. rzp[s].paid \in Nat
      BY Counted
    <3>2. rzp'[s].paid = rzp[s].paid
      BY <1>1, TickDoes
    <3>3. rzp'[s].paid >= rzp[s].paid
      BY <3>1, <3>2
    <3> QED
      BY <1>1, <3>3, TickDoes DEF MandateLasts
<1>2. ASSUME NEW s \in Subs, Pay(s) PROVE MandatesLast
  <2> TypeInv
    BY DEF Struct
  <2>1. OnlyMandate(s)
    BY <1>2, PayDoes DEF Unpaid
  <2>2. rzp'[s].paid >= rzp[s].paid
    <3>1. rzp[s].paid \in Nat
      BY Counted
    <3>2. rzp'[s].paid = 1 /\ rzp[s].paid = 0
      BY <1>2, PayDoes, AtRazorpay DEF Unpaid, MandateInOrder
    <3> QED
      BY <3>1, <3>2
  <2>3. MandateLasts(s)
    BY <1>2, <2>2, PayDoes, AtRazorpay DEF MandateLasts, Unpaid
  <2> QED
    BY <2>1, <2>3, OneMandateLasts
<1>3. ASSUME NEW s \in Subs, Charge(s) PROVE MandatesLast
  <2> TypeInv
    BY DEF Struct
  <2>1. OnlyMandate(s)
    BY <1>3, ChargeDoes DEF Unpaid
  <2>2. rzp'[s].paid >= rzp[s].paid
    <3>1. rzp[s].paid \in Nat
      BY Counted
    <3>2. rzp'[s].paid = rzp[s].paid + 1
      BY <1>3, ChargeDoes, AtRazorpay DEF Unpaid, MandateInOrder
    <3> QED
      BY <3>1, <3>2
  <2>3. MandateLasts(s)
    BY <1>3, <2>2, ChargeDoes, AtRazorpay DEF MandateLasts, Unpaid
  <2> QED
    BY <2>1, <2>3, OneMandateLasts
<1>4. ASSUME NEW s \in Subs, Decline(s) PROVE MandatesLast
  <2> TypeInv
    BY DEF Struct
  <2>1. OnlyMandate(s)
    BY <1>4, DeclineDoes DEF Unpaid
  <2>2. rzp'[s].paid >= rzp[s].paid
    <3>1. rzp[s].paid \in Nat
      BY Counted
    <3>2. rzp'[s].paid = rzp[s].paid
      BY <1>4, DeclineDoes, AtRazorpay DEF Unpaid, MandateInOrder
    <3> QED
      BY <3>1, <3>2
  <2>3. MandateLasts(s)
    BY <1>4, <2>2, DeclineDoes, AtRazorpay DEF MandateLasts, Unpaid
  <2> QED
    BY <2>1, <2>3, OneMandateLasts
<1>5. ASSUME NEW s \in Subs, GiveUp(s) PROVE MandatesLast
  <2> TypeInv
    BY DEF Struct
  <2>1. OnlyMandate(s)
    BY <1>5, GiveUpDoes DEF Unpaid
  <2>2. rzp'[s].paid >= rzp[s].paid
    <3>1. rzp[s].paid \in Nat
      BY Counted
    <3>2. rzp'[s].paid = rzp[s].paid
      BY <1>5, GiveUpDoes, AtRazorpay DEF Unpaid, MandateInOrder
    <3> QED
      BY <3>1, <3>2
  <2>3. MandateLasts(s)
    BY <1>5, <2>2, GiveUpDoes, AtRazorpay DEF MandateLasts, Unpaid
  <2> QED
    BY <2>1, <2>3, OneMandateLasts
<1>6. ASSUME NEW s \in Subs, CycleEnds(s) PROVE MandatesLast
  <2> TypeInv
    BY DEF Struct
  <2> QED
    BY <1>6, CycleEndsDoes, StoppedLast DEF CanStop
<1>7. ASSUME NEW h \in Handlers, ReadToActivate(h) PROVE MandatesLast
  <2> TypeInv
    BY DEF Struct
  <2> QED
    BY <1>7, ReadToActivateDoes, SameMandatesLast
<1>8. ASSUME NEW h \in Handlers, Activate(h) PROVE MandatesLast
  <2> TypeInv
    BY DEF Struct
  <2> QED
    BY <1>8, ActivateDoes, SameMandatesLast
<1>9. ASSUME NEW h \in Handlers, SetPlan(h) PROVE MandatesLast
  <2> TypeInv
    BY DEF Struct
  <2> QED
    BY <1>9, SetPlanDoes, SameMandatesLast
<1>10. ASSUME NEW h \in Handlers, CancelReplaced(h) PROVE MandatesLast
  <2> TypeInv
    BY DEF Struct
  <2> DEFINE o == task[h].row.replaces
  <2>1. o \in Subs /\ (UNCHANGED rzp \/ (CanStop(o) /\ Stopped({o})))
    BY <1>10, CancelReplacedDoes
  <2>2. CASE UNCHANGED rzp
    BY <2>2, SameMandatesLast
  <2>3. CASE CanStop(o) /\ Stopped({o})
    <3> HIDE DEF o
    <3> QED
      BY <2>1, <2>3, StoppedLast
  <2> QED
    BY <2>1, <2>2, <2>3
<1>11. ASSUME NEW h \in Handlers, Retire(h) PROVE MandatesLast
  <2> TypeInv
    BY DEF Struct
  <2> QED
    BY <1>11, RetireDoes, SameMandatesLast
<1>12. ASSUME NEW h \in Handlers, CreditReplaced(h) PROVE MandatesLast
  <2> TypeInv
    BY DEF Struct
  <2> QED
    BY <1>12, CreditReplacedDoes, SameMandatesLast
<1>13. ASSUME NEW h \in Handlers, Invoice(h) PROVE MandatesLast
  <2> TypeInv
    BY DEF Struct
  <2> QED
    BY <1>13, InvoiceDoes, SameMandatesLast
<1>14. ASSUME NEW h \in Handlers, Renew(h) PROVE MandatesLast
  <2> TypeInv
    BY DEF Struct
  <2> QED
    BY <1>14, RenewDoes, SameMandatesLast
<1>15. ASSUME NEW h \in Handlers, Fail(h) PROVE MandatesLast
  <2> TypeInv
    BY DEF Struct
  <2> QED
    BY <1>15, FailDoes, SameMandatesLast
<1>16. ASSUME NEW h \in Handlers, Halt(h) PROVE MandatesLast
  <2> TypeInv
    BY DEF Struct
  <2> QED
    BY <1>16, HaltDoes, SameMandatesLast
<1>17. ASSUME NEW h \in Handlers, End(h) PROVE MandatesLast
  <2> TypeInv
    BY DEF Struct
  <2> QED
    BY <1>17, EndDoes, SameMandatesLast
<1>18. ASSUME NEW h \in Handlers, EndToBuy(h) PROVE MandatesLast
  <2> TypeInv
    BY DEF Struct
  <2> QED
    BY <1>18, EndToBuyDoes, SameMandatesLast
<1>19. ASSUME NEW h \in Handlers, Browse(h) PROVE MandatesLast
  <2> TypeInv
    BY DEF Struct
  <2> QED
    BY <1>19, BrowseDoes, SameMandatesLast
<1>20. ASSUME NEW h \in Handlers, DropOpen(h) PROVE MandatesLast
  <2> TypeInv
    BY DEF Struct
  <2> QED
    BY <1>20, DropOpenDoes, SameMandatesLast
<1>21. ASSUME NEW h \in Handlers, Subscribe(h) PROVE MandatesLast
  <2> TypeInv
    BY DEF Struct
  <2>1. CASE UNCHANGED rzp
    BY <2>1, SameMandatesLast
  <2>2. CASE rzp' # rzp
    <3>1. Next1 \in Subs
      BY <1>21, <2>2, SubscribeDoes DEF Fresh
    <3>2. OnlyMandate(Next1) /\ rzp'[Next1].paid = rzp[Next1].paid
      BY <1>21, <2>2, SubscribeDoes
    <3>3. rzp[Next1].paid \in Nat
      BY <3>1, Counted
    <3>4. rzp'[Next1].paid >= rzp[Next1].paid
      BY <3>2, <3>3
    <3>5. MandateLasts(Next1)
      BY <1>21, <2>2, <3>1, <3>4, SubscribeDoes DEF MandateLasts, Fresh
    <3> QED
      BY <3>1, <3>2, <3>5, OneMandateLasts
  <2> QED
    BY <2>1, <2>2
<1>22. ASSUME NEW h \in Handlers, Insert(h) PROVE MandatesLast
  <2> TypeInv
    BY DEF Struct
  <2> QED
    BY <1>22, InsertDoes, SameMandatesLast
<1>23. ASSUME NEW h \in Handlers, Release(h) PROVE MandatesLast
  <2> TypeInv
    BY DEF Struct
  <2> SUFFICES ASSUME NEW s \in Subs
               PROVE  MandateLasts(s)
    BY DEF MandatesLast
  <2>1. task[h].step = "release" /\ task[h].s \in Subs
        /\ \/ CanStop(s) /\ EndsAt(s)
           \/ s = task[h].s /\ ShownTo(s, task[h].by)
           \/ rzp'[s] = rzp[s]
    BY <1>23, ReleaseDoes
  <2>2. ~rzp[task[h].s].shown
    BY <2>1, StructOf DEF Checkout
  <2> QED
    BY <2>1, <2>2, AtRazorpay DEF MandateLasts, EndsAt, ShownTo, CanStop
<1>24. ASSUME NEW h \in Handlers, StopAtEnd(h) PROVE MandatesLast
  <2> TypeInv
    BY DEF Struct
  <2>1. CASE UNCHANGED rzp
    BY <2>1, SameMandatesLast
  <2>2. CASE rzp' # rzp
    <3>1. task[h].s \in Subs
      BY <1>24, <2>2, StopAtEndDoes DEF Fresh
    <3>2. OnlyMandate(task[h].s) /\ rzp'[task[h].s].paid = rzp[task[h].s].paid
      BY <1>24, <2>2, StopAtEndDoes
    <3>3. rzp[task[h].s].paid \in Nat
      BY <3>1, Counted
    <3>4. rzp'[task[h].s].paid >= rzp[task[h].s].paid
      BY <3>2, <3>3
    <3>5. MandateLasts(task[h].s)
      BY <1>24, <2>2, <3>1, <3>4, StopAtEndDoes DEF MandateLasts, Fresh
    <3> QED
      BY <3>1, <3>2, <3>5, OneMandateLasts
  <2> QED
    BY <2>1, <2>2
<1>25. ASSUME NEW h \in Handlers, MarkEnds(h) PROVE MandatesLast
  <2> TypeInv
    BY DEF Struct
  <2> QED
    BY <1>25, MarkEndsDoes, SameMandatesLast
<1>26. ASSUME NEW h \in Handlers, Schedule(h) PROVE MandatesLast
  <2> TypeInv
    BY DEF Struct
  <2> QED
    BY <1>26, ScheduleDoes, SameMandatesLast
<1>27. ASSUME NEW h \in Handlers, StopNow(h) PROVE MandatesLast
  <2> TypeInv
    BY DEF Struct
  <2> DEFINE o == task[h].s
  <2>1. o \in Subs /\ (UNCHANGED rzp \/ (CanStop(o) /\ Stopped({o})))
    BY <1>27, StopNowDoes
  <2>2. CASE UNCHANGED rzp
    BY <2>2, SameMandatesLast
  <2>3. CASE CanStop(o) /\ Stopped({o})
    <3> HIDE DEF o
    <3> QED
      BY <2>1, <2>3, StoppedLast
  <2> QED
    BY <2>1, <2>2, <2>3
<1>28. ASSUME NEW h \in Handlers, Drop(h) PROVE MandatesLast
  <2> TypeInv
    BY DEF Struct
  <2> QED
    BY <1>28, DropDoes, SameMandatesLast
<1>29. ASSUME NEW h \in Handlers, Credit(h) PROVE MandatesLast
  <2> TypeInv
    BY DEF Struct
  <2> QED
    BY <1>29, CreditDoes, SameMandatesLast
<1>30. ASSUME NEW h \in Handlers, Clear(h) PROVE MandatesLast
  <2> TypeInv
    BY DEF Struct
  <2> QED
    BY <1>30, ClearDoes, SameMandatesLast
<1>31. ASSUME NEW h \in Handlers, GrantRow(h) PROVE MandatesLast
  <2> TypeInv
    BY DEF Struct
  <2> QED
    BY <1>31, GrantRowDoes, SameMandatesLast
<1>32. ASSUME NEW h \in Handlers, Crash(h) PROVE MandatesLast
  <2> TypeInv
    BY DEF Struct
  <2> QED
    BY <1>32, CrashDoes, SameMandatesLast
<1>33. ASSUME NEW h \in Handlers, NEW tier \in Tiers, Buy(h, tier) PROVE MandatesLast
  <2> TypeInv
    BY DEF Struct
  <2> QED
    BY <1>33, BuyDoes, SameMandatesLast
<1>34. ASSUME NEW h \in Handlers, NEW tier \in Tiers, Grant(h, tier) PROVE MandatesLast
  <2> TypeInv
    BY DEF Struct
  <2> QED
    BY <1>34, GrantDoes, SameMandatesLast
<1>35. ASSUME NEW h \in Handlers, NEW s \in Subs, Deliver(h, s) PROVE MandatesLast
  <2> TypeInv
    BY DEF Struct
  <2> QED
    BY <1>35, DeliverDoes, SameMandatesLast
<1>36. ASSUME NEW h \in Handlers, NEW s \in Subs, Callback(h, s) PROVE MandatesLast
  <2> TypeInv
    BY DEF Struct
  <2>1. OnlyMandate(s)
    BY <1>36, CallbackDoes DEF Unpaid
  <2>2. rzp'[s].paid >= rzp[s].paid
    <3>1. rzp[s].paid \in Nat
      BY Counted
    <3>2. rzp'[s].paid = rzp[s].paid
      BY <1>36, CallbackDoes, AtRazorpay DEF Unpaid, MandateInOrder
    <3> QED
      BY <3>1, <3>2
  <2>3. MandateLasts(s)
    BY <1>36, <2>2, CallbackDoes, AtRazorpay DEF MandateLasts, Unpaid
  <2> QED
    BY <2>1, <2>3, OneMandateLasts
<1>37. ASSUME NEW h \in Handlers, NEW s \in Subs, Overdue(h, s) PROVE MandatesLast
  <2> TypeInv
    BY DEF Struct
  <2> QED
    BY <1>37, OverdueDoes, SameMandatesLast
<1>38. ASSUME NEW h \in Handlers, NEW s \in Subs, Cancel(h, s) PROVE MandatesLast
  <2> TypeInv
    BY DEF Struct
  <2> QED
    BY <1>38, CancelDoes, SameMandatesLast
<1>39. ASSUME NEW h \in Handlers, NEW s \in Subs, Revoke(h, s) PROVE MandatesLast
  <2> TypeInv
    BY DEF Struct
  <2> QED
    BY <1>39, RevokeDoes, SameMandatesLast
<1>40. ASSUME NEW h \in Handlers, NEW s \in Subs, NEW tier \in Tiers, ChangePlan(h, s, tier) PROVE
   MandatesLast
  <2> TypeInv
    BY DEF Struct
  <2> QED
    BY <1>40, ChangePlanDoes, SameMandatesLast
<1>41. ASSUME NEW h \in Handlers, NEW s \in Subs, NEW tier \in Tiers, ChangeAddon(h, s, tier)
   PROVE MandatesLast
  <2> TypeInv
    BY DEF Struct
  <2> QED
    BY <1>41, ChangeAddonDoes, SameMandatesLast
<1>42. CASE UNCHANGED vars
  <2> TypeInv
    BY DEF Struct
  <2> QED
    BY <1>42, SameMandatesLast DEF vars
<1> QED
  BY <1>1, <1>2, <1>3, <1>4, <1>5, <1>6, <1>7, <1>8, <1>9, <1>10, <1>11, <1>12, <1>13, <1>14,
     <1>15, <1>16, <1>17, <1>18, <1>19, <1>20, <1>21, <1>22, <1>23, <1>24, <1>25, <1>26, <1>27,
     <1>28, <1>29, <1>30, <1>31, <1>32, <1>33, <1>34, <1>35, <1>36, <1>37, <1>38, <1>39, <1>40,
     <1>41, <1>42 DEF Next, Step

LEMMA RowUntouched ==
    ASSUME Struct, NEW s \in Subs, sub'[s] = sub[s], rzp'[s] = rzp[s], today' = today
    PROVE  RowInOrder(s)'
BY StructAt DEF RowInOrder, Held, Was

\* A row that was sold is written.
LEMMA RowWritten ==
    ASSUME Struct, NEW s \in Subs, sub[s].status # "none", RowLasts(s), rzp'[s] = rzp[s],
           today' = today,
           sub'[s].status \in {"active", "past_due", "halted"} => Held(s) \/ rzp[s].paid > 0
    PROVE  RowInOrder(s)'
<1>1. RowInOrder(s) /\ sub'[s].status # "none"
  BY StructAt DEF RowLasts
<1> QED
  BY <1>1 DEF RowInOrder, RowLasts, Held, Was, Terms

\* Razorpay goes on with a subscription that was sold.
LEMMA MandateWritten ==
    ASSUME Struct, NEW s \in Subs, sub'[s] = sub[s], sub[s].status # "none", ~sub[s].admin,
           MandateLasts(s), rzp'[s].paid \in Nat, rzp'[s].state # "none", rzp'[s].paid > 0 => rzp'[s].shown,
           rzp'[s].state = "cancelled" \/ rzp'[s].ends => Was(s),
           rzp'[s].due <= today' + Period
    PROVE  RowInOrder(s)'
<1>1. RowInOrder(s)
  BY StructAt
<1>2. rzp[s].paid > 0 => rzp'[s].paid > 0
  BY Counted DEF Struct, MandateLasts
<1> QED
  BY <1>1, <1>2 DEF RowInOrder, Held, Was


\* Razorpay stops what was active.
LEMMA RowStopped ==
    ASSUME Struct, NEW s \in Subs, sub'[s] = sub[s], today' = today, EndsAt(s), CanStop(s), Was(s)
    PROVE  RowInOrder(s)'
<1>1. TypeInv
  BY DEF Struct
<1>2. RowInOrder(s) /\ rzp'[s].paid = rzp[s].paid
  BY StructAt DEF EndsAt
<1> QED
  BY <1>1, <1>2 DEF RowInOrder, Held, Was, EndsAt, CanStop

LEMMA RowsKept ==
    ASSUME Struct, [Next]_vars
    PROVE  RowsInOrder'
<1>1. ASSUME Tick PROVE RowsInOrder'
  <2>0. TypeInv /\ RowsLast /\ MandatesLast
    BY RowsLastAlways, MandatesLastAlways DEF Struct
  <2> SUFFICES ASSUME NEW t \in Subs
               PROVE  RowInOrder(t)'
    BY DEF RowsInOrder
  <2>1. UNCHANGED sub /\ today' = today + 1
    BY <1>1, <2>0, TickDoes
  <2>2. /\ rzp'[t].state = rzp[t].state /\ rzp'[t].due = rzp[t].due /\ rzp'[t].ends = rzp[t].ends
        /\ rzp'[t].paid = rzp[t].paid /\ rzp'[t].shown = rzp[t].shown
    BY <1>1, <2>0, TickDoes
  <2>3. RowInOrder(t) /\ rzp[t].due \in Nat /\ today \in Nat /\ Period \in Nat
    BY <2>0, StructAt, Counted, Bounds
  <2>4. rzp'[t].due <= today' + Period
    BY <2>1, <2>2, <2>3 DEF RowInOrder
  <2> QED
    BY <2>1, <2>2, <2>3, <2>4 DEF RowInOrder, Held, Was
<1>2. ASSUME NEW s \in Subs, Pay(s) PROVE RowsInOrder'
  <2>0. TypeInv /\ RowsLast /\ MandatesLast
    BY RowsLastAlways, MandatesLastAlways DEF Struct
  <2> SUFFICES ASSUME NEW t \in Subs
               PROVE  RowInOrder(t)'
    BY DEF RowsInOrder
  <2>1. s \in Subs /\ UNCHANGED <<sub, today>> /\ (t # s => rzp'[t] = rzp[t])
    BY <1>2, <2>0, PayDoes DEF OnlyMandate, Unpaid
  <2>2. RowInOrder(s) /\ MandateInOrder(rzp[s]) /\ rzp[s].paid \in Nat /\ rzp[s].due \in Nat
        /\ today \in Nat /\ Period \in Nat /\ MandateLasts(s)
    BY <2>0, <2>1, StructAt, AtRazorpay, Counted, Bounds DEF MandatesLast
  <2>6. rzp[s].state = "open" /\ rzp[s].shown
    BY <1>2, <2>0, PayDoes
  <2>3. sub[s].status # "none" /\ ~sub[s].admin
    BY <2>2, <2>6 DEF RowInOrder, MandateInOrder, Was
  <2>4. rzp'[s].paid \in Nat /\ rzp'[s].due <= today' + Period
    <3>1. rzp'[s].paid = 1 /\ rzp'[s].due = today + Period
      BY <1>2, <2>0, PayDoes DEF Unpaid
    <3> QED
      BY <2>1, <2>2, <3>1 DEF RowInOrder
  <2>5. /\ rzp'[s].state # "none" /\ (rzp'[s].paid > 0 => rzp'[s].shown)
        /\ (rzp'[s].state = "cancelled" \/ rzp'[s].ends => Was(s))
    <3>1. rzp'[s].shown = rzp[s].shown /\ rzp'[s].ends = rzp[s].ends /\ rzp'[s].state \in {"active", "pending", "halted"}
      BY <1>2, <2>0, PayDoes DEF Unpaid
    <3> QED
      BY <2>2, <2>6, <3>1 DEF RowInOrder, MandateInOrder
  <2> QED
    BY <2>1, <2>2, <2>3, <2>4, <2>5, RowUntouched, MandateWritten
<1>3. ASSUME NEW s \in Subs, Charge(s) PROVE RowsInOrder'
  <2>0. TypeInv /\ RowsLast /\ MandatesLast
    BY RowsLastAlways, MandatesLastAlways DEF Struct
  <2> SUFFICES ASSUME NEW t \in Subs
               PROVE  RowInOrder(t)'
    BY DEF RowsInOrder
  <2>1. s \in Subs /\ UNCHANGED <<sub, today>> /\ (t # s => rzp'[t] = rzp[t])
    BY <1>3, <2>0, ChargeDoes DEF OnlyMandate, Unpaid
  <2>2. RowInOrder(s) /\ MandateInOrder(rzp[s]) /\ rzp[s].paid \in Nat /\ rzp[s].due \in Nat
        /\ today \in Nat /\ Period \in Nat /\ MandateLasts(s)
    BY <2>0, <2>1, StructAt, AtRazorpay, Counted, Bounds DEF MandatesLast
  <2>6. rzp[s].state \in {"active", "pending", "halted"}
    BY <1>3, <2>0, ChargeDoes
  <2>3. sub[s].status # "none" /\ ~sub[s].admin
    BY <2>2, <2>6 DEF RowInOrder, MandateInOrder, Was
  <2>4. rzp'[s].paid \in Nat /\ rzp'[s].due <= today' + Period
    <3>1. rzp'[s].paid = rzp[s].paid + 1 /\ rzp'[s].due = today + Period
      BY <1>3, <2>0, ChargeDoes DEF Unpaid
    <3> QED
      BY <2>1, <2>2, <3>1 DEF RowInOrder
  <2>5. /\ rzp'[s].state # "none" /\ (rzp'[s].paid > 0 => rzp'[s].shown)
        /\ (rzp'[s].state = "cancelled" \/ rzp'[s].ends => Was(s))
    <3>1. rzp'[s].shown = rzp[s].shown /\ rzp'[s].ends = rzp[s].ends /\ rzp'[s].state \in {"active", "pending", "halted"}
      BY <1>3, <2>0, ChargeDoes DEF Unpaid
    <3> QED
      BY <2>2, <2>6, <3>1 DEF RowInOrder, MandateInOrder
  <2> QED
    BY <2>1, <2>2, <2>3, <2>4, <2>5, RowUntouched, MandateWritten
<1>4. ASSUME NEW s \in Subs, Decline(s) PROVE RowsInOrder'
  <2>0. TypeInv /\ RowsLast /\ MandatesLast
    BY RowsLastAlways, MandatesLastAlways DEF Struct
  <2> SUFFICES ASSUME NEW t \in Subs
               PROVE  RowInOrder(t)'
    BY DEF RowsInOrder
  <2>1. s \in Subs /\ UNCHANGED <<sub, today>> /\ (t # s => rzp'[t] = rzp[t])
    BY <1>4, <2>0, DeclineDoes DEF OnlyMandate, Unpaid
  <2>2. RowInOrder(s) /\ MandateInOrder(rzp[s]) /\ rzp[s].paid \in Nat /\ rzp[s].due \in Nat
        /\ today \in Nat /\ Period \in Nat /\ MandateLasts(s)
    BY <2>0, <2>1, StructAt, AtRazorpay, Counted, Bounds DEF MandatesLast
  <2>6. rzp[s].state \in {"active", "pending", "halted"}
    BY <1>4, <2>0, DeclineDoes
  <2>3. sub[s].status # "none" /\ ~sub[s].admin
    BY <2>2, <2>6 DEF RowInOrder, MandateInOrder, Was
  <2>4. rzp'[s].paid \in Nat /\ rzp'[s].due <= today' + Period
    <3>1. rzp'[s].paid = rzp[s].paid /\ rzp'[s].due = rzp[s].due
      BY <1>4, <2>0, DeclineDoes DEF Unpaid
    <3> QED
      BY <2>1, <2>2, <3>1 DEF RowInOrder
  <2>5. /\ rzp'[s].state # "none" /\ (rzp'[s].paid > 0 => rzp'[s].shown)
        /\ (rzp'[s].state = "cancelled" \/ rzp'[s].ends => Was(s))
    <3>1. rzp'[s].shown = rzp[s].shown /\ rzp'[s].ends = rzp[s].ends /\ rzp'[s].state \in {"active", "pending", "halted"}
      BY <1>4, <2>0, DeclineDoes DEF Unpaid
    <3> QED
      BY <2>2, <2>6, <3>1 DEF RowInOrder, MandateInOrder
  <2> QED
    BY <2>1, <2>2, <2>3, <2>4, <2>5, RowUntouched, MandateWritten
<1>5. ASSUME NEW s \in Subs, GiveUp(s) PROVE RowsInOrder'
  <2>0. TypeInv /\ RowsLast /\ MandatesLast
    BY RowsLastAlways, MandatesLastAlways DEF Struct
  <2> SUFFICES ASSUME NEW t \in Subs
               PROVE  RowInOrder(t)'
    BY DEF RowsInOrder
  <2>1. s \in Subs /\ UNCHANGED <<sub, today>> /\ (t # s => rzp'[t] = rzp[t])
    BY <1>5, <2>0, GiveUpDoes DEF OnlyMandate, Unpaid
  <2>2. RowInOrder(s) /\ MandateInOrder(rzp[s]) /\ rzp[s].paid \in Nat /\ rzp[s].due \in Nat
        /\ today \in Nat /\ Period \in Nat /\ MandateLasts(s)
    BY <2>0, <2>1, StructAt, AtRazorpay, Counted, Bounds DEF MandatesLast
  <2>6. rzp[s].state \in {"active", "pending", "halted"}
    BY <1>5, <2>0, GiveUpDoes
  <2>3. sub[s].status # "none" /\ ~sub[s].admin
    BY <2>2, <2>6 DEF RowInOrder, MandateInOrder, Was
  <2>4. rzp'[s].paid \in Nat /\ rzp'[s].due <= today' + Period
    <3>1. rzp'[s].paid = rzp[s].paid /\ rzp'[s].due = rzp[s].due
      BY <1>5, <2>0, GiveUpDoes DEF Unpaid
    <3> QED
      BY <2>1, <2>2, <3>1 DEF RowInOrder
  <2>5. /\ rzp'[s].state # "none" /\ (rzp'[s].paid > 0 => rzp'[s].shown)
        /\ (rzp'[s].state = "cancelled" \/ rzp'[s].ends => Was(s))
    <3>1. rzp'[s].shown = rzp[s].shown /\ rzp'[s].ends = rzp[s].ends /\ rzp'[s].state \in {"active", "pending", "halted"}
      BY <1>5, <2>0, GiveUpDoes DEF Unpaid
    <3> QED
      BY <2>2, <2>6, <3>1 DEF RowInOrder, MandateInOrder
  <2> QED
    BY <2>1, <2>2, <2>3, <2>4, <2>5, RowUntouched, MandateWritten
<1>6. ASSUME NEW s \in Subs, CycleEnds(s) PROVE RowsInOrder'
  <2>0. TypeInv /\ RowsLast /\ MandatesLast
    BY RowsLastAlways, MandatesLastAlways DEF Struct
  <2> SUFFICES ASSUME NEW t \in Subs
               PROVE  RowInOrder(t)'
    BY DEF RowsInOrder
  <2>1. UNCHANGED <<sub, today>> /\ (t # s => rzp'[t] = rzp[t]) /\ EndsAt(s) /\ CanStop(s)
    BY <1>6, <2>0, CycleEndsDoes DEF Stopped, CanStop
  <2>2. Was(s)
    BY <1>6, <2>0, CycleEndsDoes, StructAt DEF RowInOrder
  <2> QED
    BY <2>1, <2>2, RowUntouched, RowStopped
<1>7. ASSUME NEW h \in Handlers, ReadToActivate(h) PROVE RowsInOrder'
  <2>0. TypeInv /\ RowsLast /\ MandatesLast
    BY RowsLastAlways, MandatesLastAlways DEF Struct
  <2> SUFFICES ASSUME NEW t \in Subs
               PROVE  RowInOrder(t)'
    BY DEF RowsInOrder
  <2>1. sub'[t] = sub[t] /\ rzp'[t] = rzp[t] /\ today' = today
    BY <1>7, <2>0, ReadToActivateDoes
  <2> QED
    BY <2>1, RowUntouched
<1>8. ASSUME NEW h \in Handlers, Activate(h) PROVE RowsInOrder'
  <2>0. TypeInv /\ RowsLast /\ MandatesLast
    BY RowsLastAlways, MandatesLastAlways DEF Struct
  <2> SUFFICES ASSUME NEW t \in Subs
               PROVE  RowInOrder(t)'
    BY DEF RowsInOrder
  <2> DEFINE s == task[h].s
  <2>1. s \in Subs /\ (t # s => sub'[t] = sub[t]) /\ UNCHANGED <<rzp, today>>
    BY <1>8, <2>0, ActivateDoes DEF OnlyRow
  <2>2. sub[s].status # "none" /\ rzp[s].paid > 0
    BY <1>8, <2>0, ActivateDoes, PaidIsSold, StructOf, AtStep
       DEF WorkInOrder, TaskInOrder, Activating, Buying, OfEvent, Was, OfWas
  <2>3. sub'[s] = sub[s] \/ sub[s].status # "none"
    BY <2>2
  <2>4. sub'[s].status \in {"active", "past_due", "halted"} => Held(s) \/ rzp[s].paid > 0
    BY <1>8, <2>0, <2>2, ActivateDoes DEF Held, Cancels
  <2>5. RowLasts(s)
    BY <2>0, <2>1 DEF RowsLast
  <2> HIDE DEF s
  <2> QED
    BY <2>1, <2>3, <2>4, <2>5, RowUntouched, RowWritten
<1>9. ASSUME NEW h \in Handlers, SetPlan(h) PROVE RowsInOrder'
  <2>0. TypeInv /\ RowsLast /\ MandatesLast
    BY RowsLastAlways, MandatesLastAlways DEF Struct
  <2> SUFFICES ASSUME NEW t \in Subs
               PROVE  RowInOrder(t)'
    BY DEF RowsInOrder
  <2>1. sub'[t] = sub[t] /\ rzp'[t] = rzp[t] /\ today' = today
    BY <1>9, <2>0, SetPlanDoes
  <2> QED
    BY <2>1, RowUntouched
<1>10. ASSUME NEW h \in Handlers, CancelReplaced(h) PROVE RowsInOrder'
  <2>0. TypeInv /\ RowsLast /\ MandatesLast
    BY RowsLastAlways, MandatesLastAlways DEF Struct
  <2> SUFFICES ASSUME NEW t \in Subs
               PROVE  RowInOrder(t)'
    BY DEF RowsInOrder
  <2> DEFINE s == task[h].row.replaces
  <2>1. s \in Subs /\ UNCHANGED <<sub, today>>
        /\ (rzp' = rzp \/ (Stopped({s}) /\ CanStop(s)))
    BY <1>10, <2>0, CancelReplacedDoes
  <2>2. Was(s)
    BY <1>10, <2>0, <2>1, CancelReplacedDoes, ReplacedWas
  <2> HIDE DEF s
  <2>3. CASE rzp' = rzp
    BY <2>1, <2>3, RowUntouched
  <2>4. CASE Stopped({s}) /\ CanStop(s)
    <3>1. EndsAt(s) /\ (t # s => rzp'[t] = rzp[t])
      BY <2>1, <2>4 DEF Stopped
    <3> QED
      BY <2>1, <2>2, <2>4, <3>1, RowUntouched, RowStopped
  <2> QED
    BY <2>1, <2>3, <2>4
<1>11. ASSUME NEW h \in Handlers, Retire(h) PROVE RowsInOrder'
  <2>0. TypeInv /\ RowsLast /\ MandatesLast
    BY RowsLastAlways, MandatesLastAlways DEF Struct
  <2> SUFFICES ASSUME NEW t \in Subs
               PROVE  RowInOrder(t)'
    BY DEF RowsInOrder
  <2> DEFINE s == task[h].row.replaces
  <2>1. s \in Subs /\ (t # s => sub'[t] = sub[t]) /\ UNCHANGED <<rzp, today>>
    BY <1>11, <2>0, RetireDoes DEF OnlyRow
  <2>2. sub[s].status # "none"
    BY <1>11, <2>0, RetireDoes, ReplacedWas DEF Was
  <2>3. sub'[s] = sub[s] \/ sub[s].status # "none"
    BY <2>2
  <2>4. sub'[s].status \in {"active", "past_due", "halted"} => Held(s) \/ rzp[s].paid > 0
    BY <1>11, <2>0, <2>2, RetireDoes DEF Held, Cancels
  <2>5. RowLasts(s)
    BY <2>0, <2>1 DEF RowsLast
  <2> HIDE DEF s
  <2> QED
    BY <2>1, <2>3, <2>4, <2>5, RowUntouched, RowWritten
<1>12. ASSUME NEW h \in Handlers, CreditReplaced(h) PROVE RowsInOrder'
  <2>0. TypeInv /\ RowsLast /\ MandatesLast
    BY RowsLastAlways, MandatesLastAlways DEF Struct
  <2> SUFFICES ASSUME NEW t \in Subs
               PROVE  RowInOrder(t)'
    BY DEF RowsInOrder
  <2>1. sub'[t] = sub[t] /\ rzp'[t] = rzp[t] /\ today' = today
    BY <1>12, <2>0, CreditReplacedDoes
  <2> QED
    BY <2>1, RowUntouched
<1>13. ASSUME NEW h \in Handlers, Invoice(h) PROVE RowsInOrder'
  <2>0. TypeInv /\ RowsLast /\ MandatesLast
    BY RowsLastAlways, MandatesLastAlways DEF Struct
  <2> SUFFICES ASSUME NEW t \in Subs
               PROVE  RowInOrder(t)'
    BY DEF RowsInOrder
  <2>1. sub'[t] = sub[t] /\ rzp'[t] = rzp[t] /\ today' = today
    BY <1>13, <2>0, InvoiceDoes
  <2> QED
    BY <2>1, RowUntouched
<1>14. ASSUME NEW h \in Handlers, Renew(h) PROVE RowsInOrder'
  <2>0. TypeInv /\ RowsLast /\ MandatesLast
    BY RowsLastAlways, MandatesLastAlways DEF Struct
  <2> SUFFICES ASSUME NEW t \in Subs
               PROVE  RowInOrder(t)'
    BY DEF RowsInOrder
  <2> DEFINE s == task[h].s
  <2>1. s \in Subs /\ (t # s => sub'[t] = sub[t]) /\ UNCHANGED <<rzp, today>>
    BY <1>14, <2>0, RenewDoes DEF OnlyRow
  <2>2. sub[s].status # "none" /\ rzp[s].paid > 0
    BY <1>14, <2>0, RenewDoes, WorkedWas, AtStep, StructOf
       DEF OfWas, Was, WorkInOrder, TaskInOrder, Buying
  <2>3. sub'[s] = sub[s] \/ sub[s].status # "none"
    BY <2>2
  <2>4. sub'[s].status \in {"active", "past_due", "halted"} => Held(s) \/ rzp[s].paid > 0
    BY <1>14, <2>0, <2>2, RenewDoes DEF Held, Cancels
  <2>5. RowLasts(s)
    BY <2>0, <2>1 DEF RowsLast
  <2> HIDE DEF s
  <2> QED
    BY <2>1, <2>3, <2>4, <2>5, RowUntouched, RowWritten
<1>15. ASSUME NEW h \in Handlers, Fail(h) PROVE RowsInOrder'
  <2>0. TypeInv /\ RowsLast /\ MandatesLast
    BY RowsLastAlways, MandatesLastAlways DEF Struct
  <2> SUFFICES ASSUME NEW t \in Subs
               PROVE  RowInOrder(t)'
    BY DEF RowsInOrder
  <2> DEFINE s == task[h].s
  <2>1. s \in Subs /\ (t # s => sub'[t] = sub[t]) /\ UNCHANGED <<rzp, today>>
    BY <1>15, <2>0, FailDoes DEF OnlyRow
  <2>2. sub'[s] = sub[s] \/ (sub[s].status # "none" /\ Held(s))
    BY <1>15, <2>0, FailDoes DEF IsLive, Held
  <2>3. sub'[s] = sub[s] \/ sub[s].status # "none"
    BY <2>2
  <2>4. sub'[s].status \in {"active", "past_due", "halted"} => Held(s) \/ rzp[s].paid > 0
    BY <1>15, <2>0, <2>2, FailDoes DEF Held, Cancels
  <2>5. RowLasts(s)
    BY <2>0, <2>1 DEF RowsLast
  <2> HIDE DEF s
  <2> QED
    BY <2>1, <2>3, <2>4, <2>5, RowUntouched, RowWritten
<1>16. ASSUME NEW h \in Handlers, Halt(h) PROVE RowsInOrder'
  <2>0. TypeInv /\ RowsLast /\ MandatesLast
    BY RowsLastAlways, MandatesLastAlways DEF Struct
  <2> SUFFICES ASSUME NEW t \in Subs
               PROVE  RowInOrder(t)'
    BY DEF RowsInOrder
  <2> DEFINE s == task[h].s
  <2>1. s \in Subs /\ (t # s => sub'[t] = sub[t]) /\ UNCHANGED <<rzp, today>>
    BY <1>16, <2>0, HaltDoes DEF OnlyRow
  <2>2. sub'[s] = sub[s] \/ (sub[s].status # "none" /\ Held(s))
    BY <1>16, <2>0, HaltDoes DEF IsLive, Held
  <2>3. sub'[s] = sub[s] \/ sub[s].status # "none"
    BY <2>2
  <2>4. sub'[s].status \in {"active", "past_due", "halted"} => Held(s) \/ rzp[s].paid > 0
    BY <1>16, <2>0, <2>2, HaltDoes DEF Held, Cancels
  <2>5. RowLasts(s)
    BY <2>0, <2>1 DEF RowsLast
  <2> HIDE DEF s
  <2> QED
    BY <2>1, <2>3, <2>4, <2>5, RowUntouched, RowWritten
<1>17. ASSUME NEW h \in Handlers, End(h) PROVE RowsInOrder'
  <2>0. TypeInv /\ RowsLast /\ MandatesLast
    BY RowsLastAlways, MandatesLastAlways DEF Struct
  <2> SUFFICES ASSUME NEW t \in Subs
               PROVE  RowInOrder(t)'
    BY DEF RowsInOrder
  <2> DEFINE s == task[h].s
  <2>1. s \in Subs /\ (t # s => sub'[t] = sub[t]) /\ UNCHANGED <<rzp, today>>
    BY <1>17, <2>0, EndDoes DEF OnlyRow
  <2>2. sub[s].status # "none"
    BY <1>17, <2>0, EndDoes, PaidIsSold, StructOf, AtStep
       DEF WorkInOrder, TaskInOrder, Activating, Buying, OfEvent, Was, OfWas
  <2>3. sub'[s] = sub[s] \/ sub[s].status # "none"
    BY <2>2
  <2>4. sub'[s].status \in {"active", "past_due", "halted"} => Held(s) \/ rzp[s].paid > 0
    BY <1>17, <2>0, <2>2, EndDoes DEF Held, Cancels
  <2>5. RowLasts(s)
    BY <2>0, <2>1 DEF RowsLast
  <2> HIDE DEF s
  <2> QED
    BY <2>1, <2>3, <2>4, <2>5, RowUntouched, RowWritten
<1>18. ASSUME NEW h \in Handlers, EndToBuy(h) PROVE RowsInOrder'
  <2>0. TypeInv /\ RowsLast /\ MandatesLast
    BY RowsLastAlways, MandatesLastAlways DEF Struct
  <2> SUFFICES ASSUME NEW t \in Subs
               PROVE  RowInOrder(t)'
    BY DEF RowsInOrder
  <2> DEFINE s == task[h].s
  <2>1. s \in Subs /\ (t # s => sub'[t] = sub[t]) /\ UNCHANGED <<rzp, today>>
    BY <1>18, <2>0, EndToBuyDoes DEF OnlyRow
  <2>2. sub[s].status # "none"
    BY <1>18, <2>0, EndToBuyDoes, WorkedWas DEF OfWas, Was
  <2>3. sub'[s] = sub[s] \/ sub[s].status # "none"
    BY <2>2
  <2>4. sub'[s].status \in {"active", "past_due", "halted"} => Held(s) \/ rzp[s].paid > 0
    BY <1>18, <2>0, <2>2, EndToBuyDoes DEF Held, Cancels
  <2>5. RowLasts(s)
    BY <2>0, <2>1 DEF RowsLast
  <2> HIDE DEF s
  <2> QED
    BY <2>1, <2>3, <2>4, <2>5, RowUntouched, RowWritten
<1>19. ASSUME NEW h \in Handlers, Browse(h) PROVE RowsInOrder'
  <2>0. TypeInv /\ RowsLast /\ MandatesLast
    BY RowsLastAlways, MandatesLastAlways DEF Struct
  <2> SUFFICES ASSUME NEW t \in Subs
               PROVE  RowInOrder(t)'
    BY DEF RowsInOrder
  <2>1. sub'[t] = sub[t] /\ rzp'[t] = rzp[t] /\ today' = today
    BY <1>19, <2>0, BrowseDoes
  <2> QED
    BY <2>1, RowUntouched
<1>20. ASSUME NEW h \in Handlers, DropOpen(h) PROVE RowsInOrder'
  <2>0. TypeInv /\ RowsLast /\ MandatesLast
    BY RowsLastAlways, MandatesLastAlways DEF Struct
  <2> SUFFICES ASSUME NEW t \in Subs
               PROVE  RowInOrder(t)'
    BY DEF RowsInOrder
  <2>1. UNCHANGED <<rzp, today>>
        /\ \/ sub'[t] = sub[t]
           \/ sub[t].status # "none" /\ sub'[t].status = "cancelled"
    BY <1>20, <2>0, DropOpenDoes DEF Cancels
  <2> QED
    BY <2>0, <2>1, RowUntouched, RowWritten DEF RowsLast
<1>21. ASSUME NEW h \in Handlers, Subscribe(h) PROVE RowsInOrder'
  <2>0. TypeInv /\ RowsLast /\ MandatesLast
    BY RowsLastAlways, MandatesLastAlways DEF Struct
  <2> SUFFICES ASSUME NEW t \in Subs
               PROVE  RowInOrder(t)'
    BY DEF RowsInOrder
  <2>1. UNCHANGED <<sub, today>>
        /\ \/ rzp'[t] = rzp[t]
           \/ /\ t \in Fresh /\ rzp'[t].state = "open" /\ rzp'[t].due = rzp[t].due
              /\ rzp'[t].ends = rzp[t].ends /\ rzp'[t].paid = rzp[t].paid
              /\ rzp'[t].shown = rzp[t].shown
    BY <1>21, <2>0, SubscribeDoes DEF OnlyMandate
  <2>2. RowInOrder(t)
    BY StructAt
  <2>3. CASE rzp'[t] = rzp[t]
    BY <2>1, <2>3, RowUntouched
  <2>4. CASE rzp'[t] # rzp[t]
    BY <2>1, <2>2, <2>4 DEF RowInOrder, Held, Was, Fresh, NoRow
  <2> QED
    BY <2>3, <2>4
<1>22. ASSUME NEW h \in Handlers, Insert(h) PROVE RowsInOrder'
  <2>0. TypeInv /\ RowsLast /\ MandatesLast
    BY RowsLastAlways, MandatesLastAlways DEF Struct
  <2> SUFFICES ASSUME NEW t \in Subs
               PROVE  RowInOrder(t)'
    BY DEF RowsInOrder
  <2> DEFINE s == task[h].s
  <2>1. s \in Subs /\ UNCHANGED <<rzp, today>> /\ task[h].tier \in Tiers
        /\ task[h].step = "insert"
    BY <1>22, <2>0, InsertDoes
  <2>2. rzp[s].state = "open" /\ ~rzp[s].shown
    BY <2>1, StructOf DEF Checkout
  <2>3. CASE t = s /\ sub'[s] # sub[s]
    <3>1. sub'[s].status = "created" /\ sub'[s].tier = task[h].tier /\ sub'[s].admin = FALSE
      BY <1>22, <2>0, <2>3, InsertDoes
    <3>2. RowInOrder(s) /\ MandateInOrder(rzp[s])
      BY <2>0, <2>1, StructAt, AtRazorpay
    <3> QED
      BY <2>1, <2>2, <2>3, <3>1, <3>2 DEF RowInOrder, Held, Was, MandateInOrder
  <2>4. CASE t # s
    <3>1. \/ sub'[t] = sub[t]
          \/ t \in Retired(h) /\ sub'[t].status = "cancelled"
      BY <1>22, <2>0, <2>4, InsertDoes DEF Cancels
    <3>2. t \in Retired(h) => sub[t].status # "none"
      BY <2>1, StructOf DEF Retired, WorkInOrder, Was
    <3> QED
      BY <2>0, <2>1, <3>1, <3>2, RowUntouched, RowWritten DEF RowsLast
  <2>5. CASE sub'[t] = sub[t]
    BY <2>1, <2>5, RowUntouched
  <2> QED
    BY <2>3, <2>4, <2>5
<1>23. ASSUME NEW h \in Handlers, Release(h) PROVE RowsInOrder'
  <2>0. TypeInv /\ RowsLast /\ MandatesLast
    BY RowsLastAlways, MandatesLastAlways DEF Struct
  <2> SUFFICES ASSUME NEW t \in Subs
               PROVE  RowInOrder(t)'
    BY DEF RowsInOrder
  <2>1. /\ task[h].step = "release" /\ task[h].s \in Subs /\ UNCHANGED <<sub, today>>
        /\ \/ t \in task[h].halted /\ CanStop(t) /\ EndsAt(t)
           \/ t = task[h].s /\ ShownTo(t, task[h].by)
           \/ rzp'[t] = rzp[t]
    BY <1>23, <2>0, ReleaseDoes
  <2>2. CASE t \in task[h].halted /\ CanStop(t) /\ EndsAt(t)
    <3>1. Was(t)
      BY <2>1, <2>2, StructOf DEF WorkInOrder
    <3> QED
      BY <2>1, <2>2, <3>1, RowStopped
  <2>3. CASE t = task[h].s /\ ShownTo(t, task[h].by)
    <3>1. rzp[t].state = "open" /\ sub[t].status \in {"created", "cancelled"}
      BY <2>1, <2>3, StructOf DEF Checkout
    <3>2. RowInOrder(t) /\ MandateInOrder(rzp[t])
      BY <2>0, StructAt, AtRazorpay
    <3> QED
      BY <2>1, <2>3, <3>1, <3>2 DEF RowInOrder, ShownTo, Held, Was, MandateInOrder
  <2>4. CASE rzp'[t] = rzp[t]
    BY <2>1, <2>4, RowUntouched
  <2> QED
    BY <2>1, <2>2, <2>3, <2>4
<1>24. ASSUME NEW h \in Handlers, StopAtEnd(h) PROVE RowsInOrder'
  <2>0. TypeInv /\ RowsLast /\ MandatesLast
    BY RowsLastAlways, MandatesLastAlways DEF Struct
  <2> SUFFICES ASSUME NEW t \in Subs
               PROVE  RowInOrder(t)'
    BY DEF RowsInOrder
  <2> DEFINE s == task[h].s
  <2>1. s \in Subs /\ UNCHANGED <<sub, today>> /\ (t # s => rzp'[t] = rzp[t])
    BY <1>24, <2>0, StopAtEndDoes DEF OnlyMandate, Unpaid
  <2>2. RowInOrder(s) /\ MandateInOrder(rzp[s]) /\ rzp[s].paid \in Nat /\ rzp[s].due \in Nat
        /\ today \in Nat /\ Period \in Nat /\ MandateLasts(s)
    BY <2>0, <2>1, StructAt, AtRazorpay, Counted, Bounds DEF MandatesLast
  <2>3. Was(s) /\ sub[s].status # "none" /\ (rzp'[s] # rzp[s] => ~sub[s].admin)
    BY <1>24, <2>0, <2>2, StopAtEndDoes, WorkedWas DEF RowInOrder, MandateInOrder, Was, OfWas, CanStop
  <2>6. CASE UNCHANGED rzp
    BY <2>1, <2>6, RowUntouched
  <2>7. CASE rzp'[s] # rzp[s]
    <3>1. rzp'[s].paid = rzp[s].paid /\ rzp'[s].due = rzp[s].due /\ rzp'[s].shown = rzp[s].shown
          /\ rzp'[s].state = rzp[s].state /\ CanStop(s)
      BY <1>24, <2>0, <2>1, <2>7, StopAtEndDoes
    <3>2. rzp'[s].paid \in Nat /\ rzp'[s].due <= today' + Period
      BY <2>1, <2>2, <3>1 DEF RowInOrder
    <3>3. /\ rzp'[s].state # "none" /\ (rzp'[s].paid > 0 => rzp'[s].shown)
          /\ (rzp'[s].state = "cancelled" \/ rzp'[s].ends => Was(s))
      BY <2>2, <2>3, <3>1 DEF RowInOrder, CanStop
    <3> HIDE DEF s
    <3> QED
      BY <2>1, <2>2, <2>3, <2>7, <3>2, <3>3, RowUntouched, MandateWritten
  <2> QED
    BY <1>24, <2>0, <2>1, <2>6, <2>7, RowUntouched, StopAtEndDoes
<1>25. ASSUME NEW h \in Handlers, MarkEnds(h) PROVE RowsInOrder'
  <2>0. TypeInv /\ RowsLast /\ MandatesLast
    BY RowsLastAlways, MandatesLastAlways DEF Struct
  <2> SUFFICES ASSUME NEW t \in Subs
               PROVE  RowInOrder(t)'
    BY DEF RowsInOrder
  <2> DEFINE s == task[h].s
  <2>1. s \in Subs /\ (t # s => sub'[t] = sub[t]) /\ UNCHANGED <<rzp, today>>
    BY <1>25, <2>0, MarkEndsDoes DEF OnlyRow
  <2>2. sub[s].status # "none"
    BY <1>25, <2>0, MarkEndsDoes, WorkedWas DEF OfWas, Was
  <2>3. sub'[s] = sub[s] \/ sub[s].status # "none"
    BY <2>2
  <2>4. sub'[s].status \in {"active", "past_due", "halted"} => Held(s) \/ rzp[s].paid > 0
    BY <1>25, <2>0, <2>2, MarkEndsDoes DEF Held, Cancels
  <2>5. RowLasts(s)
    BY <2>0, <2>1 DEF RowsLast
  <2> HIDE DEF s
  <2> QED
    BY <2>1, <2>3, <2>4, <2>5, RowUntouched, RowWritten
<1>26. ASSUME NEW h \in Handlers, Schedule(h) PROVE RowsInOrder'
  <2>0. TypeInv /\ RowsLast /\ MandatesLast
    BY RowsLastAlways, MandatesLastAlways DEF Struct
  <2> SUFFICES ASSUME NEW t \in Subs
               PROVE  RowInOrder(t)'
    BY DEF RowsInOrder
  <2> DEFINE s == task[h].s
  <2>1. s \in Subs /\ (t # s => sub'[t] = sub[t]) /\ UNCHANGED <<rzp, today>>
    BY <1>26, <2>0, ScheduleDoes DEF OnlyRow
  <2>2. sub[s].status # "none"
    BY <1>26, <2>0, ScheduleDoes, WorkedWas DEF OfWas, Was
  <2>3. sub'[s] = sub[s] \/ sub[s].status # "none"
    BY <2>2
  <2>4. sub'[s].status \in {"active", "past_due", "halted"} => Held(s) \/ rzp[s].paid > 0
    BY <1>26, <2>0, <2>2, ScheduleDoes DEF Held, Cancels
  <2>5. RowLasts(s)
    BY <2>0, <2>1 DEF RowsLast
  <2> HIDE DEF s
  <2> QED
    BY <2>1, <2>3, <2>4, <2>5, RowUntouched, RowWritten
<1>27. ASSUME NEW h \in Handlers, StopNow(h) PROVE RowsInOrder'
  <2>0. TypeInv /\ RowsLast /\ MandatesLast
    BY RowsLastAlways, MandatesLastAlways DEF Struct
  <2> SUFFICES ASSUME NEW t \in Subs
               PROVE  RowInOrder(t)'
    BY DEF RowsInOrder
  <2> DEFINE s == task[h].s
  <2>1. s \in Subs /\ UNCHANGED <<sub, today>>
        /\ (rzp' = rzp \/ (Stopped({s}) /\ CanStop(s)))
    BY <1>27, <2>0, StopNowDoes
  <2>2. Was(s)
    BY <1>27, <2>0, <2>1, StopNowDoes, WorkedWas DEF OfWas
  <2> HIDE DEF s
  <2>3. CASE rzp' = rzp
    BY <2>1, <2>3, RowUntouched
  <2>4. CASE Stopped({s}) /\ CanStop(s)
    <3>1. EndsAt(s) /\ (t # s => rzp'[t] = rzp[t])
      BY <2>1, <2>4 DEF Stopped
    <3> QED
      BY <2>1, <2>2, <2>4, <3>1, RowUntouched, RowStopped
  <2> QED
    BY <2>1, <2>3, <2>4
<1>28. ASSUME NEW h \in Handlers, Drop(h) PROVE RowsInOrder'
  <2>0. TypeInv /\ RowsLast /\ MandatesLast
    BY RowsLastAlways, MandatesLastAlways DEF Struct
  <2> SUFFICES ASSUME NEW t \in Subs
               PROVE  RowInOrder(t)'
    BY DEF RowsInOrder
  <2> DEFINE s == task[h].s
  <2>1. s \in Subs /\ (t # s => sub'[t] = sub[t]) /\ UNCHANGED <<rzp, today>>
    BY <1>28, <2>0, DropDoes DEF OnlyRow
  <2>2. sub[s].status # "none"
    BY <1>28, <2>0, DropDoes, WorkedWas DEF OfWas, Was
  <2>3. sub'[s] = sub[s] \/ sub[s].status # "none"
    BY <2>2
  <2>4. sub'[s].status \in {"active", "past_due", "halted"} => Held(s) \/ rzp[s].paid > 0
    BY <1>28, <2>0, <2>2, DropDoes DEF Held, Cancels
  <2>5. RowLasts(s)
    BY <2>0, <2>1 DEF RowsLast
  <2> HIDE DEF s
  <2> QED
    BY <2>1, <2>3, <2>4, <2>5, RowUntouched, RowWritten
<1>29. ASSUME NEW h \in Handlers, Credit(h) PROVE RowsInOrder'
  <2>0. TypeInv /\ RowsLast /\ MandatesLast
    BY RowsLastAlways, MandatesLastAlways DEF Struct
  <2> SUFFICES ASSUME NEW t \in Subs
               PROVE  RowInOrder(t)'
    BY DEF RowsInOrder
  <2>1. sub'[t] = sub[t] /\ rzp'[t] = rzp[t] /\ today' = today
    BY <1>29, <2>0, CreditDoes
  <2> QED
    BY <2>1, RowUntouched
<1>30. ASSUME NEW h \in Handlers, Clear(h) PROVE RowsInOrder'
  <2>0. TypeInv /\ RowsLast /\ MandatesLast
    BY RowsLastAlways, MandatesLastAlways DEF Struct
  <2> SUFFICES ASSUME NEW t \in Subs
               PROVE  RowInOrder(t)'
    BY DEF RowsInOrder
  <2>1. UNCHANGED <<rzp, today>>
        /\ \/ sub'[t] = sub[t]
           \/ sub[t].status # "none" /\ sub'[t].status = "cancelled"
    BY <1>30, <2>0, ClearDoes, StructOf DEF Cancels, WorkInOrder
  <2> QED
    BY <2>0, <2>1, RowUntouched, RowWritten DEF RowsLast
<1>31. ASSUME NEW h \in Handlers, GrantRow(h) PROVE RowsInOrder'
  <2>0. TypeInv /\ RowsLast /\ MandatesLast
    BY RowsLastAlways, MandatesLastAlways DEF Struct
  <2> SUFFICES ASSUME NEW t \in Subs
               PROVE  RowInOrder(t)'
    BY DEF RowsInOrder
  <2>1. UNCHANGED <<rzp, today>>
        /\ \/ sub'[t] = sub[t]
           \/ /\ t \in Fresh /\ sub'[t].status = "active" /\ sub'[t].tier = task[h].tier
              /\ task[h].tier \in Tiers /\ sub'[t].admin = TRUE
    BY <1>31, <2>0, GrantRowDoes DEF OnlyRow
  <2>2. RowInOrder(t) /\ MandateInOrder(rzp[t])
    BY <2>0, StructAt, AtRazorpay
  <2>3. CASE sub'[t] = sub[t]
    BY <2>1, <2>3, RowUntouched
  <2>4. CASE sub'[t] # sub[t]
    BY <2>1, <2>2, <2>4 DEF RowInOrder, Held, Was, MandateInOrder, Fresh
  <2> QED
    BY <2>3, <2>4
<1>32. ASSUME NEW h \in Handlers, Crash(h) PROVE RowsInOrder'
  <2>0. TypeInv /\ RowsLast /\ MandatesLast
    BY RowsLastAlways, MandatesLastAlways DEF Struct
  <2> SUFFICES ASSUME NEW t \in Subs
               PROVE  RowInOrder(t)'
    BY DEF RowsInOrder
  <2>1. sub'[t] = sub[t] /\ rzp'[t] = rzp[t] /\ today' = today
    BY <1>32, <2>0, CrashDoes
  <2> QED
    BY <2>1, RowUntouched
<1>33. ASSUME NEW h \in Handlers, NEW tier \in Tiers, Buy(h, tier) PROVE RowsInOrder'
  <2>0. TypeInv /\ RowsLast /\ MandatesLast
    BY RowsLastAlways, MandatesLastAlways DEF Struct
  <2> SUFFICES ASSUME NEW t \in Subs
               PROVE  RowInOrder(t)'
    BY DEF RowsInOrder
  <2>1. sub'[t] = sub[t] /\ rzp'[t] = rzp[t] /\ today' = today
    BY <1>33, <2>0, BuyDoes
  <2> QED
    BY <2>1, RowUntouched
<1>34. ASSUME NEW h \in Handlers, NEW tier \in Tiers, Grant(h, tier) PROVE RowsInOrder'
  <2>0. TypeInv /\ RowsLast /\ MandatesLast
    BY RowsLastAlways, MandatesLastAlways DEF Struct
  <2> SUFFICES ASSUME NEW t \in Subs
               PROVE  RowInOrder(t)'
    BY DEF RowsInOrder
  <2>1. sub'[t] = sub[t] /\ rzp'[t] = rzp[t] /\ today' = today
    BY <1>34, <2>0, GrantDoes
  <2> QED
    BY <2>1, RowUntouched
<1>35. ASSUME NEW h \in Handlers, NEW s \in Subs, Deliver(h, s) PROVE RowsInOrder'
  <2>0. TypeInv /\ RowsLast /\ MandatesLast
    BY RowsLastAlways, MandatesLastAlways DEF Struct
  <2> SUFFICES ASSUME NEW t \in Subs
               PROVE  RowInOrder(t)'
    BY DEF RowsInOrder
  <2>1. sub'[t] = sub[t] /\ rzp'[t] = rzp[t] /\ today' = today
    BY <1>35, <2>0, DeliverDoes
  <2> QED
    BY <2>1, RowUntouched
<1>36. ASSUME NEW h \in Handlers, NEW s \in Subs, Callback(h, s) PROVE RowsInOrder'
  <2>0. TypeInv /\ RowsLast /\ MandatesLast
    BY RowsLastAlways, MandatesLastAlways DEF Struct
  <2> SUFFICES ASSUME NEW t \in Subs
               PROVE  RowInOrder(t)'
    BY DEF RowsInOrder
  <2>1. s \in Subs /\ UNCHANGED <<sub, today>> /\ (t # s => rzp'[t] = rzp[t])
    BY <1>36, <2>0, CallbackDoes DEF OnlyMandate, Unpaid
  <2>2. RowInOrder(s) /\ MandateInOrder(rzp[s]) /\ rzp[s].paid \in Nat /\ rzp[s].due \in Nat
        /\ today \in Nat /\ Period \in Nat /\ MandateLasts(s)
    BY <2>0, <2>1, StructAt, AtRazorpay, Counted, Bounds DEF MandatesLast
  <2>6. rzp[s].callback
    BY <1>36, <2>0, CallbackDoes
  <2>3. sub[s].status # "none" /\ ~sub[s].admin
    BY <2>2, <2>6 DEF RowInOrder, MandateInOrder, Was
  <2>4. rzp'[s].paid \in Nat /\ rzp'[s].due <= today' + Period
    <3>1. rzp'[s].paid = rzp[s].paid /\ rzp'[s].due = rzp[s].due
      BY <1>36, <2>0, CallbackDoes DEF Unpaid
    <3> QED
      BY <2>1, <2>2, <3>1 DEF RowInOrder
  <2>5. /\ rzp'[s].state # "none" /\ (rzp'[s].paid > 0 => rzp'[s].shown)
        /\ (rzp'[s].state = "cancelled" \/ rzp'[s].ends => Was(s))
    <3>1. rzp'[s].shown = rzp[s].shown /\ rzp'[s].ends = rzp[s].ends /\ rzp'[s].state = rzp[s].state
      BY <1>36, <2>0, CallbackDoes DEF Unpaid
    <3> QED
      BY <2>2, <2>6, <3>1 DEF RowInOrder, MandateInOrder
  <2> QED
    BY <2>1, <2>2, <2>3, <2>4, <2>5, RowUntouched, MandateWritten
<1>37. ASSUME NEW h \in Handlers, NEW s \in Subs, Overdue(h, s) PROVE RowsInOrder'
  <2>0. TypeInv /\ RowsLast /\ MandatesLast
    BY RowsLastAlways, MandatesLastAlways DEF Struct
  <2> SUFFICES ASSUME NEW t \in Subs
               PROVE  RowInOrder(t)'
    BY DEF RowsInOrder
  <2>1. sub'[t] = sub[t] /\ rzp'[t] = rzp[t] /\ today' = today
    BY <1>37, <2>0, OverdueDoes
  <2> QED
    BY <2>1, RowUntouched
<1>38. ASSUME NEW h \in Handlers, NEW s \in Subs, Cancel(h, s) PROVE RowsInOrder'
  <2>0. TypeInv /\ RowsLast /\ MandatesLast
    BY RowsLastAlways, MandatesLastAlways DEF Struct
  <2> SUFFICES ASSUME NEW t \in Subs
               PROVE  RowInOrder(t)'
    BY DEF RowsInOrder
  <2>1. sub'[t] = sub[t] /\ rzp'[t] = rzp[t] /\ today' = today
    BY <1>38, <2>0, CancelDoes
  <2> QED
    BY <2>1, RowUntouched
<1>39. ASSUME NEW h \in Handlers, NEW s \in Subs, Revoke(h, s) PROVE RowsInOrder'
  <2>0. TypeInv /\ RowsLast /\ MandatesLast
    BY RowsLastAlways, MandatesLastAlways DEF Struct
  <2> SUFFICES ASSUME NEW t \in Subs
               PROVE  RowInOrder(t)'
    BY DEF RowsInOrder
  <2>1. sub'[t] = sub[t] /\ rzp'[t] = rzp[t] /\ today' = today
    BY <1>39, <2>0, RevokeDoes
  <2> QED
    BY <2>1, RowUntouched
<1>40. ASSUME NEW h \in Handlers, NEW s \in Subs, NEW tier \in Tiers, ChangePlan(h, s, tier) PROVE
   RowsInOrder'
  <2>0. TypeInv /\ RowsLast /\ MandatesLast
    BY RowsLastAlways, MandatesLastAlways DEF Struct
  <2> SUFFICES ASSUME NEW t \in Subs
               PROVE  RowInOrder(t)'
    BY DEF RowsInOrder
  <2>1. sub'[t] = sub[t] /\ rzp'[t] = rzp[t] /\ today' = today
    BY <1>40, <2>0, ChangePlanDoes
  <2> QED
    BY <2>1, RowUntouched
<1>41. ASSUME NEW h \in Handlers, NEW s \in Subs, NEW tier \in Tiers, ChangeAddon(h, s, tier)
   PROVE RowsInOrder'
  <2>0. TypeInv /\ RowsLast /\ MandatesLast
    BY RowsLastAlways, MandatesLastAlways DEF Struct
  <2> SUFFICES ASSUME NEW t \in Subs
               PROVE  RowInOrder(t)'
    BY DEF RowsInOrder
  <2>1. sub'[t] = sub[t] /\ rzp'[t] = rzp[t] /\ today' = today
    BY <1>41, <2>0, ChangeAddonDoes
  <2> QED
    BY <2>1, RowUntouched
<1>42. CASE UNCHANGED vars
  <2> SUFFICES ASSUME NEW t \in Subs
               PROVE  RowInOrder(t)'
    BY DEF RowsInOrder
  <2> QED
    BY <1>42, RowUntouched DEF vars
<1> QED
  BY <1>1, <1>2, <1>3, <1>4, <1>5, <1>6, <1>7, <1>8, <1>9, <1>10, <1>11, <1>12, <1>13, <1>14,
     <1>15, <1>16, <1>17, <1>18, <1>19, <1>20, <1>21, <1>22, <1>23, <1>24, <1>25, <1>26, <1>27,
     <1>28, <1>29, <1>30, <1>31, <1>32, <1>33, <1>34, <1>35, <1>36, <1>37, <1>38, <1>39, <1>40,
     <1>41, <1>42 DEF Next, Step

LEMMA AppendAt ==
    ASSUME NEW q \in Seq(Event), NEW e \in Event
    PROVE  /\ Len(q) \in Nat /\ Len(Append(q, e)) = Len(q) + 1
           /\ \A i \in 1 .. Len(q) : Append(q, e)[i] = q[i]
           /\ Append(q, e)[Len(q) + 1] = e
OBVIOUS

LEMMA TailAt ==
    ASSUME NEW q \in Seq(Event), q # <<>>
    PROVE  /\ Len(q) \in Nat /\ Len(q) >= 1 /\ Len(Tail(q)) = Len(q) - 1 /\ Tail(q) \in Seq(Event)
           /\ \A i \in 1 .. Len(q) - 1 : Tail(q)[i] = q[i + 1]
           /\ Head(q) = q[1] /\ Head(q) \in Event
OBVIOUS

LEMMA QueueUntouched ==
    ASSUME Struct, NEW s \in Subs, queue'[s] = queue[s], seen'[s] = seen[s], MandateLasts(s),
           rzp'[s].paid \in Nat
    PROVE  QueueInOrder(s)'
<1>1. QueueInOrder(s) /\ TypeInv
  BY StructAt DEF Struct
<1>2. rzp[s].paid > 0 => rzp'[s].paid > 0
  BY <1>1, Counted DEF MandateLasts
<1> QED
  BY <1>1, <1>2 DEF QueueInOrder, MandateLasts

\* The oldest event of s is acknowledged.
LEMMA QueueAnswered ==
    ASSUME Struct, NEW s \in Subs, queue[s] # <<>>, queue'[s] = Tail(queue[s]), seen'[s] = FALSE,
           rzp'[s] = rzp[s]
    PROVE  QueueInOrder(s)'
<1>1. QueueInOrder(s) /\ TypeInv
  BY StructAt DEF Struct
<1>2. queue[s] \in Seq(Event)
  BY <1>1, AtRow
<1>3. /\ Len(queue[s]) \in Nat /\ Len(queue'[s]) = Len(queue[s]) - 1
      /\ \A i \in 1 .. Len(queue'[s]) : queue'[s][i] = queue[s][i + 1]
  BY <1>2, TailAt
<1>4. \A i \in 1 .. Len(queue'[s]) : i + 1 \in 1 .. Len(queue[s])
  BY <1>3
<1> QED
  BY <1>1, <1>3, <1>4 DEF QueueInOrder

\* An event is told of s, and what it says is so.
LEMMA QueueTold ==
    ASSUME Struct, NEW s \in Subs, NEW e \in Event, queue'[s] = Append(queue[s], e),
           seen'[s] = seen[s], MandateLasts(s), rzp'[s].paid > 0,
           e.type = "cancelled" => rzp'[s].state = "cancelled",
           e.type = "activated" => e.charge = 1
    PROVE  QueueInOrder(s)'
<1>1. QueueInOrder(s) /\ TypeInv
  BY StructAt DEF Struct
<1>2. queue[s] \in Seq(Event)
  BY <1>1, AtRow
<1>3. /\ Len(queue[s]) \in Nat /\ Len(queue'[s]) = Len(queue[s]) + 1 /\ queue'[s] # <<>>
      /\ \A i \in 1 .. Len(queue[s]) : queue'[s][i] = queue[s][i]
      /\ queue'[s][Len(queue[s]) + 1] = e
  BY <1>2, AppendAt, AfterAppend
<1>4. \A i \in 1 .. Len(queue'[s]) : i \in 1 .. Len(queue[s]) \/ i = Len(queue[s]) + 1
  BY <1>3
<1>5. \A i \in 1 .. Len(queue'[s]) :
         /\ queue'[s][i].type = "cancelled" => rzp'[s].state = "cancelled"
         /\ queue'[s][i].type = "activated" => queue'[s][i].charge = 1
  BY <1>1, <1>3, <1>4 DEF QueueInOrder, MandateLasts
<1> QED
  BY <1>3, <1>5 DEF QueueInOrder

\* A first payment is told twice.
LEMMA QueueToldBoth ==
    ASSUME Struct, NEW s \in Subs, NEW d \in Event, NEW e \in Event,
           queue'[s] = Append(Append(queue[s], d), e), seen'[s] = seen[s], MandateLasts(s),
           rzp'[s].paid > 0, d.type # "cancelled", e.type # "cancelled",
           d.charge = 1, e.charge = 1
    PROVE  QueueInOrder(s)'
<1>1. QueueInOrder(s) /\ TypeInv
  BY StructAt DEF Struct
<1>2. queue[s] \in Seq(Event)
  BY <1>1, AtRow
<1> DEFINE q == Append(queue[s], d)
<1>3. /\ Len(queue[s]) \in Nat /\ Len(q) = Len(queue[s]) + 1 /\ q # <<>> /\ q \in Seq(Event)
      /\ \A i \in 1 .. Len(queue[s]) : q[i] = queue[s][i]
      /\ q[Len(queue[s]) + 1] = d
  BY <1>2, AppendAt, AfterAppend, AppendProperties
<1> HIDE DEF q
<1>4. queue'[s] = Append(q, e)
  BY DEF q
<1>5. /\ Len(queue'[s]) = Len(q) + 1 /\ queue'[s] # <<>>
      /\ \A i \in 1 .. Len(q) : queue'[s][i] = q[i]
      /\ queue'[s][Len(q) + 1] = e
  BY <1>3, <1>4, AppendAt, AfterAppend
<1>6. \A i \in 1 .. Len(queue'[s]) :
         \/ i \in 1 .. Len(queue[s]) /\ queue'[s][i] = queue[s][i]
         \/ queue'[s][i] = d \/ queue'[s][i] = e
  BY <1>3, <1>5
<1>7. \A i \in 1 .. Len(queue'[s]) :
         /\ queue'[s][i].type = "cancelled" => rzp'[s].state = "cancelled"
         /\ queue'[s][i].type = "activated" => queue'[s][i].charge = 1
  BY <1>1, <1>6 DEF QueueInOrder, MandateLasts
<1> QED
  BY <1>5, <1>7 DEF QueueInOrder

\* Razorpay says that it has stopped s.
LEMMA QueueEnded ==
    ASSUME Struct, NEW s \in Subs, EndsAt(s), CanStop(s), seen'[s] = seen[s], MandateLasts(s)
    PROVE  QueueInOrder(s)'
<1>1. TypeInv
  BY DEF Struct
<1>2. rzp[s].paid > 0 /\ EndedEvent(s).type = "cancelled"
  BY <1>1, StoppableIsPaid DEF EndedEvent
<1> QED
  BY <1>2, QueueTold DEF EndsAt

\* The handler that answers acknowledges what it delivered.
LEMMA AnsweredQueues ==
    ASSUME Struct, NEW h \in Handlers, Answers(h), UNCHANGED rzp, NEW s \in Subs
    PROVE  QueueInOrder(s)'
<1>0. TypeInv /\ MandatesLast
  BY SameMandatesLast DEF Struct
<1>1. MandateLasts(s) /\ rzp'[s].paid \in Nat
  BY <1>0, Counted DEF MandatesLast
<1>2. CASE task[h].by = "webhook" /\ task[h].s = s
  <2>1. queue[s] # <<>>
    BY <1>0, <1>2 DEF TypeInv, Deliveries
  <2> QED
    BY <1>2, <2>1, QueueAnswered DEF Answers
<1>3. CASE ~(task[h].by = "webhook" /\ task[h].s = s)
  BY <1>1, <1>3, QueueUntouched DEF Answers
<1> QED
  BY <1>2, <1>3

LEMMA PaidCounts ==
    ASSUME TypeInv, [Next]_vars, NEW s \in Subs
    PROVE  rzp'[s].paid \in Nat
<1>1. TypeOK'
  BY TypeOKKept
<1>2. rzp'[s] \in Mandate
  BY <1>1 DEF TypeOK
<1>3. rzp'[s].paid \in 0 .. MaxCharges
  BY <1>2, MandateFields
<1> QED
  BY <1>3, Bounds

LEMMA QueuesKept ==
    ASSUME Struct, [Next]_vars
    PROVE  QueuesInOrder'
<1>1. ASSUME Tick PROVE QueuesInOrder'
  <2> SUFFICES ASSUME NEW t \in Subs
               PROVE  QueueInOrder(t)'
    BY DEF QueuesInOrder
  <2>0. TypeInv /\ MandateLasts(t) /\ rzp'[t].paid \in Nat
    BY MandatesLastAlways, PaidCounts DEF Struct, MandatesLast
  <2>1. queue'[t] = queue[t] /\ seen'[t] = seen[t]
    BY <1>1, <2>0, TickDoes
  <2> QED
    BY <2>0, <2>1, QueueUntouched
<1>2. ASSUME NEW s \in Subs, Pay(s) PROVE QueuesInOrder'
  <2> SUFFICES ASSUME NEW t \in Subs
               PROVE  QueueInOrder(t)'
    BY DEF QueuesInOrder
  <2>0. TypeInv /\ MandateLasts(t) /\ rzp'[t].paid \in Nat
    BY MandatesLastAlways, PaidCounts DEF Struct, MandatesLast
  <2>1. PICK type \in {"activated", "charged"} : ToldFirst(s, type)
    BY <1>2, <2>0, PayDoes
  <2>2. \A as \in {"activated", "charged"} :
           FirstAs(as).type # "cancelled" /\ FirstAs(as).charge = 1
    BY DEF FirstAs
  <2>3. UNCHANGED seen /\ rzp'[s].paid = 1
    BY <1>2, <2>0, PayDoes
  <2>4. CASE t = s /\ Told(s, FirstAs(type))
    BY <2>0, <2>2, <2>3, <2>4, QueueTold DEF Told
  <2>5. CASE t = s /\ ~Told(s, FirstAs(type))
    <3>1. PICK other \in {"activated", "charged"} : ToldBoth(s, FirstAs(type), FirstAs(other))
      BY <2>1, <2>5 DEF ToldFirst
    <3> QED
      BY <2>0, <2>2, <2>3, <2>5, <3>1, QueueToldBoth DEF ToldBoth
  <2>6. CASE t # s
    BY <2>0, <2>1, <2>3, <2>6, QueueUntouched DEF ToldFirst, Told, ToldBoth
  <2> QED
    BY <2>4, <2>5, <2>6
<1>3. ASSUME NEW s \in Subs, Charge(s) PROVE QueuesInOrder'
  <2> SUFFICES ASSUME NEW t \in Subs
               PROVE  QueueInOrder(t)'
    BY DEF QueuesInOrder
  <2>0. TypeInv /\ MandateLasts(t) /\ rzp'[t].paid \in Nat
    BY MandatesLastAlways, PaidCounts DEF Struct, MandatesLast
  <2> DEFINE e == [type |-> "charged", charge |-> rzp[s].paid + 1, try |-> 0]
  <2>1. Told(s, e) /\ UNCHANGED seen
    BY <1>3, <2>0, ChargeDoes
  <2>2. e.type \notin {"cancelled", "activated"}
    OBVIOUS
  <2>3. rzp'[s].paid > 0
    <3>1. rzp[s].state \in {"active", "pending", "halted"}
      BY <1>3, <2>0, ChargeDoes
    <3>2. rzp[s].paid > 0
      BY <2>0, <3>1, StoppableIsPaid DEF CanStop
    <3>3. MandateLasts(s) /\ rzp[s].paid \in Nat /\ rzp'[s].paid \in Nat
      BY <2>0, MandatesLastAlways, PaidCounts, Counted DEF MandatesLast
    <3> QED
      BY <3>2, <3>3 DEF MandateLasts
  <2> HIDE DEF e
  <2>4. CASE t = s
    BY <2>0, <2>1, <2>2, <2>3, <2>4, QueueTold DEF Told
  <2>5. CASE t # s
    BY <2>0, <2>1, <2>5, QueueUntouched DEF Told
  <2> QED
    BY <2>4, <2>5
<1>4. ASSUME NEW s \in Subs, Decline(s) PROVE QueuesInOrder'
  <2> SUFFICES ASSUME NEW t \in Subs
               PROVE  QueueInOrder(t)'
    BY DEF QueuesInOrder
  <2>0. TypeInv /\ MandateLasts(t) /\ rzp'[t].paid \in Nat
    BY MandatesLastAlways, PaidCounts DEF Struct, MandatesLast
  <2> DEFINE e == [type |-> "pending", charge |-> rzp[s].paid, try |-> rzp[s].tries + 1]
  <2>1. Told(s, e) /\ UNCHANGED seen
    BY <1>4, <2>0, DeclineDoes
  <2>2. e.type \notin {"cancelled", "activated"}
    OBVIOUS
  <2>3. rzp'[s].paid > 0
    <3>1. rzp[s].state \in {"active", "pending", "halted"}
      BY <1>4, <2>0, DeclineDoes
    <3>2. rzp[s].paid > 0
      BY <2>0, <3>1, StoppableIsPaid DEF CanStop
    <3>3. MandateLasts(s) /\ rzp[s].paid \in Nat /\ rzp'[s].paid \in Nat
      BY <2>0, MandatesLastAlways, PaidCounts, Counted DEF MandatesLast
    <3> QED
      BY <3>2, <3>3 DEF MandateLasts
  <2> HIDE DEF e
  <2>4. CASE t = s
    BY <2>0, <2>1, <2>2, <2>3, <2>4, QueueTold DEF Told
  <2>5. CASE t # s
    BY <2>0, <2>1, <2>5, QueueUntouched DEF Told
  <2> QED
    BY <2>4, <2>5
<1>5. ASSUME NEW s \in Subs, GiveUp(s) PROVE QueuesInOrder'
  <2> SUFFICES ASSUME NEW t \in Subs
               PROVE  QueueInOrder(t)'
    BY DEF QueuesInOrder
  <2>0. TypeInv /\ MandateLasts(t) /\ rzp'[t].paid \in Nat
    BY MandatesLastAlways, PaidCounts DEF Struct, MandatesLast
  <2> DEFINE e == [type |-> "halted", charge |-> rzp[s].paid, try |-> rzp[s].tries]
  <2>1. Told(s, e) /\ UNCHANGED seen
    BY <1>5, <2>0, GiveUpDoes
  <2>2. e.type \notin {"cancelled", "activated"}
    OBVIOUS
  <2>3. rzp'[s].paid > 0
    <3>1. rzp[s].state \in {"active", "pending", "halted"}
      BY <1>5, <2>0, GiveUpDoes
    <3>2. rzp[s].paid > 0
      BY <2>0, <3>1, StoppableIsPaid DEF CanStop
    <3>3. MandateLasts(s) /\ rzp[s].paid \in Nat /\ rzp'[s].paid \in Nat
      BY <2>0, MandatesLastAlways, PaidCounts, Counted DEF MandatesLast
    <3> QED
      BY <3>2, <3>3 DEF MandateLasts
  <2> HIDE DEF e
  <2>4. CASE t = s
    BY <2>0, <2>1, <2>2, <2>3, <2>4, QueueTold DEF Told
  <2>5. CASE t # s
    BY <2>0, <2>1, <2>5, QueueUntouched DEF Told
  <2> QED
    BY <2>4, <2>5
<1>6. ASSUME NEW s \in Subs, CycleEnds(s) PROVE QueuesInOrder'
  <2> SUFFICES ASSUME NEW t \in Subs
               PROVE  QueueInOrder(t)'
    BY DEF QueuesInOrder
  <2>0. TypeInv /\ MandateLasts(t) /\ rzp'[t].paid \in Nat
    BY MandatesLastAlways, PaidCounts DEF Struct, MandatesLast
  <2>1. /\ s \in Subs /\ UNCHANGED seen
        /\ UNCHANGED <<rzp, queue>> \/ (CanStop(s) /\ Stopped({s}))
    BY <1>6, <2>0, CycleEndsDoes DEF CanStop
  <2>2. CASE UNCHANGED <<rzp, queue>>
    BY <2>0, <2>1, <2>2, QueueUntouched
  <2>3. CASE CanStop(s) /\ Stopped({s})
    <3>1. EndsAt(s) /\ (t # s => queue'[t] = queue[t])
      BY <2>1, <2>3 DEF Stopped
    <3> QED
      BY <2>0, <2>1, <2>3, <3>1, QueueUntouched, QueueEnded
  <2> QED
    BY <2>1, <2>2, <2>3
<1>7. ASSUME NEW h \in Handlers, ReadToActivate(h) PROVE QueuesInOrder'
  <2> SUFFICES ASSUME NEW t \in Subs
               PROVE  QueueInOrder(t)'
    BY DEF QueuesInOrder
  <2>0. TypeInv /\ MandateLasts(t) /\ rzp'[t].paid \in Nat
    BY MandatesLastAlways, PaidCounts DEF Struct, MandatesLast
  <2>1. CASE Answers(h)
    BY <1>7, <2>0, <2>1, AnsweredQueues, ReadToActivateDoes
  <2>2. CASE UNCHANGED <<queue, seen>>
    BY <2>0, <2>2, QueueUntouched
  <2> QED
    BY <1>7, <2>0, <2>1, <2>2, ReadToActivateDoes
<1>8. ASSUME NEW h \in Handlers, Activate(h) PROVE QueuesInOrder'
  <2> SUFFICES ASSUME NEW t \in Subs
               PROVE  QueueInOrder(t)'
    BY DEF QueuesInOrder
  <2>0. TypeInv /\ MandateLasts(t) /\ rzp'[t].paid \in Nat
    BY MandatesLastAlways, PaidCounts DEF Struct, MandatesLast
  <2>1. queue'[t] = queue[t] /\ seen'[t] = seen[t]
    BY <1>8, <2>0, ActivateDoes
  <2> QED
    BY <2>0, <2>1, QueueUntouched
<1>9. ASSUME NEW h \in Handlers, SetPlan(h) PROVE QueuesInOrder'
  <2> SUFFICES ASSUME NEW t \in Subs
               PROVE  QueueInOrder(t)'
    BY DEF QueuesInOrder
  <2>0. TypeInv /\ MandateLasts(t) /\ rzp'[t].paid \in Nat
    BY MandatesLastAlways, PaidCounts DEF Struct, MandatesLast
  <2>1. queue'[t] = queue[t] /\ seen'[t] = seen[t]
    BY <1>9, <2>0, SetPlanDoes
  <2> QED
    BY <2>0, <2>1, QueueUntouched
<1>10. ASSUME NEW h \in Handlers, CancelReplaced(h) PROVE QueuesInOrder'
  <2> SUFFICES ASSUME NEW t \in Subs
               PROVE  QueueInOrder(t)'
    BY DEF QueuesInOrder
  <2>0. TypeInv /\ MandateLasts(t) /\ rzp'[t].paid \in Nat
    BY MandatesLastAlways, PaidCounts DEF Struct, MandatesLast
  <2> DEFINE s == task[h].row.replaces
  <2>1. /\ s \in Subs /\ UNCHANGED seen
        /\ UNCHANGED <<rzp, queue>> \/ (CanStop(s) /\ Stopped({s}))
    BY <1>10, <2>0, CancelReplacedDoes DEF CanStop
  <2> HIDE DEF s
  <2>2. CASE UNCHANGED <<rzp, queue>>
    BY <2>0, <2>1, <2>2, QueueUntouched
  <2>3. CASE CanStop(s) /\ Stopped({s})
    <3>1. EndsAt(s) /\ (t # s => queue'[t] = queue[t])
      BY <2>1, <2>3 DEF Stopped
    <3> QED
      BY <2>0, <2>1, <2>3, <3>1, QueueUntouched, QueueEnded
  <2> QED
    BY <2>1, <2>2, <2>3
<1>11. ASSUME NEW h \in Handlers, Retire(h) PROVE QueuesInOrder'
  <2> SUFFICES ASSUME NEW t \in Subs
               PROVE  QueueInOrder(t)'
    BY DEF QueuesInOrder
  <2>0. TypeInv /\ MandateLasts(t) /\ rzp'[t].paid \in Nat
    BY MandatesLastAlways, PaidCounts DEF Struct, MandatesLast
  <2>1. queue'[t] = queue[t] /\ seen'[t] = seen[t]
    BY <1>11, <2>0, RetireDoes
  <2> QED
    BY <2>0, <2>1, QueueUntouched
<1>12. ASSUME NEW h \in Handlers, CreditReplaced(h) PROVE QueuesInOrder'
  <2> SUFFICES ASSUME NEW t \in Subs
               PROVE  QueueInOrder(t)'
    BY DEF QueuesInOrder
  <2>0. TypeInv /\ MandateLasts(t) /\ rzp'[t].paid \in Nat
    BY MandatesLastAlways, PaidCounts DEF Struct, MandatesLast
  <2>1. queue'[t] = queue[t] /\ seen'[t] = seen[t]
    BY <1>12, <2>0, CreditReplacedDoes
  <2> QED
    BY <2>0, <2>1, QueueUntouched
<1>13. ASSUME NEW h \in Handlers, Invoice(h) PROVE QueuesInOrder'
  <2> SUFFICES ASSUME NEW t \in Subs
               PROVE  QueueInOrder(t)'
    BY DEF QueuesInOrder
  <2>0. TypeInv /\ MandateLasts(t) /\ rzp'[t].paid \in Nat
    BY MandatesLastAlways, PaidCounts DEF Struct, MandatesLast
  <2>1. Answers(h) /\ UNCHANGED rzp
    BY <1>13, <2>0, InvoiceDoes
  <2> QED
    BY <2>1, AnsweredQueues
<1>14. ASSUME NEW h \in Handlers, Renew(h) PROVE QueuesInOrder'
  <2> SUFFICES ASSUME NEW t \in Subs
               PROVE  QueueInOrder(t)'
    BY DEF QueuesInOrder
  <2>0. TypeInv /\ MandateLasts(t) /\ rzp'[t].paid \in Nat
    BY MandatesLastAlways, PaidCounts DEF Struct, MandatesLast
  <2>1. queue'[t] = queue[t] /\ seen'[t] = seen[t]
    BY <1>14, <2>0, RenewDoes
  <2> QED
    BY <2>0, <2>1, QueueUntouched
<1>15. ASSUME NEW h \in Handlers, Fail(h) PROVE QueuesInOrder'
  <2> SUFFICES ASSUME NEW t \in Subs
               PROVE  QueueInOrder(t)'
    BY DEF QueuesInOrder
  <2>0. TypeInv /\ MandateLasts(t) /\ rzp'[t].paid \in Nat
    BY MandatesLastAlways, PaidCounts DEF Struct, MandatesLast
  <2>1. Answers(h) /\ UNCHANGED rzp
    BY <1>15, <2>0, FailDoes
  <2> QED
    BY <2>1, AnsweredQueues
<1>16. ASSUME NEW h \in Handlers, Halt(h) PROVE QueuesInOrder'
  <2> SUFFICES ASSUME NEW t \in Subs
               PROVE  QueueInOrder(t)'
    BY DEF QueuesInOrder
  <2>0. TypeInv /\ MandateLasts(t) /\ rzp'[t].paid \in Nat
    BY MandatesLastAlways, PaidCounts DEF Struct, MandatesLast
  <2>1. Answers(h) /\ UNCHANGED rzp
    BY <1>16, <2>0, HaltDoes
  <2> QED
    BY <2>1, AnsweredQueues
<1>17. ASSUME NEW h \in Handlers, End(h) PROVE QueuesInOrder'
  <2> SUFFICES ASSUME NEW t \in Subs
               PROVE  QueueInOrder(t)'
    BY DEF QueuesInOrder
  <2>0. TypeInv /\ MandateLasts(t) /\ rzp'[t].paid \in Nat
    BY MandatesLastAlways, PaidCounts DEF Struct, MandatesLast
  <2>1. Answers(h) /\ UNCHANGED rzp
    BY <1>17, <2>0, EndDoes
  <2> QED
    BY <2>1, AnsweredQueues
<1>18. ASSUME NEW h \in Handlers, EndToBuy(h) PROVE QueuesInOrder'
  <2> SUFFICES ASSUME NEW t \in Subs
               PROVE  QueueInOrder(t)'
    BY DEF QueuesInOrder
  <2>0. TypeInv /\ MandateLasts(t) /\ rzp'[t].paid \in Nat
    BY MandatesLastAlways, PaidCounts DEF Struct, MandatesLast
  <2>1. queue'[t] = queue[t] /\ seen'[t] = seen[t]
    BY <1>18, <2>0, EndToBuyDoes
  <2> QED
    BY <2>0, <2>1, QueueUntouched
<1>19. ASSUME NEW h \in Handlers, Browse(h) PROVE QueuesInOrder'
  <2> SUFFICES ASSUME NEW t \in Subs
               PROVE  QueueInOrder(t)'
    BY DEF QueuesInOrder
  <2>0. TypeInv /\ MandateLasts(t) /\ rzp'[t].paid \in Nat
    BY MandatesLastAlways, PaidCounts DEF Struct, MandatesLast
  <2>1. queue'[t] = queue[t] /\ seen'[t] = seen[t]
    BY <1>19, <2>0, BrowseDoes
  <2> QED
    BY <2>0, <2>1, QueueUntouched
<1>20. ASSUME NEW h \in Handlers, DropOpen(h) PROVE QueuesInOrder'
  <2> SUFFICES ASSUME NEW t \in Subs
               PROVE  QueueInOrder(t)'
    BY DEF QueuesInOrder
  <2>0. TypeInv /\ MandateLasts(t) /\ rzp'[t].paid \in Nat
    BY MandatesLastAlways, PaidCounts DEF Struct, MandatesLast
  <2>1. queue'[t] = queue[t] /\ seen'[t] = seen[t]
    BY <1>20, <2>0, DropOpenDoes
  <2> QED
    BY <2>0, <2>1, QueueUntouched
<1>21. ASSUME NEW h \in Handlers, Subscribe(h) PROVE QueuesInOrder'
  <2> SUFFICES ASSUME NEW t \in Subs
               PROVE  QueueInOrder(t)'
    BY DEF QueuesInOrder
  <2>0. TypeInv /\ MandateLasts(t) /\ rzp'[t].paid \in Nat
    BY MandatesLastAlways, PaidCounts DEF Struct, MandatesLast
  <2>1. queue'[t] = queue[t] /\ seen'[t] = seen[t]
    BY <1>21, <2>0, SubscribeDoes
  <2> QED
    BY <2>0, <2>1, QueueUntouched
<1>22. ASSUME NEW h \in Handlers, Insert(h) PROVE QueuesInOrder'
  <2> SUFFICES ASSUME NEW t \in Subs
               PROVE  QueueInOrder(t)'
    BY DEF QueuesInOrder
  <2>0. TypeInv /\ MandateLasts(t) /\ rzp'[t].paid \in Nat
    BY MandatesLastAlways, PaidCounts DEF Struct, MandatesLast
  <2>1. queue'[t] = queue[t] /\ seen'[t] = seen[t]
    BY <1>22, <2>0, InsertDoes
  <2> QED
    BY <2>0, <2>1, QueueUntouched
<1>23. ASSUME NEW h \in Handlers, Release(h) PROVE QueuesInOrder'
  <2> SUFFICES ASSUME NEW t \in Subs
               PROVE  QueueInOrder(t)'
    BY DEF QueuesInOrder
  <2>0. TypeInv /\ MandateLasts(t) /\ rzp'[t].paid \in Nat
    BY MandatesLastAlways, PaidCounts DEF Struct, MandatesLast
  <2>1. /\ UNCHANGED seen
        /\ (CanStop(t) /\ EndsAt(t)) \/ queue'[t] = queue[t]
    BY <1>23, <2>0, ReleaseDoes
  <2> QED
    BY <2>0, <2>1, QueueUntouched, QueueEnded
<1>24. ASSUME NEW h \in Handlers, StopAtEnd(h) PROVE QueuesInOrder'
  <2> SUFFICES ASSUME NEW t \in Subs
               PROVE  QueueInOrder(t)'
    BY DEF QueuesInOrder
  <2>0. TypeInv /\ MandateLasts(t) /\ rzp'[t].paid \in Nat
    BY MandatesLastAlways, PaidCounts DEF Struct, MandatesLast
  <2>1. queue'[t] = queue[t] /\ seen'[t] = seen[t]
    BY <1>24, <2>0, StopAtEndDoes
  <2> QED
    BY <2>0, <2>1, QueueUntouched
<1>25. ASSUME NEW h \in Handlers, MarkEnds(h) PROVE QueuesInOrder'
  <2> SUFFICES ASSUME NEW t \in Subs
               PROVE  QueueInOrder(t)'
    BY DEF QueuesInOrder
  <2>0. TypeInv /\ MandateLasts(t) /\ rzp'[t].paid \in Nat
    BY MandatesLastAlways, PaidCounts DEF Struct, MandatesLast
  <2>1. queue'[t] = queue[t] /\ seen'[t] = seen[t]
    BY <1>25, <2>0, MarkEndsDoes
  <2> QED
    BY <2>0, <2>1, QueueUntouched
<1>26. ASSUME NEW h \in Handlers, Schedule(h) PROVE QueuesInOrder'
  <2> SUFFICES ASSUME NEW t \in Subs
               PROVE  QueueInOrder(t)'
    BY DEF QueuesInOrder
  <2>0. TypeInv /\ MandateLasts(t) /\ rzp'[t].paid \in Nat
    BY MandatesLastAlways, PaidCounts DEF Struct, MandatesLast
  <2>1. queue'[t] = queue[t] /\ seen'[t] = seen[t]
    BY <1>26, <2>0, ScheduleDoes
  <2> QED
    BY <2>0, <2>1, QueueUntouched
<1>27. ASSUME NEW h \in Handlers, StopNow(h) PROVE QueuesInOrder'
  <2> SUFFICES ASSUME NEW t \in Subs
               PROVE  QueueInOrder(t)'
    BY DEF QueuesInOrder
  <2>0. TypeInv /\ MandateLasts(t) /\ rzp'[t].paid \in Nat
    BY MandatesLastAlways, PaidCounts DEF Struct, MandatesLast
  <2> DEFINE s == task[h].s
  <2>1. /\ s \in Subs /\ UNCHANGED seen
        /\ UNCHANGED <<rzp, queue>> \/ (CanStop(s) /\ Stopped({s}))
    BY <1>27, <2>0, StopNowDoes DEF CanStop
  <2> HIDE DEF s
  <2>2. CASE UNCHANGED <<rzp, queue>>
    BY <2>0, <2>1, <2>2, QueueUntouched
  <2>3. CASE CanStop(s) /\ Stopped({s})
    <3>1. EndsAt(s) /\ (t # s => queue'[t] = queue[t])
      BY <2>1, <2>3 DEF Stopped
    <3> QED
      BY <2>0, <2>1, <2>3, <3>1, QueueUntouched, QueueEnded
  <2> QED
    BY <2>1, <2>2, <2>3
<1>28. ASSUME NEW h \in Handlers, Drop(h) PROVE QueuesInOrder'
  <2> SUFFICES ASSUME NEW t \in Subs
               PROVE  QueueInOrder(t)'
    BY DEF QueuesInOrder
  <2>0. TypeInv /\ MandateLasts(t) /\ rzp'[t].paid \in Nat
    BY MandatesLastAlways, PaidCounts DEF Struct, MandatesLast
  <2>1. queue'[t] = queue[t] /\ seen'[t] = seen[t]
    BY <1>28, <2>0, DropDoes
  <2> QED
    BY <2>0, <2>1, QueueUntouched
<1>29. ASSUME NEW h \in Handlers, Credit(h) PROVE QueuesInOrder'
  <2> SUFFICES ASSUME NEW t \in Subs
               PROVE  QueueInOrder(t)'
    BY DEF QueuesInOrder
  <2>0. TypeInv /\ MandateLasts(t) /\ rzp'[t].paid \in Nat
    BY MandatesLastAlways, PaidCounts DEF Struct, MandatesLast
  <2>1. queue'[t] = queue[t] /\ seen'[t] = seen[t]
    BY <1>29, <2>0, CreditDoes
  <2> QED
    BY <2>0, <2>1, QueueUntouched
<1>30. ASSUME NEW h \in Handlers, Clear(h) PROVE QueuesInOrder'
  <2> SUFFICES ASSUME NEW t \in Subs
               PROVE  QueueInOrder(t)'
    BY DEF QueuesInOrder
  <2>0. TypeInv /\ MandateLasts(t) /\ rzp'[t].paid \in Nat
    BY MandatesLastAlways, PaidCounts DEF Struct, MandatesLast
  <2>1. queue'[t] = queue[t] /\ seen'[t] = seen[t]
    BY <1>30, <2>0, ClearDoes
  <2> QED
    BY <2>0, <2>1, QueueUntouched
<1>31. ASSUME NEW h \in Handlers, GrantRow(h) PROVE QueuesInOrder'
  <2> SUFFICES ASSUME NEW t \in Subs
               PROVE  QueueInOrder(t)'
    BY DEF QueuesInOrder
  <2>0. TypeInv /\ MandateLasts(t) /\ rzp'[t].paid \in Nat
    BY MandatesLastAlways, PaidCounts DEF Struct, MandatesLast
  <2>1. queue'[t] = queue[t] /\ seen'[t] = seen[t]
    BY <1>31, <2>0, GrantRowDoes
  <2> QED
    BY <2>0, <2>1, QueueUntouched
<1>32. ASSUME NEW h \in Handlers, Crash(h) PROVE QueuesInOrder'
  <2> SUFFICES ASSUME NEW t \in Subs
               PROVE  QueueInOrder(t)'
    BY DEF QueuesInOrder
  <2>0. TypeInv /\ MandateLasts(t) /\ rzp'[t].paid \in Nat
    BY MandatesLastAlways, PaidCounts DEF Struct, MandatesLast
  <2>1. queue'[t] = queue[t] /\ seen'[t] = seen[t]
    BY <1>32, <2>0, CrashDoes
  <2> QED
    BY <2>0, <2>1, QueueUntouched
<1>33. ASSUME NEW h \in Handlers, NEW tier \in Tiers, Buy(h, tier) PROVE QueuesInOrder'
  <2> SUFFICES ASSUME NEW t \in Subs
               PROVE  QueueInOrder(t)'
    BY DEF QueuesInOrder
  <2>0. TypeInv /\ MandateLasts(t) /\ rzp'[t].paid \in Nat
    BY MandatesLastAlways, PaidCounts DEF Struct, MandatesLast
  <2>1. queue'[t] = queue[t] /\ seen'[t] = seen[t]
    BY <1>33, <2>0, BuyDoes
  <2> QED
    BY <2>0, <2>1, QueueUntouched
<1>34. ASSUME NEW h \in Handlers, NEW tier \in Tiers, Grant(h, tier) PROVE QueuesInOrder'
  <2> SUFFICES ASSUME NEW t \in Subs
               PROVE  QueueInOrder(t)'
    BY DEF QueuesInOrder
  <2>0. TypeInv /\ MandateLasts(t) /\ rzp'[t].paid \in Nat
    BY MandatesLastAlways, PaidCounts DEF Struct, MandatesLast
  <2>1. queue'[t] = queue[t] /\ seen'[t] = seen[t]
    BY <1>34, <2>0, GrantDoes
  <2> QED
    BY <2>0, <2>1, QueueUntouched
<1>35. ASSUME NEW h \in Handlers, NEW s \in Subs, Deliver(h, s) PROVE QueuesInOrder'
  <2> SUFFICES ASSUME NEW t \in Subs
               PROVE  QueueInOrder(t)'
    BY DEF QueuesInOrder
  <2>0. TypeInv /\ MandateLasts(t) /\ rzp'[t].paid \in Nat
    BY MandatesLastAlways, PaidCounts DEF Struct, MandatesLast
  <2>1. queue[s] # <<>> /\ UNCHANGED rzp
        /\ \/ queue'[t] = queue[t] /\ seen'[t] = seen[t]
           \/ t = s /\ queue'[s] = Tail(queue[s]) /\ seen'[s] = FALSE
           \/ t = s /\ queue'[s] = queue[s]
    BY <1>35, <2>0, DeliverDoes
  <2>2. CASE queue'[t] = queue[t] /\ seen'[t] = seen[t]
    BY <2>0, <2>2, QueueUntouched
  <2>3. CASE t = s /\ queue'[s] = Tail(queue[s]) /\ seen'[s] = FALSE
    BY <2>1, <2>3, QueueAnswered
  <2>4. CASE t = s /\ queue'[s] = queue[s]
    BY <2>1, <2>4, StructAt DEF QueueInOrder
  <2> QED
    BY <2>1, <2>2, <2>3, <2>4
<1>36. ASSUME NEW h \in Handlers, NEW s \in Subs, Callback(h, s) PROVE QueuesInOrder'
  <2> SUFFICES ASSUME NEW t \in Subs
               PROVE  QueueInOrder(t)'
    BY DEF QueuesInOrder
  <2>0. TypeInv /\ MandateLasts(t) /\ rzp'[t].paid \in Nat
    BY MandatesLastAlways, PaidCounts DEF Struct, MandatesLast
  <2>1. queue'[t] = queue[t] /\ seen'[t] = seen[t]
    BY <1>36, <2>0, CallbackDoes
  <2> QED
    BY <2>0, <2>1, QueueUntouched
<1>37. ASSUME NEW h \in Handlers, NEW s \in Subs, Overdue(h, s) PROVE QueuesInOrder'
  <2> SUFFICES ASSUME NEW t \in Subs
               PROVE  QueueInOrder(t)'
    BY DEF QueuesInOrder
  <2>0. TypeInv /\ MandateLasts(t) /\ rzp'[t].paid \in Nat
    BY MandatesLastAlways, PaidCounts DEF Struct, MandatesLast
  <2>1. queue'[t] = queue[t] /\ seen'[t] = seen[t]
    BY <1>37, <2>0, OverdueDoes
  <2> QED
    BY <2>0, <2>1, QueueUntouched
<1>38. ASSUME NEW h \in Handlers, NEW s \in Subs, Cancel(h, s) PROVE QueuesInOrder'
  <2> SUFFICES ASSUME NEW t \in Subs
               PROVE  QueueInOrder(t)'
    BY DEF QueuesInOrder
  <2>0. TypeInv /\ MandateLasts(t) /\ rzp'[t].paid \in Nat
    BY MandatesLastAlways, PaidCounts DEF Struct, MandatesLast
  <2>1. queue'[t] = queue[t] /\ seen'[t] = seen[t]
    BY <1>38, <2>0, CancelDoes
  <2> QED
    BY <2>0, <2>1, QueueUntouched
<1>39. ASSUME NEW h \in Handlers, NEW s \in Subs, Revoke(h, s) PROVE QueuesInOrder'
  <2> SUFFICES ASSUME NEW t \in Subs
               PROVE  QueueInOrder(t)'
    BY DEF QueuesInOrder
  <2>0. TypeInv /\ MandateLasts(t) /\ rzp'[t].paid \in Nat
    BY MandatesLastAlways, PaidCounts DEF Struct, MandatesLast
  <2>1. queue'[t] = queue[t] /\ seen'[t] = seen[t]
    BY <1>39, <2>0, RevokeDoes
  <2> QED
    BY <2>0, <2>1, QueueUntouched
<1>40. ASSUME NEW h \in Handlers, NEW s \in Subs, NEW tier \in Tiers, ChangePlan(h, s, tier) PROVE
   QueuesInOrder'
  <2> SUFFICES ASSUME NEW t \in Subs
               PROVE  QueueInOrder(t)'
    BY DEF QueuesInOrder
  <2>0. TypeInv /\ MandateLasts(t) /\ rzp'[t].paid \in Nat
    BY MandatesLastAlways, PaidCounts DEF Struct, MandatesLast
  <2>1. queue'[t] = queue[t] /\ seen'[t] = seen[t]
    BY <1>40, <2>0, ChangePlanDoes
  <2> QED
    BY <2>0, <2>1, QueueUntouched
<1>41. ASSUME NEW h \in Handlers, NEW s \in Subs, NEW tier \in Tiers, ChangeAddon(h, s, tier)
   PROVE QueuesInOrder'
  <2> SUFFICES ASSUME NEW t \in Subs
               PROVE  QueueInOrder(t)'
    BY DEF QueuesInOrder
  <2>0. TypeInv /\ MandateLasts(t) /\ rzp'[t].paid \in Nat
    BY MandatesLastAlways, PaidCounts DEF Struct, MandatesLast
  <2>1. queue'[t] = queue[t] /\ seen'[t] = seen[t]
    BY <1>41, <2>0, ChangeAddonDoes
  <2> QED
    BY <2>0, <2>1, QueueUntouched
<1>42. CASE UNCHANGED vars
  <2> SUFFICES ASSUME NEW t \in Subs
               PROVE  QueueInOrder(t)'
    BY DEF QueuesInOrder
  <2>0. TypeInv /\ MandateLasts(t) /\ rzp'[t].paid \in Nat
    BY MandatesLastAlways, PaidCounts DEF Struct, MandatesLast
  <2> QED
    BY <1>42, <2>0, QueueUntouched DEF vars
<1> QED
  BY <1>1, <1>2, <1>3, <1>4, <1>5, <1>6, <1>7, <1>8, <1>9, <1>10, <1>11, <1>12, <1>13, <1>14,
     <1>15, <1>16, <1>17, <1>18, <1>19, <1>20, <1>21, <1>22, <1>23, <1>24, <1>25, <1>26, <1>27,
     <1>28, <1>29, <1>30, <1>31, <1>32, <1>33, <1>34, <1>35, <1>36, <1>37, <1>38, <1>39, <1>40,
     <1>41, <1>42 DEF Next, Step

\* A row is there after its checkout was created, or the administrator gave it.
Inserted(s) ==
    \E h \in Handlers :
        /\ task[h].step = "insert" /\ task[h].s = s /\ Moves(h, "release")
        /\ sub'[s].status = "created" /\ sub'[s].tier = task[h].tier
        /\ sub'[s].replaces = task[h].old /\ sub'[s].grace = None
        /\ sub'[s].ends = FALSE /\ sub'[s].scheduled = None

Granted(s) ==
    \E h \in Handlers :
        /\ task[h].step = "grant" /\ Leaves(h) /\ s \in Fresh /\ ~Taken(sub, s, task[h].tier)
        /\ sub'[s].status = "active" /\ sub'[s].admin = TRUE /\ sub'[s].tier = task[h].tier
        /\ sub'[s].replaces = None /\ sub'[s].grace = None
        /\ sub'[s].ends = FALSE /\ sub'[s].scheduled = None

NewRows ==
    \A s \in Subs : sub[s].status = "none" /\ sub'[s] # sub[s] => Inserted(s) \/ Granted(s)

LEMMA NewRowsAlways ==
    ASSUME Struct, [Next]_vars
    PROVE  NewRows
<1>1. ASSUME Tick PROVE NewRows
  <2>0. TypeInv
    BY DEF Struct
  <2> QED
    BY <1>1, <2>0, TickDoes DEF NewRows
<1>2. ASSUME NEW s \in Subs, Pay(s) PROVE NewRows
  <2>0. TypeInv
    BY DEF Struct
  <2> QED
    BY <1>2, <2>0, PayDoes DEF NewRows
<1>3. ASSUME NEW s \in Subs, Charge(s) PROVE NewRows
  <2>0. TypeInv
    BY DEF Struct
  <2> QED
    BY <1>3, <2>0, ChargeDoes DEF NewRows
<1>4. ASSUME NEW s \in Subs, Decline(s) PROVE NewRows
  <2>0. TypeInv
    BY DEF Struct
  <2> QED
    BY <1>4, <2>0, DeclineDoes DEF NewRows
<1>5. ASSUME NEW s \in Subs, GiveUp(s) PROVE NewRows
  <2>0. TypeInv
    BY DEF Struct
  <2> QED
    BY <1>5, <2>0, GiveUpDoes DEF NewRows
<1>6. ASSUME NEW s \in Subs, CycleEnds(s) PROVE NewRows
  <2>0. TypeInv
    BY DEF Struct
  <2> QED
    BY <1>6, <2>0, CycleEndsDoes DEF NewRows
<1>7. ASSUME NEW h \in Handlers, ReadToActivate(h) PROVE NewRows
  <2>0. TypeInv
    BY DEF Struct
  <2> QED
    BY <1>7, <2>0, ReadToActivateDoes DEF NewRows
<1>8. ASSUME NEW h \in Handlers, Activate(h) PROVE NewRows
  <2>0. TypeInv
    BY DEF Struct
  <2> SUFFICES ASSUME NEW t \in Subs, sub[t].status = "none", sub'[t] # sub[t]
               PROVE  Inserted(t) \/ Granted(t)
    BY DEF NewRows
  <2>1. sub' = sub \/ sub[task[h].s].status # "none"
    BY <1>8, <2>0, ActivateDoes, PaidIsSold, StructOf, AtStep
       DEF WorkInOrder, TaskInOrder, Activating, Buying, OfEvent, Was, OfWas
  <2> QED
    BY <1>8, <2>0, <2>1, ActivateDoes DEF OnlyRow
<1>9. ASSUME NEW h \in Handlers, SetPlan(h) PROVE NewRows
  <2>0. TypeInv
    BY DEF Struct
  <2> QED
    BY <1>9, <2>0, SetPlanDoes DEF NewRows
<1>10. ASSUME NEW h \in Handlers, CancelReplaced(h) PROVE NewRows
  <2>0. TypeInv
    BY DEF Struct
  <2> QED
    BY <1>10, <2>0, CancelReplacedDoes DEF NewRows
<1>11. ASSUME NEW h \in Handlers, Retire(h) PROVE NewRows
  <2>0. TypeInv
    BY DEF Struct
  <2> SUFFICES ASSUME NEW t \in Subs, sub[t].status = "none", sub'[t] # sub[t]
               PROVE  Inserted(t) \/ Granted(t)
    BY DEF NewRows
  <2>1. sub' = sub \/ sub[task[h].row.replaces].status # "none"
    BY <1>11, <2>0, RetireDoes, ReplacedWas DEF Was
  <2> QED
    BY <1>11, <2>0, <2>1, RetireDoes DEF OnlyRow
<1>12. ASSUME NEW h \in Handlers, CreditReplaced(h) PROVE NewRows
  <2>0. TypeInv
    BY DEF Struct
  <2> QED
    BY <1>12, <2>0, CreditReplacedDoes DEF NewRows
<1>13. ASSUME NEW h \in Handlers, Invoice(h) PROVE NewRows
  <2>0. TypeInv
    BY DEF Struct
  <2> QED
    BY <1>13, <2>0, InvoiceDoes DEF NewRows
<1>14. ASSUME NEW h \in Handlers, Renew(h) PROVE NewRows
  <2>0. TypeInv
    BY DEF Struct
  <2> SUFFICES ASSUME NEW t \in Subs, sub[t].status = "none", sub'[t] # sub[t]
               PROVE  Inserted(t) \/ Granted(t)
    BY DEF NewRows
  <2>1. sub' = sub \/ sub[task[h].s].status # "none"
    BY <1>14, <2>0, RenewDoes, WorkedWas DEF OfWas, Was
  <2> QED
    BY <1>14, <2>0, <2>1, RenewDoes DEF OnlyRow
<1>15. ASSUME NEW h \in Handlers, Fail(h) PROVE NewRows
  <2>0. TypeInv
    BY DEF Struct
  <2> SUFFICES ASSUME NEW t \in Subs, sub[t].status = "none", sub'[t] # sub[t]
               PROVE  Inserted(t) \/ Granted(t)
    BY DEF NewRows
  <2>1. sub' = sub \/ sub[task[h].s].status # "none"
    BY <1>15, <2>0, FailDoes DEF IsLive
  <2> QED
    BY <1>15, <2>0, <2>1, FailDoes DEF OnlyRow
<1>16. ASSUME NEW h \in Handlers, Halt(h) PROVE NewRows
  <2>0. TypeInv
    BY DEF Struct
  <2> SUFFICES ASSUME NEW t \in Subs, sub[t].status = "none", sub'[t] # sub[t]
               PROVE  Inserted(t) \/ Granted(t)
    BY DEF NewRows
  <2>1. sub' = sub \/ sub[task[h].s].status # "none"
    BY <1>16, <2>0, HaltDoes DEF IsLive
  <2> QED
    BY <1>16, <2>0, <2>1, HaltDoes DEF OnlyRow
<1>17. ASSUME NEW h \in Handlers, End(h) PROVE NewRows
  <2>0. TypeInv
    BY DEF Struct
  <2> SUFFICES ASSUME NEW t \in Subs, sub[t].status = "none", sub'[t] # sub[t]
               PROVE  Inserted(t) \/ Granted(t)
    BY DEF NewRows
  <2>1. sub' = sub \/ sub[task[h].s].status # "none"
    BY <1>17, <2>0, EndDoes, PaidIsSold, StructOf, AtStep
       DEF WorkInOrder, TaskInOrder, Activating, Buying, OfEvent, Was, OfWas
  <2> QED
    BY <1>17, <2>0, <2>1, EndDoes DEF OnlyRow
<1>18. ASSUME NEW h \in Handlers, EndToBuy(h) PROVE NewRows
  <2>0. TypeInv
    BY DEF Struct
  <2> SUFFICES ASSUME NEW t \in Subs, sub[t].status = "none", sub'[t] # sub[t]
               PROVE  Inserted(t) \/ Granted(t)
    BY DEF NewRows
  <2>1. sub' = sub \/ sub[task[h].s].status # "none"
    BY <1>18, <2>0, EndToBuyDoes, WorkedWas DEF OfWas, Was
  <2> QED
    BY <1>18, <2>0, <2>1, EndToBuyDoes DEF OnlyRow
<1>19. ASSUME NEW h \in Handlers, Browse(h) PROVE NewRows
  <2>0. TypeInv
    BY DEF Struct
  <2> QED
    BY <1>19, <2>0, BrowseDoes DEF NewRows
<1>20. ASSUME NEW h \in Handlers, DropOpen(h) PROVE NewRows
  <2>0. TypeInv
    BY DEF Struct
  <2> SUFFICES ASSUME NEW t \in Subs, sub[t].status = "none", sub'[t] # sub[t]
               PROVE  Inserted(t) \/ Granted(t)
    BY DEF NewRows
  <2> QED
    BY <1>20, <2>0, DropOpenDoes
<1>21. ASSUME NEW h \in Handlers, Subscribe(h) PROVE NewRows
  <2>0. TypeInv
    BY DEF Struct
  <2> QED
    BY <1>21, <2>0, SubscribeDoes DEF NewRows
<1>22. ASSUME NEW h \in Handlers, Insert(h) PROVE NewRows
  <2>0. TypeInv
    BY DEF Struct
  <2> SUFFICES ASSUME NEW t \in Subs, sub[t].status = "none", sub'[t] # sub[t]
               PROVE  Inserted(t) \/ Granted(t)
    BY DEF NewRows
  <2>1. t \in Retired(h) => sub[t].status # "none"
    BY <1>22, <2>0, InsertDoes, StructOf DEF Retired, WorkInOrder, Was
  <2>2. t = task[h].s
    BY <1>22, <2>0, <2>1, InsertDoes
  <2>3. Inserted(t)
    BY <1>22, <2>0, <2>2, InsertDoes DEF Inserted
  <2> QED
    BY <2>3
<1>23. ASSUME NEW h \in Handlers, Release(h) PROVE NewRows
  <2>0. TypeInv
    BY DEF Struct
  <2> QED
    BY <1>23, <2>0, ReleaseDoes DEF NewRows
<1>24. ASSUME NEW h \in Handlers, StopAtEnd(h) PROVE NewRows
  <2>0. TypeInv
    BY DEF Struct
  <2> QED
    BY <1>24, <2>0, StopAtEndDoes DEF NewRows
<1>25. ASSUME NEW h \in Handlers, MarkEnds(h) PROVE NewRows
  <2>0. TypeInv
    BY DEF Struct
  <2> SUFFICES ASSUME NEW t \in Subs, sub[t].status = "none", sub'[t] # sub[t]
               PROVE  Inserted(t) \/ Granted(t)
    BY DEF NewRows
  <2>1. sub' = sub \/ sub[task[h].s].status # "none"
    BY <1>25, <2>0, MarkEndsDoes, WorkedWas DEF OfWas, Was
  <2> QED
    BY <1>25, <2>0, <2>1, MarkEndsDoes DEF OnlyRow
<1>26. ASSUME NEW h \in Handlers, Schedule(h) PROVE NewRows
  <2>0. TypeInv
    BY DEF Struct
  <2> SUFFICES ASSUME NEW t \in Subs, sub[t].status = "none", sub'[t] # sub[t]
               PROVE  Inserted(t) \/ Granted(t)
    BY DEF NewRows
  <2>1. sub' = sub \/ sub[task[h].s].status # "none"
    BY <1>26, <2>0, ScheduleDoes, WorkedWas DEF OfWas, Was
  <2> QED
    BY <1>26, <2>0, <2>1, ScheduleDoes DEF OnlyRow
<1>27. ASSUME NEW h \in Handlers, StopNow(h) PROVE NewRows
  <2>0. TypeInv
    BY DEF Struct
  <2> QED
    BY <1>27, <2>0, StopNowDoes DEF NewRows
<1>28. ASSUME NEW h \in Handlers, Drop(h) PROVE NewRows
  <2>0. TypeInv
    BY DEF Struct
  <2> SUFFICES ASSUME NEW t \in Subs, sub[t].status = "none", sub'[t] # sub[t]
               PROVE  Inserted(t) \/ Granted(t)
    BY DEF NewRows
  <2>1. sub' = sub \/ sub[task[h].s].status # "none"
    BY <1>28, <2>0, DropDoes, WorkedWas DEF OfWas, Was
  <2> QED
    BY <1>28, <2>0, <2>1, DropDoes DEF OnlyRow
<1>29. ASSUME NEW h \in Handlers, Credit(h) PROVE NewRows
  <2>0. TypeInv
    BY DEF Struct
  <2> QED
    BY <1>29, <2>0, CreditDoes DEF NewRows
<1>30. ASSUME NEW h \in Handlers, Clear(h) PROVE NewRows
  <2>0. TypeInv
    BY DEF Struct
  <2> SUFFICES ASSUME NEW t \in Subs, sub[t].status = "none", sub'[t] # sub[t]
               PROVE  Inserted(t) \/ Granted(t)
    BY DEF NewRows
  <2> QED
    BY <1>30, <2>0, ClearDoes, StructOf DEF WorkInOrder
<1>31. ASSUME NEW h \in Handlers, GrantRow(h) PROVE NewRows
  <2>0. TypeInv
    BY DEF Struct
  <2> SUFFICES ASSUME NEW t \in Subs, sub[t].status = "none", sub'[t] # sub[t]
               PROVE  Inserted(t) \/ Granted(t)
    BY DEF NewRows
  <2>1. t = Next1 /\ ~Taken(sub, Next1, task[h].tier)
    BY <1>31, <2>0, GrantRowDoes DEF OnlyRow
  <2>2. Granted(t)
    BY <1>31, <2>0, <2>1, GrantRowDoes DEF Granted
  <2> QED
    BY <2>2
<1>32. ASSUME NEW h \in Handlers, Crash(h) PROVE NewRows
  <2>0. TypeInv
    BY DEF Struct
  <2> QED
    BY <1>32, <2>0, CrashDoes DEF NewRows
<1>33. ASSUME NEW h \in Handlers, NEW tier \in Tiers, Buy(h, tier) PROVE NewRows
  <2>0. TypeInv
    BY DEF Struct
  <2> QED
    BY <1>33, <2>0, BuyDoes DEF NewRows
<1>34. ASSUME NEW h \in Handlers, NEW tier \in Tiers, Grant(h, tier) PROVE NewRows
  <2>0. TypeInv
    BY DEF Struct
  <2> QED
    BY <1>34, <2>0, GrantDoes DEF NewRows
<1>35. ASSUME NEW h \in Handlers, NEW s \in Subs, Deliver(h, s) PROVE NewRows
  <2>0. TypeInv
    BY DEF Struct
  <2> QED
    BY <1>35, <2>0, DeliverDoes DEF NewRows
<1>36. ASSUME NEW h \in Handlers, NEW s \in Subs, Callback(h, s) PROVE NewRows
  <2>0. TypeInv
    BY DEF Struct
  <2> QED
    BY <1>36, <2>0, CallbackDoes DEF NewRows
<1>37. ASSUME NEW h \in Handlers, NEW s \in Subs, Overdue(h, s) PROVE NewRows
  <2>0. TypeInv
    BY DEF Struct
  <2> QED
    BY <1>37, <2>0, OverdueDoes DEF NewRows
<1>38. ASSUME NEW h \in Handlers, NEW s \in Subs, Cancel(h, s) PROVE NewRows
  <2>0. TypeInv
    BY DEF Struct
  <2> QED
    BY <1>38, <2>0, CancelDoes DEF NewRows
<1>39. ASSUME NEW h \in Handlers, NEW s \in Subs, Revoke(h, s) PROVE NewRows
  <2>0. TypeInv
    BY DEF Struct
  <2> QED
    BY <1>39, <2>0, RevokeDoes DEF NewRows
<1>40. ASSUME NEW h \in Handlers, NEW s \in Subs, NEW tier \in Tiers, ChangePlan(h, s, tier) PROVE
   NewRows
  <2>0. TypeInv
    BY DEF Struct
  <2> QED
    BY <1>40, <2>0, ChangePlanDoes DEF NewRows
<1>41. ASSUME NEW h \in Handlers, NEW s \in Subs, NEW tier \in Tiers, ChangeAddon(h, s, tier)
   PROVE NewRows
  <2>0. TypeInv
    BY DEF Struct
  <2> QED
    BY <1>41, <2>0, ChangeAddonDoes DEF NewRows
<1>42. CASE UNCHANGED vars
  BY <1>42 DEF vars, NewRows
<1> QED
  BY <1>1, <1>2, <1>3, <1>4, <1>5, <1>6, <1>7, <1>8, <1>9, <1>10, <1>11, <1>12, <1>13, <1>14,
     <1>15, <1>16, <1>17, <1>18, <1>19, <1>20, <1>21, <1>22, <1>23, <1>24, <1>25, <1>26, <1>27,
     <1>28, <1>29, <1>30, <1>31, <1>32, <1>33, <1>34, <1>35, <1>36, <1>37, <1>38, <1>39, <1>40,
     <1>41, <1>42 DEF Next, Step

LEMMA ReplacingKept ==
    ASSUME Struct, [Next]_vars
    PROVE  Replacing'
<1> SUFFICES ASSUME NEW s \in Subs, sub'[s].replaces # None
             PROVE  sub'[sub'[s].replaces].status \notin {"none", "created"}
  BY DEF Replacing, Was
<1>0. TypeInv /\ RowsLast /\ NewRows
  BY RowsLastAlways, NewRowsAlways DEF Struct
<1>1. CASE sub[s].status # "none"
  <2>1. sub'[s].replaces = sub[s].replaces
    BY <1>0, <1>1 DEF RowsLast, RowLasts, Terms
  <2>2. sub[s].replaces \in Subs /\ Was(sub[s].replaces)
    BY <1>0, <2>1, StructAt, AtRow
  <2> QED
    BY <1>0, <2>1, <2>2 DEF RowsLast, RowLasts
<1>2. CASE sub[s].status = "none" /\ sub'[s] = sub[s]
  BY <1>2, StructAt, IdleTyped DEF RowInOrder
<1>3. CASE Inserted(s)
  <2>1. PICK h \in Handlers : sub'[s].replaces = task[h].old
    BY <1>3 DEF Inserted
  <2>2. task[h].old \in Subs /\ Was(task[h].old)
    BY <1>0, <2>1, AtStep, StructOf DEF WorkInOrder
  <2> QED
    BY <1>0, <2>1, <2>2 DEF RowsLast, RowLasts
<1>4. CASE Granted(s)
  BY <1>4 DEF Granted
<1> QED
  BY <1>0, <1>1, <1>2, <1>3, <1>4 DEF NewRows

\* A deadline is lifted, or set by a failed attempt that is told.
GracesLast ==
    \A s \in Subs : sub'[s].grace # sub[s].grace =>
        \/ sub'[s].grace = None
        \/ \E h \in Handlers : task[h].step = "fail" /\ task[h].s = s /\ Leaves(h)

LEMMA WebhookFails ==
    ASSUME TypeInv, NEW h \in Handlers, task[h].step = "fail"
    PROVE  task[h].by = "webhook"
BY AtStep DEF TaskInOrder, Activating, Buying

\* What another handler does leaves this one's work in order.
LEMMA WorkOther ==
    ASSUME Struct, [Next]_vars, GracesLast, NEW k \in Handlers, task'[k] = task[k]
    PROVE  WorkInOrder(task[k])'
<1> DEFINE t == task[k]
<1>0. TypeInv /\ RowsLast /\ MandatesLast
  BY RowsLastAlways, MandatesLastAlways DEF Struct
<1>1. WorkInOrder(t) /\ TaskInOrder(t) /\ t.halted \in SUBSET Subs /\ t.old \in Subs \cup {None}
  BY <1>0, StructOf, AtStep
<1>2. t.row.replaces \in Subs \cup {None}
  BY <1>0, AtStep, RowFields
<1>3. t.by \in {"webhook", "callback"} => rzp'[t.s].paid > 0
  <2> SUFFICES ASSUME t.by \in {"webhook", "callback"} PROVE rzp'[t.s].paid > 0
    OBVIOUS
  <2>1. t.s \in Subs
    BY <1>1 DEF TaskInOrder, OfEvent
  <2>2. rzp[t.s].paid > 0 /\ MandateLasts(t.s)
    BY <1>0, <1>1, <2>1 DEF WorkInOrder, MandatesLast
  <2>3. rzp[t.s].paid \in Nat /\ rzp'[t.s].paid \in Nat
    BY <1>0, <2>1, Counted, PaidCounts
  <2> HIDE DEF t
  <2> QED
    BY <2>2, <2>3 DEF MandateLasts
<1>4. \A s \in Subs : Was(s) => sub'[s].status \notin {"none", "created"}
  BY <1>0 DEF RowsLast, RowLasts
<1>5. t.step \in OfWas => sub'[t.s].status \notin {"none", "created"}
  BY <1>1, <1>4 DEF WorkInOrder, TaskInOrder, OfWas, OfEvent, Activating
<1>6. t.step \in {"halt", "end"} /\ t.by \in {"read", "admin"} =>
         sub'[t.s].status \notin {"none", "created"}
  BY <1>1, <1>4 DEF WorkInOrder, TaskInOrder, OfEvent
<1>7. t.step \in {"dropOpen", "subscribe", "insert", "release"} =>
         \A s \in t.halted : sub'[s].status \notin {"none", "created"}
  BY <1>1, <1>4 DEF WorkInOrder
<1>8. t.step = "clear" => \A s \in t.halted : sub'[s].status # "none"
  BY <1>0, <1>1 DEF WorkInOrder, RowsLast, RowLasts
<1>9. /\ t.old # None => sub'[t.old].status \notin {"none", "created"}
      /\ t.row.replaces # None => sub'[t.row.replaces].status \notin {"none", "created"}
  BY <1>1, <1>2, <1>4 DEF WorkInOrder
<1>10. t.step \in {"activate", "setPlan", "cancelReplaced", "retire", "creditReplaced"} =>
          t.row.tier = sub'[t.s].tier /\ t.row.replaces = sub'[t.s].replaces
  <2> SUFFICES ASSUME t.step \in {"activate", "setPlan", "cancelReplaced", "retire",
                                  "creditReplaced"}
               PROVE  t.row.tier = sub'[t.s].tier /\ t.row.replaces = sub'[t.s].replaces
    OBVIOUS
  <2>1. t.s \in Subs /\ t.by \in {"webhook", "callback"}
    BY <1>0, AtStep DEF TaskInOrder, OfEvent, Activating, Buying
  <2>2. rzp[t.s].paid > 0 /\ t.row.tier = sub[t.s].tier /\ t.row.replaces = sub[t.s].replaces
    BY <1>1, <2>1 DEF WorkInOrder
  <2>3. sub[t.s].status # "none"
    BY <2>1, <2>2, PaidIsSold
  <2> QED
    BY <1>0, <2>1, <2>2, <2>3 DEF RowsLast, RowLasts, Terms
<1>11. t.step = "fail" /\ sub'[t.s].grace # None => t.row.grace = sub'[t.s].grace
  <2> SUFFICES ASSUME t.step = "fail", sub'[t.s].grace # None
               PROVE  t.row.grace = sub'[t.s].grace
    OBVIOUS
  <2>1. t.s \in Subs /\ t.by = "webhook"
    BY <1>0, <1>1, WebhookFails DEF TaskInOrder, OfEvent
  <2>2. CASE sub'[t.s].grace = sub[t.s].grace
    BY <1>1, <2>2 DEF WorkInOrder
  <2>3. CASE sub'[t.s].grace # sub[t.s].grace
    <3>1. PICK h \in Handlers : task[h].step = "fail" /\ task[h].s = t.s /\ Leaves(h)
      BY <2>1, <2>3 DEF GracesLast
    <3>2. task[h].by = "webhook"
      BY <1>0, <3>1, WebhookFails
    <3>3. h = k
      BY <1>0, <2>1, <3>1, <3>2 DEF TypeInv, Deliveries
    <3> QED
      BY <3>1, <3>3, IdleTyped DEF Leaves
  <2> QED
    BY <2>2, <2>3
<1> QED
  BY <1>3, <1>5, <1>6, <1>7, <1>8, <1>9, <1>10, <1>11 DEF WorkInOrder, Was

LEMMA WorkLeft ==
    ASSUME NEW h \in Handlers, Leaves(h)
    PROVE  WorkInOrder(task[h])'
<1>1. /\ task'[h].by = "nobody" /\ task'[h].step = "idle" /\ task'[h].halted = {}
      /\ task'[h].old = None /\ task'[h].row.replaces = None
  BY IdleTyped DEF Leaves
<1> QED
  BY <1>1 DEF WorkInOrder, OfWas

\* A handler goes on to a step at which what was known of its row is still needed.
LEMMA WorkMoved ==
    ASSUME Struct, [Next]_vars, NEW h \in Handlers, NEW step \in Steps \ {"fail", "halt", "end",
               "clear", "activate"}, Others(h), Kept(h), task'[h].step = step,
           step \in OfWas => Was(task[h].s) \/ sub'[task[h].s].status \notin {"none", "created"},
           step \in {"setPlan", "cancelReplaced", "retire", "creditReplaced"} =>
              task[h].step \in {"activate", "setPlan", "cancelReplaced", "retire",
                                "creditReplaced"},
           step \in {"dropOpen", "subscribe", "insert", "release"} =>
              \A s \in task[h].halted : Was(s)
    PROVE  WorkInOrder(task[h])'
<1> DEFINE t == task[h]
<1>0. TypeInv /\ RowsLast /\ MandatesLast
  BY RowsLastAlways, MandatesLastAlways DEF Struct
<1>1. WorkInOrder(t) /\ TaskInOrder(t) /\ t.halted \in SUBSET Subs /\ t.old \in Subs \cup {None}
  BY <1>0, StructOf, AtStep
<1>2. t.row.replaces \in Subs \cup {None}
  BY <1>0, AtStep, RowFields
<1>3. t.by \in {"webhook", "callback"} => rzp'[t.s].paid > 0
  <2> SUFFICES ASSUME t.by \in {"webhook", "callback"} PROVE rzp'[t.s].paid > 0
    OBVIOUS
  <2>1. t.s \in Subs
    BY <1>1 DEF TaskInOrder, OfEvent
  <2>2. rzp[t.s].paid > 0 /\ MandateLasts(t.s)
    BY <1>0, <1>1, <2>1 DEF WorkInOrder, MandatesLast
  <2>3. rzp[t.s].paid \in Nat /\ rzp'[t.s].paid \in Nat
    BY <1>0, <2>1, Counted, PaidCounts
  <2> HIDE DEF t
  <2> QED
    BY <2>2, <2>3 DEF MandateLasts
<1>4. \A s \in Subs : Was(s) => sub'[s].status \notin {"none", "created"}
  BY <1>0 DEF RowsLast, RowLasts
<1>5. step \in OfWas => sub'[t.s].status \notin {"none", "created"}
  <2>1. TaskInOrder(task'[h]) /\ task'[h].s = t.s
    BY TasksKept, <1>0 DEF TasksInOrder, Kept
  <2>2. step \in OfWas => t.s \in Subs
    BY <2>1 DEF TaskInOrder, OfWas, OfEvent, Activating
  <2> QED
    BY <1>4, <2>2
<1>7. step \in {"dropOpen", "subscribe", "insert", "release"} =>
         \A s \in t.halted : sub'[s].status \notin {"none", "created"}
  BY <1>1, <1>4
<1>9. /\ t.old # None => sub'[t.old].status \notin {"none", "created"}
      /\ t.row.replaces # None => sub'[t.row.replaces].status \notin {"none", "created"}
  BY <1>1, <1>2, <1>4 DEF WorkInOrder
<1>10. step \in {"setPlan", "cancelReplaced", "retire", "creditReplaced"} =>
          t.row.tier = sub'[t.s].tier /\ t.row.replaces = sub'[t.s].replaces
  <2> SUFFICES ASSUME t.step \in {"activate", "setPlan", "cancelReplaced", "retire",
                                  "creditReplaced"}
               PROVE  t.row.tier = sub'[t.s].tier /\ t.row.replaces = sub'[t.s].replaces
    OBVIOUS
  <2>1. t.s \in Subs /\ t.by \in {"webhook", "callback"}
    BY <1>0, AtStep DEF TaskInOrder, OfEvent, Activating, Buying
  <2>2. rzp[t.s].paid > 0 /\ t.row.tier = sub[t.s].tier /\ t.row.replaces = sub[t.s].replaces
    BY <1>1, <2>1 DEF WorkInOrder
  <2>3. sub[t.s].status # "none"
    BY <2>1, <2>2, PaidIsSold
  <2> QED
    BY <1>0, <2>1, <2>2, <2>3 DEF RowsLast, RowLasts, Terms
<1>11. /\ task'[h].by = t.by /\ task'[h].s = t.s /\ task'[h].row = t.row /\ task'[h].old = t.old
       /\ task'[h].halted = t.halted /\ task'[h].step = step
  BY DEF Kept
<1> HIDE DEF t
<1> QED
  BY <1>3, <1>5, <1>7, <1>9, <1>10, <1>11 DEF WorkInOrder, Was

\* A handler that begins knows what it was given.
LEMMA WorkBegun ==
    ASSUME Struct, NEW h \in Handlers, NEW by, NEW step, NEW s, NEW row, NEW event, NEW tier,
           NEW old, NEW halted, Begins(h, by, step, s, row, event, tier, old, halted),
           UNCHANGED sub,
           by \in {"webhook", "callback"} => rzp'[s].paid > 0,
           step \in OfWas => Was(s),
           step \in {"halt", "end"} /\ by \in {"read", "admin"} => Was(s),
           step \notin {"dropOpen", "subscribe", "insert", "release", "activate", "setPlan",
                        "cancelReplaced", "retire", "creditReplaced"},
           step = "clear" => \A i \in halted : sub[i].status # "none",
           old # None => Was(old),
           row.replaces # None => Was(row.replaces),
           step = "fail" => row.grace = sub[s].grace
    PROVE  WorkInOrder(task[h])'
<1>1. /\ task'[h].by = by /\ task'[h].step = step /\ task'[h].s = s /\ task'[h].row = row
      /\ task'[h].old = old /\ task'[h].halted = halted
  BY DEF Begins
<1> QED
  BY <1>1 DEF WorkInOrder, Was

LEMMA WorksFrom ==
    ASSUME Struct, [Next]_vars, GracesLast, NEW h \in Handlers, Others(h), WorkInOrder(task[h])'
    PROVE  WorksInOrder'
<1> SUFFICES ASSUME NEW k \in Handlers PROVE WorkInOrder(task[k])'
  BY DEF WorksInOrder
<1> QED
  BY WorkOther DEF Others

LEMMA WorksSame ==
    ASSUME Struct, [Next]_vars, GracesLast, UNCHANGED task
    PROVE  WorksInOrder'
BY WorkOther DEF WorksInOrder

LEMMA GracesLastAlways ==
    ASSUME Struct, [Next]_vars
    PROVE  GracesLast
<1>1. ASSUME Tick PROVE GracesLast
  <2>0. TypeInv
    BY DEF Struct
  <2> SUFFICES ASSUME NEW t \in Subs, sub'[t].grace # sub[t].grace
               PROVE  sub'[t].grace = None
    BY DEF GracesLast
  <2> QED
    BY <1>1, <2>0, TickDoes DEF OnlyRow, Cancels, Dates
<1>2. ASSUME NEW s \in Subs, Pay(s) PROVE GracesLast
  <2>0. TypeInv
    BY DEF Struct
  <2> SUFFICES ASSUME NEW t \in Subs, sub'[t].grace # sub[t].grace
               PROVE  sub'[t].grace = None
    BY DEF GracesLast
  <2> QED
    BY <1>2, <2>0, PayDoes DEF OnlyRow, Cancels, Dates
<1>3. ASSUME NEW s \in Subs, Charge(s) PROVE GracesLast
  <2>0. TypeInv
    BY DEF Struct
  <2> SUFFICES ASSUME NEW t \in Subs, sub'[t].grace # sub[t].grace
               PROVE  sub'[t].grace = None
    BY DEF GracesLast
  <2> QED
    BY <1>3, <2>0, ChargeDoes DEF OnlyRow, Cancels, Dates
<1>4. ASSUME NEW s \in Subs, Decline(s) PROVE GracesLast
  <2>0. TypeInv
    BY DEF Struct
  <2> SUFFICES ASSUME NEW t \in Subs, sub'[t].grace # sub[t].grace
               PROVE  sub'[t].grace = None
    BY DEF GracesLast
  <2> QED
    BY <1>4, <2>0, DeclineDoes DEF OnlyRow, Cancels, Dates
<1>5. ASSUME NEW s \in Subs, GiveUp(s) PROVE GracesLast
  <2>0. TypeInv
    BY DEF Struct
  <2> SUFFICES ASSUME NEW t \in Subs, sub'[t].grace # sub[t].grace
               PROVE  sub'[t].grace = None
    BY DEF GracesLast
  <2> QED
    BY <1>5, <2>0, GiveUpDoes DEF OnlyRow, Cancels, Dates
<1>6. ASSUME NEW s \in Subs, CycleEnds(s) PROVE GracesLast
  <2>0. TypeInv
    BY DEF Struct
  <2> SUFFICES ASSUME NEW t \in Subs, sub'[t].grace # sub[t].grace
               PROVE  sub'[t].grace = None
    BY DEF GracesLast
  <2> QED
    BY <1>6, <2>0, CycleEndsDoes DEF OnlyRow, Cancels, Dates
<1>7. ASSUME NEW h \in Handlers, ReadToActivate(h) PROVE GracesLast
  <2>0. TypeInv
    BY DEF Struct
  <2> SUFFICES ASSUME NEW t \in Subs, sub'[t].grace # sub[t].grace
               PROVE  sub'[t].grace = None
    BY DEF GracesLast
  <2> QED
    BY <1>7, <2>0, ReadToActivateDoes DEF OnlyRow, Cancels, Dates
<1>8. ASSUME NEW h \in Handlers, Activate(h) PROVE GracesLast
  <2>0. TypeInv
    BY DEF Struct
  <2> SUFFICES ASSUME NEW t \in Subs, sub'[t].grace # sub[t].grace
               PROVE  sub'[t].grace = None
    BY DEF GracesLast
  <2> QED
    BY <1>8, <2>0, ActivateDoes DEF OnlyRow, Cancels, Dates
<1>9. ASSUME NEW h \in Handlers, SetPlan(h) PROVE GracesLast
  <2>0. TypeInv
    BY DEF Struct
  <2> SUFFICES ASSUME NEW t \in Subs, sub'[t].grace # sub[t].grace
               PROVE  sub'[t].grace = None
    BY DEF GracesLast
  <2> QED
    BY <1>9, <2>0, SetPlanDoes DEF OnlyRow, Cancels, Dates
<1>10. ASSUME NEW h \in Handlers, CancelReplaced(h) PROVE GracesLast
  <2>0. TypeInv
    BY DEF Struct
  <2> SUFFICES ASSUME NEW t \in Subs, sub'[t].grace # sub[t].grace
               PROVE  sub'[t].grace = None
    BY DEF GracesLast
  <2> QED
    BY <1>10, <2>0, CancelReplacedDoes DEF OnlyRow, Cancels, Dates
<1>11. ASSUME NEW h \in Handlers, Retire(h) PROVE GracesLast
  <2>0. TypeInv
    BY DEF Struct
  <2> SUFFICES ASSUME NEW t \in Subs, sub'[t].grace # sub[t].grace
               PROVE  sub'[t].grace = None
    BY DEF GracesLast
  <2> QED
    BY <1>11, <2>0, RetireDoes DEF OnlyRow, Cancels, Dates
<1>12. ASSUME NEW h \in Handlers, CreditReplaced(h) PROVE GracesLast
  <2>0. TypeInv
    BY DEF Struct
  <2> SUFFICES ASSUME NEW t \in Subs, sub'[t].grace # sub[t].grace
               PROVE  sub'[t].grace = None
    BY DEF GracesLast
  <2> QED
    BY <1>12, <2>0, CreditReplacedDoes DEF OnlyRow, Cancels, Dates
<1>13. ASSUME NEW h \in Handlers, Invoice(h) PROVE GracesLast
  <2>0. TypeInv
    BY DEF Struct
  <2> SUFFICES ASSUME NEW t \in Subs, sub'[t].grace # sub[t].grace
               PROVE  sub'[t].grace = None
    BY DEF GracesLast
  <2> QED
    BY <1>13, <2>0, InvoiceDoes DEF OnlyRow, Cancels, Dates
<1>14. ASSUME NEW h \in Handlers, Renew(h) PROVE GracesLast
  <2>0. TypeInv
    BY DEF Struct
  <2> SUFFICES ASSUME NEW t \in Subs, sub'[t].grace # sub[t].grace
               PROVE  sub'[t].grace = None
    BY DEF GracesLast
  <2> QED
    BY <1>14, <2>0, RenewDoes DEF OnlyRow, Cancels, Dates
<1>15. ASSUME NEW h \in Handlers, Fail(h) PROVE GracesLast
  <2>0. TypeInv
    BY DEF Struct
  <2>1. Leaves(h) /\ task[h].step = "fail"
        /\ \A t \in Subs : t # task[h].s => sub'[t] = sub[t]
    BY <1>15, <2>0, FailDoes DEF OnlyRow, Answers
  <2> QED
    BY <2>1 DEF GracesLast
<1>16. ASSUME NEW h \in Handlers, Halt(h) PROVE GracesLast
  <2>0. TypeInv
    BY DEF Struct
  <2> SUFFICES ASSUME NEW t \in Subs, sub'[t].grace # sub[t].grace
               PROVE  sub'[t].grace = None
    BY DEF GracesLast
  <2> QED
    BY <1>16, <2>0, HaltDoes DEF OnlyRow, Cancels, Dates
<1>17. ASSUME NEW h \in Handlers, End(h) PROVE GracesLast
  <2>0. TypeInv
    BY DEF Struct
  <2> SUFFICES ASSUME NEW t \in Subs, sub'[t].grace # sub[t].grace
               PROVE  sub'[t].grace = None
    BY DEF GracesLast
  <2> QED
    BY <1>17, <2>0, EndDoes DEF OnlyRow, Cancels, Dates
<1>18. ASSUME NEW h \in Handlers, EndToBuy(h) PROVE GracesLast
  <2>0. TypeInv
    BY DEF Struct
  <2> SUFFICES ASSUME NEW t \in Subs, sub'[t].grace # sub[t].grace
               PROVE  sub'[t].grace = None
    BY DEF GracesLast
  <2> QED
    BY <1>18, <2>0, EndToBuyDoes DEF OnlyRow, Cancels, Dates
<1>19. ASSUME NEW h \in Handlers, Browse(h) PROVE GracesLast
  <2>0. TypeInv
    BY DEF Struct
  <2> SUFFICES ASSUME NEW t \in Subs, sub'[t].grace # sub[t].grace
               PROVE  sub'[t].grace = None
    BY DEF GracesLast
  <2> QED
    BY <1>19, <2>0, BrowseDoes DEF OnlyRow, Cancels, Dates
<1>20. ASSUME NEW h \in Handlers, DropOpen(h) PROVE GracesLast
  <2>0. TypeInv
    BY DEF Struct
  <2> SUFFICES ASSUME NEW t \in Subs, sub'[t].grace # sub[t].grace
               PROVE  sub'[t].grace = None
    BY DEF GracesLast
  <2> QED
    BY <1>20, <2>0, DropOpenDoes DEF OnlyRow, Cancels, Dates
<1>21. ASSUME NEW h \in Handlers, Subscribe(h) PROVE GracesLast
  <2>0. TypeInv
    BY DEF Struct
  <2> SUFFICES ASSUME NEW t \in Subs, sub'[t].grace # sub[t].grace
               PROVE  sub'[t].grace = None
    BY DEF GracesLast
  <2> QED
    BY <1>21, <2>0, SubscribeDoes DEF OnlyRow, Cancels, Dates
<1>22. ASSUME NEW h \in Handlers, Insert(h) PROVE GracesLast
  <2>0. TypeInv
    BY DEF Struct
  <2> SUFFICES ASSUME NEW t \in Subs, sub'[t].grace # sub[t].grace
               PROVE  sub'[t].grace = None
    BY DEF GracesLast
  <2> QED
    BY <1>22, <2>0, InsertDoes DEF OnlyRow, Cancels, Dates
<1>23. ASSUME NEW h \in Handlers, Release(h) PROVE GracesLast
  <2>0. TypeInv
    BY DEF Struct
  <2> SUFFICES ASSUME NEW t \in Subs, sub'[t].grace # sub[t].grace
               PROVE  sub'[t].grace = None
    BY DEF GracesLast
  <2> QED
    BY <1>23, <2>0, ReleaseDoes DEF OnlyRow, Cancels, Dates
<1>24. ASSUME NEW h \in Handlers, StopAtEnd(h) PROVE GracesLast
  <2>0. TypeInv
    BY DEF Struct
  <2> SUFFICES ASSUME NEW t \in Subs, sub'[t].grace # sub[t].grace
               PROVE  sub'[t].grace = None
    BY DEF GracesLast
  <2> QED
    BY <1>24, <2>0, StopAtEndDoes DEF OnlyRow, Cancels, Dates
<1>25. ASSUME NEW h \in Handlers, MarkEnds(h) PROVE GracesLast
  <2>0. TypeInv
    BY DEF Struct
  <2> SUFFICES ASSUME NEW t \in Subs, sub'[t].grace # sub[t].grace
               PROVE  sub'[t].grace = None
    BY DEF GracesLast
  <2> QED
    BY <1>25, <2>0, MarkEndsDoes DEF OnlyRow, Cancels, Dates
<1>26. ASSUME NEW h \in Handlers, Schedule(h) PROVE GracesLast
  <2>0. TypeInv
    BY DEF Struct
  <2> SUFFICES ASSUME NEW t \in Subs, sub'[t].grace # sub[t].grace
               PROVE  sub'[t].grace = None
    BY DEF GracesLast
  <2> QED
    BY <1>26, <2>0, ScheduleDoes DEF OnlyRow, Cancels, Dates
<1>27. ASSUME NEW h \in Handlers, StopNow(h) PROVE GracesLast
  <2>0. TypeInv
    BY DEF Struct
  <2> SUFFICES ASSUME NEW t \in Subs, sub'[t].grace # sub[t].grace
               PROVE  sub'[t].grace = None
    BY DEF GracesLast
  <2> QED
    BY <1>27, <2>0, StopNowDoes DEF OnlyRow, Cancels, Dates
<1>28. ASSUME NEW h \in Handlers, Drop(h) PROVE GracesLast
  <2>0. TypeInv
    BY DEF Struct
  <2> SUFFICES ASSUME NEW t \in Subs, sub'[t].grace # sub[t].grace
               PROVE  sub'[t].grace = None
    BY DEF GracesLast
  <2> QED
    BY <1>28, <2>0, DropDoes DEF OnlyRow, Cancels, Dates
<1>29. ASSUME NEW h \in Handlers, Credit(h) PROVE GracesLast
  <2>0. TypeInv
    BY DEF Struct
  <2> SUFFICES ASSUME NEW t \in Subs, sub'[t].grace # sub[t].grace
               PROVE  sub'[t].grace = None
    BY DEF GracesLast
  <2> QED
    BY <1>29, <2>0, CreditDoes DEF OnlyRow, Cancels, Dates
<1>30. ASSUME NEW h \in Handlers, Clear(h) PROVE GracesLast
  <2>0. TypeInv
    BY DEF Struct
  <2> SUFFICES ASSUME NEW t \in Subs, sub'[t].grace # sub[t].grace
               PROVE  sub'[t].grace = None
    BY DEF GracesLast
  <2> QED
    BY <1>30, <2>0, ClearDoes DEF OnlyRow, Cancels, Dates
<1>31. ASSUME NEW h \in Handlers, GrantRow(h) PROVE GracesLast
  <2>0. TypeInv
    BY DEF Struct
  <2> SUFFICES ASSUME NEW t \in Subs, sub'[t].grace # sub[t].grace
               PROVE  sub'[t].grace = None
    BY DEF GracesLast
  <2> QED
    BY <1>31, <2>0, GrantRowDoes DEF OnlyRow, Cancels, Dates
<1>32. ASSUME NEW h \in Handlers, Crash(h) PROVE GracesLast
  <2>0. TypeInv
    BY DEF Struct
  <2> SUFFICES ASSUME NEW t \in Subs, sub'[t].grace # sub[t].grace
               PROVE  sub'[t].grace = None
    BY DEF GracesLast
  <2> QED
    BY <1>32, <2>0, CrashDoes DEF OnlyRow, Cancels, Dates
<1>33. ASSUME NEW h \in Handlers, NEW tier \in Tiers, Buy(h, tier) PROVE GracesLast
  <2>0. TypeInv
    BY DEF Struct
  <2> SUFFICES ASSUME NEW t \in Subs, sub'[t].grace # sub[t].grace
               PROVE  sub'[t].grace = None
    BY DEF GracesLast
  <2> QED
    BY <1>33, <2>0, BuyDoes DEF OnlyRow, Cancels, Dates
<1>34. ASSUME NEW h \in Handlers, NEW tier \in Tiers, Grant(h, tier) PROVE GracesLast
  <2>0. TypeInv
    BY DEF Struct
  <2> SUFFICES ASSUME NEW t \in Subs, sub'[t].grace # sub[t].grace
               PROVE  sub'[t].grace = None
    BY DEF GracesLast
  <2> QED
    BY <1>34, <2>0, GrantDoes DEF OnlyRow, Cancels, Dates
<1>35. ASSUME NEW h \in Handlers, NEW s \in Subs, Deliver(h, s) PROVE GracesLast
  <2>0. TypeInv
    BY DEF Struct
  <2> SUFFICES ASSUME NEW t \in Subs, sub'[t].grace # sub[t].grace
               PROVE  sub'[t].grace = None
    BY DEF GracesLast
  <2> QED
    BY <1>35, <2>0, DeliverDoes DEF OnlyRow, Cancels, Dates
<1>36. ASSUME NEW h \in Handlers, NEW s \in Subs, Callback(h, s) PROVE GracesLast
  <2>0. TypeInv
    BY DEF Struct
  <2> SUFFICES ASSUME NEW t \in Subs, sub'[t].grace # sub[t].grace
               PROVE  sub'[t].grace = None
    BY DEF GracesLast
  <2> QED
    BY <1>36, <2>0, CallbackDoes DEF OnlyRow, Cancels, Dates
<1>37. ASSUME NEW h \in Handlers, NEW s \in Subs, Overdue(h, s) PROVE GracesLast
  <2>0. TypeInv
    BY DEF Struct
  <2> SUFFICES ASSUME NEW t \in Subs, sub'[t].grace # sub[t].grace
               PROVE  sub'[t].grace = None
    BY DEF GracesLast
  <2> QED
    BY <1>37, <2>0, OverdueDoes DEF OnlyRow, Cancels, Dates
<1>38. ASSUME NEW h \in Handlers, NEW s \in Subs, Cancel(h, s) PROVE GracesLast
  <2>0. TypeInv
    BY DEF Struct
  <2> SUFFICES ASSUME NEW t \in Subs, sub'[t].grace # sub[t].grace
               PROVE  sub'[t].grace = None
    BY DEF GracesLast
  <2> QED
    BY <1>38, <2>0, CancelDoes DEF OnlyRow, Cancels, Dates
<1>39. ASSUME NEW h \in Handlers, NEW s \in Subs, Revoke(h, s) PROVE GracesLast
  <2>0. TypeInv
    BY DEF Struct
  <2> SUFFICES ASSUME NEW t \in Subs, sub'[t].grace # sub[t].grace
               PROVE  sub'[t].grace = None
    BY DEF GracesLast
  <2> QED
    BY <1>39, <2>0, RevokeDoes DEF OnlyRow, Cancels, Dates
<1>40. ASSUME NEW h \in Handlers, NEW s \in Subs, NEW tier \in Tiers, ChangePlan(h, s, tier) PROVE
   GracesLast
  <2>0. TypeInv
    BY DEF Struct
  <2> SUFFICES ASSUME NEW t \in Subs, sub'[t].grace # sub[t].grace
               PROVE  sub'[t].grace = None
    BY DEF GracesLast
  <2> QED
    BY <1>40, <2>0, ChangePlanDoes DEF OnlyRow, Cancels, Dates
<1>41. ASSUME NEW h \in Handlers, NEW s \in Subs, NEW tier \in Tiers, ChangeAddon(h, s, tier)
   PROVE GracesLast
  <2>0. TypeInv
    BY DEF Struct
  <2> SUFFICES ASSUME NEW t \in Subs, sub'[t].grace # sub[t].grace
               PROVE  sub'[t].grace = None
    BY DEF GracesLast
  <2> QED
    BY <1>41, <2>0, ChangeAddonDoes DEF OnlyRow, Cancels, Dates
<1>42. CASE UNCHANGED vars
  BY <1>42 DEF vars, GracesLast
<1> QED
  BY <1>1, <1>2, <1>3, <1>4, <1>5, <1>6, <1>7, <1>8, <1>9, <1>10, <1>11, <1>12, <1>13, <1>14,
     <1>15, <1>16, <1>17, <1>18, <1>19, <1>20, <1>21, <1>22, <1>23, <1>24, <1>25, <1>26, <1>27,
     <1>28, <1>29, <1>30, <1>31, <1>32, <1>33, <1>34, <1>35, <1>36, <1>37, <1>38, <1>39, <1>40,
     <1>41, <1>42 DEF Next, Step

LEMMA WorksKept ==
    ASSUME Struct, [Next]_vars
    PROVE  WorksInOrder'
<1>1. ASSUME Tick PROVE WorksInOrder'
  <2>0. TypeInv /\ GracesLast
    BY GracesLastAlways DEF Struct
  <2> QED
    BY <1>1, <2>0, TickDoes, WorksSame
<1>2. ASSUME NEW s \in Subs, Pay(s) PROVE WorksInOrder'
  <2>0. TypeInv /\ GracesLast
    BY GracesLastAlways DEF Struct
  <2> QED
    BY <1>2, <2>0, PayDoes, WorksSame
<1>3. ASSUME NEW s \in Subs, Charge(s) PROVE WorksInOrder'
  <2>0. TypeInv /\ GracesLast
    BY GracesLastAlways DEF Struct
  <2> QED
    BY <1>3, <2>0, ChargeDoes, WorksSame
<1>4. ASSUME NEW s \in Subs, Decline(s) PROVE WorksInOrder'
  <2>0. TypeInv /\ GracesLast
    BY GracesLastAlways DEF Struct
  <2> QED
    BY <1>4, <2>0, DeclineDoes, WorksSame
<1>5. ASSUME NEW s \in Subs, GiveUp(s) PROVE WorksInOrder'
  <2>0. TypeInv /\ GracesLast
    BY GracesLastAlways DEF Struct
  <2> QED
    BY <1>5, <2>0, GiveUpDoes, WorksSame
<1>6. ASSUME NEW s \in Subs, CycleEnds(s) PROVE WorksInOrder'
  <2>0. TypeInv /\ GracesLast
    BY GracesLastAlways DEF Struct
  <2> QED
    BY <1>6, <2>0, CycleEndsDoes, WorksSame
<1>7. ASSUME NEW h \in Handlers, ReadToActivate(h) PROVE WorksInOrder'
  <2>0. TypeInv /\ GracesLast
    BY GracesLastAlways DEF Struct
  <2>1. task[h].s \in Subs /\ UNCHANGED <<sub, rzp>> /\ task[h].step = "readToActivate"
    BY <1>7, <2>0, ReadToActivateDoes
  <2>2. CASE Leaves(h)
    BY <2>0, <2>2, WorkLeft, WorksFrom DEF Leaves
  <2>3. CASE ~Leaves(h)
    <3>1. /\ Others(h) /\ task'[h].step = "activate" /\ task'[h].by = task[h].by
          /\ task'[h].s = task[h].s /\ task'[h].row = sub[task[h].s]
          /\ task'[h].old = task[h].old
      BY <1>7, <2>0, <2>3, ReadToActivateDoes DEF Answers
    <3>2. WorkInOrder(task[h]) /\ (sub[task[h].s].replaces # None => Was(sub[task[h].s].replaces))
      BY <2>1, StructOf, StructAt
    <3>3. WorkInOrder(task[h])'
      BY <2>1, <3>1, <3>2 DEF WorkInOrder, Was, OfWas
    <3> QED
      BY <2>0, <3>1, <3>3, WorksFrom
  <2> QED
    BY <2>2, <2>3
<1>8. ASSUME NEW h \in Handlers, Activate(h) PROVE WorksInOrder'
  <2>0. TypeInv /\ GracesLast
    BY GracesLastAlways DEF Struct
  <2>1. Leaves(h) \/ (Others(h) /\ Kept(h) /\ task'[h].step = "setPlan") \/ (Others(h) /\ Kept(h)
     /\ task'[h].step = "cancelReplaced") \/ (Others(h) /\ Kept(h) /\ task'[h].step = "invoice")
    BY <1>8, <2>0, ActivateDoes DEF Moves, AfterActivate
  <2>2. sub'[task[h].s].status \notin {"none", "created"} /\ task[h].step = "activate"
    BY <1>8, <2>0, ActivateDoes DEF OfWas
  <2>3. CASE Leaves(h)
    BY <2>0, <2>3, WorkLeft, WorksFrom DEF Leaves
  <2>4. CASE Others(h) /\ Kept(h) /\ task'[h].step = "setPlan"
    <3>1. WorkInOrder(task[h])'
      BY <2>2, <2>4, WorkMoved DEF Steps, Activating, Buying, OfWas
    <3> QED
      BY <2>0, <2>4, <3>1, WorksFrom
  <2>5. CASE Others(h) /\ Kept(h) /\ task'[h].step = "cancelReplaced"
    <3>1. WorkInOrder(task[h])'
      BY <2>2, <2>5, WorkMoved DEF Steps, Activating, Buying, OfWas
    <3> QED
      BY <2>0, <2>5, <3>1, WorksFrom
  <2>6. CASE Others(h) /\ Kept(h) /\ task'[h].step = "invoice"
    <3>1. WorkInOrder(task[h])'
      BY <2>2, <2>6, WorkMoved DEF Steps, Activating, Buying, OfWas
    <3> QED
      BY <2>0, <2>6, <3>1, WorksFrom
  <2> QED
    BY <2>1, <2>3, <2>4, <2>5, <2>6
<1>9. ASSUME NEW h \in Handlers, SetPlan(h) PROVE WorksInOrder'
  <2>0. TypeInv /\ GracesLast
    BY GracesLastAlways DEF Struct
  <2>1. (Others(h) /\ Kept(h) /\ task'[h].step = "invoice")
    BY <1>9, <2>0, SetPlanDoes DEF Moves, AfterActivate
  <2>2. Was(task[h].s) /\ task[h].step = "setPlan"
    BY <1>9, <2>0, SetPlanDoes, WorkedWas DEF OfWas
  <2>3. CASE Others(h) /\ Kept(h) /\ task'[h].step = "invoice"
    <3>1. WorkInOrder(task[h])'
      BY <2>2, <2>3, WorkMoved DEF Steps, Activating, Buying, OfWas
    <3> QED
      BY <2>0, <2>3, <3>1, WorksFrom
  <2> QED
    BY <2>1, <2>3
<1>10. ASSUME NEW h \in Handlers, CancelReplaced(h) PROVE WorksInOrder'
  <2>0. TypeInv /\ GracesLast
    BY GracesLastAlways DEF Struct
  <2>1. (Others(h) /\ Kept(h) /\ task'[h].step = "invoice") \/ (Others(h) /\ Kept(h) /\
     task'[h].step = "retire")
    BY <1>10, <2>0, CancelReplacedDoes DEF Moves, AfterActivate
  <2>2. Was(task[h].s) /\ task[h].step = "cancelReplaced"
    BY <1>10, <2>0, CancelReplacedDoes, WorkedWas DEF OfWas
  <2>3. CASE Others(h) /\ Kept(h) /\ task'[h].step = "invoice"
    <3>1. WorkInOrder(task[h])'
      BY <2>2, <2>3, WorkMoved DEF Steps, Activating, Buying, OfWas
    <3> QED
      BY <2>0, <2>3, <3>1, WorksFrom
  <2>4. CASE Others(h) /\ Kept(h) /\ task'[h].step = "retire"
    <3>1. WorkInOrder(task[h])'
      BY <2>2, <2>4, WorkMoved DEF Steps, Activating, Buying, OfWas
    <3> QED
      BY <2>0, <2>4, <3>1, WorksFrom
  <2> QED
    BY <2>1, <2>3, <2>4
<1>11. ASSUME NEW h \in Handlers, Retire(h) PROVE WorksInOrder'
  <2>0. TypeInv /\ GracesLast
    BY GracesLastAlways DEF Struct
  <2>1. (Others(h) /\ Kept(h) /\ task'[h].step = "creditReplaced") \/ (Others(h) /\ Kept(h) /\
     task'[h].step = "invoice")
    BY <1>11, <2>0, RetireDoes DEF Moves, AfterActivate
  <2>2. Was(task[h].s) /\ task[h].step = "retire"
    BY <1>11, <2>0, RetireDoes, WorkedWas DEF OfWas
  <2>3. CASE Others(h) /\ Kept(h) /\ task'[h].step = "creditReplaced"
    <3>1. WorkInOrder(task[h])'
      BY <2>2, <2>3, WorkMoved DEF Steps, Activating, Buying, OfWas
    <3> QED
      BY <2>0, <2>3, <3>1, WorksFrom
  <2>4. CASE Others(h) /\ Kept(h) /\ task'[h].step = "invoice"
    <3>1. WorkInOrder(task[h])'
      BY <2>2, <2>4, WorkMoved DEF Steps, Activating, Buying, OfWas
    <3> QED
      BY <2>0, <2>4, <3>1, WorksFrom
  <2> QED
    BY <2>1, <2>3, <2>4
<1>12. ASSUME NEW h \in Handlers, CreditReplaced(h) PROVE WorksInOrder'
  <2>0. TypeInv /\ GracesLast
    BY GracesLastAlways DEF Struct
  <2>1. (Others(h) /\ Kept(h) /\ task'[h].step = "invoice")
    BY <1>12, <2>0, CreditReplacedDoes DEF Moves, AfterActivate
  <2>2. Was(task[h].s) /\ task[h].step = "creditReplaced"
    BY <1>12, <2>0, CreditReplacedDoes, WorkedWas DEF OfWas
  <2>3. CASE Others(h) /\ Kept(h) /\ task'[h].step = "invoice"
    <3>1. WorkInOrder(task[h])'
      BY <2>2, <2>3, WorkMoved DEF Steps, Activating, Buying, OfWas
    <3> QED
      BY <2>0, <2>3, <3>1, WorksFrom
  <2> QED
    BY <2>1, <2>3
<1>13. ASSUME NEW h \in Handlers, Invoice(h) PROVE WorksInOrder'
  <2>0. TypeInv /\ GracesLast
    BY GracesLastAlways DEF Struct
  <2>1. Leaves(h)
    BY <1>13, <2>0, InvoiceDoes DEF Answers
  <2> QED
    BY <2>0, <2>1, WorkLeft, WorksFrom DEF Leaves
<1>14. ASSUME NEW h \in Handlers, Renew(h) PROVE WorksInOrder'
  <2>0. TypeInv /\ GracesLast
    BY GracesLastAlways DEF Struct
  <2>1. (Others(h) /\ Kept(h) /\ task'[h].step = "invoice")
    BY <1>14, <2>0, RenewDoes DEF Moves, AfterActivate
  <2>2. Was(task[h].s) /\ task[h].step = "renew"
    BY <1>14, <2>0, RenewDoes, WorkedWas DEF OfWas
  <2>3. CASE Others(h) /\ Kept(h) /\ task'[h].step = "invoice"
    <3>1. WorkInOrder(task[h])'
      BY <2>2, <2>3, WorkMoved DEF Steps, Activating, Buying, OfWas
    <3> QED
      BY <2>0, <2>3, <3>1, WorksFrom
  <2> QED
    BY <2>1, <2>3
<1>15. ASSUME NEW h \in Handlers, Fail(h) PROVE WorksInOrder'
  <2>0. TypeInv /\ GracesLast
    BY GracesLastAlways DEF Struct
  <2>1. Leaves(h)
    BY <1>15, <2>0, FailDoes DEF Answers
  <2> QED
    BY <2>0, <2>1, WorkLeft, WorksFrom DEF Leaves
<1>16. ASSUME NEW h \in Handlers, Halt(h) PROVE WorksInOrder'
  <2>0. TypeInv /\ GracesLast
    BY GracesLastAlways DEF Struct
  <2>1. Leaves(h)
    BY <1>16, <2>0, HaltDoes DEF Answers
  <2> QED
    BY <2>0, <2>1, WorkLeft, WorksFrom DEF Leaves
<1>17. ASSUME NEW h \in Handlers, End(h) PROVE WorksInOrder'
  <2>0. TypeInv /\ GracesLast
    BY GracesLastAlways DEF Struct
  <2>1. Leaves(h)
    BY <1>17, <2>0, EndDoes DEF Answers
  <2> QED
    BY <2>0, <2>1, WorkLeft, WorksFrom DEF Leaves
<1>18. ASSUME NEW h \in Handlers, EndToBuy(h) PROVE WorksInOrder'
  <2>0. TypeInv /\ GracesLast
    BY GracesLastAlways DEF Struct
  <2>1. (Others(h) /\ Kept(h) /\ task'[h].step = "browse")
    BY <1>18, <2>0, EndToBuyDoes DEF Moves, AfterActivate
  <2>3. CASE Others(h) /\ Kept(h) /\ task'[h].step = "browse"
    <3>1. WorkInOrder(task[h])'
      BY <2>3, WorkMoved DEF Steps, Activating, Buying, OfWas
    <3> QED
      BY <2>0, <2>3, <3>1, WorksFrom
  <2> QED
    BY <2>1, <2>3
<1>19. ASSUME NEW h \in Handlers, Browse(h) PROVE WorksInOrder'
  <2>0. TypeInv /\ GracesLast
    BY GracesLastAlways DEF Struct
  <2>1. UNCHANGED <<sub, rzp>> /\ task[h].step = "browse"
    BY <1>19, <2>0, BrowseDoes
  <2>2. CASE Leaves(h)
    BY <2>0, <2>2, WorkLeft, WorksFrom DEF Leaves
  <2>3. CASE ~Leaves(h)
    <3>1. /\ Others(h) /\ task'[h].step \in {"subscribe", "dropOpen"}
          /\ task'[h].by = task[h].by /\ task'[h].s = task[h].s /\ task'[h].row = task[h].row
          /\ task'[h].old = task[h].old
          /\ task'[h].halted = {s \in Subs : sub[s].status = "halted"}
      BY <1>19, <2>0, <2>3, BrowseDoes
    <3>2. WorkInOrder(task[h])
      BY StructOf
    <3>3. WorkInOrder(task[h])'
      BY <2>1, <3>1, <3>2 DEF WorkInOrder, Was, OfWas
    <3> QED
      BY <2>0, <3>1, <3>3, WorksFrom
  <2> QED
    BY <2>2, <2>3
<1>20. ASSUME NEW h \in Handlers, DropOpen(h) PROVE WorksInOrder'
  <2>0. TypeInv /\ GracesLast
    BY GracesLastAlways DEF Struct
  <2>1. (Others(h) /\ Kept(h) /\ task'[h].step = "subscribe")
    BY <1>20, <2>0, DropOpenDoes DEF Moves, AfterActivate
  <2>2. \A s \in task[h].halted : Was(s)
    BY <1>20, <2>0, DropOpenDoes, StructOf DEF WorkInOrder
  <2>3. CASE Others(h) /\ Kept(h) /\ task'[h].step = "subscribe"
    <3>1. WorkInOrder(task[h])'
      BY <2>2, <2>3, WorkMoved DEF Steps, Activating, Buying, OfWas
    <3> QED
      BY <2>0, <2>3, <3>1, WorksFrom
  <2> QED
    BY <2>1, <2>3
<1>21. ASSUME NEW h \in Handlers, Subscribe(h) PROVE WorksInOrder'
  <2>0. TypeInv /\ GracesLast
    BY GracesLastAlways DEF Struct
  <2>1. UNCHANGED sub /\ task[h].step = "subscribe" /\ task[h].by \notin {"webhook", "callback"}
    BY <1>21, <2>0, SubscribeDoes, AtStep DEF TaskInOrder, OfEvent, Activating
  <2>2. CASE Leaves(h)
    BY <2>0, <2>2, WorkLeft, WorksFrom DEF Leaves
  <2>3. CASE ~Leaves(h)
    <3>1. /\ Others(h) /\ task'[h].step = "insert" /\ task'[h].by = task[h].by
          /\ task'[h].row = task[h].row /\ task'[h].old = task[h].old
          /\ task'[h].halted = task[h].halted
      BY <1>21, <2>0, <2>3, SubscribeDoes
    <3>2. WorkInOrder(task[h])
      BY StructOf
    <3>3. WorkInOrder(task[h])'
      BY <2>1, <3>1, <3>2 DEF WorkInOrder, Was, OfWas
    <3> QED
      BY <2>0, <3>1, <3>3, WorksFrom
  <2> QED
    BY <2>2, <2>3
<1>22. ASSUME NEW h \in Handlers, Insert(h) PROVE WorksInOrder'
  <2>0. TypeInv /\ GracesLast
    BY GracesLastAlways DEF Struct
  <2>1. Leaves(h) \/ (Others(h) /\ Kept(h) /\ task'[h].step = "release")
    BY <1>22, <2>0, InsertDoes DEF Moves, AfterActivate
  <2>2. \A s \in task[h].halted : Was(s)
    BY <1>22, <2>0, InsertDoes, StructOf DEF WorkInOrder
  <2>3. CASE Leaves(h)
    BY <2>0, <2>3, WorkLeft, WorksFrom DEF Leaves
  <2>4. CASE Others(h) /\ Kept(h) /\ task'[h].step = "release"
    <3>1. WorkInOrder(task[h])'
      BY <2>2, <2>4, WorkMoved DEF Steps, Activating, Buying, OfWas
    <3> QED
      BY <2>0, <2>4, <3>1, WorksFrom
  <2> QED
    BY <2>1, <2>3, <2>4
<1>23. ASSUME NEW h \in Handlers, Release(h) PROVE WorksInOrder'
  <2>0. TypeInv /\ GracesLast
    BY GracesLastAlways DEF Struct
  <2>1. Leaves(h)
    BY <1>23, <2>0, ReleaseDoes DEF Answers
  <2> QED
    BY <2>0, <2>1, WorkLeft, WorksFrom DEF Leaves
<1>24. ASSUME NEW h \in Handlers, StopAtEnd(h) PROVE WorksInOrder'
  <2>0. TypeInv /\ GracesLast
    BY GracesLastAlways DEF Struct
  <2>1. Leaves(h) \/ (Others(h) /\ Kept(h) /\ task'[h].step = "markEnds") \/ (Others(h) /\ Kept(h)
     /\ task'[h].step = "schedule")
    BY <1>24, <2>0, StopAtEndDoes DEF Moves, AfterActivate
  <2>2. Was(task[h].s) /\ task[h].step = "stopAtEnd"
    BY <1>24, <2>0, StopAtEndDoes, WorkedWas DEF OfWas
  <2>3. CASE Leaves(h)
    BY <2>0, <2>3, WorkLeft, WorksFrom DEF Leaves
  <2>4. CASE Others(h) /\ Kept(h) /\ task'[h].step = "markEnds"
    <3>1. WorkInOrder(task[h])'
      BY <2>2, <2>4, WorkMoved DEF Steps, Activating, Buying, OfWas
    <3> QED
      BY <2>0, <2>4, <3>1, WorksFrom
  <2>5. CASE Others(h) /\ Kept(h) /\ task'[h].step = "schedule"
    <3>1. WorkInOrder(task[h])'
      BY <2>2, <2>5, WorkMoved DEF Steps, Activating, Buying, OfWas
    <3> QED
      BY <2>0, <2>5, <3>1, WorksFrom
  <2> QED
    BY <2>1, <2>3, <2>4, <2>5
<1>25. ASSUME NEW h \in Handlers, MarkEnds(h) PROVE WorksInOrder'
  <2>0. TypeInv /\ GracesLast
    BY GracesLastAlways DEF Struct
  <2>1. Leaves(h)
    BY <1>25, <2>0, MarkEndsDoes DEF Answers
  <2> QED
    BY <2>0, <2>1, WorkLeft, WorksFrom DEF Leaves
<1>26. ASSUME NEW h \in Handlers, Schedule(h) PROVE WorksInOrder'
  <2>0. TypeInv /\ GracesLast
    BY GracesLastAlways DEF Struct
  <2>1. Leaves(h)
    BY <1>26, <2>0, ScheduleDoes DEF Answers
  <2> QED
    BY <2>0, <2>1, WorkLeft, WorksFrom DEF Leaves
<1>27. ASSUME NEW h \in Handlers, StopNow(h) PROVE WorksInOrder'
  <2>0. TypeInv /\ GracesLast
    BY GracesLastAlways DEF Struct
  <2>1. Leaves(h) \/ (Others(h) /\ Kept(h) /\ task'[h].step = "drop")
    BY <1>27, <2>0, StopNowDoes DEF Moves, AfterActivate
  <2>2. Was(task[h].s) /\ task[h].step = "stopNow"
    BY <1>27, <2>0, StopNowDoes, WorkedWas DEF OfWas
  <2>3. CASE Leaves(h)
    BY <2>0, <2>3, WorkLeft, WorksFrom DEF Leaves
  <2>4. CASE Others(h) /\ Kept(h) /\ task'[h].step = "drop"
    <3>1. WorkInOrder(task[h])'
      BY <2>2, <2>4, WorkMoved DEF Steps, Activating, Buying, OfWas
    <3> QED
      BY <2>0, <2>4, <3>1, WorksFrom
  <2> QED
    BY <2>1, <2>3, <2>4
<1>28. ASSUME NEW h \in Handlers, Drop(h) PROVE WorksInOrder'
  <2>0. TypeInv /\ GracesLast
    BY GracesLastAlways DEF Struct
  <2>1. (Others(h) /\ Kept(h) /\ task'[h].step = "credit") \/ (Others(h) /\ Kept(h) /\
     task'[h].step = "browse")
    BY <1>28, <2>0, DropDoes DEF Moves, AfterActivate
  <2>2. Was(task[h].s) /\ task[h].step = "drop"
    BY <1>28, <2>0, DropDoes, WorkedWas DEF OfWas
  <2>3. CASE Others(h) /\ Kept(h) /\ task'[h].step = "credit"
    <3>1. WorkInOrder(task[h])'
      BY <2>2, <2>3, WorkMoved DEF Steps, Activating, Buying, OfWas
    <3> QED
      BY <2>0, <2>3, <3>1, WorksFrom
  <2>4. CASE Others(h) /\ Kept(h) /\ task'[h].step = "browse"
    <3>1. WorkInOrder(task[h])'
      BY <2>2, <2>4, WorkMoved DEF Steps, Activating, Buying, OfWas
    <3> QED
      BY <2>0, <2>4, <3>1, WorksFrom
  <2> QED
    BY <2>1, <2>3, <2>4
<1>29. ASSUME NEW h \in Handlers, Credit(h) PROVE WorksInOrder'
  <2>0. TypeInv /\ GracesLast
    BY GracesLastAlways DEF Struct
  <2>1. (Others(h) /\ Kept(h) /\ task'[h].step = "browse")
    BY <1>29, <2>0, CreditDoes DEF Moves, AfterActivate
  <2>3. CASE Others(h) /\ Kept(h) /\ task'[h].step = "browse"
    <3>1. WorkInOrder(task[h])'
      BY <2>3, WorkMoved DEF Steps, Activating, Buying, OfWas
    <3> QED
      BY <2>0, <2>3, <3>1, WorksFrom
  <2> QED
    BY <2>1, <2>3
<1>30. ASSUME NEW h \in Handlers, Clear(h) PROVE WorksInOrder'
  <2>0. TypeInv /\ GracesLast
    BY GracesLastAlways DEF Struct
  <2>1. (Others(h) /\ Kept(h) /\ task'[h].step = "grant")
    BY <1>30, <2>0, ClearDoes DEF Moves, AfterActivate
  <2>3. CASE Others(h) /\ Kept(h) /\ task'[h].step = "grant"
    <3>1. WorkInOrder(task[h])'
      BY <2>3, WorkMoved DEF Steps, Activating, Buying, OfWas
    <3> QED
      BY <2>0, <2>3, <3>1, WorksFrom
  <2> QED
    BY <2>1, <2>3
<1>31. ASSUME NEW h \in Handlers, GrantRow(h) PROVE WorksInOrder'
  <2>0. TypeInv /\ GracesLast
    BY GracesLastAlways DEF Struct
  <2>1. Leaves(h)
    BY <1>31, <2>0, GrantRowDoes DEF Answers
  <2> QED
    BY <2>0, <2>1, WorkLeft, WorksFrom DEF Leaves
<1>32. ASSUME NEW h \in Handlers, Crash(h) PROVE WorksInOrder'
  <2>0. TypeInv /\ GracesLast
    BY GracesLastAlways DEF Struct
  <2>1. Leaves(h)
    BY <1>32, <2>0, CrashDoes DEF Answers
  <2> QED
    BY <2>0, <2>1, WorkLeft, WorksFrom DEF Leaves
<1>33. ASSUME NEW h \in Handlers, NEW tier \in Tiers, Buy(h, tier) PROVE WorksInOrder'
  <2>0. TypeInv /\ GracesLast
    BY GracesLastAlways DEF Struct
  <2>1. Others(h) /\ UNCHANGED sub
    BY <1>33, <2>0, BuyDoes DEF Begins
  <2>2. WorkInOrder(task[h])'
    BY <1>33, <2>0, BuyDoes, WorkBegun, IdleTyped, AtRow DEF OfWas, IsLive, Was
  <2> QED
    BY <2>0, <2>1, <2>2, WorksFrom
<1>34. ASSUME NEW h \in Handlers, NEW tier \in Tiers, Grant(h, tier) PROVE WorksInOrder'
  <2>0. TypeInv /\ GracesLast
    BY GracesLastAlways DEF Struct
  <2> DEFINE S == {s \in Subs : sub[s].status \in {"created", "halted"}}
  <2>1. /\ Others(h) /\ UNCHANGED sub /\ \A s \in S : sub[s].status # "none"
        /\ Begins(h, "admin", "clear", None, NoRow, NoEvent, tier, None, S)
    BY <1>34, <2>0, GrantDoes DEF Begins
  <2> HIDE DEF S
  <2>2. WorkInOrder(task[h])'
    BY <2>1, WorkBegun, IdleTyped DEF OfWas
  <2> QED
    BY <2>0, <2>1, <2>2, WorksFrom
<1>35. ASSUME NEW h \in Handlers, NEW s \in Subs, Deliver(h, s) PROVE WorksInOrder'
  <2>0. TypeInv /\ GracesLast
    BY GracesLastAlways DEF Struct
  <2> DEFINE step == FirstStep(Head(queue[s]), sub[s])
  <2>1. /\ queue[s] # <<>> /\ UNCHANGED <<sub, rzp>> /\ Head(queue[s]) \in Event
        /\ \/ UNCHANGED task
           \/ Begins(h, "webhook", step, s, sub[s], Head(queue[s]), None, None, {})
    BY <1>35, <2>0, DeliverDoes
  <2>2. rzp'[s].paid > 0 /\ (sub[s].replaces # None => Was(sub[s].replaces))
    BY <2>1, StructAt DEF QueueInOrder
  <2>3. sub[s].status # "none" /\ sub[s] \in Row
    BY <2>0, <2>1, <2>2, PaidIsSold, AtRow
  <2>4. step \in {"readToActivate", "renew", "fail", "halt", "end"}
    BY <2>1, <2>3, FirstStepOf
  <2>5. step = "renew" => Was(s)
    <3>1. Head(queue[s]).type \in {"activated", "charged", "pending", "halted", "cancelled"}
      BY <2>1 DEF Event
    <3> QED
      BY <2>3, <3>1 DEF FirstStep, Was
  <2> HIDE DEF step
  <2>6. CASE UNCHANGED task
    BY <2>0, <2>6, WorksSame
  <2>7. CASE Begins(h, "webhook", step, s, sub[s], Head(queue[s]), None, None, {})
    <3>1. WorkInOrder(task[h])'
      BY <2>1, <2>2, <2>4, <2>5, <2>7, WorkBegun DEF OfWas
    <3> QED
      BY <2>0, <2>7, <3>1, WorksFrom DEF Begins
  <2> QED
    BY <2>1, <2>6, <2>7
<1>36. ASSUME NEW h \in Handlers, NEW s \in Subs, Callback(h, s) PROVE WorksInOrder'
  <2>0. TypeInv /\ GracesLast
    BY GracesLastAlways DEF Struct
  <2>1. /\ Others(h) /\ UNCHANGED sub /\ rzp[s].callback
        /\ Begins(h, "callback", "readToActivate", s, NoRow,
                  [type |-> "activated", charge |-> 1, try |-> 0], None, None, {})
        /\ rzp'[s].paid = rzp[s].paid
    BY <1>36, <2>0, CallbackDoes DEF Begins
  <2>2. rzp'[s].paid > 0
    BY <2>0, <2>1, AtRazorpay DEF MandateInOrder
  <2>3. WorkInOrder(task[h])'
    BY <2>1, <2>2, IdleTyped, WorkBegun DEF OfWas
  <2> QED
    BY <2>0, <2>1, <2>3, WorksFrom
<1>37. ASSUME NEW h \in Handlers, NEW s \in Subs, Overdue(h, s) PROVE WorksInOrder'
  <2>0. TypeInv /\ GracesLast
    BY GracesLastAlways DEF Struct
  <2>1. /\ Others(h) /\ UNCHANGED sub /\ Was(s)
        /\ OverdueStep(sub[s]) \in {"halt", "end", "endToBuy"}
        /\ Begins(h, "read", OverdueStep(sub[s]), s, sub[s], NoEvent, sub[s].scheduled, None, {})
    BY <1>37, <2>0, OverdueDoes DEF Begins, IsLive, Was
  <2>2. sub[s].replaces # None => Was(sub[s].replaces)
    BY StructAt
  <2> DEFINE step == OverdueStep(sub[s])
  <2> HIDE DEF step
  <2>3. step \in {"halt", "end", "endToBuy"}
        /\ Begins(h, "read", step, s, sub[s], NoEvent, sub[s].scheduled, None, {})
    BY <2>1 DEF step
  <2>4. WorkInOrder(task[h])'
    BY <2>1, <2>2, <2>3, WorkBegun
  <2> QED
    BY <2>0, <2>1, <2>4, WorksFrom
<1>38. ASSUME NEW h \in Handlers, NEW s \in Subs, Cancel(h, s) PROVE WorksInOrder'
  <2>0. TypeInv /\ GracesLast
    BY GracesLastAlways DEF Struct
  <2>1. Others(h) /\ UNCHANGED sub
    BY <1>38, <2>0, CancelDoes DEF Begins
  <2>2. WorkInOrder(task[h])'
    BY <1>38, <2>0, CancelDoes, WorkBegun, IdleTyped, AtRow DEF OfWas, IsLive, Was
  <2> QED
    BY <2>0, <2>1, <2>2, WorksFrom
<1>39. ASSUME NEW h \in Handlers, NEW s \in Subs, Revoke(h, s) PROVE WorksInOrder'
  <2>0. TypeInv /\ GracesLast
    BY GracesLastAlways DEF Struct
  <2>1. Others(h) /\ UNCHANGED sub
    BY <1>39, <2>0, RevokeDoes DEF Begins
  <2>2. WorkInOrder(task[h])'
    BY <1>39, <2>0, RevokeDoes, WorkBegun, IdleTyped, AtRow DEF OfWas, IsLive, Was
  <2> QED
    BY <2>0, <2>1, <2>2, WorksFrom
<1>40. ASSUME NEW h \in Handlers, NEW s \in Subs, NEW tier \in Tiers, ChangePlan(h, s, tier) PROVE
   WorksInOrder'
  <2>0. TypeInv /\ GracesLast
    BY GracesLastAlways DEF Struct
  <2>1. Others(h) /\ UNCHANGED sub
    BY <1>40, <2>0, ChangePlanDoes DEF Begins
  <2>2. WorkInOrder(task[h])'
    BY <1>40, <2>0, ChangePlanDoes, WorkBegun, IdleTyped, AtRow DEF OfWas, IsLive, Was
  <2> QED
    BY <2>0, <2>1, <2>2, WorksFrom
<1>41. ASSUME NEW h \in Handlers, NEW s \in Subs, NEW tier \in Tiers, ChangeAddon(h, s, tier)
   PROVE WorksInOrder'
  <2>0. TypeInv /\ GracesLast
    BY GracesLastAlways DEF Struct
  <2>1. Others(h) /\ UNCHANGED sub
    BY <1>41, <2>0, ChangeAddonDoes DEF Begins
  <2>2. WorkInOrder(task[h])'
    BY <1>41, <2>0, ChangeAddonDoes, WorkBegun, IdleTyped, AtRow DEF OfWas, IsLive, Was
  <2> QED
    BY <2>0, <2>1, <2>2, WorksFrom
<1>42. CASE UNCHANGED vars
  <2>0. TypeInv /\ GracesLast
    BY GracesLastAlways DEF Struct
  <2> QED
    BY <1>42, <2>0, WorksSame DEF vars
<1> QED
  BY <1>1, <1>2, <1>3, <1>4, <1>5, <1>6, <1>7, <1>8, <1>9, <1>10, <1>11, <1>12, <1>13, <1>14,
     <1>15, <1>16, <1>17, <1>18, <1>19, <1>20, <1>21, <1>22, <1>23, <1>24, <1>25, <1>26, <1>27,
     <1>28, <1>29, <1>30, <1>31, <1>32, <1>33, <1>34, <1>35, <1>36, <1>37, <1>38, <1>39, <1>40,
     <1>41, <1>42 DEF Next, Step

\* A checkout that was not handed over stays open, until it is.
OpensLast ==
    \A s \in Subs : rzp[s].state = "open" /\ ~rzp[s].shown =>
        \/ rzp'[s].state = "open" /\ ~rzp'[s].shown
        \/ \E h \in Handlers : task[h].step = "release" /\ task[h].s = s /\ Leaves(h)

\* A handler is there because it was, or started a checkout, or has stored its row.
Checking(h) ==
    \/ task'[h] = task[h]
    \/ /\ task'[h].step = "insert" /\ Others(h) /\ task'[h].s \in Fresh /\ UNCHANGED sub
       /\ rzp'[task'[h].s].state = "open" /\ rzp'[task'[h].s].shown = rzp[task'[h].s].shown
    \/ /\ task[h].step = "insert" /\ task'[h].step = "release" /\ Others(h) /\ UNCHANGED rzp
       /\ task'[h].s = task[h].s /\ sub'[task[h].s].status = "created"
       /\ sub'[task[h].s].tier = task'[h].tier /\ sub'[task[h].s].replaces = task'[h].old

NewCheckouts == \A h \in Handlers : task'[h].step \in {"insert", "release"} => Checking(h)

LEMMA CheckoutsFrom ==
    ASSUME Struct, [Next]_vars, OpensLast, NewCheckouts
    PROVE  Checkouts'
<1>0. TypeInv /\ TypeInv' /\ RowsLast /\ NewRows /\ RowsInOrder'
  BY TypeInvNext, RowsLastAlways, NewRowsAlways, RowsKept DEF Struct
<1> SUFFICES ASSUME NEW h \in Handlers, task'[h].step \in {"insert", "release"}
             PROVE  Checkout(h)'
  BY DEF Checkouts, Checkout
<1>1. Checking(h)
  BY DEF NewCheckouts
<1>2. PICK s \in Subs : s = task'[h].s
  <2>1. TaskInOrder(task'[h])
    BY <1>0 DEF TypeInv, TasksInOrder
  <2> QED
    BY <2>1 DEF TaskInOrder
<1> USE <1>2
<1>3. \A k \in Handlers : task'[k].step \in {"insert", "release"} /\ task'[k].s = s => k = h
  <2> SUFFICES ASSUME NEW k \in Handlers, task'[k].step \in {"insert", "release"},
                      task'[k].s = s, k # h
               PROVE  FALSE
    OBVIOUS
  <2>1. Checking(k)
    BY DEF NewCheckouts
  <2>2. \A i \in Handlers : task[i].step \in {"insert", "release"} /\ task[i].s = s => s \notin Fresh
    BY <1>2, StructOf DEF Checkout, Fresh
  <2>3. task[h].step \in {"insert", "release"} /\ task[h].s = s =>
           \A j \in Handlers : task[j].step \in {"insert", "release"} /\ task[j].s = s => j = h
    <3>1. Checkout(h)
      BY StructOf
    <3> QED
      BY <3>1 DEF Checkout
  <2>4. \/ task[h].step \in {"insert", "release"} /\ task[h].s = s
        \/ s \in Fresh /\ task'[k] = task[k]
    BY <1>1 DEF Checking, Others
  <2>5. \/ task[k].step \in {"insert", "release"} /\ task[k].s = s
        \/ s \in Fresh /\ task'[h] = task[h]
    BY <2>1 DEF Checking, Others
  <2>6. CASE task[h].step \in {"insert", "release"} /\ task[h].s = s
    BY <2>2, <2>3, <2>5, <2>6
  <2>7. CASE s \in Fresh /\ task'[k] = task[k]
    BY <2>2, <2>5, <2>7, <1>1 DEF Checking, Others
  <2> QED
    BY <2>4, <2>6, <2>7
<1>4. CASE task'[h] = task[h]
  <2>1. Checkout(h)
    BY StructOf
  <2>2. rzp'[s].state = "open" /\ ~rzp'[s].shown
    <3>1. rzp[s].state = "open" /\ ~rzp[s].shown
      BY <1>4, <2>1 DEF Checkout
    <3>2. ASSUME NEW k \in Handlers, task[k].step = "release", task[k].s = s, Leaves(k)
          PROVE  FALSE
      <4>1. k = h
        BY <1>4, <2>1, <3>2 DEF Checkout
      <4> QED
        BY <4>1, <3>2, IdleTyped DEF Leaves
    <3> QED
      BY <1>2, <3>1, <3>2 DEF OpensLast
  <2>3. task'[h].step = "insert" => sub'[s].status = "none"
    <3> SUFFICES ASSUME task'[h].step = "insert" PROVE sub'[s].status = "none"
      OBVIOUS
    <3>1. sub[s].status = "none" /\ rzp[s].state = "open"
      BY <1>4, <2>1 DEF Checkout
    <3>2. ~Inserted(s)
      <4> SUFFICES ASSUME NEW k \in Handlers, task[k].step = "insert", task[k].s = s,
                          Moves(k, "release")
                   PROVE  FALSE
        BY DEF Inserted
      <4>1. k = h
        BY <1>4, <2>1 DEF Checkout
      <4> QED
        BY <4>1 DEF Moves
    <3>3. ~Granted(s)
      BY <3>1 DEF Granted, Fresh
    <3> QED
      BY <1>0, <1>2, <3>1, <3>2, <3>3 DEF NewRows
  <2>4. task'[h].step = "release" =>
           /\ sub'[s].status \in {"created", "cancelled"}
           /\ sub'[s].tier = task'[h].tier /\ sub'[s].replaces = task'[h].old
    <3> SUFFICES ASSUME task'[h].step = "release"
                 PROVE  /\ sub'[s].status \in {"created", "cancelled"}
                        /\ sub'[s].tier = task'[h].tier /\ sub'[s].replaces = task'[h].old
      OBVIOUS
    <3>1. /\ sub[s].status \in {"created", "cancelled"} /\ rzp[s].state = "open"
          /\ sub[s].tier = task'[h].tier /\ sub[s].replaces = task'[h].old
      BY <1>4, <2>1 DEF Checkout
    <3>2. sub'[s].status # "none" /\ Terms(s)
      BY <1>0, <1>2, <3>1 DEF RowsLast, RowLasts
    <3>3. ~sub[s].admin
      BY <1>2, <3>1, StructAt DEF RowInOrder
    <3>4. RowInOrder(s)' /\ MandateInOrder(rzp'[s]) /\ sub'[s].status \in Statuses
      <4>1. sub'[s] \in Row /\ MandateInOrder(rzp'[s])
        BY <1>0, <1>2 DEF TypeInv, TypeOK, MandatesInOrder
      <4>2. RowInOrder(s)'
        BY <1>0 DEF RowsInOrder
      <4> QED
        BY <4>1, <4>2, RowFields
    <3>5. rzp'[s].paid = 0
      BY <2>2, <3>4 DEF MandateInOrder
    <3>6. sub'[s].status \notin {"active", "past_due", "halted"}
      <4>1. sub'[s].status \in {"active", "past_due", "halted"} => rzp'[s].paid > 0 \/ sub'[s].admin
        BY <3>4 DEF RowInOrder, Held
      <4> QED
        BY <3>2, <3>3, <3>5, <4>1 DEF Terms
    <3> QED
      BY <3>1, <3>2, <3>4, <3>6 DEF Statuses, Terms
  <2> QED
    BY <1>3, <2>2, <2>3, <2>4 DEF Checkout
<1>5. CASE /\ task'[h].step = "insert" /\ Others(h) /\ task'[h].s \in Fresh /\ UNCHANGED sub
           /\ rzp'[task'[h].s].state = "open"
           /\ rzp'[task'[h].s].shown = rzp[task'[h].s].shown
  <2>1. ~rzp[s].shown
    BY <1>2, <1>5, StructAt DEF RowInOrder, Fresh
  <2> QED
    BY <1>3, <1>5, <2>1 DEF Checkout, Fresh
<1>6. CASE /\ task[h].step = "insert" /\ task'[h].step = "release" /\ Others(h) /\ UNCHANGED rzp
           /\ task'[h].s = task[h].s /\ sub'[task[h].s].status = "created"
           /\ sub'[task[h].s].tier = task'[h].tier /\ sub'[task[h].s].replaces = task'[h].old
  <2>1. rzp[task[h].s].state = "open" /\ ~rzp[task[h].s].shown
    BY <1>6, StructOf DEF Checkout
  <2> QED
    BY <1>3, <1>6, <2>1 DEF Checkout
<1> QED
  BY <1>1, <1>4, <1>5, <1>6 DEF Checking

\* The rows that take a place have it already.
LEMMA UniqueSame ==
    ASSUME Struct, RowsLast, UNCHANGED kind,
           \A s \in Subs : sub'[s].status \notin {"none", "cancelled"} => Indexed(s)
    PROVE  Unique'
<1> SUFFICES ASSUME NEW s \in Subs, NEW t \in Subs, s # t,
                    sub'[s].status \notin {"none", "cancelled"},
                    sub'[t].status \notin {"none", "cancelled"}
             PROVE  kind = "addon" /\ sub'[s].tier # sub'[t].tier
  BY DEF Unique, Indexed
<1>1. Indexed(s) /\ Indexed(t)
  OBVIOUS
<1>2. kind = "addon" /\ sub[s].tier # sub[t].tier
  BY <1>1 DEF Struct, Unique
<1> QED
  BY <1>1, <1>2 DEF RowsLast, RowLasts, Terms, Indexed

\* One row takes a place that is free.
LEMMA UniqueEntered ==
    ASSUME Struct, RowsLast, UNCHANGED kind, NEW s \in Subs,
           \A t \in Subs \ {s} : sub'[t].status \notin {"none", "cancelled"} =>
               Indexed(t) /\ kind = "addon" /\ sub[t].tier # sub'[s].tier
    PROVE  Unique'
<1> SUFFICES ASSUME NEW i \in Subs, NEW t \in Subs, i # t,
                    sub'[i].status \notin {"none", "cancelled"},
                    sub'[t].status \notin {"none", "cancelled"}
             PROVE  kind = "addon" /\ sub'[i].tier # sub'[t].tier
  BY DEF Unique, Indexed
<1>1. \A j \in Subs : Indexed(j) => sub'[j].tier = sub[j].tier
  BY DEF RowsLast, RowLasts, Terms, Indexed
<1>2. CASE i = s
  BY <1>1, <1>2
<1>3. CASE t = s
  BY <1>1, <1>3
<1>4. CASE i # s /\ t # s
  <2>1. Indexed(i) /\ Indexed(t)
    BY <1>4
  <2> QED
    BY <1>1, <2>1 DEF Struct, Unique
<1> QED
  BY <1>2, <1>3, <1>4

LEMMA OpensLastAlways ==
    ASSUME Struct, [Next]_vars
    PROVE  OpensLast
<1>1. ASSUME Tick PROVE OpensLast
  <2>0. TypeInv
    BY DEF Struct
  <2> QED
    BY <1>1, <2>0, TickDoes DEF OpensLast
<1>2. ASSUME NEW s \in Subs, Pay(s) PROVE OpensLast
  <2>0. TypeInv
    BY DEF Struct
  <2> QED
    BY <1>2, <2>0, PayDoes DEF OpensLast, OnlyMandate, Unpaid
<1>3. ASSUME NEW s \in Subs, Charge(s) PROVE OpensLast
  <2>0. TypeInv
    BY DEF Struct
  <2> QED
    BY <1>3, <2>0, ChargeDoes DEF OpensLast, OnlyMandate, Unpaid
<1>4. ASSUME NEW s \in Subs, Decline(s) PROVE OpensLast
  <2>0. TypeInv
    BY DEF Struct
  <2> QED
    BY <1>4, <2>0, DeclineDoes DEF OpensLast, OnlyMandate, Unpaid
<1>5. ASSUME NEW s \in Subs, GiveUp(s) PROVE OpensLast
  <2>0. TypeInv
    BY DEF Struct
  <2> QED
    BY <1>5, <2>0, GiveUpDoes DEF OpensLast, OnlyMandate, Unpaid
<1>6. ASSUME NEW s \in Subs, CycleEnds(s) PROVE OpensLast
  <2>0. TypeInv
    BY DEF Struct
  <2>1. UNCHANGED rzp \/ (CanStop(s) /\ Stopped({s}))
    BY <1>6, <2>0, CycleEndsDoes DEF CanStop
  <2>2. \A t \in Subs : rzp[t].state = "open" => rzp'[t] = rzp[t]
    BY <2>1 DEF CanStop, Stopped
  <2> QED
    BY <2>2 DEF OpensLast
<1>7. ASSUME NEW h \in Handlers, ReadToActivate(h) PROVE OpensLast
  <2>0. TypeInv
    BY DEF Struct
  <2> QED
    BY <1>7, <2>0, ReadToActivateDoes DEF OpensLast
<1>8. ASSUME NEW h \in Handlers, Activate(h) PROVE OpensLast
  <2>0. TypeInv
    BY DEF Struct
  <2> QED
    BY <1>8, <2>0, ActivateDoes DEF OpensLast
<1>9. ASSUME NEW h \in Handlers, SetPlan(h) PROVE OpensLast
  <2>0. TypeInv
    BY DEF Struct
  <2> QED
    BY <1>9, <2>0, SetPlanDoes DEF OpensLast
<1>10. ASSUME NEW h \in Handlers, CancelReplaced(h) PROVE OpensLast
  <2>0. TypeInv
    BY DEF Struct
  <2>1. UNCHANGED rzp \/ (CanStop(task[h].row.replaces) /\ Stopped({task[h].row.replaces}))
    BY <1>10, <2>0, CancelReplacedDoes DEF CanStop
  <2>2. \A t \in Subs : rzp[t].state = "open" => rzp'[t] = rzp[t]
    BY <2>1 DEF CanStop, Stopped
  <2> QED
    BY <2>2 DEF OpensLast
<1>11. ASSUME NEW h \in Handlers, Retire(h) PROVE OpensLast
  <2>0. TypeInv
    BY DEF Struct
  <2> QED
    BY <1>11, <2>0, RetireDoes DEF OpensLast
<1>12. ASSUME NEW h \in Handlers, CreditReplaced(h) PROVE OpensLast
  <2>0. TypeInv
    BY DEF Struct
  <2> QED
    BY <1>12, <2>0, CreditReplacedDoes DEF OpensLast
<1>13. ASSUME NEW h \in Handlers, Invoice(h) PROVE OpensLast
  <2>0. TypeInv
    BY DEF Struct
  <2> QED
    BY <1>13, <2>0, InvoiceDoes DEF OpensLast
<1>14. ASSUME NEW h \in Handlers, Renew(h) PROVE OpensLast
  <2>0. TypeInv
    BY DEF Struct
  <2> QED
    BY <1>14, <2>0, RenewDoes DEF OpensLast
<1>15. ASSUME NEW h \in Handlers, Fail(h) PROVE OpensLast
  <2>0. TypeInv
    BY DEF Struct
  <2> QED
    BY <1>15, <2>0, FailDoes DEF OpensLast
<1>16. ASSUME NEW h \in Handlers, Halt(h) PROVE OpensLast
  <2>0. TypeInv
    BY DEF Struct
  <2> QED
    BY <1>16, <2>0, HaltDoes DEF OpensLast
<1>17. ASSUME NEW h \in Handlers, End(h) PROVE OpensLast
  <2>0. TypeInv
    BY DEF Struct
  <2> QED
    BY <1>17, <2>0, EndDoes DEF OpensLast
<1>18. ASSUME NEW h \in Handlers, EndToBuy(h) PROVE OpensLast
  <2>0. TypeInv
    BY DEF Struct
  <2> QED
    BY <1>18, <2>0, EndToBuyDoes DEF OpensLast
<1>19. ASSUME NEW h \in Handlers, Browse(h) PROVE OpensLast
  <2>0. TypeInv
    BY DEF Struct
  <2> QED
    BY <1>19, <2>0, BrowseDoes DEF OpensLast
<1>20. ASSUME NEW h \in Handlers, DropOpen(h) PROVE OpensLast
  <2>0. TypeInv
    BY DEF Struct
  <2> QED
    BY <1>20, <2>0, DropOpenDoes DEF OpensLast
<1>21. ASSUME NEW h \in Handlers, Subscribe(h) PROVE OpensLast
  <2>0. TypeInv
    BY DEF Struct
  <2>1. \A t \in Subs : rzp[t].state = "open" => rzp'[t] = rzp[t]
    BY <1>21, <2>0, SubscribeDoes DEF OnlyMandate, Fresh
  <2> QED
    BY <2>1 DEF OpensLast
<1>22. ASSUME NEW h \in Handlers, Insert(h) PROVE OpensLast
  <2>0. TypeInv
    BY DEF Struct
  <2> QED
    BY <1>22, <2>0, InsertDoes DEF OpensLast
<1>23. ASSUME NEW h \in Handlers, Release(h) PROVE OpensLast
  <2>0. TypeInv
    BY DEF Struct
  <2>1. /\ task[h].step = "release" /\ Leaves(h)
        /\ \A t \in Subs : rzp[t].state = "open" => t = task[h].s \/ rzp'[t] = rzp[t]
    BY <1>23, <2>0, ReleaseDoes DEF CanStop
  <2> QED
    BY <2>1 DEF OpensLast
<1>24. ASSUME NEW h \in Handlers, StopAtEnd(h) PROVE OpensLast
  <2>0. TypeInv
    BY DEF Struct
  <2>1. \A t \in Subs : rzp[t].state = "open" => rzp'[t] = rzp[t]
    BY <1>24, <2>0, StopAtEndDoes DEF OnlyMandate, CanStop
  <2> QED
    BY <2>1 DEF OpensLast
<1>25. ASSUME NEW h \in Handlers, MarkEnds(h) PROVE OpensLast
  <2>0. TypeInv
    BY DEF Struct
  <2> QED
    BY <1>25, <2>0, MarkEndsDoes DEF OpensLast
<1>26. ASSUME NEW h \in Handlers, Schedule(h) PROVE OpensLast
  <2>0. TypeInv
    BY DEF Struct
  <2> QED
    BY <1>26, <2>0, ScheduleDoes DEF OpensLast
<1>27. ASSUME NEW h \in Handlers, StopNow(h) PROVE OpensLast
  <2>0. TypeInv
    BY DEF Struct
  <2>1. UNCHANGED rzp \/ (CanStop(task[h].s) /\ Stopped({task[h].s}))
    BY <1>27, <2>0, StopNowDoes DEF CanStop
  <2>2. \A t \in Subs : rzp[t].state = "open" => rzp'[t] = rzp[t]
    BY <2>1 DEF CanStop, Stopped
  <2> QED
    BY <2>2 DEF OpensLast
<1>28. ASSUME NEW h \in Handlers, Drop(h) PROVE OpensLast
  <2>0. TypeInv
    BY DEF Struct
  <2> QED
    BY <1>28, <2>0, DropDoes DEF OpensLast
<1>29. ASSUME NEW h \in Handlers, Credit(h) PROVE OpensLast
  <2>0. TypeInv
    BY DEF Struct
  <2> QED
    BY <1>29, <2>0, CreditDoes DEF OpensLast
<1>30. ASSUME NEW h \in Handlers, Clear(h) PROVE OpensLast
  <2>0. TypeInv
    BY DEF Struct
  <2> QED
    BY <1>30, <2>0, ClearDoes DEF OpensLast
<1>31. ASSUME NEW h \in Handlers, GrantRow(h) PROVE OpensLast
  <2>0. TypeInv
    BY DEF Struct
  <2> QED
    BY <1>31, <2>0, GrantRowDoes DEF OpensLast
<1>32. ASSUME NEW h \in Handlers, Crash(h) PROVE OpensLast
  <2>0. TypeInv
    BY DEF Struct
  <2> QED
    BY <1>32, <2>0, CrashDoes DEF OpensLast
<1>33. ASSUME NEW h \in Handlers, NEW tier \in Tiers, Buy(h, tier) PROVE OpensLast
  <2>0. TypeInv
    BY DEF Struct
  <2> QED
    BY <1>33, <2>0, BuyDoes DEF OpensLast
<1>34. ASSUME NEW h \in Handlers, NEW tier \in Tiers, Grant(h, tier) PROVE OpensLast
  <2>0. TypeInv
    BY DEF Struct
  <2> QED
    BY <1>34, <2>0, GrantDoes DEF OpensLast
<1>35. ASSUME NEW h \in Handlers, NEW s \in Subs, Deliver(h, s) PROVE OpensLast
  <2>0. TypeInv
    BY DEF Struct
  <2> QED
    BY <1>35, <2>0, DeliverDoes DEF OpensLast
<1>36. ASSUME NEW h \in Handlers, NEW s \in Subs, Callback(h, s) PROVE OpensLast
  <2>0. TypeInv
    BY DEF Struct
  <2> QED
    BY <1>36, <2>0, CallbackDoes DEF OpensLast, OnlyMandate, Unpaid
<1>37. ASSUME NEW h \in Handlers, NEW s \in Subs, Overdue(h, s) PROVE OpensLast
  <2>0. TypeInv
    BY DEF Struct
  <2> QED
    BY <1>37, <2>0, OverdueDoes DEF OpensLast
<1>38. ASSUME NEW h \in Handlers, NEW s \in Subs, Cancel(h, s) PROVE OpensLast
  <2>0. TypeInv
    BY DEF Struct
  <2> QED
    BY <1>38, <2>0, CancelDoes DEF OpensLast
<1>39. ASSUME NEW h \in Handlers, NEW s \in Subs, Revoke(h, s) PROVE OpensLast
  <2>0. TypeInv
    BY DEF Struct
  <2> QED
    BY <1>39, <2>0, RevokeDoes DEF OpensLast
<1>40. ASSUME NEW h \in Handlers, NEW s \in Subs, NEW tier \in Tiers, ChangePlan(h, s, tier) PROVE
   OpensLast
  <2>0. TypeInv
    BY DEF Struct
  <2> QED
    BY <1>40, <2>0, ChangePlanDoes DEF OpensLast
<1>41. ASSUME NEW h \in Handlers, NEW s \in Subs, NEW tier \in Tiers, ChangeAddon(h, s, tier)
   PROVE OpensLast
  <2>0. TypeInv
    BY DEF Struct
  <2> QED
    BY <1>41, <2>0, ChangeAddonDoes DEF OpensLast
<1>42. CASE UNCHANGED vars
  BY <1>42 DEF vars, OpensLast
<1> QED
  BY <1>1, <1>2, <1>3, <1>4, <1>5, <1>6, <1>7, <1>8, <1>9, <1>10, <1>11, <1>12, <1>13, <1>14,
     <1>15, <1>16, <1>17, <1>18, <1>19, <1>20, <1>21, <1>22, <1>23, <1>24, <1>25, <1>26, <1>27,
     <1>28, <1>29, <1>30, <1>31, <1>32, <1>33, <1>34, <1>35, <1>36, <1>37, <1>38, <1>39, <1>40,
     <1>41, <1>42 DEF Next, Step

LEMMA NewCheckoutsAlways ==
    ASSUME Struct, [Next]_vars
    PROVE  NewCheckouts
<1>1. ASSUME Tick PROVE NewCheckouts
  <2>0. TypeInv
    BY DEF Struct
  <2> SUFFICES ASSUME NEW k \in Handlers, task'[k].step \in {"insert", "release"}
               PROVE  Checking(k)
    BY DEF NewCheckouts
  <2>1. task'[k] = task[k]
    BY <1>1, <2>0, TickDoes, IdleTyped DEF Others, Leaves, Answers, Moves, AfterActivate, Begins
  <2> QED
    BY <2>1 DEF Checking
<1>2. ASSUME NEW s \in Subs, Pay(s) PROVE NewCheckouts
  <2>0. TypeInv
    BY DEF Struct
  <2> SUFFICES ASSUME NEW k \in Handlers, task'[k].step \in {"insert", "release"}
               PROVE  Checking(k)
    BY DEF NewCheckouts
  <2>1. task'[k] = task[k]
    BY <1>2, <2>0, PayDoes, IdleTyped DEF Others, Leaves, Answers, Moves, AfterActivate, Begins
  <2> QED
    BY <2>1 DEF Checking
<1>3. ASSUME NEW s \in Subs, Charge(s) PROVE NewCheckouts
  <2>0. TypeInv
    BY DEF Struct
  <2> SUFFICES ASSUME NEW k \in Handlers, task'[k].step \in {"insert", "release"}
               PROVE  Checking(k)
    BY DEF NewCheckouts
  <2>1. task'[k] = task[k]
    BY <1>3, <2>0, ChargeDoes, IdleTyped DEF Others, Leaves, Answers, Moves, AfterActivate, Begins
  <2> QED
    BY <2>1 DEF Checking
<1>4. ASSUME NEW s \in Subs, Decline(s) PROVE NewCheckouts
  <2>0. TypeInv
    BY DEF Struct
  <2> SUFFICES ASSUME NEW k \in Handlers, task'[k].step \in {"insert", "release"}
               PROVE  Checking(k)
    BY DEF NewCheckouts
  <2>1. task'[k] = task[k]
    BY <1>4, <2>0, DeclineDoes, IdleTyped DEF Others, Leaves, Answers, Moves, AfterActivate, Begins
  <2> QED
    BY <2>1 DEF Checking
<1>5. ASSUME NEW s \in Subs, GiveUp(s) PROVE NewCheckouts
  <2>0. TypeInv
    BY DEF Struct
  <2> SUFFICES ASSUME NEW k \in Handlers, task'[k].step \in {"insert", "release"}
               PROVE  Checking(k)
    BY DEF NewCheckouts
  <2>1. task'[k] = task[k]
    BY <1>5, <2>0, GiveUpDoes, IdleTyped DEF Others, Leaves, Answers, Moves, AfterActivate, Begins
  <2> QED
    BY <2>1 DEF Checking
<1>6. ASSUME NEW s \in Subs, CycleEnds(s) PROVE NewCheckouts
  <2>0. TypeInv
    BY DEF Struct
  <2> SUFFICES ASSUME NEW k \in Handlers, task'[k].step \in {"insert", "release"}
               PROVE  Checking(k)
    BY DEF NewCheckouts
  <2>1. task'[k] = task[k]
    BY <1>6, <2>0, CycleEndsDoes, IdleTyped DEF Others, Leaves, Answers, Moves, AfterActivate, Begins
  <2> QED
    BY <2>1 DEF Checking
<1>7. ASSUME NEW h \in Handlers, ReadToActivate(h) PROVE NewCheckouts
  <2>0. TypeInv
    BY DEF Struct
  <2> SUFFICES ASSUME NEW k \in Handlers, task'[k].step \in {"insert", "release"}
               PROVE  Checking(k)
    BY DEF NewCheckouts
  <2>1. task'[k] = task[k]
    BY <1>7, <2>0, ReadToActivateDoes, IdleTyped DEF Others, Leaves, Answers, Moves, AfterActivate, Begins
  <2> QED
    BY <2>1 DEF Checking
<1>8. ASSUME NEW h \in Handlers, Activate(h) PROVE NewCheckouts
  <2>0. TypeInv
    BY DEF Struct
  <2> SUFFICES ASSUME NEW k \in Handlers, task'[k].step \in {"insert", "release"}
               PROVE  Checking(k)
    BY DEF NewCheckouts
  <2>1. task'[k] = task[k]
    BY <1>8, <2>0, ActivateDoes, IdleTyped DEF Others, Leaves, Answers, Moves, AfterActivate, Begins
  <2> QED
    BY <2>1 DEF Checking
<1>9. ASSUME NEW h \in Handlers, SetPlan(h) PROVE NewCheckouts
  <2>0. TypeInv
    BY DEF Struct
  <2> SUFFICES ASSUME NEW k \in Handlers, task'[k].step \in {"insert", "release"}
               PROVE  Checking(k)
    BY DEF NewCheckouts
  <2>1. task'[k] = task[k]
    BY <1>9, <2>0, SetPlanDoes, IdleTyped DEF Others, Leaves, Answers, Moves, AfterActivate, Begins
  <2> QED
    BY <2>1 DEF Checking
<1>10. ASSUME NEW h \in Handlers, CancelReplaced(h) PROVE NewCheckouts
  <2>0. TypeInv
    BY DEF Struct
  <2> SUFFICES ASSUME NEW k \in Handlers, task'[k].step \in {"insert", "release"}
               PROVE  Checking(k)
    BY DEF NewCheckouts
  <2>1. task'[k] = task[k]
    BY <1>10, <2>0, CancelReplacedDoes, IdleTyped DEF Others, Leaves, Answers, Moves, AfterActivate, Begins
  <2> QED
    BY <2>1 DEF Checking
<1>11. ASSUME NEW h \in Handlers, Retire(h) PROVE NewCheckouts
  <2>0. TypeInv
    BY DEF Struct
  <2> SUFFICES ASSUME NEW k \in Handlers, task'[k].step \in {"insert", "release"}
               PROVE  Checking(k)
    BY DEF NewCheckouts
  <2>1. task'[k] = task[k]
    BY <1>11, <2>0, RetireDoes, IdleTyped DEF Others, Leaves, Answers, Moves, AfterActivate, Begins
  <2> QED
    BY <2>1 DEF Checking
<1>12. ASSUME NEW h \in Handlers, CreditReplaced(h) PROVE NewCheckouts
  <2>0. TypeInv
    BY DEF Struct
  <2> SUFFICES ASSUME NEW k \in Handlers, task'[k].step \in {"insert", "release"}
               PROVE  Checking(k)
    BY DEF NewCheckouts
  <2>1. task'[k] = task[k]
    BY <1>12, <2>0, CreditReplacedDoes, IdleTyped DEF Others, Leaves, Answers, Moves, AfterActivate, Begins
  <2> QED
    BY <2>1 DEF Checking
<1>13. ASSUME NEW h \in Handlers, Invoice(h) PROVE NewCheckouts
  <2>0. TypeInv
    BY DEF Struct
  <2> SUFFICES ASSUME NEW k \in Handlers, task'[k].step \in {"insert", "release"}
               PROVE  Checking(k)
    BY DEF NewCheckouts
  <2>1. task'[k] = task[k]
    BY <1>13, <2>0, InvoiceDoes, IdleTyped DEF Others, Leaves, Answers, Moves, AfterActivate, Begins
  <2> QED
    BY <2>1 DEF Checking
<1>14. ASSUME NEW h \in Handlers, Renew(h) PROVE NewCheckouts
  <2>0. TypeInv
    BY DEF Struct
  <2> SUFFICES ASSUME NEW k \in Handlers, task'[k].step \in {"insert", "release"}
               PROVE  Checking(k)
    BY DEF NewCheckouts
  <2>1. task'[k] = task[k]
    BY <1>14, <2>0, RenewDoes, IdleTyped DEF Others, Leaves, Answers, Moves, AfterActivate, Begins
  <2> QED
    BY <2>1 DEF Checking
<1>15. ASSUME NEW h \in Handlers, Fail(h) PROVE NewCheckouts
  <2>0. TypeInv
    BY DEF Struct
  <2> SUFFICES ASSUME NEW k \in Handlers, task'[k].step \in {"insert", "release"}
               PROVE  Checking(k)
    BY DEF NewCheckouts
  <2>1. task'[k] = task[k]
    BY <1>15, <2>0, FailDoes, IdleTyped DEF Others, Leaves, Answers, Moves, AfterActivate, Begins
  <2> QED
    BY <2>1 DEF Checking
<1>16. ASSUME NEW h \in Handlers, Halt(h) PROVE NewCheckouts
  <2>0. TypeInv
    BY DEF Struct
  <2> SUFFICES ASSUME NEW k \in Handlers, task'[k].step \in {"insert", "release"}
               PROVE  Checking(k)
    BY DEF NewCheckouts
  <2>1. task'[k] = task[k]
    BY <1>16, <2>0, HaltDoes, IdleTyped DEF Others, Leaves, Answers, Moves, AfterActivate, Begins
  <2> QED
    BY <2>1 DEF Checking
<1>17. ASSUME NEW h \in Handlers, End(h) PROVE NewCheckouts
  <2>0. TypeInv
    BY DEF Struct
  <2> SUFFICES ASSUME NEW k \in Handlers, task'[k].step \in {"insert", "release"}
               PROVE  Checking(k)
    BY DEF NewCheckouts
  <2>1. task'[k] = task[k]
    BY <1>17, <2>0, EndDoes, IdleTyped DEF Others, Leaves, Answers, Moves, AfterActivate, Begins
  <2> QED
    BY <2>1 DEF Checking
<1>18. ASSUME NEW h \in Handlers, EndToBuy(h) PROVE NewCheckouts
  <2>0. TypeInv
    BY DEF Struct
  <2> SUFFICES ASSUME NEW k \in Handlers, task'[k].step \in {"insert", "release"}
               PROVE  Checking(k)
    BY DEF NewCheckouts
  <2>1. task'[k] = task[k]
    BY <1>18, <2>0, EndToBuyDoes, IdleTyped DEF Others, Leaves, Answers, Moves, AfterActivate, Begins
  <2> QED
    BY <2>1 DEF Checking
<1>19. ASSUME NEW h \in Handlers, Browse(h) PROVE NewCheckouts
  <2>0. TypeInv
    BY DEF Struct
  <2> SUFFICES ASSUME NEW k \in Handlers, task'[k].step \in {"insert", "release"}
               PROVE  Checking(k)
    BY DEF NewCheckouts
  <2>1. task'[k] = task[k]
    BY <1>19, <2>0, BrowseDoes, IdleTyped DEF Others, Leaves, Answers, Moves, AfterActivate, Begins
  <2> QED
    BY <2>1 DEF Checking
<1>20. ASSUME NEW h \in Handlers, DropOpen(h) PROVE NewCheckouts
  <2>0. TypeInv
    BY DEF Struct
  <2> SUFFICES ASSUME NEW k \in Handlers, task'[k].step \in {"insert", "release"}
               PROVE  Checking(k)
    BY DEF NewCheckouts
  <2>1. task'[k] = task[k]
    BY <1>20, <2>0, DropOpenDoes, IdleTyped DEF Others, Leaves, Answers, Moves, AfterActivate, Begins
  <2> QED
    BY <2>1 DEF Checking
<1>21. ASSUME NEW h \in Handlers, Subscribe(h) PROVE NewCheckouts
  <2>0. TypeInv
    BY DEF Struct
  <2> SUFFICES ASSUME NEW k \in Handlers, task'[k].step \in {"insert", "release"}
               PROVE  Checking(k)
    BY DEF NewCheckouts
  <2>1. CASE k # h
    BY <1>21, <2>0, <2>1, SubscribeDoes DEF Checking, Others, Leaves
  <2>2. CASE k = h
    <3>1. task'[h].step # "idle"
      BY <2>2
    <3> QED
      BY <1>21, <2>0, <2>2, <3>1, SubscribeDoes, IdleTyped DEF Checking, Leaves
  <2> QED
    BY <2>1, <2>2
<1>22. ASSUME NEW h \in Handlers, Insert(h) PROVE NewCheckouts
  <2>0. TypeInv
    BY DEF Struct
  <2> SUFFICES ASSUME NEW k \in Handlers, task'[k].step \in {"insert", "release"}
               PROVE  Checking(k)
    BY DEF NewCheckouts
  <2>1. CASE k # h
    BY <1>22, <2>0, <2>1, InsertDoes DEF Checking, Others, Leaves, Moves
  <2>2. CASE k = h
    <3>1. task'[h].step # "idle"
      BY <2>2
    <3>2. Moves(h, "release") /\ task[h].step = "insert" /\ UNCHANGED rzp
      BY <1>22, <2>0, <3>1, InsertDoes, IdleTyped DEF Leaves
    <3>3. /\ sub'[task[h].s].status = "created" /\ sub'[task[h].s].tier = task[h].tier
          /\ sub'[task[h].s].replaces = task[h].old
      BY <1>22, <2>0, <3>1, InsertDoes, IdleTyped DEF Leaves
    <3> QED
      BY <2>2, <3>2, <3>3 DEF Checking, Moves, Kept
  <2> QED
    BY <2>1, <2>2
<1>23. ASSUME NEW h \in Handlers, Release(h) PROVE NewCheckouts
  <2>0. TypeInv
    BY DEF Struct
  <2> SUFFICES ASSUME NEW k \in Handlers, task'[k].step \in {"insert", "release"}
               PROVE  Checking(k)
    BY DEF NewCheckouts
  <2>1. task'[k] = task[k]
    BY <1>23, <2>0, ReleaseDoes, IdleTyped DEF Others, Leaves, Answers, Moves, AfterActivate, Begins
  <2> QED
    BY <2>1 DEF Checking
<1>24. ASSUME NEW h \in Handlers, StopAtEnd(h) PROVE NewCheckouts
  <2>0. TypeInv
    BY DEF Struct
  <2> SUFFICES ASSUME NEW k \in Handlers, task'[k].step \in {"insert", "release"}
               PROVE  Checking(k)
    BY DEF NewCheckouts
  <2>1. task'[k] = task[k]
    BY <1>24, <2>0, StopAtEndDoes, IdleTyped DEF Others, Leaves, Answers, Moves, AfterActivate, Begins
  <2> QED
    BY <2>1 DEF Checking
<1>25. ASSUME NEW h \in Handlers, MarkEnds(h) PROVE NewCheckouts
  <2>0. TypeInv
    BY DEF Struct
  <2> SUFFICES ASSUME NEW k \in Handlers, task'[k].step \in {"insert", "release"}
               PROVE  Checking(k)
    BY DEF NewCheckouts
  <2>1. task'[k] = task[k]
    BY <1>25, <2>0, MarkEndsDoes, IdleTyped DEF Others, Leaves, Answers, Moves, AfterActivate, Begins
  <2> QED
    BY <2>1 DEF Checking
<1>26. ASSUME NEW h \in Handlers, Schedule(h) PROVE NewCheckouts
  <2>0. TypeInv
    BY DEF Struct
  <2> SUFFICES ASSUME NEW k \in Handlers, task'[k].step \in {"insert", "release"}
               PROVE  Checking(k)
    BY DEF NewCheckouts
  <2>1. task'[k] = task[k]
    BY <1>26, <2>0, ScheduleDoes, IdleTyped DEF Others, Leaves, Answers, Moves, AfterActivate, Begins
  <2> QED
    BY <2>1 DEF Checking
<1>27. ASSUME NEW h \in Handlers, StopNow(h) PROVE NewCheckouts
  <2>0. TypeInv
    BY DEF Struct
  <2> SUFFICES ASSUME NEW k \in Handlers, task'[k].step \in {"insert", "release"}
               PROVE  Checking(k)
    BY DEF NewCheckouts
  <2>1. task'[k] = task[k]
    BY <1>27, <2>0, StopNowDoes, IdleTyped DEF Others, Leaves, Answers, Moves, AfterActivate, Begins
  <2> QED
    BY <2>1 DEF Checking
<1>28. ASSUME NEW h \in Handlers, Drop(h) PROVE NewCheckouts
  <2>0. TypeInv
    BY DEF Struct
  <2> SUFFICES ASSUME NEW k \in Handlers, task'[k].step \in {"insert", "release"}
               PROVE  Checking(k)
    BY DEF NewCheckouts
  <2>1. task'[k] = task[k]
    BY <1>28, <2>0, DropDoes, IdleTyped DEF Others, Leaves, Answers, Moves, AfterActivate, Begins
  <2> QED
    BY <2>1 DEF Checking
<1>29. ASSUME NEW h \in Handlers, Credit(h) PROVE NewCheckouts
  <2>0. TypeInv
    BY DEF Struct
  <2> SUFFICES ASSUME NEW k \in Handlers, task'[k].step \in {"insert", "release"}
               PROVE  Checking(k)
    BY DEF NewCheckouts
  <2>1. task'[k] = task[k]
    BY <1>29, <2>0, CreditDoes, IdleTyped DEF Others, Leaves, Answers, Moves, AfterActivate, Begins
  <2> QED
    BY <2>1 DEF Checking
<1>30. ASSUME NEW h \in Handlers, Clear(h) PROVE NewCheckouts
  <2>0. TypeInv
    BY DEF Struct
  <2> SUFFICES ASSUME NEW k \in Handlers, task'[k].step \in {"insert", "release"}
               PROVE  Checking(k)
    BY DEF NewCheckouts
  <2>1. task'[k] = task[k]
    BY <1>30, <2>0, ClearDoes, IdleTyped DEF Others, Leaves, Answers, Moves, AfterActivate, Begins
  <2> QED
    BY <2>1 DEF Checking
<1>31. ASSUME NEW h \in Handlers, GrantRow(h) PROVE NewCheckouts
  <2>0. TypeInv
    BY DEF Struct
  <2> SUFFICES ASSUME NEW k \in Handlers, task'[k].step \in {"insert", "release"}
               PROVE  Checking(k)
    BY DEF NewCheckouts
  <2>1. task'[k] = task[k]
    BY <1>31, <2>0, GrantRowDoes, IdleTyped DEF Others, Leaves, Answers, Moves, AfterActivate, Begins
  <2> QED
    BY <2>1 DEF Checking
<1>32. ASSUME NEW h \in Handlers, Crash(h) PROVE NewCheckouts
  <2>0. TypeInv
    BY DEF Struct
  <2> SUFFICES ASSUME NEW k \in Handlers, task'[k].step \in {"insert", "release"}
               PROVE  Checking(k)
    BY DEF NewCheckouts
  <2>1. task'[k] = task[k]
    BY <1>32, <2>0, CrashDoes, IdleTyped DEF Others, Leaves, Answers, Moves, AfterActivate, Begins
  <2> QED
    BY <2>1 DEF Checking
<1>33. ASSUME NEW h \in Handlers, NEW tier \in Tiers, Buy(h, tier) PROVE NewCheckouts
  <2>0. TypeInv
    BY DEF Struct
  <2> SUFFICES ASSUME NEW k \in Handlers, task'[k].step \in {"insert", "release"}
               PROVE  Checking(k)
    BY DEF NewCheckouts
  <2>1. task'[k] = task[k]
    BY <1>33, <2>0, BuyDoes, IdleTyped DEF Others, Leaves, Answers, Moves, AfterActivate, Begins
  <2> QED
    BY <2>1 DEF Checking
<1>34. ASSUME NEW h \in Handlers, NEW tier \in Tiers, Grant(h, tier) PROVE NewCheckouts
  <2>0. TypeInv
    BY DEF Struct
  <2> SUFFICES ASSUME NEW k \in Handlers, task'[k].step \in {"insert", "release"}
               PROVE  Checking(k)
    BY DEF NewCheckouts
  <2>1. task'[k] = task[k]
    BY <1>34, <2>0, GrantDoes, IdleTyped DEF Others, Leaves, Answers, Moves, AfterActivate, Begins
  <2> QED
    BY <2>1 DEF Checking
<1>35. ASSUME NEW h \in Handlers, NEW s \in Subs, Deliver(h, s) PROVE NewCheckouts
  <2>0. TypeInv
    BY DEF Struct
  <2> SUFFICES ASSUME NEW k \in Handlers, task'[k].step \in {"insert", "release"}
               PROVE  Checking(k)
    BY DEF NewCheckouts
  <2>1. sub[s] \in Row /\ Head(queue[s]) \in Event
    BY <1>35, <2>0, AtRow, DeliverDoes
  <2> DEFINE step == FirstStep(Head(queue[s]), sub[s])
  <2>3. UNCHANGED task \/ (Others(h) /\ task'[h].step = step)
    BY <1>35, <2>0, DeliverDoes DEF Begins
  <2>4. step \notin {"insert", "release"}
    BY <2>1, FirstStepOf
  <2> HIDE DEF step
  <2>2. task'[k] = task[k]
    BY <2>3, <2>4 DEF Others
  <2> QED
    BY <2>2 DEF Checking
<1>36. ASSUME NEW h \in Handlers, NEW s \in Subs, Callback(h, s) PROVE NewCheckouts
  <2>0. TypeInv
    BY DEF Struct
  <2> SUFFICES ASSUME NEW k \in Handlers, task'[k].step \in {"insert", "release"}
               PROVE  Checking(k)
    BY DEF NewCheckouts
  <2>1. task'[k] = task[k]
    BY <1>36, <2>0, CallbackDoes, IdleTyped DEF Others, Leaves, Answers, Moves, AfterActivate, Begins
  <2> QED
    BY <2>1 DEF Checking
<1>37. ASSUME NEW h \in Handlers, NEW s \in Subs, Overdue(h, s) PROVE NewCheckouts
  <2>0. TypeInv
    BY DEF Struct
  <2> SUFFICES ASSUME NEW k \in Handlers, task'[k].step \in {"insert", "release"}
               PROVE  Checking(k)
    BY DEF NewCheckouts
  <2>1. task'[k] = task[k]
    BY <1>37, <2>0, OverdueDoes, IdleTyped DEF Others, Leaves, Answers, Moves, AfterActivate, Begins
  <2> QED
    BY <2>1 DEF Checking
<1>38. ASSUME NEW h \in Handlers, NEW s \in Subs, Cancel(h, s) PROVE NewCheckouts
  <2>0. TypeInv
    BY DEF Struct
  <2> SUFFICES ASSUME NEW k \in Handlers, task'[k].step \in {"insert", "release"}
               PROVE  Checking(k)
    BY DEF NewCheckouts
  <2>1. task'[k] = task[k]
    BY <1>38, <2>0, CancelDoes, IdleTyped DEF Others, Leaves, Answers, Moves, AfterActivate, Begins
  <2> QED
    BY <2>1 DEF Checking
<1>39. ASSUME NEW h \in Handlers, NEW s \in Subs, Revoke(h, s) PROVE NewCheckouts
  <2>0. TypeInv
    BY DEF Struct
  <2> SUFFICES ASSUME NEW k \in Handlers, task'[k].step \in {"insert", "release"}
               PROVE  Checking(k)
    BY DEF NewCheckouts
  <2>1. task'[k] = task[k]
    BY <1>39, <2>0, RevokeDoes, IdleTyped DEF Others, Leaves, Answers, Moves, AfterActivate, Begins
  <2> QED
    BY <2>1 DEF Checking
<1>40. ASSUME NEW h \in Handlers, NEW s \in Subs, NEW tier \in Tiers, ChangePlan(h, s, tier) PROVE
   NewCheckouts
  <2>0. TypeInv
    BY DEF Struct
  <2> SUFFICES ASSUME NEW k \in Handlers, task'[k].step \in {"insert", "release"}
               PROVE  Checking(k)
    BY DEF NewCheckouts
  <2>1. task'[k] = task[k]
    BY <1>40, <2>0, ChangePlanDoes, IdleTyped DEF Others, Leaves, Answers, Moves, AfterActivate, Begins
  <2> QED
    BY <2>1 DEF Checking
<1>41. ASSUME NEW h \in Handlers, NEW s \in Subs, NEW tier \in Tiers, ChangeAddon(h, s, tier)
   PROVE NewCheckouts
  <2>0. TypeInv
    BY DEF Struct
  <2> SUFFICES ASSUME NEW k \in Handlers, task'[k].step \in {"insert", "release"}
               PROVE  Checking(k)
    BY DEF NewCheckouts
  <2>1. task'[k] = task[k]
    BY <1>41, <2>0, ChangeAddonDoes, IdleTyped DEF Others, Leaves, Answers, Moves, AfterActivate, Begins
  <2> QED
    BY <2>1 DEF Checking
<1>42. CASE UNCHANGED vars
  BY <1>42 DEF vars, NewCheckouts, Checking
<1> QED
  BY <1>1, <1>2, <1>3, <1>4, <1>5, <1>6, <1>7, <1>8, <1>9, <1>10, <1>11, <1>12, <1>13, <1>14,
     <1>15, <1>16, <1>17, <1>18, <1>19, <1>20, <1>21, <1>22, <1>23, <1>24, <1>25, <1>26, <1>27,
     <1>28, <1>29, <1>30, <1>31, <1>32, <1>33, <1>34, <1>35, <1>36, <1>37, <1>38, <1>39, <1>40,
     <1>41, <1>42 DEF Next, Step

LEMMA UniqueKept ==
    ASSUME Struct, [Next]_vars
    PROVE  Unique'
<1>1. ASSUME Tick PROVE Unique'
  <2>0. TypeInv /\ RowsLast
    BY RowsLastAlways DEF Struct
  <2> QED
    BY <1>1, <2>0, TickDoes, UniqueSame DEF Indexed
<1>2. ASSUME NEW s \in Subs, Pay(s) PROVE Unique'
  <2>0. TypeInv /\ RowsLast
    BY RowsLastAlways DEF Struct
  <2> QED
    BY <1>2, <2>0, PayDoes, UniqueSame DEF Indexed
<1>3. ASSUME NEW s \in Subs, Charge(s) PROVE Unique'
  <2>0. TypeInv /\ RowsLast
    BY RowsLastAlways DEF Struct
  <2> QED
    BY <1>3, <2>0, ChargeDoes, UniqueSame DEF Indexed
<1>4. ASSUME NEW s \in Subs, Decline(s) PROVE Unique'
  <2>0. TypeInv /\ RowsLast
    BY RowsLastAlways DEF Struct
  <2> QED
    BY <1>4, <2>0, DeclineDoes, UniqueSame DEF Indexed
<1>5. ASSUME NEW s \in Subs, GiveUp(s) PROVE Unique'
  <2>0. TypeInv /\ RowsLast
    BY RowsLastAlways DEF Struct
  <2> QED
    BY <1>5, <2>0, GiveUpDoes, UniqueSame DEF Indexed
<1>6. ASSUME NEW s \in Subs, CycleEnds(s) PROVE Unique'
  <2>0. TypeInv /\ RowsLast
    BY RowsLastAlways DEF Struct
  <2> QED
    BY <1>6, <2>0, CycleEndsDoes, UniqueSame DEF Indexed
<1>7. ASSUME NEW h \in Handlers, ReadToActivate(h) PROVE Unique'
  <2>0. TypeInv /\ RowsLast
    BY RowsLastAlways DEF Struct
  <2> QED
    BY <1>7, <2>0, ReadToActivateDoes, UniqueSame DEF Indexed
<1>8. ASSUME NEW h \in Handlers, Activate(h) PROVE Unique'
  <2>0. TypeInv /\ RowsLast
    BY RowsLastAlways DEF Struct
  <2> DEFINE s == task[h].s
  <2>1. /\ s \in Subs /\ UNCHANGED kind /\ task[h].step = "activate"
        /\ \A t \in Subs : t # s => sub'[t] = sub[t]
    BY <1>8, <2>0, ActivateDoes DEF OnlyRow
  <2>2. sub[s].status # "none" /\ task[h].row.tier = sub[s].tier
    BY <2>0, <2>1, PaidIsSold, StructOf, AtStep
       DEF WorkInOrder, TaskInOrder, Activating, Buying, OfEvent
  <2>3. CASE Indexed(s) \/ sub' = sub
    <3>1. \A t \in Subs : sub'[t].status \notin {"none", "cancelled"} => Indexed(t)
      BY <2>1, <2>3 DEF Indexed
    <3> QED
      BY <2>0, <2>1, <3>1, UniqueSame
  <2>4. CASE sub[s].status = "cancelled" /\ sub' # sub
    <3>1. ~Taken(sub, s, sub[s].tier) /\ sub'[s].tier = sub[s].tier
      BY <1>8, <2>0, <2>2, <2>4, ActivateDoes DEF Terms
    <3>2. \A t \in Subs \ {s} : sub'[t].status \notin {"none", "cancelled"} =>
               Indexed(t) /\ kind = "addon" /\ sub[t].tier # sub'[s].tier
      BY <2>1, <3>1 DEF Taken, Indexed
    <3> HIDE DEF s
    <3> QED
      BY <2>0, <2>1, <3>2, UniqueEntered
  <2> QED
    BY <2>2, <2>3, <2>4 DEF Indexed
<1>9. ASSUME NEW h \in Handlers, SetPlan(h) PROVE Unique'
  <2>0. TypeInv /\ RowsLast
    BY RowsLastAlways DEF Struct
  <2> QED
    BY <1>9, <2>0, SetPlanDoes, UniqueSame DEF Indexed
<1>10. ASSUME NEW h \in Handlers, CancelReplaced(h) PROVE Unique'
  <2>0. TypeInv /\ RowsLast
    BY RowsLastAlways DEF Struct
  <2> QED
    BY <1>10, <2>0, CancelReplacedDoes, UniqueSame DEF Indexed
<1>11. ASSUME NEW h \in Handlers, Retire(h) PROVE Unique'
  <2>0. TypeInv /\ RowsLast
    BY RowsLastAlways DEF Struct
  <2>1. UNCHANGED kind /\ \A s \in Subs : sub'[s].status \notin {"none", "cancelled"} => Indexed(s)
    BY <1>11, <2>0, RetireDoes DEF Indexed, OnlyRow, Cancels, IsLive
  <2> QED
    BY <2>0, <2>1, UniqueSame
<1>12. ASSUME NEW h \in Handlers, CreditReplaced(h) PROVE Unique'
  <2>0. TypeInv /\ RowsLast
    BY RowsLastAlways DEF Struct
  <2> QED
    BY <1>12, <2>0, CreditReplacedDoes, UniqueSame DEF Indexed
<1>13. ASSUME NEW h \in Handlers, Invoice(h) PROVE Unique'
  <2>0. TypeInv /\ RowsLast
    BY RowsLastAlways DEF Struct
  <2> QED
    BY <1>13, <2>0, InvoiceDoes, UniqueSame DEF Indexed
<1>14. ASSUME NEW h \in Handlers, Renew(h) PROVE Unique'
  <2>0. TypeInv /\ RowsLast
    BY RowsLastAlways DEF Struct
  <2>1. UNCHANGED kind /\ \A s \in Subs : sub'[s].status \notin {"none", "cancelled"} => Indexed(s)
    BY <1>14, <2>0, RenewDoes, WorkedWas DEF Indexed, OnlyRow, Cancels, IsLive, Revivable, OfWas, Was
  <2> QED
    BY <2>0, <2>1, UniqueSame
<1>15. ASSUME NEW h \in Handlers, Fail(h) PROVE Unique'
  <2>0. TypeInv /\ RowsLast
    BY RowsLastAlways DEF Struct
  <2>1. UNCHANGED kind /\ \A s \in Subs : sub'[s].status \notin {"none", "cancelled"} => Indexed(s)
    BY <1>15, <2>0, FailDoes DEF Indexed, OnlyRow, Cancels, IsLive
  <2> QED
    BY <2>0, <2>1, UniqueSame
<1>16. ASSUME NEW h \in Handlers, Halt(h) PROVE Unique'
  <2>0. TypeInv /\ RowsLast
    BY RowsLastAlways DEF Struct
  <2>1. UNCHANGED kind /\ \A s \in Subs : sub'[s].status \notin {"none", "cancelled"} => Indexed(s)
    BY <1>16, <2>0, HaltDoes DEF Indexed, OnlyRow, Cancels, IsLive
  <2> QED
    BY <2>0, <2>1, UniqueSame
<1>17. ASSUME NEW h \in Handlers, End(h) PROVE Unique'
  <2>0. TypeInv /\ RowsLast
    BY RowsLastAlways DEF Struct
  <2>1. UNCHANGED kind /\ \A s \in Subs : sub'[s].status \notin {"none", "cancelled"} => Indexed(s)
    BY <1>17, <2>0, EndDoes DEF Indexed, OnlyRow, Cancels, IsLive
  <2> QED
    BY <2>0, <2>1, UniqueSame
<1>18. ASSUME NEW h \in Handlers, EndToBuy(h) PROVE Unique'
  <2>0. TypeInv /\ RowsLast
    BY RowsLastAlways DEF Struct
  <2>1. UNCHANGED kind /\ \A s \in Subs : sub'[s].status \notin {"none", "cancelled"} => Indexed(s)
    BY <1>18, <2>0, EndToBuyDoes DEF Indexed, OnlyRow, Cancels, IsLive
  <2> QED
    BY <2>0, <2>1, UniqueSame
<1>19. ASSUME NEW h \in Handlers, Browse(h) PROVE Unique'
  <2>0. TypeInv /\ RowsLast
    BY RowsLastAlways DEF Struct
  <2> QED
    BY <1>19, <2>0, BrowseDoes, UniqueSame DEF Indexed
<1>20. ASSUME NEW h \in Handlers, DropOpen(h) PROVE Unique'
  <2>0. TypeInv /\ RowsLast
    BY RowsLastAlways DEF Struct
  <2>1. UNCHANGED kind /\ \A s \in Subs : sub'[s].status \notin {"none", "cancelled"} => Indexed(s)
    BY <1>20, <2>0, DropOpenDoes DEF Indexed, Cancels
  <2> QED
    BY <2>0, <2>1, UniqueSame
<1>21. ASSUME NEW h \in Handlers, Subscribe(h) PROVE Unique'
  <2>0. TypeInv /\ RowsLast
    BY RowsLastAlways DEF Struct
  <2> QED
    BY <1>21, <2>0, SubscribeDoes, UniqueSame DEF Indexed
<1>22. ASSUME NEW h \in Handlers, Insert(h) PROVE Unique'
  <2>0. TypeInv /\ RowsLast
    BY RowsLastAlways DEF Struct
  <2> DEFINE s == task[h].s
  <2>1. s \in Subs /\ UNCHANGED kind
    BY <1>22, <2>0, InsertDoes
  <2>2. CASE sub' = sub
    BY <2>0, <2>1, <2>2, UniqueSame DEF Indexed
  <2>3. CASE sub' # sub
    <3>1. \A t \in Subs \ {s} : sub'[t].status \notin {"none", "cancelled"} =>
               Indexed(t) /\ kind = "addon" /\ sub[t].tier # sub'[s].tier
      <4> SUFFICES ASSUME NEW t \in Subs \ {s}, sub'[t].status \notin {"none", "cancelled"}
                   PROVE  Indexed(t) /\ kind = "addon" /\ sub[t].tier # sub'[s].tier
        OBVIOUS
      <4>1. sub'[s].tier = task[h].tier
        BY <1>22, <2>0, <2>3, InsertDoes
      <4>2. /\ sub[t].status \notin {"none", "cancelled"} /\ t \notin Retired(h) =>
                  kind = "addon" /\ sub[t].tier # task[h].tier
            /\ t \notin Retired(h) /\ sub'[t] = sub[t]
        BY <1>22, <2>0, <2>3, InsertDoes DEF Cancels
      <4> QED
        BY <4>1, <4>2 DEF Indexed
    <3> HIDE DEF s
    <3> QED
      BY <2>0, <2>1, <3>1, UniqueEntered
  <2> QED
    BY <2>2, <2>3
<1>23. ASSUME NEW h \in Handlers, Release(h) PROVE Unique'
  <2>0. TypeInv /\ RowsLast
    BY RowsLastAlways DEF Struct
  <2> QED
    BY <1>23, <2>0, ReleaseDoes, UniqueSame DEF Indexed
<1>24. ASSUME NEW h \in Handlers, StopAtEnd(h) PROVE Unique'
  <2>0. TypeInv /\ RowsLast
    BY RowsLastAlways DEF Struct
  <2> QED
    BY <1>24, <2>0, StopAtEndDoes, UniqueSame DEF Indexed
<1>25. ASSUME NEW h \in Handlers, MarkEnds(h) PROVE Unique'
  <2>0. TypeInv /\ RowsLast
    BY RowsLastAlways DEF Struct
  <2>1. UNCHANGED kind /\ \A s \in Subs : sub'[s].status \notin {"none", "cancelled"} => Indexed(s)
    BY <1>25, <2>0, MarkEndsDoes, WorkedWas DEF Indexed, OnlyRow, Cancels, IsLive, Revivable, OfWas, Was
  <2> QED
    BY <2>0, <2>1, UniqueSame
<1>26. ASSUME NEW h \in Handlers, Schedule(h) PROVE Unique'
  <2>0. TypeInv /\ RowsLast
    BY RowsLastAlways DEF Struct
  <2>1. UNCHANGED kind /\ \A s \in Subs : sub'[s].status \notin {"none", "cancelled"} => Indexed(s)
    BY <1>26, <2>0, ScheduleDoes, WorkedWas DEF Indexed, OnlyRow, Cancels, IsLive, Revivable, OfWas, Was
  <2> QED
    BY <2>0, <2>1, UniqueSame
<1>27. ASSUME NEW h \in Handlers, StopNow(h) PROVE Unique'
  <2>0. TypeInv /\ RowsLast
    BY RowsLastAlways DEF Struct
  <2> QED
    BY <1>27, <2>0, StopNowDoes, UniqueSame DEF Indexed
<1>28. ASSUME NEW h \in Handlers, Drop(h) PROVE Unique'
  <2>0. TypeInv /\ RowsLast
    BY RowsLastAlways DEF Struct
  <2>1. UNCHANGED kind /\ \A s \in Subs : sub'[s].status \notin {"none", "cancelled"} => Indexed(s)
    BY <1>28, <2>0, DropDoes DEF Indexed, OnlyRow, Cancels, IsLive
  <2> QED
    BY <2>0, <2>1, UniqueSame
<1>29. ASSUME NEW h \in Handlers, Credit(h) PROVE Unique'
  <2>0. TypeInv /\ RowsLast
    BY RowsLastAlways DEF Struct
  <2> QED
    BY <1>29, <2>0, CreditDoes, UniqueSame DEF Indexed
<1>30. ASSUME NEW h \in Handlers, Clear(h) PROVE Unique'
  <2>0. TypeInv /\ RowsLast
    BY RowsLastAlways DEF Struct
  <2>1. UNCHANGED kind /\ \A s \in Subs : sub'[s].status \notin {"none", "cancelled"} => Indexed(s)
    BY <1>30, <2>0, ClearDoes DEF Indexed, Cancels
  <2> QED
    BY <2>0, <2>1, UniqueSame
<1>31. ASSUME NEW h \in Handlers, GrantRow(h) PROVE Unique'
  <2>0. TypeInv /\ RowsLast
    BY RowsLastAlways DEF Struct
  <2>1. CASE sub' = sub
    BY <1>31, <2>0, <2>1, UniqueSame, GrantRowDoes DEF Indexed
  <2>2. CASE sub' # sub
    <3>1. /\ Next1 \in Subs /\ UNCHANGED kind /\ ~Taken(sub, Next1, task[h].tier) /\ OnlyRow(Next1)
          /\ sub'[Next1].tier = task[h].tier
      BY <1>31, <2>0, <2>2, GrantRowDoes DEF Fresh
    <3>2. \A t \in Subs \ {Next1} : sub'[t].status \notin {"none", "cancelled"} =>
               Indexed(t) /\ kind = "addon" /\ sub[t].tier # sub'[Next1].tier
      BY <3>1 DEF Taken, Indexed, OnlyRow
    <3> QED
      BY <2>0, <3>1, <3>2, UniqueEntered
  <2> QED
    BY <2>1, <2>2
<1>32. ASSUME NEW h \in Handlers, Crash(h) PROVE Unique'
  <2>0. TypeInv /\ RowsLast
    BY RowsLastAlways DEF Struct
  <2> QED
    BY <1>32, <2>0, CrashDoes, UniqueSame DEF Indexed
<1>33. ASSUME NEW h \in Handlers, NEW tier \in Tiers, Buy(h, tier) PROVE Unique'
  <2>0. TypeInv /\ RowsLast
    BY RowsLastAlways DEF Struct
  <2> QED
    BY <1>33, <2>0, BuyDoes, UniqueSame DEF Indexed
<1>34. ASSUME NEW h \in Handlers, NEW tier \in Tiers, Grant(h, tier) PROVE Unique'
  <2>0. TypeInv /\ RowsLast
    BY RowsLastAlways DEF Struct
  <2> QED
    BY <1>34, <2>0, GrantDoes, UniqueSame DEF Indexed
<1>35. ASSUME NEW h \in Handlers, NEW s \in Subs, Deliver(h, s) PROVE Unique'
  <2>0. TypeInv /\ RowsLast
    BY RowsLastAlways DEF Struct
  <2> QED
    BY <1>35, <2>0, DeliverDoes, UniqueSame DEF Indexed
<1>36. ASSUME NEW h \in Handlers, NEW s \in Subs, Callback(h, s) PROVE Unique'
  <2>0. TypeInv /\ RowsLast
    BY RowsLastAlways DEF Struct
  <2> QED
    BY <1>36, <2>0, CallbackDoes, UniqueSame DEF Indexed
<1>37. ASSUME NEW h \in Handlers, NEW s \in Subs, Overdue(h, s) PROVE Unique'
  <2>0. TypeInv /\ RowsLast
    BY RowsLastAlways DEF Struct
  <2> QED
    BY <1>37, <2>0, OverdueDoes, UniqueSame DEF Indexed
<1>38. ASSUME NEW h \in Handlers, NEW s \in Subs, Cancel(h, s) PROVE Unique'
  <2>0. TypeInv /\ RowsLast
    BY RowsLastAlways DEF Struct
  <2> QED
    BY <1>38, <2>0, CancelDoes, UniqueSame DEF Indexed
<1>39. ASSUME NEW h \in Handlers, NEW s \in Subs, Revoke(h, s) PROVE Unique'
  <2>0. TypeInv /\ RowsLast
    BY RowsLastAlways DEF Struct
  <2> QED
    BY <1>39, <2>0, RevokeDoes, UniqueSame DEF Indexed
<1>40. ASSUME NEW h \in Handlers, NEW s \in Subs, NEW tier \in Tiers, ChangePlan(h, s, tier) PROVE
   Unique'
  <2>0. TypeInv /\ RowsLast
    BY RowsLastAlways DEF Struct
  <2> QED
    BY <1>40, <2>0, ChangePlanDoes, UniqueSame DEF Indexed
<1>41. ASSUME NEW h \in Handlers, NEW s \in Subs, NEW tier \in Tiers, ChangeAddon(h, s, tier)
   PROVE Unique'
  <2>0. TypeInv /\ RowsLast
    BY RowsLastAlways DEF Struct
  <2> QED
    BY <1>41, <2>0, ChangeAddonDoes, UniqueSame DEF Indexed
<1>42. CASE UNCHANGED vars
  <2>0. TypeInv /\ RowsLast
    BY RowsLastAlways DEF Struct
  <2> QED
    BY <1>42, <2>0, UniqueSame DEF vars, Indexed
<1> QED
  BY <1>1, <1>2, <1>3, <1>4, <1>5, <1>6, <1>7, <1>8, <1>9, <1>10, <1>11, <1>12, <1>13, <1>14,
     <1>15, <1>16, <1>17, <1>18, <1>19, <1>20, <1>21, <1>22, <1>23, <1>24, <1>25, <1>26, <1>27,
     <1>28, <1>29, <1>30, <1>31, <1>32, <1>33, <1>34, <1>35, <1>36, <1>37, <1>38, <1>39, <1>40,
     <1>41, <1>42 DEF Next, Step

LEMMA StructInit ==
    Init => Struct
<1> SUFFICES ASSUME Init PROVE Struct
  OBVIOUS
<1>1. TypeInv
  BY TypeInvInit
<1>2. Checkouts /\ WorksInOrder
  BY IdleTyped DEF Init, Checkouts, Checkout, WorksInOrder, WorkInOrder, OfWas
<1>3. Replacing /\ QueuesInOrder /\ Unique
  BY DEF Init, Replacing, QueuesInOrder, QueueInOrder, Unique, Indexed, NoRow
<1>4. RowsInOrder
  <2> SUFFICES ASSUME NEW s \in Subs PROVE RowInOrder(s)
    BY DEF RowsInOrder
  <2>1. sub[s] = NoRow /\ rzp[s] = NoMandate /\ today = 1
    BY DEF Init
  <2>2. 0 <= 1 + Period
    BY Bounds
  <2> QED
    BY <2>1, <2>2 DEF RowInOrder, NoRow, NoMandate, Held, Was, None
<1> QED
  BY <1>1, <1>2, <1>3, <1>4 DEF Struct

LEMMA StructNext ==
    Struct /\ [Next]_vars => Struct'
<1> SUFFICES ASSUME Struct, [Next]_vars PROVE Struct'
  OBVIOUS
<1>1. TypeInv' /\ Checkouts'
  BY TypeInvNext, CheckoutsFrom, OpensLastAlways, NewCheckoutsAlways DEF Struct
<1> QED
  BY <1>1, RowsKept, ReplacingKept, QueuesKept, WorksKept, UniqueKept DEF Struct

-----------------------------------------------------------------------------
(* What is charged is given.                                               *)

\* The delivery of a charge is about to extend the row.
Renewing(h, s) ==
    /\ task[h].by = "webhook" /\ task[h].step = "renew" /\ task[h].s = s
    /\ task[h].row.status # "cancelled"

\* The last charge is on its way.
Owed(s) ==
    \E i \in 1 .. Len(queue[s]) :
        /\ queue[s][i].type = "charged" /\ queue[s][i].charge = rzp[s].paid
        /\ i = 1 /\ seen[s] => \E h \in Handlers : Renewing(h, s)

Given(s) ==
    sub[s].status = "active" /\ rzp[s].state = "active" => sub[s].end >= rzp[s].due \/ Owed(s)

\* What is being delivered has its billing_events row.
Noted == \A h \in Handlers : task[h].by = "webhook" => seen[task[h].s]

PaidInv == Struct /\ Noted /\ \A s \in Subs : Given(s)

\* An event that has its row is acknowledged.
LEMMA DeliverSeen ==
    ASSUME TypeInv, NEW h \in Handlers, NEW s \in Subs, Deliver(h, s), seen[s]
    PROVE  /\ queue[s] # <<>> /\ queue'[s] = Tail(queue[s]) /\ seen'[s] = FALSE
           /\ \A t \in Subs : t # s => queue'[t] = queue[t] /\ seen'[t] = seen[t]
           /\ \A k \in Handlers : task[k].by = "webhook" => task[k].s # s
           /\ UNCHANGED <<kind, today, sub, plan, rzp, invoices, credits, task>>
BY DeliverDoes

\* Another one gets it, and is applied.
LEMMA DeliverNew ==
    ASSUME TypeInv, NEW h \in Handlers, NEW s \in Subs, Deliver(h, s), ~seen[s]
    PROVE  /\ queue[s] # <<>> /\ seen'[s] = TRUE
           /\ \A t \in Subs : t # s => seen'[t] = seen[t]
           /\ \A k \in Handlers : task[k].by = "webhook" => task[k].s # s
           /\ Others(h) /\ task[h].step = "idle" /\ task'[h].by = "webhook" /\ task'[h].s = s
           /\ task'[h].step = FirstStep(Head(queue[s]), sub[s]) /\ task'[h].row = sub[s]
           /\ task'[h].event = Head(queue[s]) /\ task'[h].tier = None /\ task'[h].old = None
           /\ task'[h].halted = {}
           /\ UNCHANGED <<kind, today, sub, plan, rzp, queue, invoices, credits>>
<1>1. /\ queue[s] # <<>> /\ seen'[s] = TRUE /\ UNCHANGED queue
      /\ \A t \in Subs : t # s => seen'[t] = seen[t]
      /\ \A k \in Handlers : task[k].by = "webhook" => task[k].s # s
      /\ UNCHANGED <<kind, today, sub, plan, rzp, invoices, credits>>
  BY DeliverDoes
<1>2. Begins(h, "webhook", FirstStep(Head(queue[s]), sub[s]), s, sub[s], Head(queue[s]), None,
             None, {})
  BY DeliverDoes
<1> QED
  BY <1>1, <1>2 DEF Begins

LEMMA PaidAt ==
    ASSUME PaidInv, NEW s \in Subs
    PROVE  Struct /\ TypeInv /\ Noted /\ Given(s)
BY DEF PaidInv, Struct

\* What was given stays, and what is owed stays on its way.
Stays(s) ==
    sub'[s].status = "active" /\ rzp'[s].state = "active" =>
        /\ sub[s].status = "active" /\ sub'[s].end = sub[s].end
        /\ rzp[s].state = "active" /\ rzp'[s].due = rzp[s].due /\ rzp'[s].paid = rzp[s].paid

\* Who is about to extend the row of s stays there.
RenewersStay(s) == \A k \in Handlers : Renewing(k, s) => task'[k] = task[k]

LEMMA RenewersOther ==
    ASSUME NEW h \in Handlers, Others(h), task[h].by # "webhook" \/ task[h].step # "renew",
           NEW s \in Subs
    PROVE  RenewersStay(s)
BY DEF RenewersStay, Renewing, Others

LEMMA OwedOn ==
    ASSUME PaidInv, NEW s \in Subs, Owed(s), RenewersStay(s), seen'[s] = seen[s],
           rzp'[s].paid = rzp[s].paid,
           queue'[s] = queue[s] \/ \E e \in Event : queue'[s] = Append(queue[s], e)
    PROVE  Owed(s)'
<1>0. TypeInv /\ queue[s] \in Seq(Event)
  BY PaidAt, AtRow
<1>1. PICK i \in 1 .. Len(queue[s]) :
         /\ queue[s][i].type = "charged" /\ queue[s][i].charge = rzp[s].paid
         /\ i = 1 /\ seen[s] => \E h \in Handlers : Renewing(h, s)
  BY DEF Owed
<1>2. i \in 1 .. Len(queue'[s]) /\ queue'[s][i] = queue[s][i]
  BY <1>0, AppendAt
<1>3. \A h \in Handlers : Renewing(h, s) => Renewing(h, s)'
  BY DEF Renewing, RenewersStay
<1> QED
  BY <1>1, <1>2, <1>3 DEF Owed

LEMMA GivenStays ==
    ASSUME PaidInv, NEW s \in Subs, Stays(s), RenewersStay(s), seen'[s] = seen[s],
           queue'[s] = queue[s] \/ \E e \in Event : queue'[s] = Append(queue[s], e)
    PROVE  Given(s)'
<1>1. Given(s)
  BY PaidAt
<1>2. rzp'[s].paid = rzp[s].paid /\ Owed(s) => Owed(s)'
  BY OwedOn
<1> QED
  BY <1>1, <1>2 DEF Given, Stays

\* The oldest event of s is acknowledged, and it was not the charge that is owed.
LEMMA GivenPopped ==
    ASSUME PaidInv, NEW s \in Subs, Stays(s), queue[s] # <<>>, queue'[s] = Tail(queue[s]),
           seen[s], seen'[s] = FALSE, \A h \in Handlers : ~Renewing(h, s)
    PROVE  Given(s)'
<1>0. TypeInv /\ queue[s] \in Seq(Event) /\ Given(s)
  BY PaidAt, AtRow
<1> SUFFICES ASSUME Owed(s), rzp'[s].paid = rzp[s].paid
             PROVE  Owed(s)'
  BY <1>0 DEF Given, Stays
<1>1. PICK i \in 1 .. Len(queue[s]) :
         queue[s][i].type = "charged" /\ queue[s][i].charge = rzp[s].paid /\ i # 1
  BY DEF Owed
<1>2. i - 1 \in 1 .. Len(queue'[s]) /\ queue'[s][i - 1] = queue[s][i]
  <2>1. /\ Len(queue[s]) \in Nat /\ Len(queue'[s]) = Len(queue[s]) - 1
        /\ \A j \in 1 .. Len(queue[s]) - 1 : queue'[s][j] = queue[s][j + 1]
    BY <1>0, TailAt
  <2>2. i - 1 \in 1 .. Len(queue[s]) - 1 /\ (i - 1) + 1 = i
    BY <1>1, <2>1
  <2> QED
    BY <2>1, <2>2
<1> QED
  BY <1>1, <1>2 DEF Owed

LEMMA GivenNot ==
    ASSUME NEW s \in Subs, sub'[s].status # "active" \/ rzp'[s].state # "active"
    PROVE  Given(s)'
BY DEF Given

\* A row that is activated or renewed runs as long as what was paid.
LEMMA GivenAnew ==
    ASSUME PaidInv, NEW s \in Subs, rzp'[s] = rzp[s], NEW from \in Nat, from >= today,
           sub'[s].end = from + Period
    PROVE  Given(s)'
<1>1. rzp[s].due <= today + Period /\ rzp[s].due \in Nat /\ today \in Nat /\ Period \in Nat
  BY PaidAt, StructAt, Counted, Bounds DEF RowInOrder
<1>2. sub'[s].end >= rzp'[s].due
  BY <1>1
<1> QED
  BY <1>2 DEF Given

\* The delivery that answers does not owe anything.
LEMMA GivenAnswered ==
    ASSUME PaidInv, NEW h \in Handlers, Answers(h), task[h].step # "renew", NEW s \in Subs, Stays(s)
    PROVE  Given(s)'
<1>0. TypeInv /\ Noted
  BY PaidAt
<1>1. CASE task[h].by = "webhook" /\ task[h].s = s
  <2>1. queue[s] # <<>> /\ \A k \in Handlers : task[k].by = "webhook" /\ task[k].s = s => k = h
    BY <1>0, <1>1 DEF TypeInv, Deliveries
  <2>2. \A k \in Handlers : ~Renewing(k, s)
    BY <2>1 DEF Renewing
  <2>3. seen[s]
    BY <1>0, <1>1 DEF Noted
  <2> QED
    BY <1>1, <2>1, <2>2, <2>3, GivenPopped DEF Answers
<1>2. CASE ~(task[h].by = "webhook" /\ task[h].s = s)
  <2>1. queue'[s] = queue[s] /\ seen'[s] = seen[s] /\ RenewersStay(s)
    BY <1>2, RenewersOther DEF Answers, Leaves
  <2> QED
    BY <2>1, GivenStays
<1> QED
  BY <1>1, <1>2

LEMMA NotedAnswered ==
    ASSUME PaidInv, NEW h \in Handlers, Answers(h)
    PROVE  Noted'
<1> SUFFICES ASSUME NEW k \in Handlers, task'[k].by = "webhook"
             PROVE  seen'[task'[k].s]
  BY DEF Noted
<1>0. TypeInv /\ Noted
  BY DEF PaidInv, Struct
<1>1. k # h /\ task'[k] = task[k]
  BY IdleTyped DEF Answers, Leaves, Others
<1>2. seen[task[k].s] /\ task[k].s \in Subs
  BY <1>0, <1>1, AtStep DEF Noted, TaskInOrder, OfEvent, Activating
<1>3. task[h].by = "webhook" => task[k].s # task[h].s
  BY <1>0, <1>1 DEF TypeInv, Deliveries
<1> QED
  BY <1>1, <1>2, <1>3 DEF Answers

LEMMA NotedKept ==
    ASSUME PaidInv, [Next]_vars
    PROVE  Noted'
<1>1. ASSUME Tick PROVE Noted'
  <2>0. TypeInv /\ Noted
    BY DEF PaidInv, Struct
  <2> SUFFICES ASSUME NEW k \in Handlers, task'[k].by = "webhook"
               PROVE  seen'[task'[k].s]
    BY DEF Noted
  <2>1. task[k].by = "webhook" /\ task'[k].s = task[k].s /\ seen' = seen
    BY <1>1, <2>0, TickDoes, IdleTyped DEF Others, Leaves, Moves, Kept, Begins
  <2> QED
    BY <2>0, <2>1 DEF Noted
<1>2. ASSUME NEW s \in Subs, Pay(s) PROVE Noted'
  <2>0. TypeInv /\ Noted
    BY DEF PaidInv, Struct
  <2> SUFFICES ASSUME NEW k \in Handlers, task'[k].by = "webhook"
               PROVE  seen'[task'[k].s]
    BY DEF Noted
  <2>1. task[k].by = "webhook" /\ task'[k].s = task[k].s /\ seen' = seen
    BY <1>2, <2>0, PayDoes, IdleTyped DEF Others, Leaves, Moves, Kept, Begins
  <2> QED
    BY <2>0, <2>1 DEF Noted
<1>3. ASSUME NEW s \in Subs, Charge(s) PROVE Noted'
  <2>0. TypeInv /\ Noted
    BY DEF PaidInv, Struct
  <2> SUFFICES ASSUME NEW k \in Handlers, task'[k].by = "webhook"
               PROVE  seen'[task'[k].s]
    BY DEF Noted
  <2>1. task[k].by = "webhook" /\ task'[k].s = task[k].s /\ seen' = seen
    BY <1>3, <2>0, ChargeDoes, IdleTyped DEF Others, Leaves, Moves, Kept, Begins
  <2> QED
    BY <2>0, <2>1 DEF Noted
<1>4. ASSUME NEW s \in Subs, Decline(s) PROVE Noted'
  <2>0. TypeInv /\ Noted
    BY DEF PaidInv, Struct
  <2> SUFFICES ASSUME NEW k \in Handlers, task'[k].by = "webhook"
               PROVE  seen'[task'[k].s]
    BY DEF Noted
  <2>1. task[k].by = "webhook" /\ task'[k].s = task[k].s /\ seen' = seen
    BY <1>4, <2>0, DeclineDoes, IdleTyped DEF Others, Leaves, Moves, Kept, Begins
  <2> QED
    BY <2>0, <2>1 DEF Noted
<1>5. ASSUME NEW s \in Subs, GiveUp(s) PROVE Noted'
  <2>0. TypeInv /\ Noted
    BY DEF PaidInv, Struct
  <2> SUFFICES ASSUME NEW k \in Handlers, task'[k].by = "webhook"
               PROVE  seen'[task'[k].s]
    BY DEF Noted
  <2>1. task[k].by = "webhook" /\ task'[k].s = task[k].s /\ seen' = seen
    BY <1>5, <2>0, GiveUpDoes, IdleTyped DEF Others, Leaves, Moves, Kept, Begins
  <2> QED
    BY <2>0, <2>1 DEF Noted
<1>6. ASSUME NEW s \in Subs, CycleEnds(s) PROVE Noted'
  <2>0. TypeInv /\ Noted
    BY DEF PaidInv, Struct
  <2> SUFFICES ASSUME NEW k \in Handlers, task'[k].by = "webhook"
               PROVE  seen'[task'[k].s]
    BY DEF Noted
  <2>1. task[k].by = "webhook" /\ task'[k].s = task[k].s /\ seen' = seen
    BY <1>6, <2>0, CycleEndsDoes, IdleTyped DEF Others, Leaves, Moves, Kept, Begins
  <2> QED
    BY <2>0, <2>1 DEF Noted
<1>7. ASSUME NEW h \in Handlers, ReadToActivate(h) PROVE Noted'
  <2>0. TypeInv /\ Noted
    BY DEF PaidInv, Struct
  <2>1. CASE Answers(h)
    BY <2>1, NotedAnswered
  <2>2. CASE ~Answers(h)
    <3>1. /\ UNCHANGED seen /\ Others(h)
          /\ Leaves(h) \/ (task'[h].by = task[h].by /\ task'[h].s = task[h].s)
      BY <1>7, <2>0, <2>2, ReadToActivateDoes DEF Leaves
    <3> QED
      BY <2>0, <3>1, IdleTyped DEF Noted, Others, Leaves
  <2> QED
    BY <2>1, <2>2
<1>8. ASSUME NEW h \in Handlers, Activate(h) PROVE Noted'
  <2>0. TypeInv /\ Noted
    BY DEF PaidInv, Struct
  <2> SUFFICES ASSUME NEW k \in Handlers, task'[k].by = "webhook"
               PROVE  seen'[task'[k].s]
    BY DEF Noted
  <2>1. task[k].by = "webhook" /\ task'[k].s = task[k].s /\ seen' = seen
    BY <1>8, <2>0, ActivateDoes, IdleTyped DEF Others, Leaves, Moves, Kept, Begins
  <2> QED
    BY <2>0, <2>1 DEF Noted
<1>9. ASSUME NEW h \in Handlers, SetPlan(h) PROVE Noted'
  <2>0. TypeInv /\ Noted
    BY DEF PaidInv, Struct
  <2> SUFFICES ASSUME NEW k \in Handlers, task'[k].by = "webhook"
               PROVE  seen'[task'[k].s]
    BY DEF Noted
  <2>1. task[k].by = "webhook" /\ task'[k].s = task[k].s /\ seen' = seen
    BY <1>9, <2>0, SetPlanDoes, IdleTyped DEF Others, Leaves, Moves, Kept, Begins
  <2> QED
    BY <2>0, <2>1 DEF Noted
<1>10. ASSUME NEW h \in Handlers, CancelReplaced(h) PROVE Noted'
  <2>0. TypeInv /\ Noted
    BY DEF PaidInv, Struct
  <2> SUFFICES ASSUME NEW k \in Handlers, task'[k].by = "webhook"
               PROVE  seen'[task'[k].s]
    BY DEF Noted
  <2>1. task[k].by = "webhook" /\ task'[k].s = task[k].s /\ seen' = seen
    BY <1>10, <2>0, CancelReplacedDoes, IdleTyped DEF Others, Leaves, Moves, Kept, Begins
  <2> QED
    BY <2>0, <2>1 DEF Noted
<1>11. ASSUME NEW h \in Handlers, Retire(h) PROVE Noted'
  <2>0. TypeInv /\ Noted
    BY DEF PaidInv, Struct
  <2> SUFFICES ASSUME NEW k \in Handlers, task'[k].by = "webhook"
               PROVE  seen'[task'[k].s]
    BY DEF Noted
  <2>1. task[k].by = "webhook" /\ task'[k].s = task[k].s /\ seen' = seen
    BY <1>11, <2>0, RetireDoes, IdleTyped DEF Others, Leaves, Moves, Kept, Begins
  <2> QED
    BY <2>0, <2>1 DEF Noted
<1>12. ASSUME NEW h \in Handlers, CreditReplaced(h) PROVE Noted'
  <2>0. TypeInv /\ Noted
    BY DEF PaidInv, Struct
  <2> SUFFICES ASSUME NEW k \in Handlers, task'[k].by = "webhook"
               PROVE  seen'[task'[k].s]
    BY DEF Noted
  <2>1. task[k].by = "webhook" /\ task'[k].s = task[k].s /\ seen' = seen
    BY <1>12, <2>0, CreditReplacedDoes, IdleTyped DEF Others, Leaves, Moves, Kept, Begins
  <2> QED
    BY <2>0, <2>1 DEF Noted
<1>13. ASSUME NEW h \in Handlers, Invoice(h) PROVE Noted'
  <2>0. TypeInv /\ Noted
    BY DEF PaidInv, Struct
  <2>1. Answers(h)
    BY <1>13, <2>0, InvoiceDoes
  <2> QED
    BY <2>1, NotedAnswered
<1>14. ASSUME NEW h \in Handlers, Renew(h) PROVE Noted'
  <2>0. TypeInv /\ Noted
    BY DEF PaidInv, Struct
  <2> SUFFICES ASSUME NEW k \in Handlers, task'[k].by = "webhook"
               PROVE  seen'[task'[k].s]
    BY DEF Noted
  <2>1. task[k].by = "webhook" /\ task'[k].s = task[k].s /\ seen' = seen
    BY <1>14, <2>0, RenewDoes, IdleTyped DEF Others, Leaves, Moves, Kept, Begins
  <2> QED
    BY <2>0, <2>1 DEF Noted
<1>15. ASSUME NEW h \in Handlers, Fail(h) PROVE Noted'
  <2>0. TypeInv /\ Noted
    BY DEF PaidInv, Struct
  <2>1. Answers(h)
    BY <1>15, <2>0, FailDoes
  <2> QED
    BY <2>1, NotedAnswered
<1>16. ASSUME NEW h \in Handlers, Halt(h) PROVE Noted'
  <2>0. TypeInv /\ Noted
    BY DEF PaidInv, Struct
  <2>1. Answers(h)
    BY <1>16, <2>0, HaltDoes
  <2> QED
    BY <2>1, NotedAnswered
<1>17. ASSUME NEW h \in Handlers, End(h) PROVE Noted'
  <2>0. TypeInv /\ Noted
    BY DEF PaidInv, Struct
  <2>1. Answers(h)
    BY <1>17, <2>0, EndDoes
  <2> QED
    BY <2>1, NotedAnswered
<1>18. ASSUME NEW h \in Handlers, EndToBuy(h) PROVE Noted'
  <2>0. TypeInv /\ Noted
    BY DEF PaidInv, Struct
  <2> SUFFICES ASSUME NEW k \in Handlers, task'[k].by = "webhook"
               PROVE  seen'[task'[k].s]
    BY DEF Noted
  <2>1. task[k].by = "webhook" /\ task'[k].s = task[k].s /\ seen' = seen
    BY <1>18, <2>0, EndToBuyDoes, IdleTyped DEF Others, Leaves, Moves, Kept, Begins
  <2> QED
    BY <2>0, <2>1 DEF Noted
<1>19. ASSUME NEW h \in Handlers, Browse(h) PROVE Noted'
  <2>0. TypeInv /\ Noted
    BY DEF PaidInv, Struct
  <2> SUFFICES ASSUME NEW k \in Handlers, task'[k].by = "webhook"
               PROVE  seen'[task'[k].s]
    BY DEF Noted
  <2>1. task[k].by = "webhook" /\ task'[k].s = task[k].s /\ seen' = seen
    BY <1>19, <2>0, BrowseDoes, IdleTyped DEF Others, Leaves, Moves, Kept, Begins
  <2> QED
    BY <2>0, <2>1 DEF Noted
<1>20. ASSUME NEW h \in Handlers, DropOpen(h) PROVE Noted'
  <2>0. TypeInv /\ Noted
    BY DEF PaidInv, Struct
  <2> SUFFICES ASSUME NEW k \in Handlers, task'[k].by = "webhook"
               PROVE  seen'[task'[k].s]
    BY DEF Noted
  <2>1. task[k].by = "webhook" /\ task'[k].s = task[k].s /\ seen' = seen
    BY <1>20, <2>0, DropOpenDoes, IdleTyped DEF Others, Leaves, Moves, Kept, Begins
  <2> QED
    BY <2>0, <2>1 DEF Noted
<1>21. ASSUME NEW h \in Handlers, Subscribe(h) PROVE Noted'
  <2>0. TypeInv /\ Noted
    BY DEF PaidInv, Struct
  <2> SUFFICES ASSUME NEW k \in Handlers, task'[k].by = "webhook"
               PROVE  seen'[task'[k].s]
    BY DEF Noted
  <2>1. task[h].by \notin {"webhook"} /\ Others(h) /\ seen' = seen
        /\ task'[h].by \in {task[h].by, "nobody"}
    BY <1>21, <2>0, SubscribeDoes, IdleTyped, AtStep DEF Leaves, TaskInOrder, OfEvent, Activating
  <2> QED
    BY <2>0, <2>1 DEF Noted, Others
<1>22. ASSUME NEW h \in Handlers, Insert(h) PROVE Noted'
  <2>0. TypeInv /\ Noted
    BY DEF PaidInv, Struct
  <2> SUFFICES ASSUME NEW k \in Handlers, task'[k].by = "webhook"
               PROVE  seen'[task'[k].s]
    BY DEF Noted
  <2>1. task[k].by = "webhook" /\ task'[k].s = task[k].s /\ seen' = seen
    BY <1>22, <2>0, InsertDoes, IdleTyped DEF Others, Leaves, Moves, Kept, Begins
  <2> QED
    BY <2>0, <2>1 DEF Noted
<1>23. ASSUME NEW h \in Handlers, Release(h) PROVE Noted'
  <2>0. TypeInv /\ Noted
    BY DEF PaidInv, Struct
  <2> SUFFICES ASSUME NEW k \in Handlers, task'[k].by = "webhook"
               PROVE  seen'[task'[k].s]
    BY DEF Noted
  <2>1. task[k].by = "webhook" /\ task'[k].s = task[k].s /\ seen' = seen
    BY <1>23, <2>0, ReleaseDoes, IdleTyped DEF Others, Leaves, Moves, Kept, Begins
  <2> QED
    BY <2>0, <2>1 DEF Noted
<1>24. ASSUME NEW h \in Handlers, StopAtEnd(h) PROVE Noted'
  <2>0. TypeInv /\ Noted
    BY DEF PaidInv, Struct
  <2> SUFFICES ASSUME NEW k \in Handlers, task'[k].by = "webhook"
               PROVE  seen'[task'[k].s]
    BY DEF Noted
  <2>1. task[k].by = "webhook" /\ task'[k].s = task[k].s /\ seen' = seen
    BY <1>24, <2>0, StopAtEndDoes, IdleTyped DEF Others, Leaves, Moves, Kept, Begins
  <2> QED
    BY <2>0, <2>1 DEF Noted
<1>25. ASSUME NEW h \in Handlers, MarkEnds(h) PROVE Noted'
  <2>0. TypeInv /\ Noted
    BY DEF PaidInv, Struct
  <2> SUFFICES ASSUME NEW k \in Handlers, task'[k].by = "webhook"
               PROVE  seen'[task'[k].s]
    BY DEF Noted
  <2>1. task[k].by = "webhook" /\ task'[k].s = task[k].s /\ seen' = seen
    BY <1>25, <2>0, MarkEndsDoes, IdleTyped DEF Others, Leaves, Moves, Kept, Begins
  <2> QED
    BY <2>0, <2>1 DEF Noted
<1>26. ASSUME NEW h \in Handlers, Schedule(h) PROVE Noted'
  <2>0. TypeInv /\ Noted
    BY DEF PaidInv, Struct
  <2> SUFFICES ASSUME NEW k \in Handlers, task'[k].by = "webhook"
               PROVE  seen'[task'[k].s]
    BY DEF Noted
  <2>1. task[k].by = "webhook" /\ task'[k].s = task[k].s /\ seen' = seen
    BY <1>26, <2>0, ScheduleDoes, IdleTyped DEF Others, Leaves, Moves, Kept, Begins
  <2> QED
    BY <2>0, <2>1 DEF Noted
<1>27. ASSUME NEW h \in Handlers, StopNow(h) PROVE Noted'
  <2>0. TypeInv /\ Noted
    BY DEF PaidInv, Struct
  <2> SUFFICES ASSUME NEW k \in Handlers, task'[k].by = "webhook"
               PROVE  seen'[task'[k].s]
    BY DEF Noted
  <2>1. task[k].by = "webhook" /\ task'[k].s = task[k].s /\ seen' = seen
    BY <1>27, <2>0, StopNowDoes, IdleTyped DEF Others, Leaves, Moves, Kept, Begins
  <2> QED
    BY <2>0, <2>1 DEF Noted
<1>28. ASSUME NEW h \in Handlers, Drop(h) PROVE Noted'
  <2>0. TypeInv /\ Noted
    BY DEF PaidInv, Struct
  <2> SUFFICES ASSUME NEW k \in Handlers, task'[k].by = "webhook"
               PROVE  seen'[task'[k].s]
    BY DEF Noted
  <2>1. task[k].by = "webhook" /\ task'[k].s = task[k].s /\ seen' = seen
    BY <1>28, <2>0, DropDoes, IdleTyped DEF Others, Leaves, Moves, Kept, Begins
  <2> QED
    BY <2>0, <2>1 DEF Noted
<1>29. ASSUME NEW h \in Handlers, Credit(h) PROVE Noted'
  <2>0. TypeInv /\ Noted
    BY DEF PaidInv, Struct
  <2> SUFFICES ASSUME NEW k \in Handlers, task'[k].by = "webhook"
               PROVE  seen'[task'[k].s]
    BY DEF Noted
  <2>1. task[k].by = "webhook" /\ task'[k].s = task[k].s /\ seen' = seen
    BY <1>29, <2>0, CreditDoes, IdleTyped DEF Others, Leaves, Moves, Kept, Begins
  <2> QED
    BY <2>0, <2>1 DEF Noted
<1>30. ASSUME NEW h \in Handlers, Clear(h) PROVE Noted'
  <2>0. TypeInv /\ Noted
    BY DEF PaidInv, Struct
  <2> SUFFICES ASSUME NEW k \in Handlers, task'[k].by = "webhook"
               PROVE  seen'[task'[k].s]
    BY DEF Noted
  <2>1. task[k].by = "webhook" /\ task'[k].s = task[k].s /\ seen' = seen
    BY <1>30, <2>0, ClearDoes, IdleTyped DEF Others, Leaves, Moves, Kept, Begins
  <2> QED
    BY <2>0, <2>1 DEF Noted
<1>31. ASSUME NEW h \in Handlers, GrantRow(h) PROVE Noted'
  <2>0. TypeInv /\ Noted
    BY DEF PaidInv, Struct
  <2> SUFFICES ASSUME NEW k \in Handlers, task'[k].by = "webhook"
               PROVE  seen'[task'[k].s]
    BY DEF Noted
  <2>1. task[k].by = "webhook" /\ task'[k].s = task[k].s /\ seen' = seen
    BY <1>31, <2>0, GrantRowDoes, IdleTyped DEF Others, Leaves, Moves, Kept, Begins
  <2> QED
    BY <2>0, <2>1 DEF Noted
<1>32. ASSUME NEW h \in Handlers, Crash(h) PROVE Noted'
  <2>0. TypeInv /\ Noted
    BY DEF PaidInv, Struct
  <2> SUFFICES ASSUME NEW k \in Handlers, task'[k].by = "webhook"
               PROVE  seen'[task'[k].s]
    BY DEF Noted
  <2>1. task[k].by = "webhook" /\ task'[k].s = task[k].s /\ seen' = seen
    BY <1>32, <2>0, CrashDoes, IdleTyped DEF Others, Leaves, Moves, Kept, Begins
  <2> QED
    BY <2>0, <2>1 DEF Noted
<1>33. ASSUME NEW h \in Handlers, NEW tier \in Tiers, Buy(h, tier) PROVE Noted'
  <2>0. TypeInv /\ Noted
    BY DEF PaidInv, Struct
  <2> SUFFICES ASSUME NEW k \in Handlers, task'[k].by = "webhook"
               PROVE  seen'[task'[k].s]
    BY DEF Noted
  <2>1. task[k].by = "webhook" /\ task'[k].s = task[k].s /\ seen' = seen
    BY <1>33, <2>0, BuyDoes, IdleTyped DEF Others, Leaves, Moves, Kept, Begins
  <2> QED
    BY <2>0, <2>1 DEF Noted
<1>34. ASSUME NEW h \in Handlers, NEW tier \in Tiers, Grant(h, tier) PROVE Noted'
  <2>0. TypeInv /\ Noted
    BY DEF PaidInv, Struct
  <2> SUFFICES ASSUME NEW k \in Handlers, task'[k].by = "webhook"
               PROVE  seen'[task'[k].s]
    BY DEF Noted
  <2>1. task[k].by = "webhook" /\ task'[k].s = task[k].s /\ seen' = seen
    BY <1>34, <2>0, GrantDoes, IdleTyped DEF Others, Leaves, Moves, Kept, Begins
  <2> QED
    BY <2>0, <2>1 DEF Noted
<1>35. ASSUME NEW h \in Handlers, NEW s \in Subs, Deliver(h, s) PROVE Noted'
  <2>0. TypeInv /\ Noted
    BY DEF PaidInv, Struct
  <2>2. \A k \in Handlers : task[k].by = "webhook" => task[k].s \in Subs
    BY <2>0, AtStep DEF TaskInOrder, OfEvent, Activating
  <2>3. CASE seen[s]
    <3>1. /\ UNCHANGED task /\ \A t \in Subs : t # s => seen'[t] = seen[t]
          /\ \A k \in Handlers : task[k].by = "webhook" => task[k].s # s
      BY <1>35, <2>0, <2>3, DeliverSeen, ZenonT(60)
    <3> QED
      BY <2>0, <2>2, <3>1 DEF Noted
  <2>4. CASE ~seen[s]
    <3>1. /\ Others(h) /\ task'[h].s = s /\ seen'[s] = TRUE
          /\ \A t \in Subs : t # s => seen'[t] = seen[t]
          /\ \A k \in Handlers : task[k].by = "webhook" => task[k].s # s
      BY <1>35, <2>0, <2>4, DeliverNew
    <3> QED
      BY <2>0, <2>2, <3>1 DEF Noted, Others
  <2> QED
    BY <2>3, <2>4
<1>36. ASSUME NEW h \in Handlers, NEW s \in Subs, Callback(h, s) PROVE Noted'
  <2>0. TypeInv /\ Noted
    BY DEF PaidInv, Struct
  <2> SUFFICES ASSUME NEW k \in Handlers, task'[k].by = "webhook"
               PROVE  seen'[task'[k].s]
    BY DEF Noted
  <2>1. task[k].by = "webhook" /\ task'[k].s = task[k].s /\ seen' = seen
    BY <1>36, <2>0, CallbackDoes, IdleTyped DEF Others, Leaves, Moves, Kept, Begins
  <2> QED
    BY <2>0, <2>1 DEF Noted
<1>37. ASSUME NEW h \in Handlers, NEW s \in Subs, Overdue(h, s) PROVE Noted'
  <2>0. TypeInv /\ Noted
    BY DEF PaidInv, Struct
  <2> SUFFICES ASSUME NEW k \in Handlers, task'[k].by = "webhook"
               PROVE  seen'[task'[k].s]
    BY DEF Noted
  <2>1. task[k].by = "webhook" /\ task'[k].s = task[k].s /\ seen' = seen
    BY <1>37, <2>0, OverdueDoes, IdleTyped DEF Others, Leaves, Moves, Kept, Begins
  <2> QED
    BY <2>0, <2>1 DEF Noted
<1>38. ASSUME NEW h \in Handlers, NEW s \in Subs, Cancel(h, s) PROVE Noted'
  <2>0. TypeInv /\ Noted
    BY DEF PaidInv, Struct
  <2> SUFFICES ASSUME NEW k \in Handlers, task'[k].by = "webhook"
               PROVE  seen'[task'[k].s]
    BY DEF Noted
  <2>1. task[k].by = "webhook" /\ task'[k].s = task[k].s /\ seen' = seen
    BY <1>38, <2>0, CancelDoes, IdleTyped DEF Others, Leaves, Moves, Kept, Begins
  <2> QED
    BY <2>0, <2>1 DEF Noted
<1>39. ASSUME NEW h \in Handlers, NEW s \in Subs, Revoke(h, s) PROVE Noted'
  <2>0. TypeInv /\ Noted
    BY DEF PaidInv, Struct
  <2> SUFFICES ASSUME NEW k \in Handlers, task'[k].by = "webhook"
               PROVE  seen'[task'[k].s]
    BY DEF Noted
  <2>1. task[k].by = "webhook" /\ task'[k].s = task[k].s /\ seen' = seen
    BY <1>39, <2>0, RevokeDoes, IdleTyped DEF Others, Leaves, Moves, Kept, Begins
  <2> QED
    BY <2>0, <2>1 DEF Noted
<1>40. ASSUME NEW h \in Handlers, NEW s \in Subs, NEW tier \in Tiers, ChangePlan(h, s, tier) PROVE
   Noted'
  <2>0. TypeInv /\ Noted
    BY DEF PaidInv, Struct
  <2> SUFFICES ASSUME NEW k \in Handlers, task'[k].by = "webhook"
               PROVE  seen'[task'[k].s]
    BY DEF Noted
  <2>1. task[k].by = "webhook" /\ task'[k].s = task[k].s /\ seen' = seen
    BY <1>40, <2>0, ChangePlanDoes, IdleTyped DEF Others, Leaves, Moves, Kept, Begins
  <2> QED
    BY <2>0, <2>1 DEF Noted
<1>41. ASSUME NEW h \in Handlers, NEW s \in Subs, NEW tier \in Tiers, ChangeAddon(h, s, tier)
   PROVE Noted'
  <2>0. TypeInv /\ Noted
    BY DEF PaidInv, Struct
  <2> SUFFICES ASSUME NEW k \in Handlers, task'[k].by = "webhook"
               PROVE  seen'[task'[k].s]
    BY DEF Noted
  <2>1. task[k].by = "webhook" /\ task'[k].s = task[k].s /\ seen' = seen
    BY <1>41, <2>0, ChangeAddonDoes, IdleTyped DEF Others, Leaves, Moves, Kept, Begins
  <2> QED
    BY <2>0, <2>1 DEF Noted
<1>42. CASE UNCHANGED vars
  BY <1>42 DEF vars, PaidInv, Noted
<1> QED
  BY <1>1, <1>2, <1>3, <1>4, <1>5, <1>6, <1>7, <1>8, <1>9, <1>10, <1>11, <1>12, <1>13, <1>14,
     <1>15, <1>16, <1>17, <1>18, <1>19, <1>20, <1>21, <1>22, <1>23, <1>24, <1>25, <1>26, <1>27,
     <1>28, <1>29, <1>30, <1>31, <1>32, <1>33, <1>34, <1>35, <1>36, <1>37, <1>38, <1>39, <1>40,
     <1>41, <1>42 DEF Next, Step

LEMMA GivenKept ==
    ASSUME "crashAtEvent" \notin Faults, PaidInv, [Next]_vars
    PROVE  \A t \in Subs : Given(t)'
<1>1. ASSUME Tick PROVE \A t \in Subs : Given(t)'
  <2> SUFFICES ASSUME NEW t \in Subs PROVE Given(t)'
    OBVIOUS
  <2>0. TypeInv /\ Struct
    BY DEF PaidInv, Struct
  <2>1. UNCHANGED <<queue, seen, sub, task>>
    BY <1>1, <2>0, TickDoes
  <2>2. Stays(t)
    BY <1>1, <2>0, <2>1, TickDoes DEF Stays
  <2> QED
    BY <2>1, <2>2, GivenStays DEF RenewersStay
<1>2. ASSUME NEW s \in Subs, Pay(s) PROVE \A t \in Subs : Given(t)'
  <2> SUFFICES ASSUME NEW t \in Subs PROVE Given(t)'
    OBVIOUS
  <2>0. TypeInv /\ Struct
    BY DEF PaidInv, Struct
  <2>1. UNCHANGED <<seen, sub, task>> /\ rzp[s].state = "open"
        /\ (t # s => rzp'[t] = rzp[t] /\ queue'[t] = queue[t])
    BY <1>2, <2>0, PayDoes DEF OnlyMandate, ToldFirst, ToldBoth, Told
  <2>2. CASE t = s
    <3>1. sub[s].status # "active"
      BY <2>0, <2>1, StructAt, AtRazorpay DEF RowInOrder, Held, MandateInOrder
    <3> QED
      BY <2>1, <2>2, <3>1, GivenNot
  <2>3. CASE t # s
    BY <2>1, <2>3, GivenStays DEF RenewersStay, Stays
  <2> QED
    BY <2>2, <2>3
<1>3. ASSUME NEW s \in Subs, Charge(s) PROVE \A t \in Subs : Given(t)'
  <2> SUFFICES ASSUME NEW t \in Subs PROVE Given(t)'
    OBVIOUS
  <2>0. TypeInv /\ Struct
    BY DEF PaidInv, Struct
  <2> DEFINE e == [type |-> "charged", charge |-> rzp[s].paid + 1, try |-> 0]
  <2>1. UNCHANGED <<seen, sub, task>> /\ Told(s, e) /\ rzp'[s].paid = rzp[s].paid + 1
        /\ (t # s => rzp'[t] = rzp[t] /\ queue'[t] = queue[t])
    BY <1>3, <2>0, ChargeDoes DEF OnlyMandate, Told
  <2>2. CASE t = s
    <3>1. queue[s] \in Seq(Event) /\ e \in Event /\ queue'[s] = Append(queue[s], e)
      BY <2>0, <2>1, AtRow DEF Told
    <3>2. e.type = "charged" /\ e.charge = rzp'[s].paid
      BY <2>1
    <3> HIDE DEF e
    <3>3. /\ Len(queue[s]) \in Nat /\ Len(queue'[s]) = Len(queue[s]) + 1
          /\ queue'[s][Len(queue[s]) + 1] = e
      BY <3>1, AppendAt
    <3>4. Len(queue[s]) + 1 = 1 => queue[s] = <<>>
      BY <3>1
    <3>5. queue[s] = <<>> => ~seen'[s]
      BY <2>0, <2>1, StructAt DEF QueueInOrder
    <3>6. Owed(s)'
      BY <3>2, <3>3, <3>4, <3>5 DEF Owed
    <3> QED
      BY <2>2, <3>6 DEF Given
  <2>3. CASE t # s
    BY <2>1, <2>3, GivenStays DEF RenewersStay, Stays
  <2> QED
    BY <2>2, <2>3
<1>4. ASSUME NEW s \in Subs, Decline(s) PROVE \A t \in Subs : Given(t)'
  <2> SUFFICES ASSUME NEW t \in Subs PROVE Given(t)'
    OBVIOUS
  <2>0. TypeInv /\ Struct
    BY DEF PaidInv, Struct
  <2>1. UNCHANGED <<seen, sub, task>>
        /\ (t # s => rzp'[t] = rzp[t] /\ queue'[t] = queue[t])
        /\ rzp'[s].state # "active"
    BY <1>4, <2>0, DeclineDoes DEF Unpaid, OnlyMandate, Told
  <2>2. CASE t = s
    BY <2>1, <2>2, GivenNot
  <2>3. CASE t # s
    BY <2>1, <2>3, GivenStays DEF RenewersStay, Stays
  <2> QED
    BY <2>2, <2>3
<1>5. ASSUME NEW s \in Subs, GiveUp(s) PROVE \A t \in Subs : Given(t)'
  <2> SUFFICES ASSUME NEW t \in Subs PROVE Given(t)'
    OBVIOUS
  <2>0. TypeInv /\ Struct
    BY DEF PaidInv, Struct
  <2>1. UNCHANGED <<seen, sub, task>>
        /\ (t # s => rzp'[t] = rzp[t] /\ queue'[t] = queue[t])
        /\ rzp'[s].state # "active"
    BY <1>5, <2>0, GiveUpDoes DEF Unpaid, OnlyMandate, Told
  <2>2. CASE t = s
    BY <2>1, <2>2, GivenNot
  <2>3. CASE t # s
    BY <2>1, <2>3, GivenStays DEF RenewersStay, Stays
  <2> QED
    BY <2>2, <2>3
<1>6. ASSUME NEW s \in Subs, CycleEnds(s) PROVE \A t \in Subs : Given(t)'
  <2> SUFFICES ASSUME NEW t \in Subs PROVE Given(t)'
    OBVIOUS
  <2>0. TypeInv /\ Struct
    BY DEF PaidInv, Struct
  <2>1. /\ UNCHANGED <<seen, sub>> /\ s \in Subs
        /\ UNCHANGED <<rzp, queue>> \/ Stopped({s})
    BY <1>6, <2>0, CycleEndsDoes
  <2>2. RenewersStay(t)
    BY <1>6, <2>0, CycleEndsDoes DEF RenewersStay
  <2>3. \/ rzp'[t].state = "cancelled"
        \/ rzp'[t] = rzp[t] /\ queue'[t] = queue[t]
    BY <2>1 DEF Stopped, EndsAt
  <2>4. CASE rzp'[t].state = "cancelled"
    BY <2>4, GivenNot
  <2>5. CASE rzp'[t] = rzp[t] /\ queue'[t] = queue[t]
    <3>0. sub' = sub /\ seen' = seen
      BY <2>1
    <3>1. Stays(t) /\ seen'[t] = seen[t]
      BY <2>5, <3>0 DEF Stays
    <3> QED
      BY <2>2, <2>5, <3>1, GivenStays
  <2> QED
    BY <2>3, <2>4, <2>5
<1>7. ASSUME NEW h \in Handlers, ReadToActivate(h) PROVE \A t \in Subs : Given(t)'
  <2> SUFFICES ASSUME NEW t \in Subs PROVE Given(t)'
    OBVIOUS
  <2>0. TypeInv /\ Struct
    BY DEF PaidInv, Struct
  <2>1. Stays(t) /\ task[h].step # "renew"
    BY <1>7, <2>0, ReadToActivateDoes DEF Stays
  <2>2. CASE Answers(h)
    BY <2>1, <2>2, GivenAnswered
  <2>3. CASE ~Answers(h)
    <3>1. UNCHANGED <<queue, seen>> /\ Others(h)
      BY <1>7, <2>0, <2>3, ReadToActivateDoes DEF Leaves
    <3>2. RenewersStay(t)
      BY <2>1, <3>1, RenewersOther
    <3> QED
      BY <2>1, <3>1, <3>2, GivenStays
  <2> QED
    BY <2>2, <2>3
<1>8. ASSUME NEW h \in Handlers, Activate(h) PROVE \A t \in Subs : Given(t)'
  <2> SUFFICES ASSUME NEW t \in Subs PROVE Given(t)'
    OBVIOUS
  <2>0. TypeInv /\ Struct
    BY DEF PaidInv, Struct
  <2>1. UNCHANGED <<queue, seen, rzp, today>> /\ Others(h) /\ task[h].step = "activate"
        /\ \/ sub'[t] = sub[t]
           \/ t = task[h].s /\ sub'[t].end = today + Period
    BY <1>8, <2>0, ActivateDoes DEF Leaves, Moves, OnlyRow
  <2>2. RenewersStay(t)
    BY <2>1, RenewersOther
  <2>3. CASE sub'[t] = sub[t]
    BY <2>1, <2>2, <2>3, GivenStays DEF Stays
  <2>4. CASE t = task[h].s /\ sub'[t].end = today + Period
    <3>1. today \in Nat /\ today >= today
      BY <2>0, Counted
    <3> QED
      BY <2>1, <2>4, <3>1, GivenAnew
  <2> QED
    BY <2>1, <2>3, <2>4
<1>9. ASSUME NEW h \in Handlers, SetPlan(h) PROVE \A t \in Subs : Given(t)'
  <2> SUFFICES ASSUME NEW t \in Subs PROVE Given(t)'
    OBVIOUS
  <2>0. TypeInv /\ Struct
    BY DEF PaidInv, Struct
  <2>1. Stays(t) /\ UNCHANGED <<queue, seen>>
    BY <1>9, <2>0, SetPlanDoes DEF Stays
  <2>2. RenewersStay(t)
    BY <1>9, <2>0, SetPlanDoes, RenewersOther DEF Leaves, Moves, Begins
  <2> QED
    BY <2>1, <2>2, GivenStays
<1>10. ASSUME NEW h \in Handlers, CancelReplaced(h) PROVE \A t \in Subs : Given(t)'
  <2> SUFFICES ASSUME NEW t \in Subs PROVE Given(t)'
    OBVIOUS
  <2>0. TypeInv /\ Struct
    BY DEF PaidInv, Struct
  <2> DEFINE s == task[h].row.replaces
  <2>1. /\ UNCHANGED <<seen, sub>> /\ s \in Subs
        /\ UNCHANGED <<rzp, queue>> \/ Stopped({s})
    BY <1>10, <2>0, CancelReplacedDoes
  <2>2. RenewersStay(t)
    BY <1>10, <2>0, CancelReplacedDoes, RenewersOther DEF Leaves, Moves
  <2> HIDE DEF s
  <2>3. \/ rzp'[t].state = "cancelled"
        \/ rzp'[t] = rzp[t] /\ queue'[t] = queue[t]
    BY <2>1 DEF Stopped, EndsAt
  <2>4. CASE rzp'[t].state = "cancelled"
    BY <2>4, GivenNot
  <2>5. CASE rzp'[t] = rzp[t] /\ queue'[t] = queue[t]
    <3>0. sub' = sub /\ seen' = seen
      BY <2>1
    <3>1. Stays(t) /\ seen'[t] = seen[t]
      BY <2>5, <3>0 DEF Stays
    <3> QED
      BY <2>2, <2>5, <3>1, GivenStays
  <2> QED
    BY <2>3, <2>4, <2>5
<1>11. ASSUME NEW h \in Handlers, Retire(h) PROVE \A t \in Subs : Given(t)'
  <2> SUFFICES ASSUME NEW t \in Subs PROVE Given(t)'
    OBVIOUS
  <2>0. TypeInv /\ Struct
    BY DEF PaidInv, Struct
  <2>1. Stays(t) /\ UNCHANGED <<queue, seen>>
    BY <1>11, <2>0, RetireDoes DEF Stays, OnlyRow, Cancels, Dates
  <2>2. RenewersStay(t)
    BY <1>11, <2>0, RetireDoes, RenewersOther DEF Leaves, Moves, Begins
  <2> QED
    BY <2>1, <2>2, GivenStays
<1>12. ASSUME NEW h \in Handlers, CreditReplaced(h) PROVE \A t \in Subs : Given(t)'
  <2> SUFFICES ASSUME NEW t \in Subs PROVE Given(t)'
    OBVIOUS
  <2>0. TypeInv /\ Struct
    BY DEF PaidInv, Struct
  <2>1. Stays(t) /\ UNCHANGED <<queue, seen>>
    BY <1>12, <2>0, CreditReplacedDoes DEF Stays
  <2>2. RenewersStay(t)
    BY <1>12, <2>0, CreditReplacedDoes, RenewersOther DEF Leaves, Moves, Begins
  <2> QED
    BY <2>1, <2>2, GivenStays
<1>13. ASSUME NEW h \in Handlers, Invoice(h) PROVE \A t \in Subs : Given(t)'
  <2> SUFFICES ASSUME NEW t \in Subs PROVE Given(t)'
    OBVIOUS
  <2>0. TypeInv /\ Struct
    BY DEF PaidInv, Struct
  <2>1. Stays(t) /\ Answers(h) /\ task[h].step # "renew"
    BY <1>13, <2>0, InvoiceDoes DEF Stays, OnlyRow, Cancels, Dates
  <2> QED
    BY <2>1, GivenAnswered
<1>14. ASSUME NEW h \in Handlers, Renew(h) PROVE \A t \in Subs : Given(t)'
  <2> SUFFICES ASSUME NEW t \in Subs PROVE Given(t)'
    OBVIOUS
  <2>0. TypeInv /\ Struct
    BY DEF PaidInv, Struct
  <2> DEFINE s == task[h].s
  <2>1. UNCHANGED <<queue, seen, rzp, today>> /\ Others(h) /\ s \in Subs
        /\ RenewedFrom(task[h].row) \in Nat /\ RenewedFrom(task[h].row) >= today
    BY <1>14, <2>0, RenewDoes DEF Moves
  <2>2. CASE t # s
    <3>1. sub'[t] = sub[t] /\ RenewersStay(t)
      BY <1>14, <2>0, <2>1, <2>2, RenewDoes DEF OnlyRow, RenewersStay, Renewing, Others
    <3> QED
      BY <2>1, <3>1, GivenStays DEF Stays
  <2>3. CASE t = s /\ Revivable(s, task[h].row)
    <3>1. sub'[s].end = RenewedFrom(task[h].row) + Period
      BY <1>14, <2>0, <2>3, RenewDoes
    <3> HIDE DEF s
    <3> QED
      BY <2>1, <2>3, <3>1, GivenAnew
  <2>4. CASE t = s /\ ~Revivable(s, task[h].row)
    <3>1. sub' = sub
      BY <1>14, <2>0, <2>4, RenewDoes
    <3>2. CASE sub[s].status = "cancelled"
      BY <2>1, <2>4, <3>1, <3>2, GivenNot
    <3>3. CASE task[h].row.status = "cancelled"
      <4>1. RenewersStay(t)
        BY <2>1, <3>3 DEF RenewersStay, Renewing, Others
      <4> QED
        BY <2>1, <3>1, <4>1, GivenStays DEF Stays
    <3> QED
      BY <2>4, <3>2, <3>3 DEF Revivable
  <2> QED
    BY <2>2, <2>3, <2>4
<1>15. ASSUME NEW h \in Handlers, Fail(h) PROVE \A t \in Subs : Given(t)'
  <2> SUFFICES ASSUME NEW t \in Subs PROVE Given(t)'
    OBVIOUS
  <2>0. TypeInv /\ Struct
    BY DEF PaidInv, Struct
  <2>1. Stays(t) /\ Answers(h) /\ task[h].step # "renew"
    BY <1>15, <2>0, FailDoes DEF Stays, OnlyRow, Cancels, Dates
  <2> QED
    BY <2>1, GivenAnswered
<1>16. ASSUME NEW h \in Handlers, Halt(h) PROVE \A t \in Subs : Given(t)'
  <2> SUFFICES ASSUME NEW t \in Subs PROVE Given(t)'
    OBVIOUS
  <2>0. TypeInv /\ Struct
    BY DEF PaidInv, Struct
  <2>1. Stays(t) /\ Answers(h) /\ task[h].step # "renew"
    BY <1>16, <2>0, HaltDoes DEF Stays, OnlyRow, Cancels, Dates
  <2> QED
    BY <2>1, GivenAnswered
<1>17. ASSUME NEW h \in Handlers, End(h) PROVE \A t \in Subs : Given(t)'
  <2> SUFFICES ASSUME NEW t \in Subs PROVE Given(t)'
    OBVIOUS
  <2>0. TypeInv /\ Struct
    BY DEF PaidInv, Struct
  <2>1. Stays(t) /\ Answers(h) /\ task[h].step # "renew"
    BY <1>17, <2>0, EndDoes DEF Stays, OnlyRow, Cancels, Dates
  <2> QED
    BY <2>1, GivenAnswered
<1>18. ASSUME NEW h \in Handlers, EndToBuy(h) PROVE \A t \in Subs : Given(t)'
  <2> SUFFICES ASSUME NEW t \in Subs PROVE Given(t)'
    OBVIOUS
  <2>0. TypeInv /\ Struct
    BY DEF PaidInv, Struct
  <2>1. Stays(t) /\ UNCHANGED <<queue, seen>>
    BY <1>18, <2>0, EndToBuyDoes DEF Stays, OnlyRow, Cancels, Dates
  <2>2. RenewersStay(t)
    BY <1>18, <2>0, EndToBuyDoes, RenewersOther DEF Leaves, Moves, Begins
  <2> QED
    BY <2>1, <2>2, GivenStays
<1>19. ASSUME NEW h \in Handlers, Browse(h) PROVE \A t \in Subs : Given(t)'
  <2> SUFFICES ASSUME NEW t \in Subs PROVE Given(t)'
    OBVIOUS
  <2>0. TypeInv /\ Struct
    BY DEF PaidInv, Struct
  <2>1. Stays(t) /\ UNCHANGED <<queue, seen>>
    BY <1>19, <2>0, BrowseDoes DEF Stays
  <2>2. RenewersStay(t)
    BY <1>19, <2>0, BrowseDoes, RenewersOther DEF Leaves, Moves, Begins
  <2> QED
    BY <2>1, <2>2, GivenStays
<1>20. ASSUME NEW h \in Handlers, DropOpen(h) PROVE \A t \in Subs : Given(t)'
  <2> SUFFICES ASSUME NEW t \in Subs PROVE Given(t)'
    OBVIOUS
  <2>0. TypeInv /\ Struct
    BY DEF PaidInv, Struct
  <2>1. Stays(t) /\ UNCHANGED <<queue, seen>>
    BY <1>20, <2>0, DropOpenDoes DEF Stays, Cancels
  <2>2. RenewersStay(t)
    BY <1>20, <2>0, DropOpenDoes, RenewersOther DEF Leaves, Moves, Begins
  <2> QED
    BY <2>1, <2>2, GivenStays
<1>21. ASSUME NEW h \in Handlers, Subscribe(h) PROVE \A t \in Subs : Given(t)'
  <2> SUFFICES ASSUME NEW t \in Subs PROVE Given(t)'
    OBVIOUS
  <2>0. TypeInv /\ Struct
    BY DEF PaidInv, Struct
  <2>1. UNCHANGED <<queue, seen, sub>> /\ RenewersStay(t)
    BY <1>21, <2>0, SubscribeDoes, RenewersOther DEF Leaves
  <2>2. Stays(t)
    BY <1>21, <2>0, <2>1, SubscribeDoes DEF Stays, OnlyMandate
  <2> QED
    BY <2>1, <2>2, GivenStays
<1>22. ASSUME NEW h \in Handlers, Insert(h) PROVE \A t \in Subs : Given(t)'
  <2> SUFFICES ASSUME NEW t \in Subs PROVE Given(t)'
    OBVIOUS
  <2>0. TypeInv /\ Struct
    BY DEF PaidInv, Struct
  <2>1. UNCHANGED <<queue, seen>> /\ RenewersStay(t)
    BY <1>22, <2>0, InsertDoes, RenewersOther DEF Leaves, Moves
  <2>2. Stays(t)
    BY <1>22, <2>0, InsertDoes DEF Stays, Cancels
  <2> QED
    BY <2>1, <2>2, GivenStays
<1>23. ASSUME NEW h \in Handlers, Release(h) PROVE \A t \in Subs : Given(t)'
  <2> SUFFICES ASSUME NEW t \in Subs PROVE Given(t)'
    OBVIOUS
  <2>0. TypeInv /\ Struct
    BY DEF PaidInv, Struct
  <2>1. UNCHANGED <<seen, sub>> /\ RenewersStay(t)
    BY <1>23, <2>0, ReleaseDoes, RenewersOther DEF Leaves
  <2>2. /\ task[h].step = "release" /\ task[h].s \in Subs
        /\ \/ rzp'[t].state = "cancelled"
           \/ queue'[t] = queue[t] /\ rzp'[t] = rzp[t]
           \/ rzp'[t].state = rzp[t].state /\ t = task[h].s
    BY <1>23, <2>0, ReleaseDoes DEF EndsAt, ShownTo
  <2>3. rzp[task[h].s].state = "open"
    BY <2>0, <2>2, StructOf DEF Checkout
  <2>4. CASE queue'[t] = queue[t] /\ rzp'[t] = rzp[t]
    BY <2>1, <2>4, GivenStays DEF Stays
  <2>5. CASE rzp'[t].state # "active"
    BY <2>5, GivenNot
  <2> QED
    BY <2>2, <2>3, <2>4, <2>5
<1>24. ASSUME NEW h \in Handlers, StopAtEnd(h) PROVE \A t \in Subs : Given(t)'
  <2> SUFFICES ASSUME NEW t \in Subs PROVE Given(t)'
    OBVIOUS
  <2>0. TypeInv /\ Struct
    BY DEF PaidInv, Struct
  <2>1. UNCHANGED <<queue, seen, sub>> /\ RenewersStay(t)
    BY <1>24, <2>0, StopAtEndDoes, RenewersOther DEF Leaves, Moves
  <2>2. Stays(t)
    BY <1>24, <2>0, <2>1, StopAtEndDoes DEF Stays, OnlyMandate
  <2> QED
    BY <2>1, <2>2, GivenStays
<1>25. ASSUME NEW h \in Handlers, MarkEnds(h) PROVE \A t \in Subs : Given(t)'
  <2> SUFFICES ASSUME NEW t \in Subs PROVE Given(t)'
    OBVIOUS
  <2>0. TypeInv /\ Struct
    BY DEF PaidInv, Struct
  <2>1. Stays(t) /\ UNCHANGED <<queue, seen>>
    BY <1>25, <2>0, MarkEndsDoes DEF Stays, OnlyRow, Cancels, Dates
  <2>2. RenewersStay(t)
    BY <1>25, <2>0, MarkEndsDoes, RenewersOther DEF Leaves, Moves, Begins
  <2> QED
    BY <2>1, <2>2, GivenStays
<1>26. ASSUME NEW h \in Handlers, Schedule(h) PROVE \A t \in Subs : Given(t)'
  <2> SUFFICES ASSUME NEW t \in Subs PROVE Given(t)'
    OBVIOUS
  <2>0. TypeInv /\ Struct
    BY DEF PaidInv, Struct
  <2>1. Stays(t) /\ UNCHANGED <<queue, seen>>
    BY <1>26, <2>0, ScheduleDoes DEF Stays, OnlyRow, Cancels, Dates
  <2>2. RenewersStay(t)
    BY <1>26, <2>0, ScheduleDoes, RenewersOther DEF Leaves, Moves, Begins
  <2> QED
    BY <2>1, <2>2, GivenStays
<1>27. ASSUME NEW h \in Handlers, StopNow(h) PROVE \A t \in Subs : Given(t)'
  <2> SUFFICES ASSUME NEW t \in Subs PROVE Given(t)'
    OBVIOUS
  <2>0. TypeInv /\ Struct
    BY DEF PaidInv, Struct
  <2> DEFINE s == task[h].s
  <2>1. /\ UNCHANGED <<seen, sub>> /\ s \in Subs
        /\ UNCHANGED <<rzp, queue>> \/ Stopped({s})
    BY <1>27, <2>0, StopNowDoes
  <2>2. RenewersStay(t)
    BY <1>27, <2>0, StopNowDoes, RenewersOther DEF Leaves, Moves
  <2> HIDE DEF s
  <2>3. \/ rzp'[t].state = "cancelled"
        \/ rzp'[t] = rzp[t] /\ queue'[t] = queue[t]
    BY <2>1 DEF Stopped, EndsAt
  <2>4. CASE rzp'[t].state = "cancelled"
    BY <2>4, GivenNot
  <2>5. CASE rzp'[t] = rzp[t] /\ queue'[t] = queue[t]
    <3>0. sub' = sub /\ seen' = seen
      BY <2>1
    <3>1. Stays(t) /\ seen'[t] = seen[t]
      BY <2>5, <3>0 DEF Stays
    <3> QED
      BY <2>2, <2>5, <3>1, GivenStays
  <2> QED
    BY <2>3, <2>4, <2>5
<1>28. ASSUME NEW h \in Handlers, Drop(h) PROVE \A t \in Subs : Given(t)'
  <2> SUFFICES ASSUME NEW t \in Subs PROVE Given(t)'
    OBVIOUS
  <2>0. TypeInv /\ Struct
    BY DEF PaidInv, Struct
  <2>1. Stays(t) /\ UNCHANGED <<queue, seen>>
    BY <1>28, <2>0, DropDoes DEF Stays, OnlyRow, Cancels, Dates
  <2>2. RenewersStay(t)
    BY <1>28, <2>0, DropDoes, RenewersOther DEF Leaves, Moves, Begins
  <2> QED
    BY <2>1, <2>2, GivenStays
<1>29. ASSUME NEW h \in Handlers, Credit(h) PROVE \A t \in Subs : Given(t)'
  <2> SUFFICES ASSUME NEW t \in Subs PROVE Given(t)'
    OBVIOUS
  <2>0. TypeInv /\ Struct
    BY DEF PaidInv, Struct
  <2>1. Stays(t) /\ UNCHANGED <<queue, seen>>
    BY <1>29, <2>0, CreditDoes DEF Stays
  <2>2. RenewersStay(t)
    BY <1>29, <2>0, CreditDoes, RenewersOther DEF Leaves, Moves, Begins
  <2> QED
    BY <2>1, <2>2, GivenStays
<1>30. ASSUME NEW h \in Handlers, Clear(h) PROVE \A t \in Subs : Given(t)'
  <2> SUFFICES ASSUME NEW t \in Subs PROVE Given(t)'
    OBVIOUS
  <2>0. TypeInv /\ Struct
    BY DEF PaidInv, Struct
  <2>1. Stays(t) /\ UNCHANGED <<queue, seen>>
    BY <1>30, <2>0, ClearDoes DEF Stays, Cancels
  <2>2. RenewersStay(t)
    BY <1>30, <2>0, ClearDoes, RenewersOther DEF Leaves, Moves, Begins
  <2> QED
    BY <2>1, <2>2, GivenStays
<1>31. ASSUME NEW h \in Handlers, GrantRow(h) PROVE \A t \in Subs : Given(t)'
  <2> SUFFICES ASSUME NEW t \in Subs PROVE Given(t)'
    OBVIOUS
  <2>0. TypeInv /\ Struct
    BY DEF PaidInv, Struct
  <2>1. UNCHANGED <<queue, seen, rzp>> /\ RenewersStay(t)
    BY <1>31, <2>0, GrantRowDoes, RenewersOther DEF Leaves
  <2>2. Stays(t)
    <3>1. sub'[t] = sub[t] \/ t \in Fresh
      BY <1>31, <2>0, GrantRowDoes DEF OnlyRow
    <3> QED
      BY <2>1, <3>1 DEF Stays, Fresh
  <2> QED
    BY <2>1, <2>2, GivenStays
<1>32. ASSUME NEW h \in Handlers, Crash(h) PROVE \A t \in Subs : Given(t)'
  <2> SUFFICES ASSUME NEW t \in Subs PROVE Given(t)'
    OBVIOUS
  <2>0. TypeInv /\ Struct
    BY DEF PaidInv, Struct
  <2>1. Stays(t) /\ UNCHANGED <<queue, seen>> /\ Leaves(h) /\ task[h].by # "webhook"
    BY <1>32, <2>0, CrashDoes DEF Stays
  <2>2. RenewersStay(t)
    BY <2>1, RenewersOther DEF Leaves
  <2> QED
    BY <2>1, <2>2, GivenStays
<1>33. ASSUME NEW h \in Handlers, NEW tier \in Tiers, Buy(h, tier) PROVE \A t \in Subs : Given(t)'
  <2> SUFFICES ASSUME NEW t \in Subs PROVE Given(t)'
    OBVIOUS
  <2>0. TypeInv /\ Struct
    BY DEF PaidInv, Struct
  <2>1. Stays(t) /\ UNCHANGED <<queue, seen>>
    BY <1>33, <2>0, BuyDoes DEF Stays
  <2>2. RenewersStay(t)
    BY <1>33, <2>0, BuyDoes, RenewersOther DEF Leaves, Moves, Begins
  <2> QED
    BY <2>1, <2>2, GivenStays
<1>34. ASSUME NEW h \in Handlers, NEW tier \in Tiers, Grant(h, tier) PROVE \A t \in Subs :
   Given(t)'
  <2> SUFFICES ASSUME NEW t \in Subs PROVE Given(t)'
    OBVIOUS
  <2>0. TypeInv /\ Struct
    BY DEF PaidInv, Struct
  <2>1. Stays(t) /\ UNCHANGED <<queue, seen>>
    BY <1>34, <2>0, GrantDoes DEF Stays
  <2>2. RenewersStay(t)
    BY <1>34, <2>0, GrantDoes, RenewersOther DEF Leaves, Moves, Begins
  <2> QED
    BY <2>1, <2>2, GivenStays
<1>35. ASSUME NEW h \in Handlers, NEW s \in Subs, Deliver(h, s) PROVE \A t \in Subs : Given(t)'
  <2> SUFFICES ASSUME NEW t \in Subs PROVE Given(t)'
    OBVIOUS
  <2>0. TypeInv /\ Struct
    BY DEF PaidInv, Struct
  <2>1. RenewersStay(t) /\ Stays(t)
    BY <1>35, <2>0, DeliverSeen, DeliverNew DEF RenewersStay, Renewing, Others, Stays
  <2>3. CASE t # s
    <3>1. queue'[t] = queue[t] /\ seen'[t] = seen[t]
      <4>1. CASE seen[s]
        BY <1>35, <2>0, <2>3, <4>1, DeliverSeen, ZenonT(60)
      <4>2. CASE ~seen[s]
        BY <1>35, <2>0, <2>3, <4>2, DeliverNew, ZenonT(60)
      <4> QED
        BY <4>1, <4>2
    <3> QED
      BY <2>1, <3>1, GivenStays
  <2>4. CASE t = s /\ seen[s]
    <3>1. /\ queue[s] # <<>> /\ queue'[s] = Tail(queue[s]) /\ seen'[s] = FALSE
          /\ \A k \in Handlers : task[k].by = "webhook" => task[k].s # s
      BY <1>35, <2>0, <2>4, DeliverSeen
    <3>2. \A k \in Handlers : ~Renewing(k, s)
      BY <3>1 DEF Renewing
    <3> QED
      BY <2>1, <2>4, <3>1, <3>2, GivenPopped
  <2>5. CASE t = s /\ ~seen[s]
    <3>0. /\ UNCHANGED <<sub, rzp, queue>> /\ queue[s] # <<>> /\ task'[h].by = "webhook"
          /\ task'[h].s = s /\ task'[h].row = sub[s]
          /\ task'[h].step = FirstStep(Head(queue[s]), sub[s])
      BY <1>35, <2>0, <2>5, DeliverNew
    <3> SUFFICES ASSUME sub[s].status = "active", Owed(s)
                 PROVE  Owed(s)'
      BY <3>0, <2>5, PaidAt DEF Given
    <3>1. PICK i \in 1 .. Len(queue[s]) :
             queue[s][i].type = "charged" /\ queue[s][i].charge = rzp[s].paid
      BY DEF Owed
    <3>2. i = 1 => task'[h].step = "renew"
      <4> SUFFICES ASSUME i = 1 PROVE task'[h].step = "renew"
        OBVIOUS
      <4>1. Head(queue[s]) = queue[s][1]
        BY <2>0, <3>0, AtRow, TailAt
      <4> QED
        BY <3>0, <3>1, <4>1 DEF FirstStep
    <3>3. i = 1 => Renewing(h, s)'
      BY <3>0, <3>2 DEF Renewing
    <3> QED
      BY <3>0, <3>1, <3>3 DEF Owed
  <2> QED
    BY <2>3, <2>4, <2>5
<1>36. ASSUME NEW h \in Handlers, NEW s \in Subs, Callback(h, s) PROVE \A t \in Subs : Given(t)'
  <2> SUFFICES ASSUME NEW t \in Subs PROVE Given(t)'
    OBVIOUS
  <2>0. TypeInv /\ Struct
    BY DEF PaidInv, Struct
  <2>1. UNCHANGED <<queue, seen, sub>> /\ RenewersStay(t)
    BY <1>36, <2>0, CallbackDoes, RenewersOther DEF Begins
  <2>2. Stays(t)
    BY <1>36, <2>0, <2>1, CallbackDoes DEF Stays, OnlyMandate
  <2> QED
    BY <2>1, <2>2, GivenStays
<1>37. ASSUME NEW h \in Handlers, NEW s \in Subs, Overdue(h, s) PROVE \A t \in Subs : Given(t)'
  <2> SUFFICES ASSUME NEW t \in Subs PROVE Given(t)'
    OBVIOUS
  <2>0. TypeInv /\ Struct
    BY DEF PaidInv, Struct
  <2>1. Stays(t) /\ UNCHANGED <<queue, seen>>
    BY <1>37, <2>0, OverdueDoes DEF Stays
  <2>2. RenewersStay(t)
    BY <1>37, <2>0, OverdueDoes, RenewersOther DEF Leaves, Moves, Begins
  <2> QED
    BY <2>1, <2>2, GivenStays
<1>38. ASSUME NEW h \in Handlers, NEW s \in Subs, Cancel(h, s) PROVE \A t \in Subs : Given(t)'
  <2> SUFFICES ASSUME NEW t \in Subs PROVE Given(t)'
    OBVIOUS
  <2>0. TypeInv /\ Struct
    BY DEF PaidInv, Struct
  <2>1. Stays(t) /\ UNCHANGED <<queue, seen>>
    BY <1>38, <2>0, CancelDoes DEF Stays
  <2>2. RenewersStay(t)
    BY <1>38, <2>0, CancelDoes, RenewersOther DEF Leaves, Moves, Begins
  <2> QED
    BY <2>1, <2>2, GivenStays
<1>39. ASSUME NEW h \in Handlers, NEW s \in Subs, Revoke(h, s) PROVE \A t \in Subs : Given(t)'
  <2> SUFFICES ASSUME NEW t \in Subs PROVE Given(t)'
    OBVIOUS
  <2>0. TypeInv /\ Struct
    BY DEF PaidInv, Struct
  <2>1. Stays(t) /\ UNCHANGED <<queue, seen>>
    BY <1>39, <2>0, RevokeDoes DEF Stays
  <2>2. RenewersStay(t)
    BY <1>39, <2>0, RevokeDoes, RenewersOther DEF Leaves, Moves, Begins
  <2> QED
    BY <2>1, <2>2, GivenStays
<1>40. ASSUME NEW h \in Handlers, NEW s \in Subs, NEW tier \in Tiers, ChangePlan(h, s, tier) PROVE
   \A t \in Subs : Given(t)'
  <2> SUFFICES ASSUME NEW t \in Subs PROVE Given(t)'
    OBVIOUS
  <2>0. TypeInv /\ Struct
    BY DEF PaidInv, Struct
  <2>1. Stays(t) /\ UNCHANGED <<queue, seen>>
    BY <1>40, <2>0, ChangePlanDoes DEF Stays
  <2>2. RenewersStay(t)
    BY <1>40, <2>0, ChangePlanDoes, RenewersOther DEF Leaves, Moves, Begins
  <2> QED
    BY <2>1, <2>2, GivenStays
<1>41. ASSUME NEW h \in Handlers, NEW s \in Subs, NEW tier \in Tiers, ChangeAddon(h, s, tier)
   PROVE \A t \in Subs : Given(t)'
  <2> SUFFICES ASSUME NEW t \in Subs PROVE Given(t)'
    OBVIOUS
  <2>0. TypeInv /\ Struct
    BY DEF PaidInv, Struct
  <2>1. Stays(t) /\ UNCHANGED <<queue, seen>>
    BY <1>41, <2>0, ChangeAddonDoes DEF Stays
  <2>2. RenewersStay(t)
    BY <1>41, <2>0, ChangeAddonDoes, RenewersOther DEF Leaves, Moves, Begins
  <2> QED
    BY <2>1, <2>2, GivenStays
<1>42. CASE UNCHANGED vars
  <2> SUFFICES ASSUME NEW t \in Subs PROVE Given(t)'
    OBVIOUS
  <2>0. TypeInv /\ Struct
    BY DEF PaidInv, Struct
  <2> QED
    BY <1>42, GivenStays DEF vars, RenewersStay, Stays
<1> QED
  BY <1>1, <1>2, <1>3, <1>4, <1>5, <1>6, <1>7, <1>8, <1>9, <1>10, <1>11, <1>12, <1>13, <1>14,
     <1>15, <1>16, <1>17, <1>18, <1>19, <1>20, <1>21, <1>22, <1>23, <1>24, <1>25, <1>26, <1>27,
     <1>28, <1>29, <1>30, <1>31, <1>32, <1>33, <1>34, <1>35, <1>36, <1>37, <1>38, <1>39, <1>40,
     <1>41, <1>42 DEF Next, Step


LEMMA PaidInit ==
    Init => PaidInv
BY StructInit, IdleTyped DEF Init, PaidInv, Noted, Given, NoRow

\* As long as no delivery dies while it is applied, what Razorpay was paid for is given: an
\* active row whose events are all through runs at least to the day the next charge falls
\* due.  No renewal can be lost to a row that was read before another delivery wrote it, to
\* an event that is delivered again, or to a failed attempt told in between.
THEOREM PaidIsGiven ==
    ASSUME "crashAtEvent" \notin Faults
    PROVE  Spec => []PaidTimeIsGiven
<1>1. PaidInv /\ [Next]_vars => PaidInv'
  <2> SUFFICES ASSUME PaidInv, [Next]_vars PROVE PaidInv'
    OBVIOUS
  <2>1. Struct'
    BY StructNext DEF PaidInv
  <2>2. \A t \in Subs : Given(t)'
    BY GivenKept
  <2> QED
    BY <2>1, <2>2, NotedKept DEF PaidInv
<1>2. PaidInv => PaidTimeIsGiven
  <2> SUFFICES ASSUME PaidInv, NEW s \in Subs, sub[s].status = "active",
                      rzp[s].state = "active", queue[s] = <<>>
               PROVE  sub[s].end >= rzp[s].due
    BY DEF PaidTimeIsGiven
  <2>1. ~Owed(s)
    BY DEF Owed
  <2> QED
    BY <2>1 DEF PaidInv, Given
<1> QED
  BY PaidInit, <1>1, <1>2, PTL DEF Spec
=============================================================================
