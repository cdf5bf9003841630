-------------------------- MODULE RecurringInvoices --------------------------
(***************************************************************************)
(* Recurring invoices: templates that users make, change, pause, resume    *)
(* and run by hand (routers/recurringInvoice.ts), and the scheduler that   *)
(* raises what is due (lib/recurring-invoice-scheduler.ts).  A tick locks  *)
(* due templates only while it reads them; it generates afterwards, from   *)
(* what it read, one transaction per invoice.                              *)
(*                                                                         *)
(* Time is counted in days.  A period is a number of days.                 *)
(***************************************************************************)
EXTENDS Naturals, FiniteSets

CONSTANTS
    Templates,    \* recurring_invoice_templates
    Schedulers,   \* ticks that can run at the same time
    Users,        \* requests that can run at the same time
    Periods,      \* days between two runs
    RunLimits,    \* values of maxRuns
    Ends,         \* values of endDate
    Unlimited,    \* no maxRuns, no endDate
    MaxCatchup,   \* MAX_CATCHUP: invoices for one template in one tick
    Batch,        \* templates that one tick takes up
    NoTemplate,
    Horizon,      \* bound on the days that pass
    MaxByHand,    \* bound on the invoices a template has when it is run by hand
    Uses          \* which of the following happen

KnownUses == {
    "lapses",             \* the organisation becomes read-only, and recovers
    "requestDuringTick",  \* a request works on a template that another actor holds
    "pastLimits"}         \* a template is resumed or changed so that its next run is past its
                          \* limits

ASSUME RecurringAssumption ==
    /\ Unlimited = 0 /\ NoTemplate \notin Templates
    /\ Periods \subseteq Nat \ {0} /\ RunLimits \subseteq Nat /\ Ends \subseteq Nat
    /\ MaxCatchup \in Nat \ {0} /\ Batch \in Nat /\ Horizon \in Nat /\ MaxByHand \in Nat
    /\ Uses \subseteq KnownUses

VARIABLES
    now,
    readOnly,  \* the organisation's trial is over, or its plan has ended
    tpl,       \* the templates
    tick,      \* where each tick stands: templates still to do, the one in hand
    request    \* what each request has read

\* For the properties: how many invoices each template has raised, the date
\* the last was due, the day of the last skip, and the dates that had come when
\* they were invoiced.
VARIABLES raised, lastDue, skipped, invoiced

vars == <<now, readOnly, tpl, tick, request, raised, lastDue, skipped, invoiced>>

Template == [status: {"none", "active", "paused", "completed", "deleted"}, next: Nat, runs: Nat,
             every: Periods \cup {0}, maxRuns: Nat, end: Nat]

\* A template as it was read.
Snapshot == [id: Templates \cup {NoTemplate}, next: Nat, runs: Nat, every: Nat, maxRuns: Nat,
             end: Nat]

Nothing == [id |-> NoTemplate, next |-> 0, runs |-> 0, every |-> 0, maxRuns |-> 0, end |-> 0]

SnapshotOf(t) == [id |-> t, next |-> tpl[t].next, runs |-> tpl[t].runs, every |-> tpl[t].every,
                  maxRuns |-> tpl[t].maxRuns, end |-> tpl[t].end]

Resting == [step |-> "idle", todo |-> {}, hand |-> Nothing, count |-> 0]

TypeOK ==
    /\ now \in 0 .. Horizon /\ readOnly \in BOOLEAN
    /\ tpl \in [Templates -> Template]
    /\ \A s \in Schedulers :
          /\ tick[s].step \in {"idle", "skip", "select", "next", "generate", "reread"}
          /\ tick[s].todo \subseteq Snapshot /\ tick[s].hand \in Snapshot
          /\ tick[s].count \in 0 .. MaxCatchup
          /\ tick[s].step \in {"generate", "reread"} <=> tick[s].hand # Nothing
    /\ \A u \in Users : /\ request[u].does \in {"nothing", "run", "resume"}
                       /\ request[u].read \in Snapshot
    /\ raised \in [Templates -> Nat] /\ lastDue \in [Templates -> Nat]
    /\ skipped \in [Templates -> Nat] /\ invoiced \in [Templates -> SUBSET Nat]

Init ==
    /\ now = 0 /\ readOnly = FALSE
    /\ tpl = [t \in Templates |-> [status |-> "none", next |-> 0, runs |-> 0, every |-> 0,
                                   maxRuns |-> Unlimited, end |-> Unlimited]]
    /\ tick = [s \in Schedulers |-> Resting]
    /\ request = [u \in Users |-> [does |-> "nothing", read |-> Nothing]]
    /\ raised = [t \in Templates |-> 0] /\ lastDue = [t \in Templates |-> 0]
    /\ skipped = [t \in Templates |-> 0] /\ invoiced = [t \in Templates |-> {}]

Exists(t) == tpl[t].status \notin {"none", "deleted"}

\* No tick and no other request has read t, or is about to.
Quiet(t) ==
    /\ \A s \in Schedulers :
          /\ tick[s].step \notin {"skip", "select"}
          /\ \A x \in tick[s].todo \cup {tick[s].hand} : x.id # t
    /\ \A u \in Users : request[u].read.id # t

\* What a run leaves out unless Uses names it.
MayTouch(t) == "requestDuringTick" \in Uses \/ Quiet(t)
MayTick == "requestDuringTick" \in Uses \/ \A u \in Users : request[u].does = "nothing"

WithinLimits(next, runs, maxRuns, end) ==
    /\ maxRuns # Unlimited => runs < maxRuns
    /\ end # Unlimited => next <= end

MayBecome(next, runs, maxRuns, end) ==
    "pastLimits" \in Uses \/ WithinLimits(next, runs, maxRuns, end)

-----------------------------------------------------------------------------
\* Generating one invoice.

\* A period after the run that was due.
NextRun(x) == x.next + x.every

\* A mistake for a run to find: one run too many.
FinishedLate(x) ==
    \/ x.maxRuns # Unlimited /\ x.runs >= x.maxRuns
    \/ x.end # Unlimited /\ NextRun(x) > x.end

Finished(x) ==
    \/ x.maxRuns # Unlimited /\ x.runs + 1 >= x.maxRuns
    \/ x.end # Unlimited /\ NextRun(x) > x.end

\* One transaction: the invoice, the record of the run, and the template
\* advanced from the snapshot x.  The record needs the template to be there.
Generate(x) ==
    /\ Exists(x.id)
    /\ tpl' = [tpl EXCEPT ![x.id].runs = x.runs + 1,
                          ![x.id].next = NextRun(x),
                          ![x.id].status = IF Finished(x) THEN "completed" ELSE @]
    /\ raised' = [raised EXCEPT ![x.id] = @ + 1]
    /\ lastDue' = [lastDue EXCEPT ![x.id] = x.next]
    /\ invoiced' = [invoiced EXCEPT ![x.id] = IF x.next <= now THEN @ \cup {x.next} ELSE @]

-----------------------------------------------------------------------------
\* The scheduler.

\* A mistake for a run to find: due only when the date has gone by.
DueBeforeToday == {t \in Templates : tpl[t].status = "active" /\ tpl[t].next < now}

Due == {t \in Templates : tpl[t].status = "active" /\ tpl[t].next <= now}

\* The rows a query takes: at most Batch, and not those that others have
\* locked at that moment.
Taken(rows) == rows \subseteq Due /\ Cardinality(rows) <= Batch

StartTick(s) ==
    /\ tick[s].step = "idle" /\ MayTick
    /\ tick' = [tick EXCEPT ![s].step = IF readOnly THEN "skip" ELSE "select"]
    /\ UNCHANGED <<now, readOnly, tpl, request, raised, lastDue, skipped, invoiced>>

\* A mistake for a run to find: one period on, however long ago that was.
AfterOnePeriod(t) == tpl[t].next + tpl[t].every

\* nextRunDateAfter: the first run after today, in whole periods.
NextAfterToday(t) ==
    tpl[t].next + tpl[t].every * ((now - tpl[t].next) \div tpl[t].every + 1)

EndsBefore(t) == tpl[t].end # Unlimited /\ NextAfterToday(t) > tpl[t].end

\* skipDueTemplates: one transaction.
Skip(s, rows) ==
    /\ tick[s].step = "skip" /\ Taken(rows)
    /\ tpl' = [t \in Templates |->
                  IF t \notin rows THEN tpl[t]
                  ELSE [tpl[t] EXCEPT !.next = NextAfterToday(t),
                                      !.status = IF EndsBefore(t) THEN "completed" ELSE @]]
    /\ skipped' = [t \in Templates |-> IF t \in rows THEN now ELSE skipped[t]]
    /\ tick' = [tick EXCEPT ![s] = Resting]
    /\ UNCHANGED <<now, readOnly, request, raised, lastDue, invoiced>>

\* The locks go when the rows have been read.
Select(s, rows) ==
    /\ tick[s].step = "select" /\ Taken(rows)
    /\ tick' = [tick EXCEPT ![s].step = "next", ![s].todo = {SnapshotOf(t) : t \in rows}]
    /\ UNCHANGED <<now, readOnly, tpl, request, raised, lastDue, skipped, invoiced>>

\* The next template, or the end of the tick.
TakeUp(s, x) ==
    /\ tick[s].step = "next" /\ x \in tick[s].todo
    /\ tick' = [tick EXCEPT ![s] = [step |-> "generate", todo |-> @.todo \ {x}, hand |-> x,
                                    count |-> 0]]
    /\ UNCHANGED <<now, readOnly, tpl, request, raised, lastDue, skipped, invoiced>>

EndTick(s) ==
    /\ tick[s].step = "next" /\ tick[s].todo = {}
    /\ tick' = [tick EXCEPT ![s] = Resting]
    /\ UNCHANGED <<now, readOnly, tpl, request, raised, lastDue, skipped, invoiced>>

LayDown(s) == [step |-> "next", todo |-> tick[s].todo, hand |-> Nothing, count |-> 0]

GenerateDue(s) ==
    /\ tick[s].step = "generate"
    /\ Generate(tick[s].hand)
    /\ tick' = [tick EXCEPT ![s].step = "reread", ![s].count = @ + 1]
    /\ UNCHANGED <<now, readOnly, request, skipped>>

\* The party is gone, an item is, or the template: the run is recorded as
\* failed, and the tick goes on to the next template.
Fail(s) ==
    /\ tick[s].step = "generate"
    /\ tick' = [tick EXCEPT ![s] = LayDown(s)]
    /\ UNCHANGED <<now, readOnly, tpl, request, raised, lastDue, skipped, invoiced>>

\* Mistakes for runs to find: the next round starts from the same snapshot, or
\* from the same number of runs.
NotRefreshed(x) == x
RefreshedDateOnly(x) == [x EXCEPT !.next = tpl[x.id].next]

\* What the next round sees anew: the rest stays as it was first read.
Refreshed(x) == [x EXCEPT !.next = tpl[x.id].next, !.runs = tpl[x.id].runs]

\* A mistake for a run to find: one invoice more than a tick may raise.
AnotherOnceMore(s, x) == x.next <= now /\ tick[s].count <= MaxCatchup

Another(s, x) == x.next <= now /\ tick[s].count < MaxCatchup

Reread(s) ==
    LET x == tick[s].hand
        t == tpl[x.id]
        goesOn == t.status = "active" /\ ~(t.end # Unlimited /\ t.end <= now)
    IN /\ tick[s].step = "reread"
       /\ tick' = [tick EXCEPT ![s] =
             IF goesOn /\ Another(s, Refreshed(x))
             THEN [@ EXCEPT !.step = "generate", !.hand = Refreshed(x)]
             ELSE LayDown(s)]
       /\ UNCHANGED <<now, readOnly, tpl, request, raised, lastDue, skipped, invoiced>>

\* The process stops; what it held is forgotten.
Crash(s) ==
    /\ tick[s].step # "idle"
    /\ tick' = [tick EXCEPT ![s] = Resting]
    /\ UNCHANGED <<now, readOnly, tpl, request, raised, lastDue, skipped, invoiced>>

-----------------------------------------------------------------------------
\* Users.

\* On the start date, or one period from today when that has gone by.
FirstRun(start, every) == IF start >= now THEN start ELSE now + every

Create(t, start, every, maxRuns, end) ==
    LET first == FirstRun(start, every) IN
    /\ tpl[t].status = "none"
    /\ MayBecome(first, 0, maxRuns, end)
    /\ tpl' = [tpl EXCEPT ![t] = [status |-> "active", next |-> first, runs |-> 0,
                                  every |-> every, maxRuns |-> maxRuns, end |-> end]]
    /\ UNCHANGED <<now, readOnly, tick, request, raised, lastDue, skipped, invoiced>>

\* maxRuns can be taken away again, an end date cannot.
Update(t, every, maxRuns, end) ==
    LET kept == IF end = Unlimited THEN tpl[t].end ELSE end IN
    /\ Exists(t) /\ MayTouch(t)
    /\ tpl[t].status # "completed" => MayBecome(tpl[t].next, tpl[t].runs, maxRuns, kept)
    /\ tpl' = [tpl EXCEPT ![t].every = every, ![t].maxRuns = maxRuns, ![t].end = kept]
    /\ UNCHANGED <<now, readOnly, tick, request, raised, lastDue, skipped, invoiced>>

Delete(t) ==
    /\ Exists(t)
    /\ tpl' = [tpl EXCEPT ![t].status = "deleted"]
    /\ UNCHANGED <<now, readOnly, tick, request, raised, lastDue, skipped, invoiced>>

Pause(t) ==
    /\ tpl[t].status = "active"
    /\ tpl' = [tpl EXCEPT ![t].status = "paused"]
    /\ UNCHANGED <<now, readOnly, tick, request, raised, lastDue, skipped, invoiced>>

\* resume and runNow read the template, and write it later.
Read(u, t, does, statuses) ==
    /\ request[u].does = "nothing"
    /\ tpl[t].status \in statuses /\ MayTouch(t)
    /\ request' = [request EXCEPT ![u] = [does |-> does, read |-> SnapshotOf(t)]]
    /\ UNCHANGED <<now, readOnly, tpl, tick, raised, lastDue, skipped, invoiced>>

ReadToResume(u, t) == Read(u, t, "resume", {"paused"})

ReadToRun(u, t) == raised[t] < MaxByHand /\ Read(u, t, "run", {"active", "paused"})

Done(u) == request' = [request EXCEPT ![u] = [does |-> "nothing", read |-> Nothing]]

\* A template deleted meanwhile is left as it is.
Resume(u) ==
    LET x == request[u].read
        next == now + x.every
    IN /\ request[u].does = "resume"
       /\ MayBecome(next, tpl[x.id].runs, tpl[x.id].maxRuns, tpl[x.id].end)
       /\ tpl' = IF Exists(x.id)
                 THEN [tpl EXCEPT ![x.id].status = "active", ![x.id].next = next] ELSE tpl
       /\ Done(u)
       /\ UNCHANGED <<now, readOnly, tick, raised, lastDue, skipped, invoiced>>

Run(u) ==
    /\ request[u].does = "run"
    /\ Generate(request[u].read)
    /\ Done(u)
    /\ UNCHANGED <<now, readOnly, tick, skipped>>

\* The request fails, or is given up.
GiveUp(u) ==
    /\ request[u].does # "nothing"
    /\ Done(u)
    /\ UNCHANGED <<now, readOnly, tpl, tick, raised, lastDue, skipped, invoiced>>

-----------------------------------------------------------------------------
PassTime ==
    /\ now < Horizon
    /\ now' = now + 1
    /\ UNCHANGED <<readOnly, tpl, tick, request, raised, lastDue, skipped, invoiced>>

\* The organisation stops paying, or pays again.
ChangeAccess ==
    /\ "lapses" \in Uses
    /\ readOnly' = ~readOnly
    /\ UNCHANGED <<now, tpl, tick, request, raised, lastDue, skipped, invoiced>>

TickStep(s) ==
    \/ StartTick(s) \/ EndTick(s) \/ GenerateDue(s) \/ Fail(s) \/ Reread(s)
    \/ \E rows \in SUBSET Templates : Skip(s, rows) \/ Select(s, rows)
    \/ \E x \in tick[s].todo : TakeUp(s, x)

UserStep ==
    \/ \E t \in Templates, start \in 0 .. Horizon, every \in Periods,
          maxRuns \in RunLimits, end \in Ends : Create(t, start, every, maxRuns, end)
    \/ \E t \in Templates, every \in Periods, maxRuns \in RunLimits, end \in Ends :
          Update(t, every, maxRuns, end)
    \/ \E t \in Templates : Delete(t) \/ Pause(t)
    \/ \E u \in Users, t \in Templates : ReadToResume(u, t) \/ ReadToRun(u, t)
    \/ \E u \in Users : Resume(u) \/ Run(u) \/ GiveUp(u)

Next ==
    \/ \E s \in Schedulers : TickStep(s) \/ Crash(s)
    \/ UserStep
    \/ PassTime
    \/ ChangeAccess

Spec == Init /\ [][Next]_vars

\* Ticks come every minute and go on, no failure or lock lasts for ever, and
\* requests end.
Fairness ==
    /\ \A s \in Schedulers :
          /\ SF_vars(StartTick(s)) /\ SF_vars(EndTick(s)) /\ SF_vars(Reread(s))
          /\ WF_vars(GenerateDue(s) \/ Fail(s))
          /\ \A t \in Templates :
                /\ SF_vars(\E rows \in SUBSET Templates :
                              t \in rows /\ (Skip(s, rows) \/ Select(s, rows)))
                /\ SF_vars(\E x \in tick[s].todo : x.id = t /\ TakeUp(s, x))
                /\ SF_vars(tick[s].hand.id = t /\ GenerateDue(s))
    /\ \A u \in Users : WF_vars(Resume(u) \/ Run(u) \/ GiveUp(u))

FairSpec == Spec /\ Fairness

-----------------------------------------------------------------------------
\* Properties.

\* Raising an invoice moves the template on to a later run, and a date that had
\* come when it was invoiced is never invoiced again, whatever is paused, resumed
\* (which sets the next run anew, from today), changed, run by hand or caught up.
\* A date that runNow invoices ahead of time can be: a resume before that date
\* may set the next run back to it.
OncePerDate ==
    [][\A t \in Templates : raised'[t] > raised[t] =>
          tpl'[t].next > tpl[t].next /\ lastDue'[t] \notin invoiced[t]]_vars

\* totalRuns, which maxRuns is held against, is the number of invoices the
\* template has raised.
RunsCountInvoices == \A t \in Templates : tpl[t].runs = raised[t]

\* No invoice is raised past the limits the template has when it is raised:
\* its number of runs, and the date the run is due.
NeverPastLimits ==
    [][\A t \in Templates : raised'[t] > raised[t] =>
          /\ tpl[t].maxRuns # Unlimited => raised'[t] <= tpl[t].maxRuns
          /\ tpl[t].end # Unlimited => lastDue'[t] <= tpl[t].end]_vars

\* What came due while the organisation was read-only and was skipped is
\* never made up.
DroppedForGood ==
    [][\A t \in Templates : raised'[t] > raised[t] /\ skipped[t] > 0
                               => lastDue'[t] > skipped[t]]_vars

\* Whatever fails, crashes or is skipped, a template does not stay due.
Waiting(t) == tpl[t].status = "active" /\ tpl[t].next <= now
DueIsHandled == \A t \in Templates : Waiting(t) ~> ~Waiting(t)
=============================================================================
