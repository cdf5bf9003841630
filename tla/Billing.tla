------------------------------- MODULE Billing -------------------------------
(***************************************************************************)
(* The subscriptions an organisation pays Fintranzact through Razorpay     *)
(* (lib/billing/service.ts, lib/billing/addon-service.ts,                  *)
(* http/razorpayWebhook.ts, routers/billing.ts).  A run takes either its   *)
(* plan subscription or its subscriptions to the tiers of one add-on.      *)
(*                                                                         *)
(* Every statement on the control database commits by itself, calls to     *)
(* Razorpay happen between them, and requests, webhook deliveries and the  *)
(* transitions applied on read interleave.  Razorpay is modelled from how  *)
(* the code uses it.                                                       *)
(***************************************************************************)
EXTENDS Integers, Sequences, FiniteSets

CONSTANTS
    Kinds,       \* which of "plan" and "addon" are looked at
    Tiers,       \* what is on sale, by price per month: a set of numbers above 0
    MaxSubs,     \* bound on the subscriptions ever started
    MaxCharges,  \* bound on the charges of each
    MaxTries,    \* bound on the failed attempts at a charge before Razorpay gives up
    Period,      \* length of a billing cycle, in days of the model
    Grace,       \* BILLING_GRACE_DAYS
    MaxDay,      \* bound on the days that pass
    MaxLate,     \* bound on the events of one that are not delivered on their day
    MaxHandlers, \* bound on the requests that are served at the same time
    Uses,        \* which of KnownUses happen
    Faults       \* which of KnownFaults happen

\* What owners, customers and administrators may do in a run.
KnownUses == {
    "change",       \* move to another tier
    "cancel",       \* cancel at the period end
    "grant",        \* an administrator gives an add-on, and takes it back
    "grantHalted",  \* give one while another is unpaid and halted
    "payReplaced",  \* pay a checkout after another was started
    "bothOpen"}     \* start a checkout for another tier while one is open

KnownFaults == {
    "crash",         \* a request that dies between two steps
    "crashAtEvent",  \* ... also at an event or a callback, or before Razorpay lets go of what
                     \* was halted
    "gatewayDown",   \* a call to Razorpay that fails
    "callbackRace",  \* the checkout's callback and the webhook at the same moment
    "chargedFirst",  \* a first payment told as a charge, and by the callback
    "toldTwice",     \* a first payment told both as activated and as charged
    "ownerTwice"}    \* two requests of the owner at the same moment

ASSUME BillingAssumption ==
    /\ Kinds \subseteq {"plan", "addon"}
    /\ IsFiniteSet(Tiers) /\ Tiers \subseteq Nat \ {0}
    /\ MaxSubs \in Nat /\ MaxCharges \in Nat /\ MaxTries \in Nat
    /\ Period \in Nat \ {0} /\ Grace \in Nat /\ MaxDay \in Nat \ {0} /\ MaxLate \in Nat
    /\ MaxHandlers \in Nat
    /\ Uses \subseteq KnownUses /\ Faults \subseteq KnownFaults

VARIABLES
    kind,      \* whether the subscriptions are to plans or to an add-on
    today,
    sub,       \* billing_subscriptions, by number
    plan,      \* tenants.plan, as a tier
    rzp,       \* each subscription at Razorpay
    queue,     \* its events that were not acknowledged yet
    seen,      \* whether the oldest of them has a billing_events row
    invoices,  \* how many captured billing_payments rows each charge has
    credits,   \* how many credit notes each subscription has
    task       \* what each handler does

vars == <<kind, today, sub, plan, rzp, queue, seen, invoices, credits, task>>

Handlers == 1 .. MaxHandlers
Subs == 1 .. MaxSubs
Charges == 1 .. MaxCharges
None == 0

Statuses == {"none", "created", "active", "past_due", "halted", "cancelled"}

Row == [status: Statuses, tier: Tiers \cup {None}, end: Nat, grace: 0 .. MaxDay + Grace,
        ends: BOOLEAN, scheduled: Tiers \cup {None}, replaces: Subs \cup {None}, admin: BOOLEAN]

NoRow == [status |-> "none", tier |-> None, end |-> None, grace |-> None, ends |-> FALSE,
          scheduled |-> None, replaces |-> None, admin |-> FALSE]

\* At Razorpay: `open` until the checkout is paid; `ends` once it is to stop
\* with its cycle; `paid` counts the charges;
\* `shown` when its checkout was given to the owner; `callback` while the
\* browser that paid it may still call back.
Mandate == [state: {"none", "open", "active", "pending", "halted", "cancelled"},
            due: 0 .. MaxDay + Period, ends: BOOLEAN, paid: 0 .. MaxCharges,
            tries: 0 .. MaxTries, shown: BOOLEAN, callback: BOOLEAN]

NoMandate == [state |-> "none", due |-> None, ends |-> FALSE, paid |-> 0, tries |-> 0,
              shown |-> FALSE, callback |-> FALSE]

Event == [type: {"activated", "charged", "pending", "halted", "cancelled"},
          charge: 0 .. MaxCharges, try: 0 .. MaxTries]

NoEvent == [type |-> "cancelled", charge |-> 0, try |-> 0]

Idle == [by |-> "nobody", step |-> "idle", s |-> None, row |-> NoRow, event |-> NoEvent,
         tier |-> None, old |-> None, halted |-> {}, credit |-> FALSE]

Activating == {"readToActivate", "activate", "setPlan", "cancelReplaced", "retire",
               "creditReplaced", "invoice"}
Buying == {"browse", "dropOpen", "subscribe", "insert", "release"}
Steps == Activating \cup Buying \cup
         {"idle", "renew", "fail", "halt", "end", "endToBuy", "stopAtEnd", "schedule", "markEnds",
          "stopNow", "drop", "credit", "clear", "grant"}

Task == [by: {"nobody", "webhook", "callback", "owner", "read", "admin"}, step: Steps,
         s: Subs \cup {None}, row: Row, event: Event, tier: Tiers \cup {None},
         old: Subs \cup {None}, halted: SUBSET Subs, credit: BOOLEAN]

TypeOK ==
    /\ kind \in Kinds
    /\ today \in 1 .. MaxDay
    /\ sub \in [Subs -> Row]
    /\ plan \in Tiers \cup {None}
    /\ rzp \in [Subs -> Mandate]
    /\ queue \in [Subs -> Seq(Event)]
    /\ seen \in [Subs -> BOOLEAN]
    /\ invoices \in [Subs \X Charges -> Nat]
    /\ credits \in [Subs -> Nat]
    /\ task \in [Handlers -> Task]

Init ==
    /\ kind \in Kinds
    /\ today = 1
    /\ sub = [s \in Subs |-> NoRow]
    /\ plan = None
    /\ rzp = [s \in Subs |-> NoMandate]
    /\ queue = [s \in Subs |-> <<>>]
    /\ seen = [s \in Subs |-> FALSE]
    /\ invoices = [c \in Subs \X Charges |-> 0]
    /\ credits = [s \in Subs |-> 0]
    /\ task = [h \in Handlers |-> Idle]

-----------------------------------------------------------------------------
\* subscriptionIsLive
IsLive(s) == sub[s].status \in {"active", "past_due"}

\* What the unique indexes see: one plan row, one row of an add-on, that is not
\* cancelled.
Taken(rows, s, tier) ==
    \E i \in Subs \ {s} : /\ rows[i].status \notin {"none", "cancelled"}
                          /\ kind = "addon" => rows[i].tier = tier

Fresh == {s \in Subs : sub[s].status = "none" /\ rzp[s].state = "none"}
Next1 == CHOOSE s \in Fresh : \A i \in Fresh : s <= i

At(h, step) == task[h].step = step
Go(h, step) == task' = [task EXCEPT ![h].step = step]
Stop(h) == task' = [task EXCEPT ![h] = Idle]

\* A request that throws answers with an error; a webhook delivery that does is
\* delivered again.
Throw(h) == /\ Stop(h)
            /\ UNCHANGED <<kind, today, sub, plan, rzp, queue, seen, invoices, credits>>

\* A request that returns: a webhook delivery is acknowledged.
Return(h) ==
    /\ Stop(h)
    /\ IF task[h].by = "webhook"
       THEN /\ queue' = [queue EXCEPT ![task[h].s] = Tail(@)]
            /\ seen' = [seen EXCEPT ![task[h].s] = FALSE]
       ELSE UNCHANGED <<queue, seen>>

\* A request is served by the first handler that is free.
Free(h) == At(h, "idle") /\ \A k \in Handlers : At(k, "idle") => h <= k

Start(h, t) ==
    /\ Free(h)
    /\ task' = [task EXCEPT ![h] = t]

Cancelled(s) == [sub EXCEPT ![s].status = "cancelled"]

-----------------------------------------------------------------------------
(* The webhook and the checkout's callback *)

\* A mistake for a run to find: what has ended is taken for unpaid.
FirstStepEndHalts(e, row) ==
    CASE e.type = "activated" -> "readToActivate"
      [] e.type = "charged" -> IF row.status = "created" THEN "readToActivate" ELSE "renew"
      [] e.type = "pending" -> "fail"
      [] e.type \in {"halted", "cancelled"} -> "halt"

FirstStep(e, row) ==
    CASE e.type = "activated" -> "readToActivate"
      [] e.type = "charged" -> IF row.status = "created" THEN "readToActivate" ELSE "renew"
      [] e.type = "pending" -> "fail"
      [] e.type = "halted" -> "halt"
      [] e.type = "cancelled" -> "end"

\* Nobody else is at a payment of s that has just come in.
NoRace(s) == \/ "callbackRace" \in Faults
             \/ \A h \in Handlers : task[h].step \in Activating => task[h].s # s

\* Razorpay delivers the oldest event of s.  The billing_events row is committed
\* before the event is applied, with the subscription as read before it.  An
\* event that has a row is acknowledged and not applied.
Deliver(h, s) ==
    /\ queue[s] # <<>>
    /\ \A k \in Handlers : task[k].by = "webhook" => task[k].s # s
    /\ NoRace(s)
    /\ LET e == Head(queue[s])
       IN  \/ /\ seen[s] /\ At(h, "idle")
              /\ queue' = [queue EXCEPT ![s] = Tail(@)]
              /\ seen' = [seen EXCEPT ![s] = FALSE]
              /\ UNCHANGED task
           \/ /\ ~seen[s]
              /\ Start(h, [Idle EXCEPT !.by = "webhook", !.step = FirstStep(e, sub[s]), !.s = s,
                                       !.row = sub[s], !.event = e])
              /\ seen' = [seen EXCEPT ![s] = TRUE]
              /\ UNCHANGED queue
    /\ UNCHANGED <<kind, today, sub, plan, rzp, invoices, credits>>

\* verifyCheckout: the browser reports the payment of the checkout.
Callback(h, s) ==
    /\ rzp[s].callback
    /\ NoRace(s)
    /\ Start(h, [Idle EXCEPT !.by = "callback", !.step = "readToActivate", !.s = s,
                             !.event = [type |-> "activated", charge |-> 1, try |-> 0]])
    /\ rzp' = [rzp EXCEPT ![s].callback = FALSE]
    /\ UNCHANGED <<kind, today, sub, plan, queue, seen, invoices, credits>>

\* A mistake for a run to find: what is active is activated again.
AlreadyActiveNever(row) == FALSE

AlreadyActive(row) == row.status = "active"

ReadToActivate(h) ==
    LET row == sub[task[h].s]
    IN  /\ At(h, "readToActivate")
        /\ \/ AlreadyActive(row) /\ Return(h)
           \/ row.status = "cancelled" /\ Stop(h) /\ UNCHANGED <<queue, seen>>
           \/ /\ ~AlreadyActive(row) /\ row.status # "cancelled"
              /\ task' = [task EXCEPT ![h].step = "activate", ![h].row = row]
              /\ UNCHANGED <<queue, seen>>
        /\ UNCHANGED <<kind, today, sub, plan, rzp, invoices, credits>>

\* Mistakes for runs to find: the plan of the organisation is left, or the tier
\* that is replaced.
AfterActivatePlanKept(row) ==
    IF kind = "addon" /\ row.replaces # None THEN "cancelReplaced" ELSE "invoice"
AfterActivateBothKept(row) == IF kind = "plan" THEN "setPlan" ELSE "invoice"

AfterActivate(row) ==
    IF kind = "plan" THEN "setPlan" ELSE IF row.replaces # None THEN "cancelReplaced" ELSE "invoice"

\* The row is written whatever it has become since it was read; only the unique
\* indexes can refuse.
Activate(h) ==
    LET s == task[h].s
        row == task[h].row
    IN  /\ At(h, "activate")
        /\ IF sub[s].status = "cancelled" /\ Taken(sub, s, row.tier) THEN Throw(h)
           ELSE /\ sub' = [sub EXCEPT ![s] = [@ EXCEPT !.status = "active", !.end = today + Period,
                                                     !.grace = None]]
                /\ Go(h, AfterActivate(row))
                /\ UNCHANGED <<kind, today, plan, rzp, queue, seen, invoices, credits>>

SetPlan(h) ==
    /\ At(h, "setPlan")
    /\ plan' = task[h].row.tier
    /\ Go(h, "invoice")
    /\ UNCHANGED <<kind, today, sub, rzp, queue, seen, invoices, credits>>

\* Razorpay can stop what it charges, or tried to.
CanStop(s) == rzp[s].state \in {"active", "pending", "halted"}
Down == "gatewayDown" \in Faults

EndedEvent(s) == [type |-> "cancelled", charge |-> rzp[s].paid, try |-> rzp[s].tries]

\* cancelSubscription at once, of every s in stopped: Razorpay also tells the webhook.
StopCharging(stopped) ==
    /\ rzp' = [s \in Subs |->
          IF s \in stopped THEN [rzp[s] EXCEPT !.state = "cancelled"] ELSE rzp[s]]
    /\ queue' = [s \in Subs |->
          IF s \in stopped THEN Append(queue[s], EndedEvent(s)) ELSE queue[s]]

\* retireReplacedAddon: the old tier stops at Razorpay, and what is not used of
\* it becomes a credit note.  That Razorpay refuses is recorded, never thrown.
CancelReplaced(h) ==
    LET o == task[h].row.replaces
        credit == sub[o].status = "active" /\ sub[o].end > today
    IN  /\ At(h, "cancelReplaced")
        /\ \/ /\ sub[o].status = "cancelled"
              /\ Go(h, "invoice")
              /\ UNCHANGED <<rzp, queue>>
           \/ /\ sub[o].status # "cancelled"
              /\ task' = [task EXCEPT ![h].step = "retire", ![h].credit = credit]
              /\ \/ CanStop(o) /\ StopCharging({o})
                 \/ (Down \/ ~CanStop(o)) /\ UNCHANGED <<rzp, queue>>
        /\ UNCHANGED <<kind, today, sub, plan, seen, invoices, credits>>

Retire(h) ==
    /\ At(h, "retire")
    /\ sub' = Cancelled(task[h].row.replaces)
    /\ Go(h, IF task[h].credit THEN "creditReplaced" ELSE "invoice")
    /\ UNCHANGED <<kind, today, plan, rzp, queue, seen, invoices, credits>>

CreditReplaced(h) ==
    /\ At(h, "creditReplaced")
    /\ credits' = [credits EXCEPT ![task[h].row.replaces] = @ + 1]
    /\ Go(h, "invoice")
    /\ UNCHANGED <<kind, today, sub, plan, rzp, queue, seen, invoices>>

\* recordPayment of a captured charge: it takes the next invoice number.
Invoice(h) ==
    /\ At(h, "invoice")
    /\ invoices' = [invoices EXCEPT ![<<task[h].s, task[h].event.charge>>] = @ + 1]
    /\ Return(h)
    /\ UNCHANGED <<kind, today, sub, plan, rzp, credits>>

\* A mistake for a run to find: a period follows on the last one, also on one
\* that was over.
RenewedFromEnd(row) == row.end

\* A period that is not over is extended.
RenewedFrom(row) == IF row.end > today THEN row.end ELSE today

Revivable(s, row) == row.status # "cancelled" /\ sub[s].status # "cancelled"

\* recordRenewal of the row as it was read.
Renew(h) ==
    LET s == task[h].s
        row == task[h].row
    IN  /\ At(h, "renew")
        /\ sub' = IF Revivable(s, row)
                  THEN [sub EXCEPT ![s] = [@ EXCEPT !.status = "active", !.grace = None,
                                                  !.end = RenewedFrom(row) + Period]]
                  ELSE sub
        /\ Go(h, "invoice")
        /\ UNCHANGED <<kind, today, plan, rzp, queue, seen, invoices, credits>>

\* A mistake for a run to find: every failed attempt sets a new deadline.
GraceFromToday(row) == today + Grace

\* A mistake for a run to find: the grace begins when the period is over.
GraceAfterPeriod(row) == IF row.grace # None THEN row.grace ELSE row.end + Grace

GraceOf(row) == IF row.grace # None THEN row.grace ELSE today + Grace

\* recordRenewalFailure.  The failed payment it also records has no invoice
\* number and is left out.
Fail(h) ==
    LET s == task[h].s
    IN  /\ At(h, "fail")
        /\ sub' = IF IsLive(s) THEN [sub EXCEPT ![s] = [@ EXCEPT !.status = "past_due",
                                                           !.grace = GraceOf(task[h].row)]]
                  ELSE sub
        /\ Return(h)
        /\ UNCHANGED <<kind, today, plan, rzp, invoices, credits>>

\* A mistake for a run to find: what is past due already is not halted.
HaltableActive(s) == sub[s].status = "active"

Haltable(s) == IsLive(s)

\* haltSubscription
Halt(h) ==
    LET s == task[h].s
    IN  /\ At(h, "halt")
        /\ sub' = IF Haltable(s) THEN [sub EXCEPT ![s].status = "halted"] ELSE sub
        /\ Return(h)
        /\ UNCHANGED <<kind, today, plan, rzp, invoices, credits>>

\* endSubscription
End(h) ==
    /\ At(h, "end")
    /\ sub' = Cancelled(task[h].s)
    /\ Return(h)
    /\ UNCHANGED <<kind, today, plan, rzp, invoices, credits>>

-----------------------------------------------------------------------------
(* What a read finds overdue: applyLazyTransitions *)

GraceOver(row) == row.status = "past_due" /\ row.grace # None /\ row.grace < today
PeriodOver(row) == row.end # None /\ row.end <= today

OverdueStep(row) ==
    IF GraceOver(row) THEN "halt" ELSE IF ~PeriodOver(row) THEN "idle"
    ELSE IF row.ends THEN "end" ELSE IF row.scheduled # None THEN "endToBuy" ELSE "idle"

\* Every request reads the entitlements.  The rows are taken one by one; several
\* requests can find the same one overdue.
Overdue(h, s) ==
    /\ IsLive(s) /\ OverdueStep(sub[s]) # "idle"
    /\ Start(h, [Idle EXCEPT !.by = "read", !.step = OverdueStep(sub[s]), !.s = s, !.row = sub[s],
                            !.tier = sub[s].scheduled])
    /\ UNCHANGED <<kind, today, sub, plan, rzp, queue, seen, invoices, credits>>

\* The scheduled change: what was paid for ends, and the checkout of the other
\* tier starts.
EndToBuy(h) ==
    /\ At(h, "endToBuy")
    /\ sub' = Cancelled(task[h].s)
    /\ Go(h, "browse")
    /\ UNCHANGED <<kind, today, plan, rzp, queue, seen, invoices, credits>>

-----------------------------------------------------------------------------
(* startCheckout *)

Blocked(old) == \E s \in Subs : s # old /\ IsLive(s)

Browse(h) ==
    /\ At(h, "browse")
    /\ IF Blocked(task[h].old) THEN Stop(h)
       ELSE task' = [task EXCEPT ![h].step = IF kind = "plan" THEN "subscribe" ELSE "dropOpen",
                                 ![h].halted = {s \in Subs : sub[s].status = "halted"}]
    /\ UNCHANGED <<kind, today, sub, plan, rzp, queue, seen, invoices, credits>>

\* An open checkout for the same add-on gives way.
DropOpen(h) ==
    /\ At(h, "dropOpen")
    /\ sub' = [s \in Subs |-> IF sub[s].status = "created" /\ sub[s].tier = task[h].tier
                              THEN [sub[s] EXCEPT !.status = "cancelled"] ELSE sub[s]]
    /\ Go(h, "subscribe")
    /\ UNCHANGED <<kind, today, plan, rzp, queue, seen, invoices, credits>>

\* gateway.createSubscription.  A run has no more than MaxSubs of them.
Subscribe(h) ==
    /\ At(h, "subscribe")
    /\ \/ /\ Fresh # {}
          /\ rzp' = [rzp EXCEPT ![Next1].state = "open"]
          /\ task' = [task EXCEPT ![h].step = "insert", ![h].s = Next1]
       \/ /\ Down \/ Fresh = {}
          /\ Stop(h)
          /\ UNCHANGED rzp
    /\ UNCHANGED <<kind, today, sub, plan, queue, seen, invoices, credits>>

\* What the new subscription replaces: of a plan what is halted or open now, of
\* an add-on what was halted when it was read.
Retired(h) ==
    IF kind = "plan" THEN {s \in Subs : sub[s].status \in {"created", "halted"}} ELSE task[h].halted

\* One transaction: what is replaced, and the new row, which the unique indexes
\* can refuse.
Insert(h) ==
    LET s == task[h].s
        left == [i \in Subs |-> IF i \in Retired(h) THEN [sub[i] EXCEPT !.status = "cancelled"]
                                ELSE sub[i]]
    IN  /\ At(h, "insert")
        /\ IF Taken(left, s, task[h].tier) THEN Throw(h)
           ELSE /\ sub' = [left EXCEPT ![s] = [NoRow EXCEPT !.status = "created",
                                                 !.tier = task[h].tier, !.replaces = task[h].old]]
                /\ Go(h, "release")
                /\ UNCHANGED <<kind, today, plan, rzp, queue, seen, invoices, credits>>

\* Razorpay is asked to let go of what was halted, and the answer takes the
\* owner to the checkout.  That of a scheduled change is dropped.
Release(h) ==
    LET s == task[h].s
    IN  /\ At(h, "release")
        /\ \E stopped \in SUBSET {i \in task[h].halted : CanStop(i)} :
              /\ Down \/ stopped = {i \in task[h].halted : CanStop(i)}
              /\ rzp' = [i \in Subs |->
                            IF i \in stopped THEN [rzp[i] EXCEPT !.state = "cancelled"]
                            ELSE IF i = s THEN [rzp[i] EXCEPT !.shown = (task[h].by = "owner")]
                            ELSE rzp[i]]
              /\ queue' = [i \in Subs |-> IF i \in stopped THEN Append(queue[i], EndedEvent(i))
                                          ELSE queue[i]]
        /\ Stop(h)
        /\ UNCHANGED <<kind, today, sub, plan, seen, invoices, credits>>

-----------------------------------------------------------------------------
(* The owner and the administrator *)

\* They wait for the answer to one request before they send the next.
OwnerFree ==
    \/ "ownerTwice" \in Faults
    \/ \A h \in Handlers : task[h].by \notin {"owner", "admin"}

\* No checkout is started while another one was paid and is not active yet, or
\* is open for another tier.
MayBuy(tier) ==
    /\ "payReplaced" \in Uses \/ \A s \in Subs : sub[s].status = "created" => rzp[s].paid = 0
    /\ \/ kind = "plan" \/ "bothOpen" \in Uses
       \/ \A s \in Subs : sub[s].status = "created" => sub[s].tier = tier

\* subscribePlan, subscribeAddon
Buy(h, tier) ==
    /\ OwnerFree /\ MayBuy(tier) /\ Fresh # {}
    /\ Start(h, [Idle EXCEPT !.by = "owner", !.step = "browse", !.tier = tier])
    /\ UNCHANGED <<kind, today, sub, plan, rzp, queue, seen, invoices, credits>>

\* changePlan: one that is halted is bought again; a dearer plan starts now, a
\* cheaper one at the end of the period.
ChangePlan(h, s, tier) ==
    /\ kind = "plan" /\ "change" \in Uses /\ OwnerFree
    /\ \/ /\ sub[s].status = "halted" /\ MayBuy(tier) /\ Fresh # {}
          /\ Start(h, [Idle EXCEPT !.by = "owner", !.step = "browse", !.tier = tier])
       \/ /\ IsLive(s) /\ tier < sub[s].tier
          /\ Start(h, [Idle EXCEPT !.by = "owner", !.step = "stopAtEnd", !.s = s, !.tier = tier])
       \/ /\ IsLive(s) /\ tier > sub[s].tier /\ MayBuy(tier) /\ Fresh # {}
          /\ Start(h, [Idle EXCEPT !.by = "owner", !.step = "stopNow", !.s = s, !.tier = tier,
                                  !.credit = sub[s].end > today])
    /\ UNCHANGED <<kind, today, sub, plan, rzp, queue, seen, invoices, credits>>

\* changeAddon: the dearer tier is bought, and replaces this one once it is paid.
ChangeAddon(h, s, tier) ==
    /\ kind = "addon" /\ "change" \in Uses /\ OwnerFree
    /\ IsLive(s) /\ ~sub[s].admin /\ ~sub[s].ends
    /\ \/ /\ tier < sub[s].tier
          /\ Start(h, [Idle EXCEPT !.by = "owner", !.step = "stopAtEnd", !.s = s, !.tier = tier])
       \/ /\ tier > sub[s].tier /\ MayBuy(tier) /\ Fresh # {}
          /\ Start(h, [Idle EXCEPT !.by = "owner", !.step = "browse", !.tier = tier, !.old = s])
    /\ UNCHANGED <<kind, today, sub, plan, rzp, queue, seen, invoices, credits>>

\* cancelAtPeriodEnd
Cancel(h, s) ==
    /\ "cancel" \in Uses /\ OwnerFree
    /\ IsLive(s) /\ ~sub[s].ends /\ ~sub[s].admin
    /\ Start(h, [Idle EXCEPT !.by = "owner", !.step = "stopAtEnd", !.s = s])
    /\ UNCHANGED <<kind, today, sub, plan, rzp, queue, seen, invoices, credits>>

\* Razorpay stops at the end of its cycle; then the row says so.
StopAtEnd(h) ==
    LET s == task[h].s
    IN  /\ At(h, "stopAtEnd")
        /\ \/ /\ CanStop(s)
              /\ rzp' = [rzp EXCEPT ![s].ends = TRUE]
              /\ Go(h, IF task[h].tier = None THEN "markEnds" ELSE "schedule")
           \/ /\ Down \/ ~CanStop(s)
              /\ Stop(h)
              /\ UNCHANGED rzp
        /\ UNCHANGED <<kind, today, sub, plan, queue, seen, invoices, credits>>

MarkEnds(h) ==
    /\ At(h, "markEnds")
    /\ sub' = [sub EXCEPT ![task[h].s] = [@ EXCEPT !.ends = TRUE, !.scheduled = None]]
    /\ Stop(h)
    /\ UNCHANGED <<kind, today, plan, rzp, queue, seen, invoices, credits>>

Schedule(h) ==
    /\ At(h, "schedule")
    /\ sub' = [sub EXCEPT ![task[h].s] = [@ EXCEPT !.ends = FALSE,
                                                         !.scheduled = task[h].tier]]
    /\ Stop(h)
    /\ UNCHANGED <<kind, today, plan, rzp, queue, seen, invoices, credits>>

\* A mistake for a run to find: the old plan goes on being charged.
StopNowNever(h) ==
    /\ At(h, "stopNow")
    /\ Go(h, "drop")
    /\ UNCHANGED <<kind, today, sub, plan, rzp, queue, seen, invoices, credits>>

\* The upgrade of a plan: it stops at Razorpay, is cancelled, and credited for
\* what is left of its period, before the other one is bought.
StopNow(h) ==
    LET s == task[h].s
    IN  /\ At(h, "stopNow")
        /\ \/ CanStop(s) /\ StopCharging({s}) /\ Go(h, "drop")
           \/ (Down \/ ~CanStop(s)) /\ Stop(h) /\ UNCHANGED <<rzp, queue>>
        /\ UNCHANGED <<kind, today, sub, plan, seen, invoices, credits>>

Drop(h) ==
    /\ At(h, "drop")
    /\ sub' = Cancelled(task[h].s)
    /\ Go(h, IF task[h].credit THEN "credit" ELSE "browse")
    /\ UNCHANGED <<kind, today, plan, rzp, queue, seen, invoices, credits>>

Credit(h) ==
    /\ At(h, "credit")
    /\ credits' = [credits EXCEPT ![task[h].s] = @ + 1]
    /\ Go(h, "browse")
    /\ UNCHANGED <<kind, today, sub, plan, rzp, queue, seen, invoices>>

\* grantAddonByAdmin: what is open or halted gives way.
Grant(h, tier) ==
    /\ kind = "addon" /\ "grant" \in Uses /\ OwnerFree /\ MayBuy(tier) /\ Fresh # {}
    /\ ~\E s \in Subs : IsLive(s)
    /\ "grantHalted" \in Uses \/ ~\E s \in Subs : sub[s].status = "halted"
    /\ Start(h, [Idle EXCEPT !.by = "admin", !.step = "clear", !.tier = tier,
                   !.halted = {s \in Subs : sub[s].status \in {"created", "halted"}}])
    /\ UNCHANGED <<kind, today, sub, plan, rzp, queue, seen, invoices, credits>>

Clear(h) ==
    /\ At(h, "clear")
    /\ sub' = [s \in Subs |-> IF s \in task[h].halted THEN [sub[s] EXCEPT !.status = "cancelled"]
                              ELSE sub[s]]
    /\ Go(h, "grant")
    /\ UNCHANGED <<kind, today, plan, rzp, queue, seen, invoices, credits>>

GrantRow(h) ==
    /\ At(h, "grant")
    /\ IF Fresh = {} \/ Taken(sub, Next1, task[h].tier) THEN UNCHANGED sub
       ELSE sub' = [sub EXCEPT ![Next1] = [NoRow EXCEPT !.status = "active", !.tier = task[h].tier,
                                                       !.admin = TRUE]]
    /\ Stop(h)
    /\ UNCHANGED <<kind, today, plan, rzp, queue, seen, invoices, credits>>

\* revokeAddonGrant
Revoke(h, s) ==
    /\ "grant" \in Uses /\ OwnerFree
    /\ sub[s].admin /\ sub[s].status \in {"active", "past_due", "halted"}
    /\ Start(h, [Idle EXCEPT !.by = "admin", !.step = "end", !.s = s])
    /\ UNCHANGED <<kind, today, sub, plan, rzp, queue, seen, invoices, credits>>

-----------------------------------------------------------------------------
(* Razorpay, the customer, and time *)

Tell(s, type, charge, try) ==
    queue' = [queue EXCEPT ![s] = Append(@, [type |-> type, charge |-> charge, try |-> try])]

\* The first payment of s, told twice, first as type.
TellBoth(s, type) ==
    LET told(as) == [type |-> as, charge |-> 1, try |-> 0]
        other == IF type = "activated" THEN "charged" ELSE "activated"
    IN  queue' = [queue EXCEPT ![s] = Append(Append(@, told(type)), told(other))]

\* The customer pays a checkout, which takes longer than a request.  Without
\* "payReplaced" it is one whose row is still open.  Razorpay tells of it as
\* activated or as charged, or, with "toldTwice", as both, in either order.  The
\* browser calls back unless it was closed; without "chargedFirst" it was, when
\* what is told first is the charge.
Pay(s) ==
    /\ rzp[s].state = "open" /\ rzp[s].shown /\ MaxCharges > 0
    /\ \A h \in Handlers : At(h, "idle")
    /\ "payReplaced" \in Uses \/ sub[s].status = "created"
    /\ \E type \in {"activated", "charged"} :
          /\ \/ Tell(s, type, 1, 0)
             \/ "toldTwice" \in Faults /\ TellBoth(s, type)
          /\ rzp' = [rzp EXCEPT ![s] = [@ EXCEPT
                 !.state = "active", !.due = today + Period, !.paid = 1,
                 !.callback = (type = "activated" \/ "chargedFirst" \in Faults)]]
    /\ UNCHANGED <<kind, today, sub, plan, seen, invoices, credits, task>>

\* A charge falls due: it is made, also late, after attempts that failed.
Charge(s) ==
    /\ \/ rzp[s].state = "active" /\ rzp[s].due <= today /\ ~rzp[s].ends
       \/ rzp[s].state \in {"pending", "halted"}
    /\ rzp[s].paid < MaxCharges
    /\ rzp' = [rzp EXCEPT ![s] = [@ EXCEPT !.state = "active", !.due = today + Period,
                                          !.paid = rzp[s].paid + 1, !.tries = 0]]
    /\ Tell(s, "charged", rzp[s].paid + 1, 0)
    /\ UNCHANGED <<kind, today, sub, plan, seen, invoices, credits, task>>

Decline(s) ==
    /\ \/ rzp[s].state = "active" /\ rzp[s].due <= today /\ ~rzp[s].ends
       \/ rzp[s].state = "pending"
    /\ rzp[s].tries < MaxTries
    /\ rzp' = [rzp EXCEPT ![s].state = "pending", ![s].tries = @ + 1]
    /\ Tell(s, "pending", rzp[s].paid, rzp[s].tries + 1)
    /\ UNCHANGED <<kind, today, sub, plan, seen, invoices, credits, task>>

GiveUp(s) ==
    /\ rzp[s].state = "pending"
    /\ rzp' = [rzp EXCEPT ![s].state = "halted"]
    /\ Tell(s, "halted", rzp[s].paid, rzp[s].tries)
    /\ UNCHANGED <<kind, today, sub, plan, seen, invoices, credits, task>>

\* A cycle that is to be the last is over.
CycleEnds(s) ==
    /\ rzp[s].state = "active" /\ rzp[s].due <= today /\ rzp[s].ends
    /\ StopCharging({s})
    /\ UNCHANGED <<kind, today, sub, plan, seen, invoices, credits, task>>

\* A request takes seconds, a day passes between them; Razorpay acts on the day,
\* and a browser calls back on it or never.
Tick ==
    /\ today < MaxDay
    /\ \A h \in Handlers : At(h, "idle")
    /\ \A s \in Subs : /\ rzp[s].state = "active" => rzp[s].due > today
                      /\ Len(queue[s]) <= MaxLate
    /\ today' = today + 1
    /\ rzp' = [s \in Subs |-> [rzp[s] EXCEPT !.callback = FALSE]]
    /\ UNCHANGED <<kind, sub, plan, queue, seen, invoices, credits, task>>

Crash(h) ==
    /\ ~At(h, "idle")
    /\ \/ "crashAtEvent" \in Faults
       \/ /\ "crash" \in Faults
          /\ task[h].by \in {"owner", "admin", "read"} /\ task[h].step # "release"
    /\ Throw(h)

-----------------------------------------------------------------------------
Step(h) ==
    \/ ReadToActivate(h) \/ Activate(h) \/ SetPlan(h) \/ CancelReplaced(h) \/ Retire(h)
    \/ CreditReplaced(h) \/ Invoice(h) \/ Renew(h) \/ Fail(h) \/ Halt(h) \/ End(h)
    \/ EndToBuy(h) \/ Browse(h) \/ DropOpen(h) \/ Subscribe(h) \/ Insert(h) \/ Release(h)
    \/ StopAtEnd(h) \/ MarkEnds(h) \/ Schedule(h) \/ StopNow(h) \/ Drop(h) \/ Credit(h)
    \/ Clear(h) \/ GrantRow(h)

Next ==
    \/ Tick
    \/ \E s \in Subs : Pay(s) \/ Charge(s) \/ Decline(s) \/ GiveUp(s) \/ CycleEnds(s)
    \/ \E h \in Handlers :
          \/ Step(h) \/ Crash(h)
          \/ \E tier \in Tiers : Buy(h, tier) \/ Grant(h, tier)
          \/ \E s \in Subs : \/ Deliver(h, s) \/ Callback(h, s) \/ Overdue(h, s)
                            \/ Cancel(h, s) \/ Revoke(h, s)
          \/ \E s \in Subs, tier \in Tiers : ChangePlan(h, s, tier) \/ ChangeAddon(h, s, tier)

Spec == Init /\ [][Next]_vars

\* Requests go on, Razorpay delivers until it is acknowledged, and the
\* organisation is used, so that what is overdue is read.
Fairness ==
    /\ \A h \in Handlers : WF_vars(Step(h))
    /\ \A s \in Subs : SF_vars(\E h \in Handlers : Deliver(h, s))
    /\ \A s \in Subs : SF_vars(\E h \in Handlers : Overdue(h, s))

FairSpec == Spec /\ Fairness

-----------------------------------------------------------------------------
\* Nobody works on s.
Quiet(s) == \A h \in Handlers : task[h].s # s /\ task[h].old # s /\ task[h].row.replaces # s

\* Every charge Razorpay made is invoiced, and once, when its events were acknowledged,
\* its checkout will not call back and nobody works on it.  Deliveries, redeliveries,
\* the callback of the checkout and a charge on what was halted or replaced meanwhile
\* are among what it is checked for (handleRazorpayEvent, activateSubscription,
\* recordRenewal).  It takes a first payment of which Razorpay tells one event only,
\* whose callback is not served at the same moment and does not come before a charge,
\* and a server that does not stop at an event: with "toldTwice", "callbackRace",
\* "chargedFirst" or "crashAtEvent" it fails.
ChargesInvoicedOnce ==
    \A s \in Subs, n \in Charges :
        /\ invoices[s, n] <= 1
        /\ n > rzp[s].paid => invoices[s, n] = 0
        /\ n <= rzp[s].paid /\ queue[s] = <<>> /\ ~rzp[s].callback /\ Quiet(s) =>
              invoices[s, n] = 1

\* What is left of it however a first payment is told, and whatever is served at the
\* same moment: no charge goes without an invoice, none is invoiced before it is
\* made, and those after the first are invoiced once.
ChargesInvoiced ==
    \A s \in Subs, n \in Charges :
        /\ n > 1 => invoices[s, n] <= 1
        /\ n > rzp[s].paid => invoices[s, n] = 0
        /\ n <= rzp[s].paid /\ queue[s] = <<>> /\ ~rzp[s].callback /\ Quiet(s) =>
              invoices[s, n] > 0

\* What is charged is given: an active subscription runs at least as long as the
\* cycle that Razorpay was paid for, however late the charge was made or told
\* (recordRenewal adds to what is left, or starts today).
PaidTimeIsGiven ==
    \A s \in Subs : /\ sub[s].status = "active" /\ rzp[s].state = "active"
                   /\ queue[s] = <<>> /\ Quiet(s)
        => sub[s].end >= rzp[s].due

\* Nothing that has ended is charged again, once the requests at it are through
\* (changePlan, retireReplacedAddon, startCheckout and the read side end a row
\* only where Razorpay was told to stop).
EndedIsNotCharged ==
    \A s \in Subs : sub[s].status = "cancelled" /\ (\A h \in Handlers : At(h, "idle"))
        => rzp[s].state \in {"none", "open", "cancelled"} \/ rzp[s].ends

\* The organisation is on the plan it pays for (activateSubscription writes
\* tenants.plan after the row).
PlanInForce ==
    kind = "plan" => \A s \in Subs : IsLive(s) /\ Quiet(s) => plan = sub[s].tier

\* Charged from cycle to cycle, with nothing told that is still to be applied, and
\* with nobody at it.
Billed(s) == rzp[s].state = "active" /\ ~rzp[s].ends /\ queue[s] = <<>> /\ Quiet(s)

\* Never billed for two plans, or for a tier of an add-on and the one that was bought
\* in its place (retireReplacedAddon).
BilledOnce ==
    \A s, t \in Subs : s # t /\ (kind = "plan" \/ sub[s].replaces = t)
        => ~Billed(s) \/ ~Billed(t)

\* Never billed for two tiers of an add-on (lib/billing/addon-service.ts:9: "never
\* billed for both tiers").  With "bothOpen" it fails.
TiersBilledOnce ==
    kind = "addon" => \A s, t \in Subs : s # t => ~Billed(s) \/ ~Billed(t)

\* A subscription that was cancelled stays cancelled, and a grace deadline, once
\* set, is only lifted by a payment (recordRenewalFailure, recordRenewal).
OnlyForward ==
    [][\A s \in Subs : /\ sub[s].status = "cancelled" => sub'[s].status = "cancelled"
                       /\ sub[s].grace # None => \/ sub'[s].grace = sub[s].grace
                                                 \/ sub'[s].status = "active"]_vars

\* getEntitlements: what the organisation may do with its plan.
ReadOnly ==
    IF \E s \in Subs : IsLive(s) \/ sub[s].status = "halted"
    THEN \E s \in Subs : sub[s].status = "halted" \/ GraceOver(sub[s])
    ELSE \E s \in Subs : sub[s].status = "cancelled"

\* An organisation whose plan Razorpay has given up on becomes read-only, unless
\* it is paid after all or changes (haltSubscription, deriveAccess).
UnpaidGoesReadOnly ==
    \A s \in Subs : rzp[s].state = "halted" ~> (ReadOnly \/ rzp[s].state # "halted" \/ ~IsLive(s))

\* What Razorpay has stopped ends here too, whoever told it to, and whatever is
\* being done with the row meanwhile (endSubscription).
EndsHereToo == \A s \in Subs : rzp[s].state = "cancelled" ~> sub[s].status = "cancelled"
=============================================================================
