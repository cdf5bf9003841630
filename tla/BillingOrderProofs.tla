------------------------- MODULE BillingOrderProofs -------------------------
(***************************************************************************)
(* Proofs about Billing, for any number of subscriptions, tiers, charges,  *)
(* handlers and days: its rows go forward only, the plan that is paid is   *)
(* in force, what has ended is not charged, what is charged is invoiced    *)
(* once, and nobody is billed for two plans.                               *)
(*                                                                         *)
(* A step is first told by what it may do to a handler, a row, a           *)
(* subscription at Razorpay and its events, instead of by its action.      *)
(* The invariant that every theorem needs (Core) is about who works on     *)
(* which row, and what is on its way, when a row is shown to be payable,   *)
(* paid and in force; PlanInv, EndInv, InvoiceInv and BilledInv add to     *)
(* it.                                                                     *)
(***************************************************************************)
EXTENDS BillingProofs

-----------------------------------------------------------------------------
(* What a step can do to a handler, a row, a subscription and its events.  *)

Passes(h, from, to) == task[h].step = from /\ task'[h].step = to

\* A request goes on with its next step.
GoesOn(h) ==
    /\ Others(h) /\ task'[h].by = task[h].by /\ task'[h].event = task[h].event
    /\ task'[h].tier = task[h].tier /\ task'[h].old = task[h].old
    /\ task[h].step # "browse" => task'[h].halted = task[h].halted
    /\ task[h].step # "subscribe" => task'[h].s = task[h].s
    /\ task[h].step # "readToActivate" => task'[h].row = task[h].row
    /\ \/ /\ Passes(h, "readToActivate", "activate") /\ task'[h].row = sub[task[h].s]
          /\ sub[task[h].s].status \notin {"active", "cancelled"} /\ UNCHANGED sub
       \/ task[h].step = "activate" /\ task'[h].step = AfterActivate(task[h].row)
       \/ Passes(h, "setPlan", "invoice") /\ plan' = task[h].row.tier
       \/ Passes(h, "cancelReplaced", "invoice") /\ sub[task[h].row.replaces].status = "cancelled"
       \/ /\ Passes(h, "cancelReplaced", "retire")
          /\ Down \/ ~CanStop(task[h].row.replaces) \/ rzp'[task[h].row.replaces].state = "cancelled"
       \/ Passes(h, "retire", "creditReplaced") \/ Passes(h, "retire", "invoice")
       \/ Passes(h, "creditReplaced", "invoice")
       \/ Passes(h, "renew", "invoice")
       \/ Passes(h, "endToBuy", "browse")
       \/ /\ task[h].step = "browse" /\ ~Blocked(task[h].old) /\ UNCHANGED sub
          /\ task'[h].step = IF kind = "plan" THEN "subscribe" ELSE "dropOpen"
          /\ task'[h].halted = {s \in Subs : sub[s].status = "halted"}
       \/ /\ Passes(h, "dropOpen", "subscribe")
          /\ \A s \in Subs : sub[s].status = "created" /\ sub[s].tier = task[h].tier =>
                sub'[s].status = "cancelled"
       \/ Passes(h, "subscribe", "insert") /\ task'[h].s \in Fresh
       \/ /\ Passes(h, "insert", "release")
          /\ \A s \in Retired(h) : s # task[h].s => sub'[s].status = "cancelled"
       \/ /\ task[h].step = "stopAtEnd" /\ rzp'[task[h].s].ends = TRUE
          /\ task'[h].step = IF task[h].tier = None THEN "markEnds" ELSE "schedule"
       \/ Passes(h, "stopNow", "drop") /\ rzp'[task[h].s].state = "cancelled"
       \/ Passes(h, "drop", "credit") \/ Passes(h, "drop", "browse")
       \/ Passes(h, "credit", "browse")
       \/ /\ Passes(h, "clear", "grant")
          /\ \A s \in task[h].halted : sub'[s].status = "cancelled"

\* What it starts with.
Starts(h) ==
    LET s == task'[h].s
        t == task'[h]
    IN  /\ Others(h) /\ task[h].step = "idle" /\ UNCHANGED <<kind, today, sub, plan, queue>>
        /\ \/ /\ t.by = "webhook" /\ s \in Subs /\ queue[s] # <<>> /\ ~seen[s] /\ NoRace(s)
              /\ t.event = Head(queue[s]) /\ t.row = sub[s] /\ t.step = FirstStep(t.event, t.row)
              /\ t.old = None /\ t.halted = {} /\ seen'[s] = TRUE /\ UNCHANGED rzp
           \/ /\ t.by = "callback" /\ s \in Subs /\ rzp[s].callback /\ NoRace(s)
              /\ t.step = "readToActivate" /\ t.event.type = "activated" /\ t.event.charge = 1
              /\ t.row = NoRow /\ t.old = None /\ t.halted = {}
           \/ /\ t.by = "read" /\ s \in Subs /\ IsLive(s) /\ t.row = sub[s] /\ t.old = None
              /\ t.tier = sub[s].scheduled /\ t.halted = {} /\ UNCHANGED rzp
              /\ \/ t.step = "halt" /\ GraceOver(sub[s])
                 \/ t.step = "end" /\ sub[s].ends
                 \/ t.step = "endToBuy" /\ sub[s].scheduled \in Tiers
           \/ /\ t.by = "owner" /\ OwnerFree /\ t.halted = {} /\ t.row = NoRow /\ UNCHANGED rzp
              /\ \/ /\ t.step = "browse" /\ t.tier \in Tiers /\ MayBuy(t.tier)
                    /\ t.old # None => /\ kind = "addon" /\ t.old \in Subs /\ IsLive(t.old)
                                      /\ sub[t.old].tier < t.tier
                 \/ /\ t.step = "stopNow" /\ kind = "plan" /\ MayBuy(t.tier) /\ s \in Subs
                    /\ IsLive(s) /\ t.old = None
                 \/ /\ t.step = "stopAtEnd" /\ s \in Subs /\ IsLive(s) /\ t.old = None
                    /\ t.tier # None => t.tier < sub[s].tier
           \/ /\ t.by = "admin" /\ OwnerFree /\ t.row = NoRow /\ t.old = None /\ UNCHANGED rzp
              /\ \/ /\ t.step = "clear" /\ kind = "addon" /\ MayBuy(t.tier)
                    /\ \A i \in Subs : ~IsLive(i)
                    /\ "grantHalted" \in Uses \/ \A i \in Subs : sub[i].status # "halted"
                    /\ t.halted = {i \in Subs : sub[i].status \in {"created", "halted"}}
                 \/ t.step = "end" /\ s \in Subs /\ sub[s].admin /\ t.halted = {}

HandlerMoves(h) == task'[h] = task[h] \/ Leaves(h) \/ GoesOn(h) \/ Starts(h)

LEMMA HandlersMove ==
    ASSUME TypeInv, [Next]_vars
    PROVE  \A k \in Handlers : HandlerMoves(k)
<1>1. ASSUME Tick PROVE \A k \in Handlers : HandlerMoves(k)
  BY <1>1, TickDoes DEF HandlerMoves
<1>2. ASSUME NEW s \in Subs, Pay(s) PROVE \A k \in Handlers : HandlerMoves(k)
  BY <1>2, PayDoes DEF HandlerMoves
<1>3. ASSUME NEW s \in Subs, Charge(s) PROVE \A k \in Handlers : HandlerMoves(k)
  BY <1>3, ChargeDoes DEF HandlerMoves
<1>4. ASSUME NEW s \in Subs, Decline(s) PROVE \A k \in Handlers : HandlerMoves(k)
  BY <1>4, DeclineDoes DEF HandlerMoves
<1>5. ASSUME NEW s \in Subs, GiveUp(s) PROVE \A k \in Handlers : HandlerMoves(k)
  BY <1>5, GiveUpDoes DEF HandlerMoves
<1>6. ASSUME NEW s \in Subs, CycleEnds(s) PROVE \A k \in Handlers : HandlerMoves(k)
  BY <1>6, CycleEndsDoes DEF HandlerMoves
<1>7. ASSUME NEW h \in Handlers, ReadToActivate(h) PROVE \A k \in Handlers : HandlerMoves(k)
  <2> SUFFICES HandlerMoves(h) /\ Others(h)
    BY DEF HandlerMoves, Others
  <2>1. CASE Leaves(h)
    BY <2>1 DEF HandlerMoves, Leaves
  <2>2. CASE ~Leaves(h)
    <3>1. GoesOn(h)
      BY <1>7, <2>2, ReadToActivateDoes DEF GoesOn, Passes, Moves, Kept, Answers
    <3> QED
      BY <3>1 DEF HandlerMoves, GoesOn
  <2> QED
    BY <2>1, <2>2
<1>8. ASSUME NEW h \in Handlers, Activate(h) PROVE \A k \in Handlers : HandlerMoves(k)
  <2> SUFFICES HandlerMoves(h) /\ Others(h)
    BY DEF HandlerMoves, Others
  <2>1. CASE Leaves(h)
    BY <2>1 DEF HandlerMoves, Leaves
  <2>2. CASE ~Leaves(h)
    <3>1. GoesOn(h)
      BY <1>8, <2>2, ActivateDoes DEF GoesOn, Passes, Moves, Kept, Answers
    <3> QED
      BY <3>1 DEF HandlerMoves, GoesOn
  <2> QED
    BY <2>1, <2>2
<1>9. ASSUME NEW h \in Handlers, SetPlan(h) PROVE \A k \in Handlers : HandlerMoves(k)
  <2> SUFFICES HandlerMoves(h) /\ Others(h)
    BY DEF HandlerMoves, Others
  <2>1. CASE Leaves(h)
    BY <2>1 DEF HandlerMoves, Leaves
  <2>2. CASE ~Leaves(h)
    <3>1. GoesOn(h)
      BY <1>9, <2>2, SetPlanDoes DEF GoesOn, Passes, Moves, Kept, Answers
    <3> QED
      BY <3>1 DEF HandlerMoves, GoesOn
  <2> QED
    BY <2>1, <2>2
<1>10. ASSUME NEW h \in Handlers, CancelReplaced(h) PROVE \A k \in Handlers : HandlerMoves(k)
  <2> SUFFICES HandlerMoves(h) /\ Others(h)
    BY DEF HandlerMoves, Others
  <2>1. CASE Leaves(h)
    BY <2>1 DEF HandlerMoves, Leaves
  <2>2. CASE ~Leaves(h)
    <3>1. task'[h].step = "retire" => Down \/ ~CanStop(task[h].row.replaces) \/ rzp'[task[h].row.replaces].state = "cancelled"
      BY <1>10, <2>2, CancelReplacedDoes DEF Stopped, EndsAt, Moves
    <3>2. GoesOn(h)
      BY <1>10, <2>2, <3>1, CancelReplacedDoes DEF GoesOn, Passes, Moves, Kept
    <3> QED
      BY <3>2 DEF HandlerMoves, GoesOn
  <2> QED
    BY <2>1, <2>2
<1>11. ASSUME NEW h \in Handlers, Retire(h) PROVE \A k \in Handlers : HandlerMoves(k)
  <2> SUFFICES HandlerMoves(h) /\ Others(h)
    BY DEF HandlerMoves, Others
  <2>1. CASE Leaves(h)
    BY <2>1 DEF HandlerMoves, Leaves
  <2>2. CASE ~Leaves(h)
    <3>1. GoesOn(h)
      BY <1>11, <2>2, RetireDoes DEF GoesOn, Passes, Moves, Kept, Answers
    <3> QED
      BY <3>1 DEF HandlerMoves, GoesOn
  <2> QED
    BY <2>1, <2>2
<1>12. ASSUME NEW h \in Handlers, CreditReplaced(h) PROVE \A k \in Handlers : HandlerMoves(k)
  <2> SUFFICES HandlerMoves(h) /\ Others(h)
    BY DEF HandlerMoves, Others
  <2>1. CASE Leaves(h)
    BY <2>1 DEF HandlerMoves, Leaves
  <2>2. CASE ~Leaves(h)
    <3>1. GoesOn(h)
      BY <1>12, <2>2, CreditReplacedDoes DEF GoesOn, Passes, Moves, Kept, Answers
    <3> QED
      BY <3>1 DEF HandlerMoves, GoesOn
  <2> QED
    BY <2>1, <2>2
<1>13. ASSUME NEW h \in Handlers, Invoice(h) PROVE \A k \in Handlers : HandlerMoves(k)
  <2> SUFFICES HandlerMoves(h) /\ Others(h)
    BY DEF HandlerMoves, Others
  <2>1. Leaves(h)
    BY <1>13, InvoiceDoes DEF Answers
  <2> QED
    BY <2>1 DEF HandlerMoves, Leaves
<1>14. ASSUME NEW h \in Handlers, Renew(h) PROVE \A k \in Handlers : HandlerMoves(k)
  <2> SUFFICES HandlerMoves(h) /\ Others(h)
    BY DEF HandlerMoves, Others
  <2>1. CASE Leaves(h)
    BY <2>1 DEF HandlerMoves, Leaves
  <2>2. CASE ~Leaves(h)
    <3>1. GoesOn(h)
      BY <1>14, <2>2, RenewDoes DEF GoesOn, Passes, Moves, Kept, Answers
    <3> QED
      BY <3>1 DEF HandlerMoves, GoesOn
  <2> QED
    BY <2>1, <2>2
<1>15. ASSUME NEW h \in Handlers, Fail(h) PROVE \A k \in Handlers : HandlerMoves(k)
  <2> SUFFICES HandlerMoves(h) /\ Others(h)
    BY DEF HandlerMoves, Others
  <2>1. Leaves(h)
    BY <1>15, FailDoes DEF Answers
  <2> QED
    BY <2>1 DEF HandlerMoves, Leaves
<1>16. ASSUME NEW h \in Handlers, Halt(h) PROVE \A k \in Handlers : HandlerMoves(k)
  <2> SUFFICES HandlerMoves(h) /\ Others(h)
    BY DEF HandlerMoves, Others
  <2>1. Leaves(h)
    BY <1>16, HaltDoes DEF Answers
  <2> QED
    BY <2>1 DEF HandlerMoves, Leaves
<1>17. ASSUME NEW h \in Handlers, End(h) PROVE \A k \in Handlers : HandlerMoves(k)
  <2> SUFFICES HandlerMoves(h) /\ Others(h)
    BY DEF HandlerMoves, Others
  <2>1. Leaves(h)
    BY <1>17, EndDoes DEF Answers
  <2> QED
    BY <2>1 DEF HandlerMoves, Leaves
<1>18. ASSUME NEW h \in Handlers, EndToBuy(h) PROVE \A k \in Handlers : HandlerMoves(k)
  <2> SUFFICES HandlerMoves(h) /\ Others(h)
    BY DEF HandlerMoves, Others
  <2>1. CASE Leaves(h)
    BY <2>1 DEF HandlerMoves, Leaves
  <2>2. CASE ~Leaves(h)
    <3>1. GoesOn(h)
      BY <1>18, <2>2, EndToBuyDoes DEF GoesOn, Passes, Moves, Kept, Answers
    <3> QED
      BY <3>1 DEF HandlerMoves, GoesOn
  <2> QED
    BY <2>1, <2>2
<1>19. ASSUME NEW h \in Handlers, Browse(h) PROVE \A k \in Handlers : HandlerMoves(k)
  <2> SUFFICES HandlerMoves(h) /\ Others(h)
    BY DEF HandlerMoves, Others
  <2>1. CASE Leaves(h)
    BY <2>1 DEF HandlerMoves, Leaves
  <2>2. CASE ~Leaves(h)
    <3>1. GoesOn(h)
      BY <1>19, <2>2, BrowseDoes DEF GoesOn, Passes, Moves, Kept, Answers
    <3> QED
      BY <3>1 DEF HandlerMoves, GoesOn
  <2> QED
    BY <2>1, <2>2
<1>20. ASSUME NEW h \in Handlers, DropOpen(h) PROVE \A k \in Handlers : HandlerMoves(k)
  <2> SUFFICES HandlerMoves(h) /\ Others(h)
    BY DEF HandlerMoves, Others
  <2>1. CASE Leaves(h)
    BY <2>1 DEF HandlerMoves, Leaves
  <2>2. CASE ~Leaves(h)
    <3>1. \A s \in Subs : sub[s].status = "created" /\ sub[s].tier = task[h].tier =>
           sub'[s].status = "cancelled"
      BY <1>20, <2>2, DropOpenDoes, AtStep DEF Cancels
    <3>2. GoesOn(h)
      BY <1>20, <2>2, <3>1, DropOpenDoes DEF GoesOn, Passes, Moves, Kept
    <3> QED
      BY <3>2 DEF HandlerMoves, GoesOn
  <2> QED
    BY <2>1, <2>2
<1>21. ASSUME NEW h \in Handlers, Subscribe(h) PROVE \A k \in Handlers : HandlerMoves(k)
  <2> SUFFICES HandlerMoves(h) /\ Others(h)
    BY DEF HandlerMoves, Others
  <2>1. CASE Leaves(h)
    BY <2>1 DEF HandlerMoves, Leaves
  <2>2. CASE ~Leaves(h)
    <3>1. GoesOn(h)
      BY <1>21, <2>2, SubscribeDoes DEF GoesOn, Passes, Moves, Kept, Answers
    <3> QED
      BY <3>1 DEF HandlerMoves, GoesOn
  <2> QED
    BY <2>1, <2>2
<1>22. ASSUME NEW h \in Handlers, Insert(h) PROVE \A k \in Handlers : HandlerMoves(k)
  <2> SUFFICES HandlerMoves(h) /\ Others(h)
    BY DEF HandlerMoves, Others
  <2>1. CASE Leaves(h)
    BY <2>1 DEF HandlerMoves, Leaves
  <2>2. CASE ~Leaves(h)
    <3>1. \A s \in Retired(h) : s # task[h].s => sub'[s].status = "cancelled"
      BY <1>22, <2>2, InsertDoes, AtStep DEF Cancels
    <3>2. GoesOn(h)
      BY <1>22, <2>2, <3>1, InsertDoes DEF GoesOn, Passes, Moves, Kept
    <3> QED
      BY <3>2 DEF HandlerMoves, GoesOn
  <2> QED
    BY <2>1, <2>2
<1>23. ASSUME NEW h \in Handlers, Release(h) PROVE \A k \in Handlers : HandlerMoves(k)
  <2> SUFFICES HandlerMoves(h) /\ Others(h)
    BY DEF HandlerMoves, Others
  <2>1. Leaves(h)
    BY <1>23, ReleaseDoes
  <2> QED
    BY <2>1 DEF HandlerMoves, Leaves
<1>24. ASSUME NEW h \in Handlers, StopAtEnd(h) PROVE \A k \in Handlers : HandlerMoves(k)
  <2> SUFFICES HandlerMoves(h) /\ Others(h)
    BY DEF HandlerMoves, Others
  <2>1. CASE Leaves(h)
    BY <2>1 DEF HandlerMoves, Leaves
  <2>2. CASE ~Leaves(h)
    <3>1. GoesOn(h)
      BY <1>24, <2>2, StopAtEndDoes DEF GoesOn, Passes, Moves, Kept, Answers
    <3> QED
      BY <3>1 DEF HandlerMoves, GoesOn
  <2> QED
    BY <2>1, <2>2
<1>25. ASSUME NEW h \in Handlers, MarkEnds(h) PROVE \A k \in Handlers : HandlerMoves(k)
  <2> SUFFICES HandlerMoves(h) /\ Others(h)
    BY DEF HandlerMoves, Others
  <2>1. Leaves(h)
    BY <1>25, MarkEndsDoes
  <2> QED
    BY <2>1 DEF HandlerMoves, Leaves
<1>26. ASSUME NEW h \in Handlers, Schedule(h) PROVE \A k \in Handlers : HandlerMoves(k)
  <2> SUFFICES HandlerMoves(h) /\ Others(h)
    BY DEF HandlerMoves, Others
  <2>1. Leaves(h)
    BY <1>26, ScheduleDoes
  <2> QED
    BY <2>1 DEF HandlerMoves, Leaves
<1>27. ASSUME NEW h \in Handlers, StopNow(h) PROVE \A k \in Handlers : HandlerMoves(k)
  <2> SUFFICES HandlerMoves(h) /\ Others(h)
    BY DEF HandlerMoves, Others
  <2>1. CASE Leaves(h)
    BY <2>1 DEF HandlerMoves, Leaves
  <2>2. CASE ~Leaves(h)
    <3>1. task'[h].step = "drop" => rzp'[task[h].s].state = "cancelled"
      BY <1>27, <2>2, StopNowDoes DEF Stopped, EndsAt, Moves
    <3>2. GoesOn(h)
      BY <1>27, <2>2, <3>1, StopNowDoes DEF GoesOn, Passes, Moves, Kept
    <3> QED
      BY <3>2 DEF HandlerMoves, GoesOn
  <2> QED
    BY <2>1, <2>2
<1>28. ASSUME NEW h \in Handlers, Drop(h) PROVE \A k \in Handlers : HandlerMoves(k)
  <2> SUFFICES HandlerMoves(h) /\ Others(h)
    BY DEF HandlerMoves, Others
  <2>1. CASE Leaves(h)
    BY <2>1 DEF HandlerMoves, Leaves
  <2>2. CASE ~Leaves(h)
    <3>1. GoesOn(h)
      BY <1>28, <2>2, DropDoes DEF GoesOn, Passes, Moves, Kept, Answers
    <3> QED
      BY <3>1 DEF HandlerMoves, GoesOn
  <2> QED
    BY <2>1, <2>2
<1>29. ASSUME NEW h \in Handlers, Credit(h) PROVE \A k \in Handlers : HandlerMoves(k)
  <2> SUFFICES HandlerMoves(h) /\ Others(h)
    BY DEF HandlerMoves, Others
  <2>1. CASE Leaves(h)
    BY <2>1 DEF HandlerMoves, Leaves
  <2>2. CASE ~Leaves(h)
    <3>1. GoesOn(h)
      BY <1>29, <2>2, CreditDoes DEF GoesOn, Passes, Moves, Kept, Answers
    <3> QED
      BY <3>1 DEF HandlerMoves, GoesOn
  <2> QED
    BY <2>1, <2>2
<1>30. ASSUME NEW h \in Handlers, Clear(h) PROVE \A k \in Handlers : HandlerMoves(k)
  <2> SUFFICES HandlerMoves(h) /\ Others(h)
    BY DEF HandlerMoves, Others
  <2>1. CASE Leaves(h)
    BY <2>1 DEF HandlerMoves, Leaves
  <2>2. CASE ~Leaves(h)
    <3>1. \A s \in task[h].halted : sub'[s].status = "cancelled"
      BY <1>30, <2>2, ClearDoes, AtStep DEF Cancels
    <3>2. GoesOn(h)
      BY <1>30, <2>2, <3>1, ClearDoes DEF GoesOn, Passes, Moves, Kept
    <3> QED
      BY <3>2 DEF HandlerMoves, GoesOn
  <2> QED
    BY <2>1, <2>2
<1>31. ASSUME NEW h \in Handlers, GrantRow(h) PROVE \A k \in Handlers : HandlerMoves(k)
  <2> SUFFICES HandlerMoves(h) /\ Others(h)
    BY DEF HandlerMoves, Others
  <2>1. Leaves(h)
    BY <1>31, GrantRowDoes
  <2> QED
    BY <2>1 DEF HandlerMoves, Leaves
<1>32. ASSUME NEW h \in Handlers, Crash(h) PROVE \A k \in Handlers : HandlerMoves(k)
  <2> SUFFICES HandlerMoves(h) /\ Others(h)
    BY DEF HandlerMoves, Others
  <2>1. Leaves(h)
    BY <1>32, CrashDoes
  <2> QED
    BY <2>1 DEF HandlerMoves, Leaves
<1>33. ASSUME NEW h \in Handlers, NEW tier \in Tiers, Buy(h, tier) PROVE \A k \in Handlers :
   HandlerMoves(k)
  <2> SUFFICES HandlerMoves(h) /\ Others(h)
    BY DEF HandlerMoves, Others
  <2>1. Starts(h)
    BY <1>33, BuyDoes, Bounds DEF Starts, Begins
  <2> QED
    BY <2>1 DEF HandlerMoves, Starts
<1>34. ASSUME NEW h \in Handlers, NEW tier \in Tiers, Grant(h, tier) PROVE \A k \in Handlers :
   HandlerMoves(k)
  <2> SUFFICES HandlerMoves(h) /\ Others(h)
    BY DEF HandlerMoves, Others
  <2>1. Starts(h)
    BY <1>34, GrantDoes, Bounds DEF Starts, Begins
  <2> QED
    BY <2>1 DEF HandlerMoves, Starts
<1>35. ASSUME NEW h \in Handlers, NEW s \in Subs, Deliver(h, s) PROVE \A k \in Handlers :
   HandlerMoves(k)
  <2>1. CASE seen[s]
    BY <1>35, <2>1, DeliverSeen DEF HandlerMoves
  <2>2. CASE ~seen[s]
    <3>0. NoRace(s)
      BY <1>35, DeliverDoes, ZenonT(60)
    <3>1. Starts(h)
      BY <1>35, <2>2, <3>0, DeliverNew, ZenonT(60) DEF Starts
    <3> QED
      BY <3>1 DEF HandlerMoves, Starts, Others
  <2> QED
    BY <2>1, <2>2
<1>36. ASSUME NEW h \in Handlers, NEW s \in Subs, Callback(h, s) PROVE \A k \in Handlers :
   HandlerMoves(k)
  <2> SUFFICES HandlerMoves(h) /\ Others(h)
    BY DEF HandlerMoves, Others
  <2> DEFINE e == [type |-> "activated", charge |-> 1, try |-> 0]
  <2>1. e.type = "activated" /\ e.charge = 1
    OBVIOUS
  <2>2. /\ rzp[s].callback /\ NoRace(s) /\ UNCHANGED <<kind, today, sub, plan, queue>>
        /\ Begins(h, "callback", "readToActivate", s, NoRow, e, None, None, {})
    BY <1>36, CallbackDoes
  <2> HIDE DEF e
  <2>3. Starts(h)
    BY <2>1, <2>2 DEF Starts, Begins
  <2> QED
    BY <2>3 DEF HandlerMoves, Starts
<1>37. ASSUME NEW h \in Handlers, NEW s \in Subs, Overdue(h, s) PROVE \A k \in Handlers :
   HandlerMoves(k)
  <2> SUFFICES HandlerMoves(h) /\ Others(h)
    BY DEF HandlerMoves, Others
  <2>1. Starts(h)
    BY <1>37, OverdueDoes, Bounds DEF Starts, Begins
  <2> QED
    BY <2>1 DEF HandlerMoves, Starts
<1>38. ASSUME NEW h \in Handlers, NEW s \in Subs, Cancel(h, s) PROVE \A k \in Handlers :
   HandlerMoves(k)
  <2> SUFFICES HandlerMoves(h) /\ Others(h)
    BY DEF HandlerMoves, Others
  <2>1. Starts(h)
    BY <1>38, CancelDoes, Bounds DEF Starts, Begins
  <2> QED
    BY <2>1 DEF HandlerMoves, Starts
<1>39. ASSUME NEW h \in Handlers, NEW s \in Subs, Revoke(h, s) PROVE \A k \in Handlers :
   HandlerMoves(k)
  <2> SUFFICES HandlerMoves(h) /\ Others(h)
    BY DEF HandlerMoves, Others
  <2>1. Starts(h)
    BY <1>39, RevokeDoes, Bounds DEF Starts, Begins
  <2> QED
    BY <2>1 DEF HandlerMoves, Starts
<1>40. ASSUME NEW h \in Handlers, NEW s \in Subs, NEW tier \in Tiers, ChangePlan(h, s, tier) PROVE
   \A k \in Handlers : HandlerMoves(k)
  <2> SUFFICES HandlerMoves(h) /\ Others(h)
    BY DEF HandlerMoves, Others
  <2>1. Starts(h)
    BY <1>40, ChangePlanDoes, Bounds DEF Starts, Begins
  <2> QED
    BY <2>1 DEF HandlerMoves, Starts
<1>41. ASSUME NEW h \in Handlers, NEW s \in Subs, NEW tier \in Tiers, ChangeAddon(h, s, tier)
   PROVE \A k \in Handlers : HandlerMoves(k)
  <2> SUFFICES HandlerMoves(h) /\ Others(h)
    BY DEF HandlerMoves, Others
  <2>1. Starts(h)
    BY <1>41, ChangeAddonDoes, Bounds DEF Starts, Begins
  <2> QED
    BY <2>1 DEF HandlerMoves, Starts
<1>42. CASE UNCHANGED vars
  BY <1>42 DEF vars, HandlerMoves
<1> QED
  BY <1>1, <1>2, <1>3, <1>4, <1>5, <1>6, <1>7, <1>8, <1>9, <1>10, <1>11, <1>12, <1>13, <1>14,
     <1>15, <1>16, <1>17, <1>18, <1>19, <1>20, <1>21, <1>22, <1>23, <1>24, <1>25, <1>26, <1>27,
     <1>28, <1>29, <1>30, <1>31, <1>32, <1>33, <1>34, <1>35, <1>36, <1>37, <1>38, <1>39, <1>40,
     <1>41, <1>42 DEF Next, Step

\* It acts, and nobody else.
Acts(h) == Others(h) /\ task'[h].step # task[h].step

\* What was sold ends.
Cancelling(s) ==
    /\ Cancels(s)
    /\ \E h \in Handlers :
          /\ Acts(h)
          /\ \/ task[h].step \in {"end", "endToBuy", "drop"} /\ task[h].s = s
             \/ task[h].step = "retire" /\ task[h].row.replaces = s
             \/ task[h].step = "dropOpen" /\ sub[s].status = "created" /\ sub[s].tier = task[h].tier
             \/ Passes(h, "insert", "release") /\ s \in Retired(h) /\ s # task[h].s
             \/ task[h].step = "clear" /\ s \in task[h].halted

\* It is activated, renewed, or found unpaid, or its owner changes what becomes of it.
Updating(s) ==
    /\ Terms(s)
    /\ \E h \in Handlers :
          /\ Acts(h) /\ task[h].s = s
          /\ \/ /\ task[h].step = "activate" /\ sub'[s].status = "active" /\ Plans(s)
                /\ sub'[s].grace = None /\ sub'[s].end = today + Period
             \/ /\ task[h].step = "renew" /\ sub'[s].status = "active" /\ Plans(s)
                /\ Revivable(s, task[h].row) /\ sub'[s].grace = None
             \/ /\ task[h].step = "fail" /\ sub'[s].status = "past_due" /\ Plans(s)
                /\ IsLive(s) /\ sub'[s].grace = GraceOf(task[h].row)
             \/ /\ task[h].step = "halt" /\ sub'[s].status = "halted" /\ Plans(s)
                /\ IsLive(s) /\ Dates(s)
             \/ /\ task[h].step = "markEnds" /\ sub'[s].status = sub[s].status /\ Dates(s)
                /\ sub'[s].ends = TRUE /\ sub'[s].scheduled = None
             \/ /\ task[h].step = "schedule" /\ sub'[s].status = sub[s].status /\ Dates(s)
                /\ sub'[s].ends = FALSE /\ sub'[s].scheduled = task[h].tier

RowMoves(s) ==
    \/ sub'[s] = sub[s]
    \/ sub[s].status = "none" /\ (Inserted(s) \/ Granted(s))
    \/ Cancelling(s)
    \/ Updating(s)

LEMMA RowsMove ==
    ASSUME Struct, [Next]_vars
    PROVE  \A t \in Subs : RowMoves(t)
<1>1. ASSUME Tick PROVE \A t \in Subs : RowMoves(t)
  <2>1. sub' = sub
    BY <1>1, TickDoes DEF Struct
  <2> QED
    BY <2>1 DEF RowMoves
<1>2. ASSUME NEW s \in Subs, Pay(s) PROVE \A t \in Subs : RowMoves(t)
  <2>1. sub' = sub
    BY <1>2, PayDoes DEF Struct
  <2> QED
    BY <2>1 DEF RowMoves
<1>3. ASSUME NEW s \in Subs, Charge(s) PROVE \A t \in Subs : RowMoves(t)
  <2>1. sub' = sub
    BY <1>3, ChargeDoes DEF Struct
  <2> QED
    BY <2>1 DEF RowMoves
<1>4. ASSUME NEW s \in Subs, Decline(s) PROVE \A t \in Subs : RowMoves(t)
  <2>1. sub' = sub
    BY <1>4, DeclineDoes DEF Struct
  <2> QED
    BY <2>1 DEF RowMoves
<1>5. ASSUME NEW s \in Subs, GiveUp(s) PROVE \A t \in Subs : RowMoves(t)
  <2>1. sub' = sub
    BY <1>5, GiveUpDoes DEF Struct
  <2> QED
    BY <2>1 DEF RowMoves
<1>6. ASSUME NEW s \in Subs, CycleEnds(s) PROVE \A t \in Subs : RowMoves(t)
  <2>1. sub' = sub
    BY <1>6, CycleEndsDoes DEF Struct
  <2> QED
    BY <2>1 DEF RowMoves
<1>7. ASSUME NEW h \in Handlers, ReadToActivate(h) PROVE \A t \in Subs : RowMoves(t)
  <2>1. sub' = sub
    BY <1>7, ReadToActivateDoes DEF Struct
  <2> QED
    BY <2>1 DEF RowMoves
<1>8. ASSUME NEW h \in Handlers, Activate(h) PROVE \A t \in Subs : RowMoves(t)
  <2>0. TypeInv /\ NewRows
    BY NewRowsAlways DEF Struct
  <2> SUFFICES ASSUME NEW t \in Subs, sub'[t] # sub[t] PROVE RowMoves(t)
    BY DEF RowMoves
  <2>1. Acts(h)
    BY <1>8, <2>0, ActivateDoes, IdleTyped DEF AfterActivate, Answers, Leaves, Moves, Acts
  <2>2. t = task[h].s
    BY <1>8, <2>0, ActivateDoes DEF OnlyRow
  <2>3. Updating(t)
    BY <1>8, <2>0, <2>1, <2>2, ActivateDoes DEF Updating
  <2> QED
    BY <2>3 DEF RowMoves
<1>9. ASSUME NEW h \in Handlers, SetPlan(h) PROVE \A t \in Subs : RowMoves(t)
  <2>1. sub' = sub
    BY <1>9, SetPlanDoes DEF Struct
  <2> QED
    BY <2>1 DEF RowMoves
<1>10. ASSUME NEW h \in Handlers, CancelReplaced(h) PROVE \A t \in Subs : RowMoves(t)
  <2>1. sub' = sub
    BY <1>10, CancelReplacedDoes DEF Struct
  <2> QED
    BY <2>1 DEF RowMoves
<1>11. ASSUME NEW h \in Handlers, Retire(h) PROVE \A t \in Subs : RowMoves(t)
  <2>0. TypeInv /\ NewRows
    BY NewRowsAlways DEF Struct
  <2> SUFFICES ASSUME NEW t \in Subs, sub'[t] # sub[t] PROVE RowMoves(t)
    BY DEF RowMoves
  <2>1. Acts(h)
    BY <1>11, <2>0, RetireDoes, IdleTyped DEF Answers, Leaves, Moves, Acts
  <2>2. t = task[h].row.replaces /\ Cancels(t) /\ task[h].step = "retire"
    BY <1>11, <2>0, RetireDoes DEF OnlyRow
  <2> QED
    BY <2>1, <2>2 DEF RowMoves, Cancelling
<1>12. ASSUME NEW h \in Handlers, CreditReplaced(h) PROVE \A t \in Subs : RowMoves(t)
  <2>1. sub' = sub
    BY <1>12, CreditReplacedDoes DEF Struct
  <2> QED
    BY <2>1 DEF RowMoves
<1>13. ASSUME NEW h \in Handlers, Invoice(h) PROVE \A t \in Subs : RowMoves(t)
  <2>1. sub' = sub
    BY <1>13, InvoiceDoes DEF Struct
  <2> QED
    BY <2>1 DEF RowMoves
<1>14. ASSUME NEW h \in Handlers, Renew(h) PROVE \A t \in Subs : RowMoves(t)
  <2>0. TypeInv /\ NewRows
    BY NewRowsAlways DEF Struct
  <2> SUFFICES ASSUME NEW t \in Subs, sub'[t] # sub[t] PROVE RowMoves(t)
    BY DEF RowMoves
  <2>1. Acts(h)
    BY <1>14, <2>0, RenewDoes, IdleTyped DEF Answers, Leaves, Moves, Acts
  <2>2. t = task[h].s
    BY <1>14, <2>0, RenewDoes DEF OnlyRow
  <2>3. Updating(t)
    BY <1>14, <2>0, <2>1, <2>2, RenewDoes DEF Updating
  <2> QED
    BY <2>3 DEF RowMoves
<1>15. ASSUME NEW h \in Handlers, Fail(h) PROVE \A t \in Subs : RowMoves(t)
  <2>0. TypeInv /\ NewRows
    BY NewRowsAlways DEF Struct
  <2> SUFFICES ASSUME NEW t \in Subs, sub'[t] # sub[t] PROVE RowMoves(t)
    BY DEF RowMoves
  <2>1. Acts(h)
    BY <1>15, <2>0, FailDoes, IdleTyped DEF Answers, Leaves, Moves, Acts
  <2>2. t = task[h].s
    BY <1>15, <2>0, FailDoes DEF OnlyRow
  <2>3. Updating(t)
    BY <1>15, <2>0, <2>1, <2>2, FailDoes DEF Updating
  <2> QED
    BY <2>3 DEF RowMoves
<1>16. ASSUME NEW h \in Handlers, Halt(h) PROVE \A t \in Subs : RowMoves(t)
  <2>0. TypeInv /\ NewRows
    BY NewRowsAlways DEF Struct
  <2> SUFFICES ASSUME NEW t \in Subs, sub'[t] # sub[t] PROVE RowMoves(t)
    BY DEF RowMoves
  <2>1. Acts(h)
    BY <1>16, <2>0, HaltDoes, IdleTyped DEF Answers, Leaves, Moves, Acts
  <2>2. t = task[h].s
    BY <1>16, <2>0, HaltDoes DEF OnlyRow
  <2>3. Updating(t)
    BY <1>16, <2>0, <2>1, <2>2, HaltDoes DEF Updating
  <2> QED
    BY <2>3 DEF RowMoves
<1>17. ASSUME NEW h \in Handlers, End(h) PROVE \A t \in Subs : RowMoves(t)
  <2>0. TypeInv /\ NewRows
    BY NewRowsAlways DEF Struct
  <2> SUFFICES ASSUME NEW t \in Subs, sub'[t] # sub[t] PROVE RowMoves(t)
    BY DEF RowMoves
  <2>1. Acts(h)
    BY <1>17, <2>0, EndDoes, IdleTyped DEF Answers, Leaves, Moves, Acts
  <2>2. t = task[h].s /\ Cancels(t) /\ task[h].step = "end"
    BY <1>17, <2>0, EndDoes DEF OnlyRow
  <2> QED
    BY <2>1, <2>2 DEF RowMoves, Cancelling
<1>18. ASSUME NEW h \in Handlers, EndToBuy(h) PROVE \A t \in Subs : RowMoves(t)
  <2>0. TypeInv /\ NewRows
    BY NewRowsAlways DEF Struct
  <2> SUFFICES ASSUME NEW t \in Subs, sub'[t] # sub[t] PROVE RowMoves(t)
    BY DEF RowMoves
  <2>1. Acts(h)
    BY <1>18, <2>0, EndToBuyDoes, IdleTyped DEF Answers, Leaves, Moves, Acts
  <2>2. t = task[h].s /\ Cancels(t) /\ task[h].step = "endToBuy"
    BY <1>18, <2>0, EndToBuyDoes DEF OnlyRow
  <2> QED
    BY <2>1, <2>2 DEF RowMoves, Cancelling
<1>19. ASSUME NEW h \in Handlers, Browse(h) PROVE \A t \in Subs : RowMoves(t)
  <2>1. sub' = sub
    BY <1>19, BrowseDoes DEF Struct
  <2> QED
    BY <2>1 DEF RowMoves
<1>20. ASSUME NEW h \in Handlers, DropOpen(h) PROVE \A t \in Subs : RowMoves(t)
  <2>0. TypeInv /\ NewRows
    BY NewRowsAlways DEF Struct
  <2> SUFFICES ASSUME NEW t \in Subs, sub'[t] # sub[t] PROVE RowMoves(t)
    BY DEF RowMoves
  <2>1. Acts(h)
    BY <1>20, <2>0, DropOpenDoes DEF Moves, Acts
  <2> QED
    BY <1>20, <2>0, <2>1, DropOpenDoes DEF RowMoves, Cancelling
<1>21. ASSUME NEW h \in Handlers, Subscribe(h) PROVE \A t \in Subs : RowMoves(t)
  <2>1. sub' = sub
    BY <1>21, SubscribeDoes DEF Struct
  <2> QED
    BY <2>1 DEF RowMoves
<1>22. ASSUME NEW h \in Handlers, Insert(h) PROVE \A t \in Subs : RowMoves(t)
  <2>0. TypeInv /\ NewRows
    BY NewRowsAlways DEF Struct
  <2> SUFFICES ASSUME NEW t \in Subs, sub'[t] # sub[t] PROVE RowMoves(t)
    BY DEF RowMoves
  <2>1. CASE t = task[h].s
    <3>1. sub[t].status = "none"
      BY <1>22, <2>0, <2>1, InsertDoes, StructOf DEF Checkout
    <3> QED
      BY <2>0, <3>1 DEF RowMoves, NewRows
  <2>2. CASE t # task[h].s
    <3>1. Acts(h) /\ Passes(h, "insert", "release") /\ t \in Retired(h) /\ Cancels(t)
      BY <1>22, <2>0, <2>2, InsertDoes DEF Moves, Acts, Passes
    <3> QED
      BY <2>2, <3>1 DEF RowMoves, Cancelling
  <2> QED
    BY <2>1, <2>2
<1>23. ASSUME NEW h \in Handlers, Release(h) PROVE \A t \in Subs : RowMoves(t)
  <2>1. sub' = sub
    BY <1>23, ReleaseDoes DEF Struct
  <2> QED
    BY <2>1 DEF RowMoves
<1>24. ASSUME NEW h \in Handlers, StopAtEnd(h) PROVE \A t \in Subs : RowMoves(t)
  <2>1. sub' = sub
    BY <1>24, StopAtEndDoes DEF Struct
  <2> QED
    BY <2>1 DEF RowMoves
<1>25. ASSUME NEW h \in Handlers, MarkEnds(h) PROVE \A t \in Subs : RowMoves(t)
  <2>0. TypeInv /\ NewRows
    BY NewRowsAlways DEF Struct
  <2> SUFFICES ASSUME NEW t \in Subs, sub'[t] # sub[t] PROVE RowMoves(t)
    BY DEF RowMoves
  <2>1. Acts(h)
    BY <1>25, <2>0, MarkEndsDoes, IdleTyped DEF Answers, Leaves, Moves, Acts
  <2>2. t = task[h].s
    BY <1>25, <2>0, MarkEndsDoes DEF OnlyRow
  <2>3. Updating(t)
    BY <1>25, <2>0, <2>1, <2>2, MarkEndsDoes DEF Updating
  <2> QED
    BY <2>3 DEF RowMoves
<1>26. ASSUME NEW h \in Handlers, Schedule(h) PROVE \A t \in Subs : RowMoves(t)
  <2>0. TypeInv /\ NewRows
    BY NewRowsAlways DEF Struct
  <2> SUFFICES ASSUME NEW t \in Subs, sub'[t] # sub[t] PROVE RowMoves(t)
    BY DEF RowMoves
  <2>1. Acts(h)
    BY <1>26, <2>0, ScheduleDoes, IdleTyped DEF Answers, Leaves, Moves, Acts
  <2>2. t = task[h].s
    BY <1>26, <2>0, ScheduleDoes DEF OnlyRow
  <2>3. Updating(t)
    BY <1>26, <2>0, <2>1, <2>2, ScheduleDoes DEF Updating
  <2> QED
    BY <2>3 DEF RowMoves
<1>27. ASSUME NEW h \in Handlers, StopNow(h) PROVE \A t \in Subs : RowMoves(t)
  <2>1. sub' = sub
    BY <1>27, StopNowDoes DEF Struct
  <2> QED
    BY <2>1 DEF RowMoves
<1>28. ASSUME NEW h \in Handlers, Drop(h) PROVE \A t \in Subs : RowMoves(t)
  <2>0. TypeInv /\ NewRows
    BY NewRowsAlways DEF Struct
  <2> SUFFICES ASSUME NEW t \in Subs, sub'[t] # sub[t] PROVE RowMoves(t)
    BY DEF RowMoves
  <2>1. Acts(h)
    BY <1>28, <2>0, DropDoes, IdleTyped DEF Answers, Leaves, Moves, Acts
  <2>2. t = task[h].s /\ Cancels(t) /\ task[h].step = "drop"
    BY <1>28, <2>0, DropDoes DEF OnlyRow
  <2> QED
    BY <2>1, <2>2 DEF RowMoves, Cancelling
<1>29. ASSUME NEW h \in Handlers, Credit(h) PROVE \A t \in Subs : RowMoves(t)
  <2>1. sub' = sub
    BY <1>29, CreditDoes DEF Struct
  <2> QED
    BY <2>1 DEF RowMoves
<1>30. ASSUME NEW h \in Handlers, Clear(h) PROVE \A t \in Subs : RowMoves(t)
  <2>0. TypeInv /\ NewRows
    BY NewRowsAlways DEF Struct
  <2> SUFFICES ASSUME NEW t \in Subs, sub'[t] # sub[t] PROVE RowMoves(t)
    BY DEF RowMoves
  <2>1. Acts(h)
    BY <1>30, <2>0, ClearDoes DEF Moves, Acts
  <2> QED
    BY <1>30, <2>0, <2>1, ClearDoes DEF RowMoves, Cancelling
<1>31. ASSUME NEW h \in Handlers, GrantRow(h) PROVE \A t \in Subs : RowMoves(t)
  <2>0. TypeInv /\ NewRows
    BY NewRowsAlways DEF Struct
  <2> SUFFICES ASSUME NEW t \in Subs, sub'[t] # sub[t] PROVE RowMoves(t)
    BY DEF RowMoves
  <2>1. sub[t].status = "none"
    BY <1>31, <2>0, GrantRowDoes DEF OnlyRow, Fresh
  <2> QED
    BY <2>0, <2>1 DEF RowMoves, NewRows
<1>32. ASSUME NEW h \in Handlers, Crash(h) PROVE \A t \in Subs : RowMoves(t)
  <2>1. sub' = sub
    BY <1>32, CrashDoes DEF Struct
  <2> QED
    BY <2>1 DEF RowMoves
<1>33. ASSUME NEW h \in Handlers, NEW tier \in Tiers, Buy(h, tier) PROVE \A t \in Subs :
   RowMoves(t)
  <2>1. sub' = sub
    BY <1>33, BuyDoes DEF Struct
  <2> QED
    BY <2>1 DEF RowMoves
<1>34. ASSUME NEW h \in Handlers, NEW tier \in Tiers, Grant(h, tier) PROVE \A t \in Subs :
   RowMoves(t)
  <2>1. sub' = sub
    BY <1>34, GrantDoes DEF Struct
  <2> QED
    BY <2>1 DEF RowMoves
<1>35. ASSUME NEW h \in Handlers, NEW s \in Subs, Deliver(h, s) PROVE \A t \in Subs : RowMoves(t)
  <2>1. sub' = sub
    BY <1>35, DeliverDoes DEF Struct
  <2> QED
    BY <2>1 DEF RowMoves
<1>36. ASSUME NEW h \in Handlers, NEW s \in Subs, Callback(h, s) PROVE \A t \in Subs : RowMoves(t)
  <2>1. sub' = sub
    BY <1>36, CallbackDoes DEF Struct
  <2> QED
    BY <2>1 DEF RowMoves
<1>37. ASSUME NEW h \in Handlers, NEW s \in Subs, Overdue(h, s) PROVE \A t \in Subs : RowMoves(t)
  <2>1. sub' = sub
    BY <1>37, OverdueDoes DEF Struct
  <2> QED
    BY <2>1 DEF RowMoves
<1>38. ASSUME NEW h \in Handlers, NEW s \in Subs, Cancel(h, s) PROVE \A t \in Subs : RowMoves(t)
  <2>1. sub' = sub
    BY <1>38, CancelDoes DEF Struct
  <2> QED
    BY <2>1 DEF RowMoves
<1>39. ASSUME NEW h \in Handlers, NEW s \in Subs, Revoke(h, s) PROVE \A t \in Subs : RowMoves(t)
  <2>1. sub' = sub
    BY <1>39, RevokeDoes DEF Struct
  <2> QED
    BY <2>1 DEF RowMoves
<1>40. ASSUME NEW h \in Handlers, NEW s \in Subs, NEW tier \in Tiers, ChangePlan(h, s, tier) PROVE
   \A t \in Subs : RowMoves(t)
  <2>1. sub' = sub
    BY <1>40, ChangePlanDoes DEF Struct
  <2> QED
    BY <2>1 DEF RowMoves
<1>41. ASSUME NEW h \in Handlers, NEW s \in Subs, NEW tier \in Tiers, ChangeAddon(h, s, tier)
   PROVE \A t \in Subs : RowMoves(t)
  <2>1. sub' = sub
    BY <1>41, ChangeAddonDoes DEF Struct
  <2> QED
    BY <2>1 DEF RowMoves
<1>42. CASE UNCHANGED vars
  BY <1>42 DEF vars, RowMoves
<1> QED
  BY <1>1, <1>2, <1>3, <1>4, <1>5, <1>6, <1>7, <1>8, <1>9, <1>10, <1>11, <1>12, <1>13, <1>14,
     <1>15, <1>16, <1>17, <1>18, <1>19, <1>20, <1>21, <1>22, <1>23, <1>24, <1>25, <1>26, <1>27,
     <1>28, <1>29, <1>30, <1>31, <1>32, <1>33, <1>34, <1>35, <1>36, <1>37, <1>38, <1>39, <1>40,
     <1>41, <1>42 DEF Next, Step

\* But for what is named, s stays as it is at Razorpay.
StaysPaid(s) == rzp'[s].paid = rzp[s].paid /\ rzp'[s].due = rzp[s].due
StaysShown(s) == rzp'[s].shown = rzp[s].shown
StaysEnding(s) == rzp'[s].ends = rzp[s].ends
StaysState(s) == rzp'[s].state = rzp[s].state

Said(s, type, charge) ==
    \E e \in Event : e.type = type /\ e.charge = charge /\ queue'[s] = Append(queue[s], e)

\* A first payment, told twice, first as type.
SaidBoth(s, type) ==
    \E d, e \in Event :
        /\ d.type = type /\ e.type \in {"activated", "charged"} /\ d.charge = 1 /\ e.charge = 1
        /\ queue'[s] = Append(Append(queue[s], d), e)

Unserved == (\A h \in Handlers : task[h].step = "idle") /\ UNCHANGED task

\* The customer pays the checkout.
Paying(s) ==
    /\ rzp[s].state = "open" /\ rzp[s].shown /\ rzp'[s].state = "active" /\ Unserved
    /\ "payReplaced" \in Uses \/ sub[s].status = "created"
    /\ rzp'[s].paid = 1 /\ rzp'[s].due = today + Period /\ StaysShown(s) /\ StaysEnding(s)
    /\ \E type \in {"activated", "charged"} :
          /\ type = "charged" /\ rzp'[s].callback => "chargedFirst" \in Faults
          /\ Said(s, type, 1) \/ ("toldTwice" \in Faults /\ SaidBoth(s, type))

\* Razorpay charges it, cannot, or gives up.
Charging(s) ==
    /\ \/ rzp[s].state = "active" /\ rzp[s].due <= today /\ ~rzp[s].ends
       \/ rzp[s].state \in {"pending", "halted"}
    /\ rzp'[s].state = "active" /\ rzp'[s].paid = rzp[s].paid + 1 /\ rzp'[s].paid \in Charges
    /\ rzp'[s].due = today + Period /\ Said(s, "charged", rzp[s].paid + 1)
    /\ rzp'[s].callback = rzp[s].callback /\ StaysShown(s) /\ StaysEnding(s) /\ UNCHANGED task

Failing(s) ==
    /\ \/ rzp[s].state = "active" /\ rzp[s].due <= today
       \/ rzp[s].state = "pending"
    /\ \/ rzp'[s].state = "pending" /\ Said(s, "pending", rzp[s].paid)
       \/ /\ rzp[s].state = "pending" /\ rzp'[s].state = "halted"
          /\ Said(s, "halted", rzp[s].paid)
    /\ rzp'[s].callback = rzp[s].callback /\ StaysPaid(s) /\ StaysShown(s) /\ StaysEnding(s)
    /\ UNCHANGED task

\* It is stopped, by the end of its last cycle or by a request.
IsStopped(s) ==
    /\ CanStop(s) /\ EndsAt(s)
    /\ \/ rzp[s].state = "active" /\ rzp[s].due <= today /\ rzp[s].ends /\ UNCHANGED <<task, sub>>
       \/ \E h \in Handlers :
             /\ Acts(h) /\ UNCHANGED sub
             /\ \/ Passes(h, "cancelReplaced", "retire") /\ task[h].row.replaces = s
                \/ Passes(h, "stopNow", "drop") /\ task[h].s = s
                \/ task[h].step = "release" /\ s \in task[h].halted

\* It is created, shown to the owner, marked to end, and its payment called back.
Preparing(s) ==
    \E h \in Handlers :
        /\ Acts(h) /\ StaysPaid(s) /\ UNCHANGED sub
        /\ \/ /\ Passes(h, "subscribe", "insert") /\ task'[h].s = s /\ s \in Fresh
              /\ rzp'[s].state = "open" /\ StaysShown(s) /\ StaysEnding(s)
              /\ rzp'[s].callback = rzp[s].callback
           \/ /\ task[h].step = "release" /\ task[h].s = s /\ rzp'[s].shown = (task[h].by = "owner")
              /\ StaysState(s) /\ StaysEnding(s) /\ rzp'[s].callback = rzp[s].callback
           \/ /\ task[h].step = "stopAtEnd" /\ task[h].s = s /\ CanStop(s) /\ rzp'[s].ends
              /\ StaysState(s) /\ StaysShown(s) /\ rzp'[s].callback = rzp[s].callback
           \/ /\ Starts(h) /\ task'[h].by = "callback" /\ task'[h].s = s
              /\ rzp[s].callback /\ ~rzp'[s].callback
              /\ StaysState(s) /\ StaysShown(s) /\ StaysEnding(s)

\* A day passes.
Waiting(s) ==
    /\ today' = today + 1 /\ Unserved /\ (rzp[s].state = "active" => rzp[s].due > today)
    /\ StaysState(s) /\ StaysPaid(s) /\ StaysShown(s) /\ StaysEnding(s) /\ ~rzp'[s].callback
    /\ UNCHANGED sub

\* The oldest event is acknowledged: by who applied it, or because it was before.
Popping(s) ==
    /\ queue[s] # <<>> /\ queue'[s] = Tail(queue[s]) /\ ~seen'[s]
    /\ \/ \E h \in Handlers : task[h].by = "webhook" /\ task[h].s = s /\ Leaves(h)
       \/ /\ seen[s] /\ UNCHANGED task
          /\ \A h \in Handlers : task[h].by = "webhook" => task[h].s # s

\* It is delivered.
Taking(s) == \E h \in Handlers : Starts(h) /\ task'[h].by = "webhook" /\ task'[h].s = s /\ seen'[s]

RazorpayMoves(s) ==
    \/ /\ rzp'[s] = rzp[s]
       /\ \/ queue'[s] = queue[s] /\ (seen'[s] = seen[s] \/ Taking(s))
          \/ Popping(s)
    \/ /\ seen'[s] = seen[s]
       /\ \/ queue'[s] = queue[s] /\ (Preparing(s) \/ Waiting(s))
          \/ today' = today /\ (Paying(s) \/ Charging(s) \/ Failing(s)) /\ UNCHANGED sub
          \/ IsStopped(s)

LEMMA AnsweredPops ==
    ASSUME TypeInv, NEW h \in Handlers, Answers(h), UNCHANGED rzp, NEW s \in Subs
    PROVE  RazorpayMoves(s)
<1>1. CASE task[h].by = "webhook" /\ task[h].s = s
  <2>1. queue[s] # <<>>
    BY <1>1 DEF TypeInv, Deliveries
  <2>2. queue'[s] = Tail(queue[s]) /\ ~seen'[s] /\ Leaves(h)
    BY <1>1 DEF Answers
  <2>3. Popping(s)
    BY <1>1, <2>1, <2>2 DEF Popping
  <2> QED
    BY <2>3 DEF RazorpayMoves
<1>2. CASE ~(task[h].by = "webhook" /\ task[h].s = s)
  BY <1>2 DEF Answers, RazorpayMoves
<1> QED
  BY <1>1, <1>2

LEMMA RazorpayMovesAlways ==
    ASSUME Struct, [Next]_vars
    PROVE  \A t \in Subs : RazorpayMoves(t)
<1>1. ASSUME Tick PROVE \A t \in Subs : RazorpayMoves(t)
  <2>0. TypeInv
    BY DEF Struct
  <2> SUFFICES ASSUME NEW t \in Subs PROVE RazorpayMoves(t)
    OBVIOUS
  <2>1. UNCHANGED <<queue, seen>> /\ Waiting(t)
    BY <1>1, <2>0, TickDoes DEF Waiting, Unserved, StaysState, StaysPaid, StaysShown, StaysEnding
  <2> QED
    BY <2>1 DEF RazorpayMoves
<1>2. ASSUME NEW s \in Subs, Pay(s) PROVE \A t \in Subs : RazorpayMoves(t)
  <2>0. TypeInv
    BY DEF Struct
  <2> SUFFICES ASSUME NEW t \in Subs PROVE RazorpayMoves(t)
    OBVIOUS
  <2>1. CASE t # s
    BY <1>2, <2>0, <2>1, PayDoes DEF RazorpayMoves, OnlyMandate, ToldFirst, ToldBoth, Told
  <2>2. CASE t = s
    <3>1. PICK type \in {"activated", "charged"} :
             /\ ToldFirst(s, type)
             /\ rzp'[s].callback = (type = "activated" \/ "chargedFirst" \in Faults)
      BY <1>2, <2>0, PayDoes
    <3>2. \A as \in {"activated", "charged"} : FirstAs(as).type = as /\ FirstAs(as).charge = 1
      BY DEF FirstAs
    <3>3. Told(s, FirstAs(type)) => Said(s, type, 1)
      BY <3>2 DEF Said, Told
    <3>4. Said(s, type, 1) \/ ("toldTwice" \in Faults /\ SaidBoth(s, type))
      <4>1. CASE ~Told(s, FirstAs(type))
        <5>1. /\ "toldTwice" \in Faults
              /\ \E other \in {"activated", "charged"} :
                    ToldBoth(s, FirstAs(type), FirstAs(other))
          BY <3>1, <4>1 DEF ToldFirst
        <5>2. SaidBoth(s, type)
          BY <3>2, <5>1 DEF SaidBoth, ToldBoth
        <5> QED
          BY <5>1, <5>2
      <4> QED
        BY <3>3, <4>1
    <3>5. Paying(s) /\ UNCHANGED <<today, sub, seen>>
      BY <1>2, <2>0, <3>1, <3>4, PayDoes DEF Paying, Unserved, StaysShown, StaysEnding
    <3> QED
      BY <2>2, <3>5 DEF RazorpayMoves
  <2> QED
    BY <2>1, <2>2
<1>3. ASSUME NEW s \in Subs, Charge(s) PROVE \A t \in Subs : RazorpayMoves(t)
  <2>0. TypeInv
    BY DEF Struct
  <2> SUFFICES ASSUME NEW t \in Subs PROVE RazorpayMoves(t)
    OBVIOUS
  <2>1. CASE t # s
    BY <1>3, <2>0, <2>1, ChargeDoes DEF RazorpayMoves, OnlyMandate, Told
  <2>2. CASE t = s
    <3> DEFINE e == [type |-> "charged", charge |-> rzp[s].paid + 1, try |-> 0]
    <3>1. e.type = "charged" /\ e.charge = rzp[s].paid + 1
      OBVIOUS
    <3>2. Told(s, e)
      BY <1>3, <2>0, ChargeDoes
    <3> HIDE DEF e
    <3>3. Said(s, "charged", rzp[s].paid + 1)
      BY <3>1, <3>2 DEF Said, Told
    <3>4. Charging(s) /\ UNCHANGED <<today, sub, seen>>
      BY <1>3, <2>0, <3>3, ChargeDoes DEF Charging, StaysShown, StaysEnding
    <3> QED
      BY <2>2, <3>4 DEF RazorpayMoves
  <2> QED
    BY <2>1, <2>2
<1>4. ASSUME NEW s \in Subs, Decline(s) PROVE \A t \in Subs : RazorpayMoves(t)
  <2>0. TypeInv
    BY DEF Struct
  <2> SUFFICES ASSUME NEW t \in Subs PROVE RazorpayMoves(t)
    OBVIOUS
  <2>1. CASE t # s
    BY <1>4, <2>0, <2>1, DeclineDoes DEF RazorpayMoves, OnlyMandate, Told, Unpaid
  <2>2. CASE t = s
    <3> DEFINE e == [type |-> "pending", charge |-> rzp[s].paid, try |-> rzp[s].tries + 1]
    <3>1. e.type = "pending" /\ e.charge = rzp[s].paid
      OBVIOUS
    <3>2. Told(s, e)
      BY <1>4, <2>0, DeclineDoes
    <3> HIDE DEF e
    <3>3. Said(s, "pending", rzp[s].paid)
      BY <3>1, <3>2 DEF Said, Told
    <3>4. Failing(s) /\ UNCHANGED <<today, sub, seen>>
      BY <1>4, <2>0, <3>3, DeclineDoes DEF Failing, Unpaid, StaysPaid, StaysShown, StaysEnding
    <3> QED
      BY <2>2, <3>4 DEF RazorpayMoves
  <2> QED
    BY <2>1, <2>2
<1>5. ASSUME NEW s \in Subs, GiveUp(s) PROVE \A t \in Subs : RazorpayMoves(t)
  <2>0. TypeInv
    BY DEF Struct
  <2> SUFFICES ASSUME NEW t \in Subs PROVE RazorpayMoves(t)
    OBVIOUS
  <2>1. CASE t # s
    BY <1>5, <2>0, <2>1, GiveUpDoes DEF RazorpayMoves, OnlyMandate, Told, Unpaid
  <2>2. CASE t = s
    <3> DEFINE e == [type |-> "halted", charge |-> rzp[s].paid, try |-> rzp[s].tries]
    <3>1. e.type = "halted" /\ e.charge = rzp[s].paid
      OBVIOUS
    <3>2. Told(s, e)
      BY <1>5, <2>0, GiveUpDoes
    <3> HIDE DEF e
    <3>3. Said(s, "halted", rzp[s].paid)
      BY <3>1, <3>2 DEF Said, Told
    <3>4. Failing(s) /\ UNCHANGED <<today, sub, seen>>
      BY <1>5, <2>0, <3>3, GiveUpDoes DEF Failing, Unpaid, StaysPaid, StaysShown, StaysEnding
    <3> QED
      BY <2>2, <3>4 DEF RazorpayMoves
  <2> QED
    BY <2>1, <2>2
<1>6. ASSUME NEW s \in Subs, CycleEnds(s) PROVE \A t \in Subs : RazorpayMoves(t)
  <2>0. TypeInv
    BY DEF Struct
  <2> SUFFICES ASSUME NEW t \in Subs PROVE RazorpayMoves(t)
    OBVIOUS
  <2>1. UNCHANGED seen /\ Stopped({s}) /\ UNCHANGED <<task, sub>>
        /\ rzp[s].state = "active" /\ rzp[s].due <= today /\ rzp[s].ends
    BY <1>6, <2>0, CycleEndsDoes
  <2>2. CASE t # s
    BY <2>1, <2>2 DEF RazorpayMoves, Stopped
  <2>3. CASE t = s
    BY <2>1, <2>3 DEF RazorpayMoves, Stopped, IsStopped, CanStop
  <2> QED
    BY <2>2, <2>3
<1>7. ASSUME NEW h \in Handlers, ReadToActivate(h) PROVE \A t \in Subs : RazorpayMoves(t)
  <2>0. TypeInv
    BY DEF Struct
  <2>1. CASE Answers(h)
    BY <1>7, <2>0, <2>1, AnsweredPops, ReadToActivateDoes
  <2>2. CASE ~Answers(h)
    BY <1>7, <2>0, <2>2, ReadToActivateDoes DEF RazorpayMoves
  <2> QED
    BY <2>1, <2>2
<1>8. ASSUME NEW h \in Handlers, Activate(h) PROVE \A t \in Subs : RazorpayMoves(t)
  <2>0. TypeInv
    BY DEF Struct
  <2>1. UNCHANGED <<rzp, queue, seen>>
    BY <1>8, <2>0, ActivateDoes
  <2> QED
    BY <2>1 DEF RazorpayMoves
<1>9. ASSUME NEW h \in Handlers, SetPlan(h) PROVE \A t \in Subs : RazorpayMoves(t)
  <2>0. TypeInv
    BY DEF Struct
  <2>1. UNCHANGED <<rzp, queue, seen>>
    BY <1>9, <2>0, SetPlanDoes
  <2> QED
    BY <2>1 DEF RazorpayMoves
<1>10. ASSUME NEW h \in Handlers, CancelReplaced(h) PROVE \A t \in Subs : RazorpayMoves(t)
  <2>0. TypeInv
    BY DEF Struct
  <2> SUFFICES ASSUME NEW t \in Subs PROVE RazorpayMoves(t)
    OBVIOUS
  <2>1. CASE UNCHANGED <<rzp, queue>>
    BY <1>10, <2>0, <2>1, CancelReplacedDoes DEF RazorpayMoves
  <2>2. CASE ~UNCHANGED <<rzp, queue>>
    <3> DEFINE o == task[h].row.replaces
    <3>1. /\ o \in Subs /\ CanStop(o) /\ Stopped({o}) /\ UNCHANGED <<seen, sub>>
          /\ Acts(h) /\ Passes(h, "cancelReplaced", "retire")
      BY <1>10, <2>0, <2>2, CancelReplacedDoes DEF Acts, Passes, Moves
    <3>2. CASE t # o
      BY <3>1, <3>2 DEF RazorpayMoves, Stopped
    <3>3. CASE t = o
      <4>1. EndsAt(t)
        BY <3>1, <3>3 DEF Stopped
      <4>2. IsStopped(t)
        BY <3>1, <3>3, <4>1 DEF IsStopped
      <4> QED
        BY <3>1, <4>2 DEF RazorpayMoves
    <3> QED
      BY <3>2, <3>3
  <2> QED
    BY <2>1, <2>2
<1>11. ASSUME NEW h \in Handlers, Retire(h) PROVE \A t \in Subs : RazorpayMoves(t)
  <2>0. TypeInv
    BY DEF Struct
  <2>1. UNCHANGED <<rzp, queue, seen>>
    BY <1>11, <2>0, RetireDoes
  <2> QED
    BY <2>1 DEF RazorpayMoves
<1>12. ASSUME NEW h \in Handlers, CreditReplaced(h) PROVE \A t \in Subs : RazorpayMoves(t)
  <2>0. TypeInv
    BY DEF Struct
  <2>1. UNCHANGED <<rzp, queue, seen>>
    BY <1>12, <2>0, CreditReplacedDoes
  <2> QED
    BY <2>1 DEF RazorpayMoves
<1>13. ASSUME NEW h \in Handlers, Invoice(h) PROVE \A t \in Subs : RazorpayMoves(t)
  <2>0. TypeInv
    BY DEF Struct
  <2>1. Answers(h) /\ UNCHANGED rzp
    BY <1>13, <2>0, InvoiceDoes
  <2> QED
    BY <2>0, <2>1, AnsweredPops
<1>14. ASSUME NEW h \in Handlers, Renew(h) PROVE \A t \in Subs : RazorpayMoves(t)
  <2>0. TypeInv
    BY DEF Struct
  <2>1. UNCHANGED <<rzp, queue, seen>>
    BY <1>14, <2>0, RenewDoes
  <2> QED
    BY <2>1 DEF RazorpayMoves
<1>15. ASSUME NEW h \in Handlers, Fail(h) PROVE \A t \in Subs : RazorpayMoves(t)
  <2>0. TypeInv
    BY DEF Struct
  <2>1. Answers(h) /\ UNCHANGED rzp
    BY <1>15, <2>0, FailDoes
  <2> QED
    BY <2>0, <2>1, AnsweredPops
<1>16. ASSUME NEW h \in Handlers, Halt(h) PROVE \A t \in Subs : RazorpayMoves(t)
  <2>0. TypeInv
    BY DEF Struct
  <2>1. Answers(h) /\ UNCHANGED rzp
    BY <1>16, <2>0, HaltDoes
  <2> QED
    BY <2>0, <2>1, AnsweredPops
<1>17. ASSUME NEW h \in Handlers, End(h) PROVE \A t \in Subs : RazorpayMoves(t)
  <2>0. TypeInv
    BY DEF Struct
  <2>1. Answers(h) /\ UNCHANGED rzp
    BY <1>17, <2>0, EndDoes
  <2> QED
    BY <2>0, <2>1, AnsweredPops
<1>18. ASSUME NEW h \in Handlers, EndToBuy(h) PROVE \A t \in Subs : RazorpayMoves(t)
  <2>0. TypeInv
    BY DEF Struct
  <2>1. UNCHANGED <<rzp, queue, seen>>
    BY <1>18, <2>0, EndToBuyDoes
  <2> QED
    BY <2>1 DEF RazorpayMoves
<1>19. ASSUME NEW h \in Handlers, Browse(h) PROVE \A t \in Subs : RazorpayMoves(t)
  <2>0. TypeInv
    BY DEF Struct
  <2>1. UNCHANGED <<rzp, queue, seen>>
    BY <1>19, <2>0, BrowseDoes
  <2> QED
    BY <2>1 DEF RazorpayMoves
<1>20. ASSUME NEW h \in Handlers, DropOpen(h) PROVE \A t \in Subs : RazorpayMoves(t)
  <2>0. TypeInv
    BY DEF Struct
  <2>1. UNCHANGED <<rzp, queue, seen>>
    BY <1>20, <2>0, DropOpenDoes
  <2> QED
    BY <2>1 DEF RazorpayMoves
<1>21. ASSUME NEW h \in Handlers, Subscribe(h) PROVE \A t \in Subs : RazorpayMoves(t)
  <2>0. TypeInv
    BY DEF Struct
  <2> SUFFICES ASSUME NEW t \in Subs PROVE RazorpayMoves(t)
    OBVIOUS
  <2>1. UNCHANGED <<queue, seen>>
    BY <1>21, <2>0, SubscribeDoes
  <2>2. CASE rzp'[t] # rzp[t]
    <3>1. Preparing(t)
      BY <1>21, <2>0, <2>2, SubscribeDoes
         DEF Preparing, Acts, Passes, OnlyMandate, StaysPaid, StaysShown, StaysEnding
    <3> QED
      BY <2>1, <3>1 DEF RazorpayMoves
  <2> QED
    BY <2>1, <2>2 DEF RazorpayMoves
<1>22. ASSUME NEW h \in Handlers, Insert(h) PROVE \A t \in Subs : RazorpayMoves(t)
  <2>0. TypeInv
    BY DEF Struct
  <2>1. UNCHANGED <<rzp, queue, seen>>
    BY <1>22, <2>0, InsertDoes
  <2> QED
    BY <2>1 DEF RazorpayMoves
<1>23. ASSUME NEW h \in Handlers, Release(h) PROVE \A t \in Subs : RazorpayMoves(t)
  <2>0. TypeInv
    BY DEF Struct
  <2> SUFFICES ASSUME NEW t \in Subs PROVE RazorpayMoves(t)
    OBVIOUS
  <2>1. Acts(h) /\ UNCHANGED <<sub, seen>> /\ task[h].step = "release"
    BY <1>23, <2>0, ReleaseDoes, IdleTyped DEF Leaves, Acts
  <2>2. \/ t \in task[h].halted /\ CanStop(t) /\ EndsAt(t)
        \/ queue'[t] = queue[t] /\ rzp'[t] = rzp[t]
        \/ queue'[t] = queue[t] /\ t = task[h].s /\ ShownTo(t, task[h].by)
    BY <1>23, <2>0, ReleaseDoes
  <2>3. CASE t \in task[h].halted /\ CanStop(t) /\ EndsAt(t)
    BY <2>1, <2>3 DEF RazorpayMoves, IsStopped
  <2>4. CASE queue'[t] = queue[t] /\ rzp'[t] = rzp[t]
    BY <2>1, <2>4 DEF RazorpayMoves
  <2>5. CASE queue'[t] = queue[t] /\ t = task[h].s /\ ShownTo(t, task[h].by)
    <3>1. Preparing(t)
      BY <2>1, <2>5 DEF Preparing, ShownTo, StaysPaid, StaysState, StaysEnding
    <3> QED
      BY <2>1, <2>5, <3>1 DEF RazorpayMoves
  <2> QED
    BY <2>2, <2>3, <2>4, <2>5
<1>24. ASSUME NEW h \in Handlers, StopAtEnd(h) PROVE \A t \in Subs : RazorpayMoves(t)
  <2>0. TypeInv
    BY DEF Struct
  <2> SUFFICES ASSUME NEW t \in Subs PROVE RazorpayMoves(t)
    OBVIOUS
  <2>1. UNCHANGED <<queue, seen>>
    BY <1>24, <2>0, StopAtEndDoes
  <2>2. CASE rzp'[t] # rzp[t]
    <3>1. Preparing(t)
      <4>1. /\ task[h].step = "stopAtEnd" /\ task[h].s \in Subs /\ UNCHANGED sub
            /\ CanStop(task[h].s) /\ OnlyMandate(task[h].s) /\ rzp'[task[h].s].ends
            /\ StaysPaid(task[h].s) /\ StaysShown(task[h].s) /\ StaysState(task[h].s)
            /\ rzp'[task[h].s].callback = rzp[task[h].s].callback
            /\ Moves(h, "markEnds") \/ Moves(h, "schedule")
        BY <1>24, <2>0, <2>2, StopAtEndDoes DEF StaysPaid, StaysShown, StaysState
      <4>2. t = task[h].s
        BY <2>2, <4>1 DEF OnlyMandate
      <4> QED
        BY <4>1, <4>2 DEF Preparing, Acts, Moves
    <3> QED
      BY <2>1, <3>1 DEF RazorpayMoves
  <2> QED
    BY <2>1, <2>2 DEF RazorpayMoves
<1>25. ASSUME NEW h \in Handlers, MarkEnds(h) PROVE \A t \in Subs : RazorpayMoves(t)
  <2>0. TypeInv
    BY DEF Struct
  <2>1. UNCHANGED <<rzp, queue, seen>>
    BY <1>25, <2>0, MarkEndsDoes
  <2> QED
    BY <2>1 DEF RazorpayMoves
<1>26. ASSUME NEW h \in Handlers, Schedule(h) PROVE \A t \in Subs : RazorpayMoves(t)
  <2>0. TypeInv
    BY DEF Struct
  <2>1. UNCHANGED <<rzp, queue, seen>>
    BY <1>26, <2>0, ScheduleDoes
  <2> QED
    BY <2>1 DEF RazorpayMoves
<1>27. ASSUME NEW h \in Handlers, StopNow(h) PROVE \A t \in Subs : RazorpayMoves(t)
  <2>0. TypeInv
    BY DEF Struct
  <2> SUFFICES ASSUME NEW t \in Subs PROVE RazorpayMoves(t)
    OBVIOUS
  <2>1. CASE UNCHANGED <<rzp, queue>>
    BY <1>27, <2>0, <2>1, StopNowDoes DEF RazorpayMoves
  <2>2. CASE ~UNCHANGED <<rzp, queue>>
    <3> DEFINE o == task[h].s
    <3>1. /\ o \in Subs /\ CanStop(o) /\ Stopped({o}) /\ UNCHANGED <<seen, sub>>
          /\ Acts(h) /\ Passes(h, "stopNow", "drop")
      BY <1>27, <2>0, <2>2, StopNowDoes DEF Acts, Passes, Moves
    <3>2. CASE t # o
      BY <3>1, <3>2 DEF RazorpayMoves, Stopped
    <3>3. CASE t = o
      <4>1. EndsAt(t)
        BY <3>1, <3>3 DEF Stopped
      <4>2. IsStopped(t)
        BY <3>1, <3>3, <4>1 DEF IsStopped
      <4> QED
        BY <3>1, <4>2 DEF RazorpayMoves
    <3> QED
      BY <3>2, <3>3
  <2> QED
    BY <2>1, <2>2
<1>28. ASSUME NEW h \in Handlers, Drop(h) PROVE \A t \in Subs : RazorpayMoves(t)
  <2>0. TypeInv
    BY DEF Struct
  <2>1. UNCHANGED <<rzp, queue, seen>>
    BY <1>28, <2>0, DropDoes
  <2> QED
    BY <2>1 DEF RazorpayMoves
<1>29. ASSUME NEW h \in Handlers, Credit(h) PROVE \A t \in Subs : RazorpayMoves(t)
  <2>0. TypeInv
    BY DEF Struct
  <2>1. UNCHANGED <<rzp, queue, seen>>
    BY <1>29, <2>0, CreditDoes
  <2> QED
    BY <2>1 DEF RazorpayMoves
<1>30. ASSUME NEW h \in Handlers, Clear(h) PROVE \A t \in Subs : RazorpayMoves(t)
  <2>0. TypeInv
    BY DEF Struct
  <2>1. UNCHANGED <<rzp, queue, seen>>
    BY <1>30, <2>0, ClearDoes
  <2> QED
    BY <2>1 DEF RazorpayMoves
<1>31. ASSUME NEW h \in Handlers, GrantRow(h) PROVE \A t \in Subs : RazorpayMoves(t)
  <2>0. TypeInv
    BY DEF Struct
  <2>1. UNCHANGED <<rzp, queue, seen>>
    BY <1>31, <2>0, GrantRowDoes
  <2> QED
    BY <2>1 DEF RazorpayMoves
<1>32. ASSUME NEW h \in Handlers, Crash(h) PROVE \A t \in Subs : RazorpayMoves(t)
  <2>0. TypeInv
    BY DEF Struct
  <2>1. UNCHANGED <<rzp, queue, seen>>
    BY <1>32, <2>0, CrashDoes
  <2> QED
    BY <2>1 DEF RazorpayMoves
<1>33. ASSUME NEW h \in Handlers, NEW tier \in Tiers, Buy(h, tier) PROVE \A t \in Subs :
   RazorpayMoves(t)
  <2>0. TypeInv
    BY DEF Struct
  <2>1. UNCHANGED <<rzp, queue, seen>>
    BY <1>33, <2>0, BuyDoes
  <2> QED
    BY <2>1 DEF RazorpayMoves
<1>34. ASSUME NEW h \in Handlers, NEW tier \in Tiers, Grant(h, tier) PROVE \A t \in Subs :
   RazorpayMoves(t)
  <2>0. TypeInv
    BY DEF Struct
  <2>1. UNCHANGED <<rzp, queue, seen>>
    BY <1>34, <2>0, GrantDoes
  <2> QED
    BY <2>1 DEF RazorpayMoves
<1>35. ASSUME NEW h \in Handlers, NEW s \in Subs, Deliver(h, s) PROVE \A t \in Subs :
   RazorpayMoves(t)
  <2>0. TypeInv
    BY DEF Struct
  <2> SUFFICES ASSUME NEW t \in Subs PROVE RazorpayMoves(t)
    OBVIOUS
  <2>1. UNCHANGED rzp
    BY <1>35, <2>0, DeliverDoes
  <2>2. CASE seen[s]
    <3>1. CASE t # s
      BY <1>35, <2>0, <2>1, <2>2, <3>1, DeliverSeen, ZenonT(60) DEF RazorpayMoves
    <3>2. CASE t = s
      <4>1. Popping(t)
        BY <1>35, <2>0, <2>2, <3>2, DeliverSeen, ZenonT(60) DEF Popping
      <4> QED
        BY <2>1, <4>1 DEF RazorpayMoves
    <3> QED
      BY <3>1, <3>2
  <2>3. CASE ~seen[s]
    <3>1. CASE t # s
      BY <1>35, <2>0, <2>1, <2>3, <3>1, DeliverNew, ZenonT(60) DEF RazorpayMoves
    <3>2. CASE t = s
      <4>1. HandlerMoves(h) /\ task[h].step = "idle" /\ task'[h].by = "webhook"
            /\ task'[h].s = s /\ seen'[s] /\ queue' = queue /\ task'[h] # Idle
        BY <1>35, <2>0, <2>3, DeliverNew, HandlersMove, IdleTyped
      <4>2. task[h].by # "webhook"
        BY <2>0, <4>1, AtStep, IdleTyped DEF TaskInOrder
      <4>3. Starts(h)
        BY <4>1, <4>2 DEF HandlerMoves, Leaves, GoesOn, Passes
      <4>4. Taking(t)
        BY <3>2, <4>1, <4>3 DEF Taking
      <4> QED
        BY <2>1, <3>2, <4>1, <4>4 DEF RazorpayMoves
    <3> QED
      BY <3>1, <3>2
  <2> QED
    BY <2>2, <2>3
<1>36. ASSUME NEW h \in Handlers, NEW s \in Subs, Callback(h, s) PROVE \A t \in Subs :
   RazorpayMoves(t)
  <2>0. TypeInv
    BY DEF Struct
  <2> SUFFICES ASSUME NEW t \in Subs PROVE RazorpayMoves(t)
    OBVIOUS
  <2>1. UNCHANGED <<queue, seen, sub>>
    BY <1>36, <2>0, CallbackDoes
  <2>2. CASE t # s
    BY <1>36, <2>0, <2>1, <2>2, CallbackDoes DEF RazorpayMoves, OnlyMandate
  <2>3. CASE t = s
    <3>1. HandlerMoves(h) /\ task[h].step = "idle" /\ task'[h].step = "readToActivate"
          /\ task'[h].by = "callback" /\ task'[h].s = s /\ Others(h)
      BY <1>36, <2>0, CallbackDoes, HandlersMove DEF Begins
    <3>2. Starts(h)
      BY <3>1, IdleTyped DEF HandlerMoves, Leaves, GoesOn, Passes
    <3>3. Preparing(t)
      BY <1>36, <2>0, <2>3, <3>1, <3>2, CallbackDoes
         DEF Preparing, Acts, StaysPaid, StaysShown, StaysState, StaysEnding
    <3> QED
      BY <2>1, <3>3 DEF RazorpayMoves
  <2> QED
    BY <2>2, <2>3
<1>37. ASSUME NEW h \in Handlers, NEW s \in Subs, Overdue(h, s) PROVE \A t \in Subs :
   RazorpayMoves(t)
  <2>0. TypeInv
    BY DEF Struct
  <2>1. UNCHANGED <<rzp, queue, seen>>
    BY <1>37, <2>0, OverdueDoes
  <2> QED
    BY <2>1 DEF RazorpayMoves
<1>38. ASSUME NEW h \in Handlers, NEW s \in Subs, Cancel(h, s) PROVE \A t \in Subs :
   RazorpayMoves(t)
  <2>0. TypeInv
    BY DEF Struct
  <2>1. UNCHANGED <<rzp, queue, seen>>
    BY <1>38, <2>0, CancelDoes
  <2> QED
    BY <2>1 DEF RazorpayMoves
<1>39. ASSUME NEW h \in Handlers, NEW s \in Subs, Revoke(h, s) PROVE \A t \in Subs :
   RazorpayMoves(t)
  <2>0. TypeInv
    BY DEF Struct
  <2>1. UNCHANGED <<rzp, queue, seen>>
    BY <1>39, <2>0, RevokeDoes
  <2> QED
    BY <2>1 DEF RazorpayMoves
<1>40. ASSUME NEW h \in Handlers, NEW s \in Subs, NEW tier \in Tiers, ChangePlan(h, s, tier) PROVE
   \A t \in Subs : RazorpayMoves(t)
  <2>0. TypeInv
    BY DEF Struct
  <2>1. UNCHANGED <<rzp, queue, seen>>
    BY <1>40, <2>0, ChangePlanDoes
  <2> QED
    BY <2>1 DEF RazorpayMoves
<1>41. ASSUME NEW h \in Handlers, NEW s \in Subs, NEW tier \in Tiers, ChangeAddon(h, s, tier)
   PROVE \A t \in Subs : RazorpayMoves(t)
  <2>0. TypeInv
    BY DEF Struct
  <2>1. UNCHANGED <<rzp, queue, seen>>
    BY <1>41, <2>0, ChangeAddonDoes
  <2> QED
    BY <2>1 DEF RazorpayMoves
<1>42. CASE UNCHANGED vars
  BY <1>42 DEF vars, RazorpayMoves
<1> QED
  BY <1>1, <1>2, <1>3, <1>4, <1>5, <1>6, <1>7, <1>8, <1>9, <1>10, <1>11, <1>12, <1>13, <1>14,
     <1>15, <1>16, <1>17, <1>18, <1>19, <1>20, <1>21, <1>22, <1>23, <1>24, <1>25, <1>26, <1>27,
     <1>28, <1>29, <1>30, <1>31, <1>32, <1>33, <1>34, <1>35, <1>36, <1>37, <1>38, <1>39, <1>40,
     <1>41, <1>42 DEF Next, Step

-----------------------------------------------------------------------------
(* A checkout that is paid is not taken away.                              *)

\* Paid, and not activated yet.
PaidOpen(s) == sub[s].status = "created" /\ rzp[s].paid > 0

\* Nobody pays what was replaced or calls back while the webhook is at it, and Razorpay tells
\* one thing of a first payment; of an add-on, the owner opens no two checkouts and sends one
\* request at a time.
Orderly ==
    /\ "payReplaced" \notin Uses /\ "callbackRace" \notin Faults /\ "toldTwice" \notin Faults
    /\ "addon" \in Kinds => "bothOpen" \notin Uses /\ "ownerTwice" \notin Faults

IsPayment(e) == e.type \in {"activated", "charged"}

\* The next event to be told is that of the first payment; no other event is.
Firsts(s) == queue[s] # <<>> /\ IsPayment(Head(queue[s])) /\ Head(queue[s]).charge = 1

FirstIsFirst(s) ==
    \A i \in 1 .. Len(queue[s]) : IsPayment(queue[s][i]) /\ queue[s][i].charge = 1 => i = 1

FirstsAreFirst == \A s \in Subs : FirstIsFirst(s)

Activates(t) == t.step \in {"readToActivate", "activate"}

\* What is done with an event fits its type.
Applies(t) ==
    t.by = "webhook" =>
        /\ t.step = "end" => t.event.type = "cancelled"
        /\ t.step = "fail" => t.event.type = "pending"
        /\ t.step = "halt" => t.event.type = "halted"
        /\ t.step = "renew" => t.event.type = "charged"
        /\ Activates(t) => IsPayment(t.event)

EventsApplied == \A h \in Handlers : Applies(task[h])

\* The steps of the add-on's owner that lead to a lower tier, or to a higher one.
Lowers(t) ==
    /\ t.step \in {"stopAtEnd", "schedule", "endToBuy"} /\ t.tier # None => t.tier < sub[t.s].tier
    /\ t.old # None => sub[t.old].tier < t.tier

Lower(s) ==
    /\ sub[s].replaces # None => sub[sub[s].replaces].tier < sub[s].tier
    /\ sub[s].scheduled # None => sub[s].scheduled < sub[s].tier

TiersInOrder ==
    /\ \A s \in Subs : Lower(s)
    /\ \A h \in Handlers : Lowers(task[h])

Buyer(t) == t.step \in Buying \cup {"endToBuy", "stopNow", "drop", "credit", "clear", "grant"}

\* No buyer is left when a checkout is paid; while one is, nobody but a scheduled change of
\* an add-on starts another.
NoBuyer(h, s) ==
    PaidOpen(s) /\ Buyer(task[h]) =>
        /\ kind = "addon" /\ task[h].by = "read"
        /\ task[h].step \in {"endToBuy", "browse", "dropOpen"} => task[h].tier < sub[s].tier

NoBuyers == \A h \in Handlers, s \in Subs : NoBuyer(h, s)

\* No two handlers are at the activation of s.
OneActivates ==
    \A h, k \in Handlers : Activates(task[h]) /\ Activates(task[k]) /\ task[h].s = task[k].s
        => h = k

\* The browser that paid may still tell it, or is heard.
CallsBack(s) ==
    \/ rzp[s].callback
    \/ \E h \in Handlers : task[h].by = "callback" /\ Activates(task[h]) /\ task[h].s = s

\* As long as the first payment is not told, or the browser may still tell it, no attempt at
\* a second one has failed.
Young(s) ==
    /\ Firsts(s) \/ CallsBack(s) =>
          /\ sub[s].status \notin {"past_due", "halted"}
          /\ \A h \in Handlers : task[h].by = "read" /\ task[h].step = "halt" => task[h].s # s
    /\ CallsBack(s) =>
          /\ rzp[s].paid = 1 /\ rzp[s].due > today /\ rzp[s].state \in {"active", "cancelled"}
          /\ \A i \in 1 .. Len(queue[s]) : queue[s][i].type \notin {"pending", "halted"}

YoungOnes == \A s \in Subs : Young(s)

\* What is about to be activated was not cancelled.
Activation(t) ==
    /\ t.by = "webhook" /\ Activates(t) =>
          t.event.type = "activated" \/ sub[t.s].status = "created"
    /\ t.step = "activate" => sub[t.s].status = "created"

Activations == \A h \in Handlers : Activation(task[h])

\* Of an add-on, one checkout can be paid, and what is held meanwhile is what it replaces.
Payable(s) == sub[s].status = "created" /\ rzp[s].shown

Offered(s, t) == Payable(s) => (Payable(t) => s = t) /\ (Held(t) => sub[s].replaces = t)

Offers == \A s, t \in Subs : Offered(s, t)

OneOwner ==
    \A h, k \in Handlers : task[h].by \in {"owner", "admin"} /\ task[k].by \in {"owner", "admin"}
        => h = k

\* What an owner or an administrator on the way to a new row leaves to be paid or held.
Offerer(t) ==
    /\ t.step \notin {"stopNow", "drop", "credit"}
    /\ t.by = "owner" /\ t.step \in {"browse", "dropOpen"} =>
          \A s \in Subs : Payable(s) => sub[s].tier = t.tier
    /\ t.by = "owner" /\ t.step \in {"subscribe", "insert", "release"} =>
          \A s \in Subs : ~Payable(s)
    /\ t.by = "owner" /\ t.step \in {"dropOpen", "subscribe", "insert"} =>
          \A s \in Subs : Held(s) => s = t.old \/ s \in t.halted
    /\ t.by = "owner" /\ t.step = "release" => \A s \in Subs : Held(s) => s = t.old
    /\ t.step = "clear" => \A s \in Subs : Payable(s) => s \in t.halted
    /\ t.step = "grant" => \A s \in Subs : ~Payable(s)

OffersInOrder == kind = "addon" => OneOwner /\ Offers /\ \A h \in Handlers : Offerer(task[h])

Core ==
    /\ Struct /\ FirstsAreFirst /\ EventsApplied /\ TiersInOrder
    /\ NoBuyers /\ OneActivates /\ YoungOnes /\ Activations /\ OffersInOrder

-----------------------------------------------------------------------------
\* A run looks at one kind of subscriptions.
LEMMA KindStays ==
    ASSUME Struct, [Next]_vars
    PROVE  kind' = kind
<1>1. ASSUME Tick PROVE kind' = kind
  BY <1>1, TickDoes DEF Struct
<1>2. ASSUME NEW s \in Subs, Pay(s) PROVE kind' = kind
  BY <1>2, PayDoes DEF Struct
<1>3. ASSUME NEW s \in Subs, Charge(s) PROVE kind' = kind
  BY <1>3, ChargeDoes DEF Struct
<1>4. ASSUME NEW s \in Subs, Decline(s) PROVE kind' = kind
  BY <1>4, DeclineDoes DEF Struct
<1>5. ASSUME NEW s \in Subs, GiveUp(s) PROVE kind' = kind
  BY <1>5, GiveUpDoes DEF Struct
<1>6. ASSUME NEW s \in Subs, CycleEnds(s) PROVE kind' = kind
  BY <1>6, CycleEndsDoes DEF Struct
<1>7. ASSUME NEW h \in Handlers, ReadToActivate(h) PROVE kind' = kind
  BY <1>7, ReadToActivateDoes DEF Struct
<1>8. ASSUME NEW h \in Handlers, Activate(h) PROVE kind' = kind
  BY <1>8, ActivateDoes DEF Struct
<1>9. ASSUME NEW h \in Handlers, SetPlan(h) PROVE kind' = kind
  BY <1>9, SetPlanDoes DEF Struct
<1>10. ASSUME NEW h \in Handlers, CancelReplaced(h) PROVE kind' = kind
  BY <1>10, CancelReplacedDoes DEF Struct
<1>11. ASSUME NEW h \in Handlers, Retire(h) PROVE kind' = kind
  BY <1>11, RetireDoes DEF Struct
<1>12. ASSUME NEW h \in Handlers, CreditReplaced(h) PROVE kind' = kind
  BY <1>12, CreditReplacedDoes DEF Struct
<1>13. ASSUME NEW h \in Handlers, Invoice(h) PROVE kind' = kind
  BY <1>13, InvoiceDoes DEF Struct
<1>14. ASSUME NEW h \in Handlers, Renew(h) PROVE kind' = kind
  BY <1>14, RenewDoes DEF Struct
<1>15. ASSUME NEW h \in Handlers, Fail(h) PROVE kind' = kind
  BY <1>15, FailDoes DEF Struct
<1>16. ASSUME NEW h \in Handlers, Halt(h) PROVE kind' = kind
  BY <1>16, HaltDoes DEF Struct
<1>17. ASSUME NEW h \in Handlers, End(h) PROVE kind' = kind
  BY <1>17, EndDoes DEF Struct
<1>18. ASSUME NEW h \in Handlers, EndToBuy(h) PROVE kind' = kind
  BY <1>18, EndToBuyDoes DEF Struct
<1>19. ASSUME NEW h \in Handlers, Browse(h) PROVE kind' = kind
  BY <1>19, BrowseDoes DEF Struct
<1>20. ASSUME NEW h \in Handlers, DropOpen(h) PROVE kind' = kind
  BY <1>20, DropOpenDoes DEF Struct
<1>21. ASSUME NEW h \in Handlers, Subscribe(h) PROVE kind' = kind
  BY <1>21, SubscribeDoes DEF Struct
<1>22. ASSUME NEW h \in Handlers, Insert(h) PROVE kind' = kind
  BY <1>22, InsertDoes DEF Struct
<1>23. ASSUME NEW h \in Handlers, Release(h) PROVE kind' = kind
  BY <1>23, ReleaseDoes DEF Struct
<1>24. ASSUME NEW h \in Handlers, StopAtEnd(h) PROVE kind' = kind
  BY <1>24, StopAtEndDoes DEF Struct
<1>25. ASSUME NEW h \in Handlers, MarkEnds(h) PROVE kind' = kind
  BY <1>25, MarkEndsDoes DEF Struct
<1>26. ASSUME NEW h \in Handlers, Schedule(h) PROVE kind' = kind
  BY <1>26, ScheduleDoes DEF Struct
<1>27. ASSUME NEW h \in Handlers, StopNow(h) PROVE kind' = kind
  BY <1>27, StopNowDoes DEF Struct
<1>28. ASSUME NEW h \in Handlers, Drop(h) PROVE kind' = kind
  BY <1>28, DropDoes DEF Struct
<1>29. ASSUME NEW h \in Handlers, Credit(h) PROVE kind' = kind
  BY <1>29, CreditDoes DEF Struct
<1>30. ASSUME NEW h \in Handlers, Clear(h) PROVE kind' = kind
  BY <1>30, ClearDoes DEF Struct
<1>31. ASSUME NEW h \in Handlers, GrantRow(h) PROVE kind' = kind
  BY <1>31, GrantRowDoes DEF Struct
<1>32. ASSUME NEW h \in Handlers, Crash(h) PROVE kind' = kind
  BY <1>32, CrashDoes DEF Struct
<1>33. ASSUME NEW h \in Handlers, NEW tier \in Tiers, Buy(h, tier) PROVE kind' = kind
  BY <1>33, BuyDoes DEF Struct
<1>34. ASSUME NEW h \in Handlers, NEW tier \in Tiers, Grant(h, tier) PROVE kind' = kind
  BY <1>34, GrantDoes DEF Struct
<1>35. ASSUME NEW h \in Handlers, NEW s \in Subs, Deliver(h, s) PROVE kind' = kind
  BY <1>35, DeliverDoes DEF Struct
<1>36. ASSUME NEW h \in Handlers, NEW s \in Subs, Callback(h, s) PROVE kind' = kind
  BY <1>36, CallbackDoes DEF Struct
<1>37. ASSUME NEW h \in Handlers, NEW s \in Subs, Overdue(h, s) PROVE kind' = kind
  BY <1>37, OverdueDoes DEF Struct
<1>38. ASSUME NEW h \in Handlers, NEW s \in Subs, Cancel(h, s) PROVE kind' = kind
  BY <1>38, CancelDoes DEF Struct
<1>39. ASSUME NEW h \in Handlers, NEW s \in Subs, Revoke(h, s) PROVE kind' = kind
  BY <1>39, RevokeDoes DEF Struct
<1>40. ASSUME NEW h \in Handlers, NEW s \in Subs, NEW tier \in Tiers, ChangePlan(h, s, tier) PROVE
   kind' = kind
  BY <1>40, ChangePlanDoes DEF Struct
<1>41. ASSUME NEW h \in Handlers, NEW s \in Subs, NEW tier \in Tiers, ChangeAddon(h, s, tier)
   PROVE kind' = kind
  BY <1>41, ChangeAddonDoes DEF Struct
<1>42. CASE UNCHANGED vars
  BY <1>42 DEF vars
<1> QED
  BY <1>1, <1>2, <1>3, <1>4, <1>5, <1>6, <1>7, <1>8, <1>9, <1>10, <1>11, <1>12, <1>13, <1>14,
     <1>15, <1>16, <1>17, <1>18, <1>19, <1>20, <1>21, <1>22, <1>23, <1>24, <1>25, <1>26, <1>27,
     <1>28, <1>29, <1>30, <1>31, <1>32, <1>33, <1>34, <1>35, <1>36, <1>37, <1>38, <1>39, <1>40,
     <1>41, <1>42 DEF Next, Step

\* A day passes for every subscription.
LEMMA ClockMoves ==
    ASSUME Struct, [Next]_vars
    PROVE  today' = today \/ \A t \in Subs : Waiting(t)
<1>1. ASSUME Tick PROVE today' = today \/ \A t \in Subs : Waiting(t)
  BY <1>1, TickDoes
     DEF Struct, Waiting, Unserved, StaysState, StaysPaid, StaysShown, StaysEnding
<1>2. ASSUME NEW s \in Subs, Pay(s) PROVE today' = today \/ \A t \in Subs : Waiting(t)
  BY <1>2, PayDoes DEF Struct
<1>3. ASSUME NEW s \in Subs, Charge(s) PROVE today' = today \/ \A t \in Subs : Waiting(t)
  BY <1>3, ChargeDoes DEF Struct
<1>4. ASSUME NEW s \in Subs, Decline(s) PROVE today' = today \/ \A t \in Subs : Waiting(t)
  BY <1>4, DeclineDoes DEF Struct
<1>5. ASSUME NEW s \in Subs, GiveUp(s) PROVE today' = today \/ \A t \in Subs : Waiting(t)
  BY <1>5, GiveUpDoes DEF Struct
<1>6. ASSUME NEW s \in Subs, CycleEnds(s) PROVE today' = today \/ \A t \in Subs : Waiting(t)
  BY <1>6, CycleEndsDoes DEF Struct
<1>7. ASSUME NEW h \in Handlers, ReadToActivate(h) PROVE today' = today \/ \A t \in Subs :
   Waiting(t)
  BY <1>7, ReadToActivateDoes DEF Struct
<1>8. ASSUME NEW h \in Handlers, Activate(h) PROVE today' = today \/ \A t \in Subs : Waiting(t)
  BY <1>8, ActivateDoes DEF Struct
<1>9. ASSUME NEW h \in Handlers, SetPlan(h) PROVE today' = today \/ \A t \in Subs : Waiting(t)
  BY <1>9, SetPlanDoes DEF Struct
<1>10. ASSUME NEW h \in Handlers, CancelReplaced(h) PROVE today' = today \/ \A t \in Subs :
   Waiting(t)
  BY <1>10, CancelReplacedDoes DEF Struct
<1>11. ASSUME NEW h \in Handlers, Retire(h) PROVE today' = today \/ \A t \in Subs : Waiting(t)
  BY <1>11, RetireDoes DEF Struct
<1>12. ASSUME NEW h \in Handlers, CreditReplaced(h) PROVE today' = today \/ \A t \in Subs :
   Waiting(t)
  BY <1>12, CreditReplacedDoes DEF Struct
<1>13. ASSUME NEW h \in Handlers, Invoice(h) PROVE today' = today \/ \A t \in Subs : Waiting(t)
  BY <1>13, InvoiceDoes DEF Struct
<1>14. ASSUME NEW h \in Handlers, Renew(h) PROVE today' = today \/ \A t \in Subs : Waiting(t)
  BY <1>14, RenewDoes DEF Struct
<1>15. ASSUME NEW h \in Handlers, Fail(h) PROVE today' = today \/ \A t \in Subs : Waiting(t)
  BY <1>15, FailDoes DEF Struct
<1>16. ASSUME NEW h \in Handlers, Halt(h) PROVE today' = today \/ \A t \in Subs : Waiting(t)
  BY <1>16, HaltDoes DEF Struct
<1>17. ASSUME NEW h \in Handlers, End(h) PROVE today' = today \/ \A t \in Subs : Waiting(t)
  BY <1>17, EndDoes DEF Struct
<1>18. ASSUME NEW h \in Handlers, EndToBuy(h) PROVE today' = today \/ \A t \in Subs : Waiting(t)
  BY <1>18, EndToBuyDoes DEF Struct
<1>19. ASSUME NEW h \in Handlers, Browse(h) PROVE today' = today \/ \A t \in Subs : Waiting(t)
  BY <1>19, BrowseDoes DEF Struct
<1>20. ASSUME NEW h \in Handlers, DropOpen(h) PROVE today' = today \/ \A t \in Subs : Waiting(t)
  BY <1>20, DropOpenDoes DEF Struct
<1>21. ASSUME NEW h \in Handlers, Subscribe(h) PROVE today' = today \/ \A t \in Subs : Waiting(t)
  BY <1>21, SubscribeDoes DEF Struct
<1>22. ASSUME NEW h \in Handlers, Insert(h) PROVE today' = today \/ \A t \in Subs : Waiting(t)
  BY <1>22, InsertDoes DEF Struct
<1>23. ASSUME NEW h \in Handlers, Release(h) PROVE today' = today \/ \A t \in Subs : Waiting(t)
  BY <1>23, ReleaseDoes DEF Struct
<1>24. ASSUME NEW h \in Handlers, StopAtEnd(h) PROVE today' = today \/ \A t \in Subs : Waiting(t)
  BY <1>24, StopAtEndDoes DEF Struct
<1>25. ASSUME NEW h \in Handlers, MarkEnds(h) PROVE today' = today \/ \A t \in Subs : Waiting(t)
  BY <1>25, MarkEndsDoes DEF Struct
<1>26. ASSUME NEW h \in Handlers, Schedule(h) PROVE today' = today \/ \A t \in Subs : Waiting(t)
  BY <1>26, ScheduleDoes DEF Struct
<1>27. ASSUME NEW h \in Handlers, StopNow(h) PROVE today' = today \/ \A t \in Subs : Waiting(t)
  BY <1>27, StopNowDoes DEF Struct
<1>28. ASSUME NEW h \in Handlers, Drop(h) PROVE today' = today \/ \A t \in Subs : Waiting(t)
  BY <1>28, DropDoes DEF Struct
<1>29. ASSUME NEW h \in Handlers, Credit(h) PROVE today' = today \/ \A t \in Subs : Waiting(t)
  BY <1>29, CreditDoes DEF Struct
<1>30. ASSUME NEW h \in Handlers, Clear(h) PROVE today' = today \/ \A t \in Subs : Waiting(t)
  BY <1>30, ClearDoes DEF Struct
<1>31. ASSUME NEW h \in Handlers, GrantRow(h) PROVE today' = today \/ \A t \in Subs : Waiting(t)
  BY <1>31, GrantRowDoes DEF Struct
<1>32. ASSUME NEW h \in Handlers, Crash(h) PROVE today' = today \/ \A t \in Subs : Waiting(t)
  BY <1>32, CrashDoes DEF Struct
<1>33. ASSUME NEW h \in Handlers, NEW tier \in Tiers, Buy(h, tier) PROVE today' = today \/ \A t
   \in Subs : Waiting(t)
  BY <1>33, BuyDoes DEF Struct
<1>34. ASSUME NEW h \in Handlers, NEW tier \in Tiers, Grant(h, tier) PROVE today' = today \/ \A t
   \in Subs : Waiting(t)
  BY <1>34, GrantDoes DEF Struct
<1>35. ASSUME NEW h \in Handlers, NEW s \in Subs, Deliver(h, s) PROVE today' = today \/ \A t \in
   Subs : Waiting(t)
  BY <1>35, DeliverDoes DEF Struct
<1>36. ASSUME NEW h \in Handlers, NEW s \in Subs, Callback(h, s) PROVE today' = today \/ \A t \in
   Subs : Waiting(t)
  BY <1>36, CallbackDoes DEF Struct
<1>37. ASSUME NEW h \in Handlers, NEW s \in Subs, Overdue(h, s) PROVE today' = today \/ \A t \in
   Subs : Waiting(t)
  BY <1>37, OverdueDoes DEF Struct
<1>38. ASSUME NEW h \in Handlers, NEW s \in Subs, Cancel(h, s) PROVE today' = today \/ \A t \in
   Subs : Waiting(t)
  BY <1>38, CancelDoes DEF Struct
<1>39. ASSUME NEW h \in Handlers, NEW s \in Subs, Revoke(h, s) PROVE today' = today \/ \A t \in
   Subs : Waiting(t)
  BY <1>39, RevokeDoes DEF Struct
<1>40. ASSUME NEW h \in Handlers, NEW s \in Subs, NEW tier \in Tiers, ChangePlan(h, s, tier) PROVE
   today' = today \/ \A t \in Subs : Waiting(t)
  BY <1>40, ChangePlanDoes DEF Struct
<1>41. ASSUME NEW h \in Handlers, NEW s \in Subs, NEW tier \in Tiers, ChangeAddon(h, s, tier)
   PROVE today' = today \/ \A t \in Subs : Waiting(t)
  BY <1>41, ChangeAddonDoes DEF Struct
<1>42. CASE UNCHANGED vars
  BY <1>42 DEF vars
<1> QED
  BY <1>1, <1>2, <1>3, <1>4, <1>5, <1>6, <1>7, <1>8, <1>9, <1>10, <1>11, <1>12, <1>13, <1>14,
     <1>15, <1>16, <1>17, <1>18, <1>19, <1>20, <1>21, <1>22, <1>23, <1>24, <1>25, <1>26, <1>27,
     <1>28, <1>29, <1>30, <1>31, <1>32, <1>33, <1>34, <1>35, <1>36, <1>37, <1>38, <1>39, <1>40,
     <1>41, <1>42 DEF Next, Step

LEMMA CoreAt ==
    ASSUME Core
    PROVE  /\ Struct /\ TypeInv
           /\ \A s \in Subs : FirstIsFirst(s) /\ Lower(s) /\ Young(s)
           /\ \A h \in Handlers : Applies(task[h]) /\ Lowers(task[h]) /\ Activation(task[h])
           /\ \A h \in Handlers, s \in Subs : NoBuyer(h, s)
BY DEF Core, Struct, FirstsAreFirst, TiersInOrder, YoungOnes, EventsApplied, Activations, NoBuyers

\* What is told after something else is not the first payment.
LEMMA FirstIsFirstTold ==
    ASSUME TypeInv, NEW s \in Subs, FirstIsFirst(s), NEW e \in Event,
           queue'[s] = Append(queue[s], e),
           IsPayment(e) /\ e.charge = 1 => queue[s] = <<>>
    PROVE  FirstIsFirst(s)'
<1>1. queue[s] \in Seq(Event)
  BY AtRow
<1>2. /\ Len(queue[s]) \in Nat /\ Len(queue'[s]) = Len(queue[s]) + 1
      /\ \A i \in 1 .. Len(queue[s]) : queue'[s][i] = queue[s][i]
      /\ queue'[s][Len(queue[s]) + 1] = e
  BY <1>1, AppendAt
<1>3. \A i \in 1 .. Len(queue'[s]) : i \in 1 .. Len(queue[s]) \/ i = Len(queue[s]) + 1
  BY <1>2
<1>4. queue[s] = <<>> => Len(queue[s]) = 0
  OBVIOUS
<1> QED
  BY <1>2, <1>3, <1>4 DEF FirstIsFirst, IsPayment

\* Without the oldest event, there is no first payment to tell.
LEMMA FirstIsFirstPopped ==
    ASSUME TypeInv, NEW s \in Subs, FirstIsFirst(s), queue[s] # <<>>, queue'[s] = Tail(queue[s])
    PROVE  /\ FirstIsFirst(s)'
           /\ \A i \in 1 .. Len(queue'[s]) :
                 ~(IsPayment(queue'[s][i]) /\ queue'[s][i].charge = 1)
<1>1. queue[s] \in Seq(Event)
  BY AtRow
<1>2. /\ Len(queue[s]) \in Nat /\ Len(queue'[s]) = Len(queue[s]) - 1
      /\ \A i \in 1 .. Len(queue'[s]) : queue'[s][i] = queue[s][i + 1]
  BY <1>1, TailAt
<1>3. \A i \in 1 .. Len(queue'[s]) : i + 1 \in 1 .. Len(queue[s]) /\ i + 1 # 1
  BY <1>2
<1>4. \A i \in 1 .. Len(queue'[s]) : ~(IsPayment(queue'[s][i]) /\ queue'[s][i].charge = 1)
  BY <1>2, <1>3 DEF FirstIsFirst, IsPayment
<1> QED
  BY <1>4 DEF FirstIsFirst, IsPayment

\* The subscription is charged again only when it was paid before.
LEMMA ChargedLater ==
    ASSUME TypeInv, NEW s \in Subs, Charging(s)
    PROVE  rzp[s].paid \in Nat /\ rzp[s].paid >= 1
<1>1. CanStop(s)
  BY DEF Charging, CanStop
<1> QED
  BY <1>1, StoppableIsPaid, Counted

LEMMA PaidAnew ==
    ASSUME Struct, NEW s \in Subs, Paying(s)
    PROVE  rzp[s].paid = 0 /\ queue[s] = <<>>
<1>1. TypeInv /\ QueueInOrder(s) /\ rzp[s].state = "open"
  BY StructAt DEF Struct, Paying
<1>2. rzp[s].paid = 0
  BY <1>1, AtRazorpay DEF MandateInOrder
<1> QED
  BY <1>1, <1>2 DEF QueueInOrder

\* Only the first payment is told as such.
LEMMA FirstsAreFirstKept ==
    ASSUME Core, "toldTwice" \notin Faults, [Next]_vars
    PROVE  FirstsAreFirst'
<1> SUFFICES ASSUME NEW s \in Subs PROVE FirstIsFirst(s)'
  BY DEF FirstsAreFirst
<1>0. Struct /\ TypeInv /\ FirstIsFirst(s) /\ RazorpayMoves(s)
  BY CoreAt, RazorpayMovesAlways
<1>1. CASE queue'[s] = queue[s]
  BY <1>0, <1>1 DEF FirstIsFirst
<1>2. CASE Popping(s)
  BY <1>0, <1>2, FirstIsFirstPopped DEF Popping
<1>3. CASE Paying(s)
  BY <1>0, <1>3, PaidAnew, FirstIsFirstTold DEF Paying, Said
<1>4. CASE Charging(s)
  <2>1. PICK e \in Event : e.charge = rzp[s].paid + 1 /\ queue'[s] = Append(queue[s], e)
    BY <1>4 DEF Charging, Said
  <2>2. e.charge # 1
    BY <1>0, <1>4, <2>1, ChargedLater
  <2> QED
    BY <1>0, <2>1, <2>2, FirstIsFirstTold
<1>5. CASE Failing(s)
  <2>1. PICK e \in Event : e.type \in {"pending", "halted"} /\ queue'[s] = Append(queue[s], e)
    BY <1>5 DEF Failing, Said
  <2> QED
    BY <1>0, <2>1, FirstIsFirstTold DEF IsPayment
<1>6. CASE IsStopped(s)
  <2>1. EndedEvent(s) \in Event /\ queue'[s] = Append(queue[s], EndedEvent(s))
    BY <1>6 DEF IsStopped, EndsAt
  <2>2. ~IsPayment(EndedEvent(s))
    BY DEF EndedEvent, IsPayment
  <2> QED
    BY <1>0, <2>1, <2>2, FirstIsFirstTold
<1> QED
  BY <1>0, <1>1, <1>2, <1>3, <1>4, <1>5, <1>6 DEF RazorpayMoves

LEMMA FirstStepFits ==
    ASSUME NEW e \in Event, NEW row \in Row
    PROVE  LET step == FirstStep(e, row)
           IN  /\ step = "end" => e.type = "cancelled"
               /\ step = "fail" => e.type = "pending"
               /\ step = "halt" => e.type = "halted"
               /\ step = "renew" => e.type = "charged" /\ row.status # "created"
               /\ step \in {"readToActivate", "activate"} =>
                     /\ step = "readToActivate"
                     /\ e.type = "activated" \/ (e.type = "charged" /\ row.status = "created")
<1>1. e.type \in {"activated", "charged", "pending", "halted", "cancelled"}
  BY DEF Event
<1> QED
  BY <1>1 DEF FirstStep

LEMMA EventsAppliedKept ==
    ASSUME Core, [Next]_vars
    PROVE  EventsApplied'
<1> SUFFICES ASSUME NEW h \in Handlers, task'[h].by = "webhook" PROVE Applies(task'[h])
  BY DEF EventsApplied, Applies, Activates, IsPayment
<1>0. TypeInv /\ Applies(task[h]) /\ HandlerMoves(h)
  BY CoreAt, HandlersMove
<1>1. CASE task'[h] = task[h]
  BY <1>0, <1>1
<1>2. CASE GoesOn(h)
  <2>1. task'[h].step \notin {"end", "fail", "halt", "renew", "readToActivate"}
        /\ (task'[h].step = "activate" => task[h].step = "readToActivate")
    BY <1>2 DEF GoesOn, Passes, AfterActivate
  <2>2. task'[h].event = task[h].event /\ task'[h].by = task[h].by
    BY <1>2 DEF GoesOn
  <2> QED
    BY <1>0, <2>1, <2>2 DEF Applies, Activates
<1>3. CASE Starts(h)
  <2>1. /\ task'[h].s \in Subs /\ queue[task'[h].s] # <<>>
        /\ task'[h].event = Head(queue[task'[h].s]) /\ task'[h].row = sub[task'[h].s]
        /\ task'[h].step = FirstStep(task'[h].event, task'[h].row)
    BY <1>3 DEF Starts
  <2>2. task'[h].event \in Event /\ task'[h].row \in Row
    BY <1>0, <2>1, AtRow, TailAt
  <2> QED
    BY <2>1, <2>2, FirstStepFits DEF Applies, Activates, IsPayment
<1> QED
  BY <1>0, <1>1, <1>2, <1>3, IdleTyped DEF HandlerMoves, Leaves

LEMMA TiersStay ==
    ASSUME Struct, [Next]_vars, NEW s \in Subs, Was(s)
    PROVE  sub'[s].tier = sub[s].tier
BY RowsLastAlways DEF RowsLast, RowLasts, Terms, Was

LEMMA LowerKept ==
    ASSUME Core, [Next]_vars, NEW s \in Subs
    PROVE  Lower(s)'
<1>0. Struct /\ TypeInv /\ Lower(s) /\ RowMoves(s)
  BY CoreAt, RowsMove
<1>1. sub[s].replaces # None => sub[s].replaces \in Subs /\ sub'[sub[s].replaces].tier = sub[sub[s].replaces].tier
  BY <1>0, StructAt, AtRow, TiersStay
<1>2. CASE Terms(s) /\ (sub'[s].scheduled = sub[s].scheduled \/ sub'[s].scheduled = None)
  BY <1>0, <1>1, <1>2 DEF Lower, Terms
<1>3. ASSUME NEW h \in Handlers, task[h].step = "schedule", task[h].s = s, Terms(s),
             sub'[s].scheduled = task[h].tier
      PROVE  Lower(s)'
  <2>1. Lowers(task[h]) /\ task[h].tier # None
    BY <1>0, <1>3, CoreAt, AtStep, Bounds DEF TaskInOrder
  <2> QED
    BY <1>0, <1>1, <1>3, <2>1 DEF Lower, Lowers, Terms
<1>4. CASE Inserted(s)
  <2>1. PICK h \in Handlers : /\ task[h].step = "insert" /\ sub'[s].tier = task[h].tier
                              /\ sub'[s].replaces = task[h].old /\ sub'[s].scheduled = None
    BY <1>4 DEF Inserted
  <2>2. Lowers(task[h]) /\ WorkInOrder(task[h]) /\ task[h].old \in Subs \cup {None}
    BY <1>0, CoreAt, StructOf, AtStep
  <2>3. task[h].old # None => sub'[task[h].old].tier = sub[task[h].old].tier
    BY <1>0, <2>2, TiersStay DEF WorkInOrder
  <2> QED
    BY <2>1, <2>2, <2>3 DEF Lower, Lowers
<1>5. CASE Granted(s)
  BY <1>5 DEF Granted, Lower
<1>6. CASE Cancelling(s)
  BY <1>2, <1>6 DEF Cancelling, Cancels, Plans
<1>7. CASE Updating(s)
  <2>1. PICK h \in Handlers :
           /\ Terms(s) /\ task[h].s = s
           /\ \/ sub'[s].scheduled = sub[s].scheduled \/ sub'[s].scheduled = None
              \/ task[h].step = "schedule" /\ sub'[s].scheduled = task[h].tier
    BY <1>7 DEF Updating, Plans
  <2> QED
    BY <1>2, <1>3, <2>1
<1>8. CASE sub'[s] = sub[s]
  BY <1>2, <1>8 DEF Terms
<1> QED
  BY <1>0, <1>4, <1>5, <1>6, <1>7, <1>8 DEF RowMoves

LEMMA LowersKept ==
    ASSUME Core, [Next]_vars, NEW h \in Handlers
    PROVE  Lowers(task[h])'
<1>0. Struct /\ TypeInv /\ Lowers(task[h]) /\ HandlerMoves(h) /\ WorkInOrder(task[h])
      /\ TaskInOrder(task[h])
  BY CoreAt, HandlersMove, StructOf, AtStep
<1>1. /\ task[h].step \in {"stopAtEnd", "schedule", "endToBuy"} =>
            sub'[task[h].s].tier = sub[task[h].s].tier
      /\ task[h].old # None => sub'[task[h].old].tier = sub[task[h].old].tier
  BY <1>0, TiersStay, AtStep DEF WorkInOrder, TaskInOrder, OfWas
<1>2. CASE task'[h] = task[h]
  BY <1>0, <1>1, <1>2 DEF Lowers
<1>3. CASE Leaves(h)
  BY <1>3, IdleTyped DEF Leaves, Lowers
<1>4. CASE GoesOn(h)
  <2>1. task'[h].old = task[h].old /\ task'[h].tier = task[h].tier
    BY <1>4 DEF GoesOn
  <2>2. task'[h].step \in {"stopAtEnd", "schedule", "endToBuy"} =>
           task[h].step = "stopAtEnd" /\ task'[h].s = task[h].s
    BY <1>4 DEF GoesOn, Passes, AfterActivate
  <2> QED
    BY <1>0, <1>1, <2>1, <2>2 DEF Lowers
<1>5. CASE Starts(h)
  <2>1. sub' = sub
    BY <1>5 DEF Starts
  <2>2. task'[h].old # None => task'[h].old \in Subs /\ sub[task'[h].old].tier < task'[h].tier
    BY <1>5 DEF Starts
  <2>3. CASE task'[h].by = "webhook"
    <3>1. /\ task'[h].s \in Subs /\ queue[task'[h].s] # <<>>
          /\ task'[h].event = Head(queue[task'[h].s]) /\ task'[h].row = sub[task'[h].s]
          /\ task'[h].step = FirstStep(task'[h].event, task'[h].row)
      BY <1>5, <2>3 DEF Starts
    <3>2. task'[h].step \in {"readToActivate", "renew", "fail", "halt", "end"}
      BY <1>0, <3>1, AtRow, TailAt, FirstStepOf
    <3> QED
      BY <2>1, <2>2, <3>2 DEF Lowers
  <2>4. CASE task'[h].by = "read"
    <3>1. /\ task'[h].s \in Subs /\ task'[h].tier = sub[task'[h].s].scheduled
      BY <1>5, <2>4 DEF Starts
    <3>2. Lower(task'[h].s)
      BY <3>1, CoreAt
    <3> QED
      BY <2>1, <2>2, <3>1, <3>2 DEF Lowers, Lower
  <2>5. CASE task'[h].by \in {"callback", "owner", "admin"}
    <3>1. task'[h].step \in {"stopAtEnd", "schedule", "endToBuy"} /\ task'[h].tier # None =>
             task'[h].tier < sub[task'[h].s].tier
      BY <1>5, <2>5 DEF Starts
    <3> QED
      BY <2>1, <2>2, <3>1 DEF Lowers
  <2> QED
    BY <1>5, <2>3, <2>4, <2>5 DEF Starts
<1> QED
  BY <1>0, <1>2, <1>3, <1>4, <1>5 DEF HandlerMoves

LEMMA TierOrder ==
    ASSUME TypeInv, NEW s \in Subs
    PROVE  /\ sub[s].tier \in Nat /\ sub[s].scheduled \in Nat
           /\ sub[s].replaces # None => sub[s].replaces \in Subs
<1>1. /\ sub[s].tier \in Tiers \cup {None} /\ sub[s].scheduled \in Tiers \cup {None}
      /\ sub[s].replaces \in Subs \cup {None}
  BY AtRow
<1>2. None \in Nat /\ Tiers \subseteq Nat
  BY Bounds
<1> QED
  BY <1>1, <1>2

\* Who acts is one.
LEMMA OneActs ==
    ASSUME TypeInv, NEW h \in Handlers, NEW k \in Handlers, Others(h), task'[k] # task[k]
    PROVE  h = k
BY DEF Others

\* A handler that was left alone is where it was.
LEMMA MovedAlone ==
    ASSUME NEW h \in Handlers, HandlerMoves(h), task'[h] # task[h]
    PROVE  Others(h)
BY DEF HandlerMoves, Leaves, GoesOn, Starts

\* A row that is not active yet was stored, as it is now or just now.
LEMMA CreatedBefore ==
    ASSUME Struct, [Next]_vars, NEW s \in Subs, sub'[s].status = "created"
    PROVE  sub'[s] = sub[s] \/ Inserted(s)
<1>0. RowMoves(s)
  BY RowsMove
<1>1. ~Granted(s) /\ ~Cancelling(s)
  BY DEF Granted, Cancelling, Cancels
<1>2. ASSUME Updating(s) PROVE FALSE
  <2>1. PICK h \in Handlers : task[h].s = s /\ task[h].step \in {"markEnds", "schedule"}
                              /\ sub'[s].status = sub[s].status
    BY <1>2 DEF Updating
  <2> QED
    BY <2>1, WorkedWas DEF OfWas, Was
<1> QED
  BY <1>0, <1>1, <1>2 DEF RowMoves

\* What is just stored is neither paid nor shown.
LEMMA InsertedUnpaid ==
    ASSUME Struct, [Next]_vars, NEW s \in Subs, Inserted(s)
    PROVE  rzp'[s].paid = 0 /\ ~rzp'[s].shown
<1>1. PICK h \in Handlers : task[h].step = "insert" /\ task[h].s = s /\ Moves(h, "release")
  BY DEF Inserted
<1>2. TypeInv /\ rzp[s].state = "open" /\ ~rzp[s].shown /\ RazorpayMoves(s)
  BY <1>1, StructOf, RazorpayMovesAlways DEF Checkout, Struct
<1>3. rzp[s].paid = 0
  BY <1>2, AtRazorpay DEF MandateInOrder
<1>4. \A k \in Handlers : Acts(k) => k = h
  BY <1>1 DEF Acts, Others, Moves
<1>5. ~Paying(s) /\ ~Charging(s) /\ ~Failing(s) /\ ~IsStopped(s)
  BY <1>1, <1>2 DEF Paying, Unserved, Charging, Failing, IsStopped, CanStop
<1>6. CASE Preparing(s)
  BY <1>1, <1>2, <1>3, <1>4, <1>6 DEF Preparing, StaysPaid, StaysShown, Passes, Starts
<1>7. CASE Waiting(s)
  BY <1>2, <1>3, <1>7 DEF Waiting, StaysPaid, StaysShown
<1> QED
  BY <1>2, <1>3, <1>5, <1>6, <1>7 DEF RazorpayMoves

\* A checkout that is paid and open was, or is being paid.
LEMMA PaidOpenBefore ==
    ASSUME Struct, [Next]_vars, NEW s \in Subs, PaidOpen(s)'
    PROVE  sub'[s] = sub[s] /\ (PaidOpen(s) \/ Paying(s))
<1>1. TypeInv /\ RazorpayMoves(s)
  BY RazorpayMovesAlways DEF Struct
<1>2. sub'[s] = sub[s]
  BY CreatedBefore, InsertedUnpaid DEF PaidOpen
<1>3. rzp'[s].paid = rzp[s].paid \/ Paying(s) \/ Charging(s)
  BY <1>1 DEF RazorpayMoves, Preparing, Waiting, Failing, IsStopped, StaysPaid, EndsAt
<1>4. Charging(s) => rzp[s].paid > 0
  BY <1>1, ChargedLater
<1> QED
  BY <1>2, <1>3, <1>4 DEF PaidOpen

\* While a checkout was paid and is not active, nobody but a scheduled change of an add-on goes
\* on to buy, and that takes another tier.
LEMMA NoBuyersKept ==
    ASSUME Core, Orderly, [Next]_vars, NEW h \in Handlers, NEW s \in Subs
    PROVE  NoBuyer(h, s)'
<1> SUFFICES ASSUME PaidOpen(s)', Buyer(task'[h])
             PROVE  /\ kind' = "addon" /\ task'[h].by = "read"
                    /\ task'[h].step \in {"endToBuy", "browse", "dropOpen"} =>
                          task'[h].tier < sub'[s].tier
  BY DEF NoBuyer, Buyer, PaidOpen
<1>0. /\ Struct /\ TypeInv /\ NoBuyer(h, s) /\ HandlerMoves(h) /\ TaskInOrder(task[h])
      /\ kind' = kind
  BY CoreAt, HandlersMove, AtStep, KindStays
<1>1. sub'[s] = sub[s] /\ (PaidOpen(s) \/ Paying(s))
  BY <1>0, PaidOpenBefore
<1>2. PaidOpen(s)
  <2>1. ~(Paying(s) /\ Buyer(task'[h]))
    BY DEF Paying, Unserved, Buyer, Buying
  <2> QED
    BY <1>1, <2>1
<1>3. CASE task'[h] = task[h]
  BY <1>0, <1>1, <1>2, <1>3 DEF NoBuyer
<1>4. CASE Leaves(h)
  BY <1>4, IdleTyped DEF Leaves, Buyer, Buying
<1>5. CASE GoesOn(h)
  <2>1. Buyer(task[h])
    BY <1>5 DEF GoesOn, Passes, AfterActivate, Buyer, Buying
  <2>2. /\ kind = "addon" /\ task[h].by = "read"
        /\ task[h].step \in {"endToBuy", "browse", "dropOpen"} => task[h].tier < sub[s].tier
    BY <1>0, <1>2, <2>1 DEF NoBuyer
  <2>3. task'[h].by = task[h].by /\ task'[h].tier = task[h].tier
    BY <1>5 DEF GoesOn
  <2>4. task[h].step \notin {"stopNow", "drop", "credit"}
    BY <1>0, <2>2 DEF TaskInOrder, Buying
  <2>5. task'[h].step \in {"endToBuy", "browse", "dropOpen"} =>
           task[h].step \in {"endToBuy", "browse", "dropOpen"}
    BY <1>5, <2>4 DEF GoesOn, Passes, AfterActivate
  <2> QED
    BY <1>0, <1>1, <2>2, <2>3, <2>5
<1>6. CASE Starts(h)
  <2>1. CASE task'[h].by = "webhook"
    <3>1. /\ task'[h].s \in Subs /\ queue[task'[h].s] # <<>>
          /\ task'[h].event = Head(queue[task'[h].s]) /\ task'[h].row = sub[task'[h].s]
          /\ task'[h].step = FirstStep(task'[h].event, task'[h].row)
      BY <1>6, <2>1 DEF Starts
    <3>2. task'[h].step \in {"readToActivate", "renew", "fail", "halt", "end"}
      BY <1>0, <3>1, AtRow, TailAt, FirstStepOf
    <3> QED
      BY <3>2 DEF Buyer, Buying
  <2>2. CASE task'[h].by = "read"
    <3> DEFINE t == task'[h].s
    <3>1. t \in Subs /\ IsLive(t) /\ task'[h].tier = sub[t].scheduled
          /\ (task'[h].step = "endToBuy" => sub[t].scheduled \in Tiers)
          /\ task'[h].step \in {"halt", "end", "endToBuy"}
      BY <1>6, <2>2 DEF Starts
    <3>2. PICK u \in Subs : u = t
      BY <3>1
    <3>3. u # s /\ Indexed(u) /\ Indexed(s) /\ Held(u)
      BY <1>2, <3>1, <3>2 DEF IsLive, PaidOpen, Indexed, Held
    <3>4. kind = "addon"
      BY <1>0, <3>3 DEF Struct, Unique
    <3>5. task'[h].step = "endToBuy" /\ task'[h].tier = sub[u].scheduled /\ sub[u].scheduled \in Tiers
      BY <3>1, <3>2 DEF Buyer, Buying
    <3> HIDE DEF t
    <3>6. Payable(s)
      BY <1>0, <1>2, StructAt DEF PaidOpen, Payable, RowInOrder
    <3>7. sub[s].replaces = u
      BY <3>3, <3>4, <3>6 DEF Core, OffersInOrder, Offers, Offered
    <3>8. sub[u].tier < sub[s].tier /\ sub[u].scheduled < sub[u].tier
      BY <3>5, <3>7, CoreAt, Bounds DEF Lower
    <3> QED
      BY <1>0, <1>1, <2>2, <3>4, <3>5, <3>8, TierOrder
  <2>3. CASE task'[h].by \in {"callback", "owner", "admin"}
    <3>1. \A tier : ~MayBuy(tier)
      BY <1>2, AtRazorpay, <1>0 DEF MayBuy, Orderly, PaidOpen
    <3> QED
      BY <1>6, <2>3, <3>1 DEF Starts, Buyer, Buying
  <2> QED
    BY <1>6, <2>1, <2>2, <2>3 DEF Starts
<1> QED
  BY <1>0, <1>3, <1>4, <1>5, <1>6 DEF HandlerMoves

\* Who is at the activation of s was, or comes when nobody is at a payment of s.
LEMMA ActivatesBefore ==
    ASSUME TypeInv, "callbackRace" \notin Faults, NEW h \in Handlers, HandlerMoves(h),
           Activates(task'[h])
    PROVE  \/ task'[h] = task[h]
           \/ /\ Others(h) /\ Passes(h, "readToActivate", "activate")
              /\ task'[h].s = task[h].s /\ task'[h].by = task[h].by
           \/ Starts(h) /\ task'[h].s \in Subs
              /\ \A k \in Handlers : Activates(task[k]) => task[k].s # task'[h].s
<1>1. CASE GoesOn(h)
  BY <1>1 DEF GoesOn, Passes, Activates, AfterActivate
<1>2. CASE Starts(h)
  <2>1. task'[h].by \in {"webhook", "callback"} => task'[h].s \in Subs /\ NoRace(task'[h].s)
    BY <1>2 DEF Starts
  <2>2. task'[h].by \in {"webhook", "callback"}
    BY <1>2 DEF Starts, Activates
  <2> QED
    BY <1>2, <2>1, <2>2 DEF NoRace, Activates, Activating
<1> QED
  BY <1>1, <1>2, IdleTyped DEF HandlerMoves, Leaves, Activates

LEMMA OneActivatesKept ==
    ASSUME Core, Orderly, [Next]_vars
    PROVE  OneActivates'
<1> SUFFICES ASSUME NEW h \in Handlers, NEW k \in Handlers, Activates(task'[h]),
                    Activates(task'[k]), task'[h].s = task'[k].s, h # k
             PROVE  FALSE
  BY DEF OneActivates, Activates
<1>0. TypeInv /\ HandlerMoves(h) /\ HandlerMoves(k) /\ OneActivates /\ "callbackRace" \notin Faults
  BY CoreAt, HandlersMove DEF Core, Orderly
<1>1. CASE task'[h] = task[h] /\ task'[k] = task[k]
  BY <1>0, <1>1 DEF OneActivates
<1>2. CASE task'[h] # task[h]
  <2>1. Others(h) /\ task'[k] = task[k]
    BY <1>0, <1>2, MovedAlone DEF Others
  <2> QED
    BY <1>0, <1>2, <2>1, ActivatesBefore DEF OneActivates, Activates, Passes
<1>3. CASE task'[k] # task[k]
  <2>1. Others(k) /\ task'[h] = task[h]
    BY <1>0, <1>3, MovedAlone DEF Others
  <2> QED
    BY <1>0, <1>3, <2>1, ActivatesBefore DEF OneActivates, Activates, Passes
<1> QED
  BY <1>1, <1>2, <1>3

-----------------------------------------------------------------------------
\* The first payment is still to be told, or is being made.
LEMMA FirstsBefore ==
    ASSUME Core, [Next]_vars, NEW s \in Subs, Firsts(s)'
    PROVE  Firsts(s) \/ Paying(s)
<1>0. Struct /\ TypeInv /\ FirstIsFirst(s) /\ RazorpayMoves(s) /\ queue[s] \in Seq(Event)
  BY CoreAt, RazorpayMovesAlways, AtRow
<1>1. CASE queue'[s] = queue[s]
  BY <1>1 DEF Firsts
<1>2. ASSUME Popping(s) PROVE FALSE
  <2>1. queue[s] # <<>> /\ queue'[s] = Tail(queue[s])
    BY <1>2 DEF Popping
  <2>2. queue'[s] \in Seq(Event) /\ queue'[s] # <<>>
    BY <1>0, <2>1, TailAt DEF Firsts
  <2>3. 1 \in 1 .. Len(queue'[s]) /\ Head(queue'[s]) = queue'[s][1]
    BY <2>2, TailAt
  <2>4. IsPayment(queue'[s][1]) /\ queue'[s][1].charge = 1
    BY <2>3 DEF Firsts, IsPayment
  <2>5. ~(IsPayment(queue'[s][1]) /\ queue'[s][1].charge = 1)
    BY <1>0, <2>1, <2>3, FirstIsFirstPopped
  <2> QED
    BY <2>4, <2>5
<1>3. ASSUME NEW e \in Event, queue'[s] = Append(queue[s], e), ~(IsPayment(e) /\ e.charge = 1)
      PROVE  Firsts(s)
  <2>1. queue[s] # <<>>
    <3>1. queue[s] = <<>> => Head(queue'[s]) = e
      BY <1>0, <1>3
    <3> QED
      BY <1>3, <3>1 DEF Firsts, IsPayment
  <2> QED
    BY <1>0, <1>3, <2>1, AfterAppend DEF Firsts
<1>4. CASE Charging(s)
  <2>1. PICK e \in Event : e.charge = rzp[s].paid + 1 /\ queue'[s] = Append(queue[s], e)
    BY <1>4 DEF Charging, Said
  <2>2. e.charge # 1
    BY <1>0, <1>4, <2>1, ChargedLater
  <2> QED
    BY <1>3, <2>1, <2>2
<1>5. CASE Failing(s)
  <2>1. PICK e \in Event : e.type \in {"pending", "halted"} /\ queue'[s] = Append(queue[s], e)
    BY <1>5 DEF Failing, Said
  <2> QED
    BY <1>3, <2>1 DEF IsPayment
<1>6. CASE IsStopped(s)
  <2>1. EndedEvent(s) \in Event /\ queue'[s] = Append(queue[s], EndedEvent(s))
    BY <1>6 DEF IsStopped, EndsAt
  <2>2. ~IsPayment(EndedEvent(s))
    BY DEF EndedEvent, IsPayment
  <2> QED
    BY <1>3, <2>1, <2>2
<1> QED
  BY <1>0, <1>1, <1>2, <1>4, <1>5, <1>6 DEF RazorpayMoves

\* A callback was to come, or the checkout is being paid.
LEMMA CallsBackBefore ==
    ASSUME Core, Orderly, [Next]_vars, NEW s \in Subs, CallsBack(s)'
    PROVE  CallsBack(s) \/ Paying(s)
<1>0. TypeInv /\ RazorpayMoves(s)
  BY CoreAt, RazorpayMovesAlways
<1>1. CASE rzp'[s].callback
  <2>1. rzp[s].callback \/ Paying(s)
    BY <1>0, <1>1 DEF RazorpayMoves, Preparing, Waiting, Charging, Failing, IsStopped, EndsAt
  <2> QED
    BY <2>1 DEF CallsBack
<1>2. ASSUME NEW h \in Handlers, task'[h].by = "callback", Activates(task'[h]), task'[h].s = s
      PROVE  CallsBack(s)
  <2>1. HandlerMoves(h)
    BY <1>0, HandlersMove
  <2>2. CASE task'[h] = task[h]
    BY <1>2, <2>2 DEF CallsBack
  <2>3. CASE GoesOn(h)
    BY <1>2, <2>3 DEF CallsBack, GoesOn, Passes, Activates, AfterActivate
  <2>4. CASE Starts(h)
    BY <1>2, <2>4 DEF CallsBack, Starts
  <2> QED
    BY <1>2, <2>1, <2>2, <2>3, <2>4, IdleTyped DEF HandlerMoves, Leaves
<1> QED
  BY <1>1, <1>2 DEF CallsBack, Activates

\* An event that fails the row of s, or halts it, is the oldest one.
LEMMA NotYoungAtFail ==
    ASSUME Core, NEW h \in Handlers, task[h].by = "webhook", task[h].step \in {"fail", "halt"},
           task[h].s \in Subs
    PROVE  ~Firsts(task[h].s) /\ ~CallsBack(task[h].s)
<1> DEFINE s == task[h].s
<1>1. /\ TypeInv /\ Young(s) /\ queue[s] # <<>> /\ Head(queue[s]).type \in {"pending", "halted"}
      /\ queue[s] \in Seq(Event)
  BY CoreAt, AtRow DEF Applies, TypeInv, Deliveries
<1>2. Head(queue[s]) = queue[s][1] /\ 1 \in 1 .. Len(queue[s])
  BY <1>1, TailAt
<1>3. ~Firsts(s)
  BY <1>1 DEF Firsts, IsPayment
<1>4. ~CallsBack(s)
  BY <1>1, <1>2 DEF Young
<1> QED
  BY <1>3, <1>4

LEMMA YoungRow ==
    ASSUME Core, [Next]_vars, NEW s \in Subs, Firsts(s) \/ CallsBack(s)
    PROVE  sub'[s].status \notin {"past_due", "halted"}
<1>0. Struct /\ TypeInv /\ RowMoves(s) /\ Young(s)
  BY CoreAt, RowsMove
<1>1. /\ sub[s].status \notin {"past_due", "halted"}
      /\ \A h \in Handlers : task[h].by = "read" /\ task[h].step = "halt" => task[h].s # s
  BY <1>0 DEF Young
<1>2. \A h \in Handlers : task[h].step \in {"fail", "halt"} => task[h].s # s
  <2> SUFFICES ASSUME NEW h \in Handlers, task[h].step \in {"fail", "halt"}, task[h].s = s
               PROVE  FALSE
    OBVIOUS
  <2>1. TaskInOrder(task[h]) /\ task[h].by \in {"nobody", "webhook", "callback", "owner", "read", "admin"}
    BY <1>0, AtStep
  <2>2. task[h].by \in {"webhook", "read"}
    BY <2>1 DEF TaskInOrder, Activating, Buying
  <2>3. task[h].by = "webhook"
    BY <1>1, <2>1, <2>2 DEF TaskInOrder, Buying
  <2> QED
    BY <2>3, NotYoungAtFail
<1>3. CASE Updating(s)
  BY <1>1, <1>2, <1>3 DEF Updating
<1> QED
  BY <1>0, <1>1, <1>3 DEF RowMoves, Inserted, Granted, Cancelling, Cancels

\* While the callback may come, the cycle is the first and not over.
LEMMA CalledBackEarly ==
    ASSUME Core, Orderly, [Next]_vars, NEW s \in Subs, CallsBack(s)'
    PROVE  /\ rzp'[s].paid = 1 /\ rzp'[s].due > today' /\ rzp'[s].state \in {"active", "cancelled"}
           /\ \A i \in 1 .. Len(queue'[s]) : queue'[s][i].type \notin {"pending", "halted"}
<1>0. /\ Struct /\ TypeInv /\ RazorpayMoves(s) /\ Young(s) /\ queue[s] \in Seq(Event)
      /\ CallsBack(s) \/ Paying(s)
      /\ rzp[s].due \in Nat /\ today \in Nat /\ Period \in Nat /\ Period > 0
  BY CoreAt, RazorpayMovesAlways, CallsBackBefore, AtRow, Counted, Bounds
<1>1. CASE Paying(s)
  <2>1. PICK e \in Event : IsPayment(e) /\ queue'[s] = Append(queue[s], e)
    BY <1>1 DEF Paying, Said, IsPayment, Orderly
  <2>2. queue[s] = <<>>
    BY <1>0, <1>1, PaidAnew
  <2>3. Len(queue'[s]) = 1 /\ queue'[s][1] = e
    BY <1>0, <2>1, <2>2
  <2>4. \A i \in 1 .. Len(queue'[s]) : queue'[s][i].type \notin {"pending", "halted"}
    BY <2>1, <2>3 DEF IsPayment
  <2>5. today' = today
    BY <1>0, <1>1, <2>1, ClockMoves DEF Paying, Waiting, StaysState
  <2> QED
    BY <1>0, <1>1, <2>4, <2>5 DEF Paying
<1>2. CASE CallsBack(s) /\ ~Paying(s)
  <2>1. /\ rzp[s].paid = 1 /\ rzp[s].due > today /\ rzp[s].state \in {"active", "cancelled"}
        /\ \A i \in 1 .. Len(queue[s]) : queue[s][i].type \notin {"pending", "halted"}
    BY <1>0, <1>2 DEF Young
  <2>2. ~Waiting(s)
    BY DEF Waiting, Unserved, CallsBack, Activates
  <2>3. today' = today
    BY <2>2, ClockMoves, <1>0
  <2>4. ~(rzp[s].due <= today)
    BY <1>0, <2>1
  <2>5. ~Charging(s) /\ ~Failing(s)
    BY <2>1, <2>4 DEF Charging, Failing
  <2>6. rzp'[s].paid = rzp[s].paid /\ rzp'[s].due = rzp[s].due
        /\ rzp'[s].state \in {"active", "cancelled"}
    BY <1>0, <1>2, <2>1, <2>2, <2>5
       DEF RazorpayMoves, Preparing, IsStopped, EndsAt, StaysPaid, StaysState, Fresh
  <2>7. \A i \in 1 .. Len(queue'[s]) : queue'[s][i].type \notin {"pending", "halted"}
    <3>1. CASE queue'[s] = queue[s]
      BY <2>1, <3>1
    <3>2. CASE Popping(s)
      <4>1. /\ Len(queue[s]) \in Nat /\ Len(queue'[s]) = Len(queue[s]) - 1
            /\ \A i \in 1 .. Len(queue'[s]) : queue'[s][i] = queue[s][i + 1]
        BY <1>0, <3>2, TailAt DEF Popping
      <4>2. \A i \in 1 .. Len(queue'[s]) : i + 1 \in 1 .. Len(queue[s])
        BY <4>1
      <4> QED
        BY <2>1, <4>1, <4>2
    <3>3. CASE IsStopped(s)
      <4>1. /\ EndedEvent(s) \in Event /\ queue'[s] = Append(queue[s], EndedEvent(s))
            /\ EndedEvent(s).type = "cancelled"
        BY <3>3 DEF IsStopped, EndsAt, EndedEvent
      <4>2. /\ Len(queue[s]) \in Nat /\ Len(queue'[s]) = Len(queue[s]) + 1
            /\ \A i \in 1 .. Len(queue[s]) : queue'[s][i] = queue[s][i]
            /\ queue'[s][Len(queue[s]) + 1].type = "cancelled"
        BY <1>0, <4>1, AppendAt
      <4>3. \A i \in 1 .. Len(queue'[s]) : i \in 1 .. Len(queue[s]) \/ i = Len(queue[s]) + 1
        BY <4>2
      <4> QED
        BY <2>1, <4>2, <4>3
    <3> QED
      BY <1>0, <1>2, <2>5, <3>1, <3>2, <3>3 DEF RazorpayMoves
  <2> QED
    BY <2>1, <2>3, <2>6, <2>7
<1> QED
  BY <1>0, <1>1, <1>2

LEMMA YoungKept ==
    ASSUME Core, Orderly, [Next]_vars, NEW s \in Subs
    PROVE  Young(s)'
<1>0. Struct /\ TypeInv /\ Young(s)
  BY CoreAt
<1>1. ASSUME Firsts(s)' \/ CallsBack(s)'
      PROVE  /\ sub'[s].status \notin {"past_due", "halted"}
             /\ \A h \in Handlers : task'[h].by = "read" /\ task'[h].step = "halt" =>
                                       task'[h].s # s
  <2>1. Firsts(s) \/ CallsBack(s) \/ Paying(s)
    BY <1>1, FirstsBefore, CallsBackBefore
  <2>2. CASE Paying(s)
    <3>1. sub[s].status = "created" /\ Unserved
      BY <2>2 DEF Paying, Orderly
    <3>2. RazorpayMoves(s) /\ rzp'[s].state = "active" /\ rzp[s].state = "open"
      BY <1>0, <2>2, RazorpayMovesAlways DEF Paying
    <3>3. RowMoves(s)
      BY <1>0, RowsMove
    <3>4. \A h \in Handlers : task[h].step = "idle" /\ task'[h].step = "idle"
      BY <3>1 DEF Unserved
    <3>5. sub'[s] = sub[s]
      BY <3>1, <3>3, <3>4 DEF RowMoves, Cancelling, Updating, Acts
    <3> QED
      BY <3>1, <3>4, <3>5
  <2>3. CASE Firsts(s) \/ CallsBack(s)
    <3>1. sub'[s].status \notin {"past_due", "halted"}
      BY <2>3, YoungRow
    <3>2. ASSUME NEW h \in Handlers, task'[h].by = "read", task'[h].step = "halt", task'[h].s = s
          PROVE  FALSE
      <4>1. HandlerMoves(h) /\ ~GraceOver(sub[s])
        BY <1>0, <2>3, HandlersMove DEF Young, GraceOver
      <4>2. task'[h] = task[h]
        BY <3>2, <4>1, IdleTyped DEF HandlerMoves, Leaves, GoesOn, Passes, AfterActivate, Starts
      <4> QED
        BY <1>0, <2>3, <3>2, <4>2 DEF Young
    <3> QED
      BY <3>1, <3>2
  <2> QED
    BY <2>1, <2>2, <2>3
<1>2. Firsts(s)' \/ CallsBack(s)' =>
         /\ sub'[s].status \notin {"past_due", "halted"}
         /\ \A h \in Handlers : task'[h].by = "read" /\ task'[h].step = "halt" => task'[h].s # s
  BY <1>1
<1>3. CallsBack(s)' =>
         /\ rzp'[s].paid = 1 /\ rzp'[s].due > today' /\ rzp'[s].state \in {"active", "cancelled"}
         /\ \A i \in 1 .. Len(queue'[s]) : queue'[s][i].type \notin {"pending", "halted"}
  BY CalledBackEarly
<1> QED
  BY <1>2, <1>3 DEF Young

\* Who is at an activation has a payment of its subscription.
LEMMA ActivatesPaid ==
    ASSUME Struct, NEW h \in Handlers, Activates(task[h])
    PROVE  /\ task[h].s \in Subs /\ task[h].by \in {"webhook", "callback"}
           /\ rzp[task[h].s].paid > 0 /\ sub[task[h].s].status # "none"
<1>1. TypeInv /\ TaskInOrder(task[h]) /\ WorkInOrder(task[h])
      /\ task[h].by \in {"nobody", "webhook", "callback", "owner", "read", "admin"}
  BY AtStep, StructOf DEF Struct
<1>2. task[h].s \in Subs /\ task[h].by \in {"webhook", "callback"}
  BY <1>1 DEF TaskInOrder, Activates, Activating, OfEvent, Buying
<1> QED
  BY <1>1, <1>2, PaidIsSold DEF WorkInOrder

\* A checkout that is paid is cancelled by nobody: it stays, or is activated.
LEMMA PaidStays ==
    ASSUME Core, Orderly, [Next]_vars, NEW s \in Subs, PaidOpen(s)
    PROVE  /\ ~Cancelling(s)
           /\ \/ sub'[s] = sub[s]
              \/ \E h \in Handlers : /\ Acts(h) /\ task[h].step = "activate" /\ task[h].s = s
                                     /\ sub'[s].status = "active" /\ Terms(s)
<1>0. /\ Struct /\ TypeInv /\ RowMoves(s) /\ RowInOrder(s) /\ QueueInOrder(s)
      /\ sub[s].status = "created" /\ ~Was(s) /\ ~IsLive(s)
  BY CoreAt, RowsMove, StructAt DEF Was, IsLive, PaidOpen
<1>1. ASSUME NEW k \in Handlers, Acts(k)
      PROVE  /\ TaskInOrder(task[k]) /\ WorkInOrder(task[k]) /\ Applies(task[k])
             /\ NoBuyer(k, s) /\ task[k].halted \in SUBSET Subs
             /\ task[k].by \in {"nobody", "webhook", "callback", "owner", "read", "admin"}
  BY <1>0, <1>1, AtStep, StructOf, CoreAt DEF Acts
<1>2. ASSUME NEW k \in Handlers, Acts(k), task[k].s = s
      PROVE  task[k].step \notin OfWas \cup {"end"}
  <2>1. task[k].step \notin OfWas
    BY <1>0, <1>1, <1>2 DEF WorkInOrder
  <2>3. ASSUME task[k].step = "end", task[k].by = "webhook" PROVE FALSE
    <3>1. task[k].event.type = "cancelled" /\ queue[s] # <<>> /\ task[k].event = Head(queue[s])
      BY <1>0, <1>1, <1>2, <2>3 DEF Applies, TypeInv, Deliveries
    <3>2. queue[s] \in Seq(Event) /\ 1 \in 1 .. Len(queue[s]) /\ queue[s][1].type = "cancelled"
      BY <1>0, <3>1, AtRow, TailAt
    <3> QED
      BY <1>0, <3>2 DEF QueueInOrder, RowInOrder
  <2>4. task[k].step = "end" => task[k].by \in {"webhook", "read", "admin"}
    BY <1>1, <1>2 DEF TaskInOrder, Activating, Buying
  <2>5. task[k].step # "end"
    BY <1>0, <1>1, <1>2, <2>3, <2>4 DEF WorkInOrder
  <2> QED
    BY <2>1, <2>5
<1>3. ASSUME Updating(s)
      PROVE  \E h \in Handlers : /\ Acts(h) /\ task[h].step = "activate" /\ task[h].s = s
                                /\ sub'[s].status = "active" /\ Terms(s)
  <2>1. PICK k \in Handlers :
           /\ Acts(k) /\ task[k].s = s
           /\ \/ task[k].step = "activate" /\ sub'[s].status = "active"
              \/ task[k].step \in {"renew", "markEnds", "schedule"}
              \/ IsLive(s)
    BY <1>3 DEF Updating
  <2>2. Terms(s)
    BY <1>3 DEF Updating
  <2> QED
    BY <1>0, <1>2, <2>1, <2>2 DEF OfWas
<1>4. ASSUME Cancelling(s) PROVE FALSE
  <2>1. PICK k \in Handlers :
          /\ Acts(k)
          /\ \/ task[k].step \in {"end", "endToBuy", "drop"} /\ task[k].s = s
             \/ task[k].step = "retire" /\ task[k].row.replaces = s
             \/ task[k].step = "dropOpen" /\ sub[s].status = "created" /\ sub[s].tier = task[k].tier
             \/ Passes(k, "insert", "release") /\ s \in Retired(k) /\ s # task[k].s
             \/ task[k].step = "clear" /\ s \in task[k].halted
    BY <1>4 DEF Cancelling
  <2>2. ~(task[k].step \in {"end", "endToBuy", "drop"} /\ task[k].s = s)
    BY <1>2, <2>1 DEF OfWas
  <2>3. ~(task[k].step = "retire" /\ task[k].row.replaces = s)
    BY <1>0, ReplacedWas
  <2>4. Buyer(task[k]) => kind = "addon" /\ task[k].by = "read"
            /\ (task[k].step = "dropOpen" => task[k].tier < sub[s].tier)
    BY <1>1, <2>1 DEF NoBuyer
  <2>5. ~(task[k].step = "dropOpen" /\ sub[s].tier = task[k].tier)
    BY <1>0, <2>4, TierOrder DEF Buyer, Buying
  <2>6. ~(Passes(k, "insert", "release") /\ s \in Retired(k))
    <3> SUFFICES ASSUME Passes(k, "insert", "release"), s \in Retired(k) PROVE FALSE
      OBVIOUS
    <3>1. task[k].step = "insert"
      BY DEF Passes
    <3>2. s \in task[k].halted
      BY <2>4, <3>1 DEF Retired, Buyer, Buying
    <3> QED
      BY <1>0, <1>1, <2>1, <3>1, <3>2 DEF WorkInOrder
  <2>7. task[k].step # "clear"
    BY <1>1, <2>1, <2>4 DEF TaskInOrder, Buyer, Buying
  <2> QED
    BY <2>1, <2>2, <2>3, <2>5, <2>6, <2>7
<1> QED
  BY <1>0, <1>3, <1>4 DEF RowMoves

\* A checkout that is being activated is nobody else's to end.
LEMMA CreatedStays ==
    ASSUME Core, Orderly, [Next]_vars, NEW h \in Handlers, Activates(task[h]),
           task'[h] = task[h], sub[task[h].s].status = "created"
    PROVE  sub'[task[h].s].status = "created"
<1> PICK s \in Subs : s = task[h].s
  BY CoreAt, ActivatesPaid
<1>1. PaidOpen(s)
  BY CoreAt, ActivatesPaid DEF PaidOpen
<1>2. ASSUME NEW k \in Handlers, Acts(k), task[k].step = "activate", task[k].s = s PROVE FALSE
  BY <1>2 DEF Core, OneActivates, Activates, Acts
<1> QED
  BY <1>1, <1>2, PaidStays

\* What is about to be activated was not cancelled, whoever else is at work.
LEMMA ActivationKept ==
    ASSUME Core, Orderly, [Next]_vars, NEW h \in Handlers
    PROVE  Activation(task[h])'
<1>0. Struct /\ TypeInv /\ Activation(task[h]) /\ HandlerMoves(h)
  BY CoreAt, HandlersMove
<1>1. CASE task'[h] = task[h]
  BY <1>0, <1>1, CreatedStays DEF Activation, Activates
<1>2. CASE Leaves(h)
  BY <1>2, IdleTyped DEF Leaves, Activation, Activates
<1>3. ASSUME GoesOn(h), Activates(task'[h]) PROVE Activation(task[h])'
  <2>1. /\ task[h].step = "readToActivate" /\ UNCHANGED sub
        /\ sub[task[h].s].status \notin {"active", "cancelled"}
        /\ task'[h].s = task[h].s /\ task'[h].event = task[h].event /\ task'[h].by = task[h].by
    BY <1>3 DEF GoesOn, Passes, Activates, AfterActivate
  <2>2. /\ task[h].s \in Subs /\ task[h].by \in {"webhook", "callback"}
        /\ rzp[task[h].s].paid > 0 /\ sub[task[h].s].status # "none"
    BY <1>0, <2>1, ActivatesPaid DEF Activates
  <2> PICK s \in Subs : s = task[h].s
    BY <2>2
  <2>3. Young(s) /\ QueueInOrder(s)
    BY CoreAt, <1>0, StructAt
  <2>4. CASE task[h].by = "callback"
    <3>1. CallsBack(s)
      BY <2>1, <2>4 DEF CallsBack, Activates
    <3>2. sub[s].status = "created"
      BY <1>0, <2>1, <2>2, <2>3, <3>1, AtRow DEF Young, Statuses
    <3> QED
      BY <2>1, <2>4, <3>2 DEF Activation
  <2>5. CASE task[h].by = "webhook"
    <3>1. sub[s].status = "created"
      <4>1. CASE task[h].event.type = "activated"
        <5>1. queue[s] # <<>> /\ task[h].event = Head(queue[s]) /\ queue[s] \in Seq(Event)
          BY <1>0, <2>5, AtRow DEF TypeInv, Deliveries
        <5>2. 1 \in 1 .. Len(queue[s]) /\ Head(queue[s]) = queue[s][1]
          BY <5>1, TailAt
        <5>3. Firsts(s)
          BY <2>3, <4>1, <5>1, <5>2 DEF QueueInOrder, Firsts, IsPayment
        <5> QED
          BY <1>0, <2>1, <2>2, <2>3, <5>3, AtRow DEF Young, Statuses
      <4> QED
        BY <1>0, <2>1, <2>5, <4>1 DEF Activation, Activates
    <3> QED
      BY <2>1, <3>1 DEF Activation
  <2> QED
    BY <2>2, <2>4, <2>5
<1>4. ASSUME Starts(h), Activates(task'[h]) PROVE Activation(task[h])'
  <2>1. sub' = sub /\ task'[h].step = "readToActivate"
        /\ (task'[h].by = "webhook" =>
              /\ task'[h].s \in Subs /\ queue[task'[h].s] # <<>>
              /\ task'[h].event = Head(queue[task'[h].s]) /\ task'[h].row = sub[task'[h].s]
              /\ task'[h].step = FirstStep(task'[h].event, task'[h].row))
    <3>1. task'[h].by = "webhook" =>
              /\ task'[h].s \in Subs /\ queue[task'[h].s] # <<>>
              /\ task'[h].event = Head(queue[task'[h].s]) /\ task'[h].row = sub[task'[h].s]
              /\ task'[h].step = FirstStep(task'[h].event, task'[h].row)
      BY <1>4 DEF Starts
    <3>2. task'[h].by = "webhook" => task'[h].event \in Event /\ task'[h].row \in Row
      BY <1>0, <3>1, AtRow, TailAt
    <3>3. task'[h].by = "webhook" => task'[h].step = "readToActivate"
      BY <1>4, <3>1, <3>2, FirstStepFits DEF Activates
    <3> QED
      BY <1>4, <3>1, <3>3 DEF Starts, Activates
  <2>2. task'[h].by = "webhook" =>
           task'[h].event.type = "activated" \/ sub'[task'[h].s].status = "created"
    <3> SUFFICES ASSUME task'[h].by = "webhook"
                 PROVE  task'[h].event.type = "activated" \/ sub'[task'[h].s].status = "created"
      OBVIOUS
    <3>1. task'[h].event \in Event /\ task'[h].row \in Row
      BY <1>0, <2>1, AtRow, TailAt
    <3> QED
      BY <2>1, <3>1, FirstStepFits
  <2> QED
    BY <2>1, <2>2 DEF Activation
<1> QED
  BY <1>0, <1>1, <1>2, <1>3, <1>4 DEF HandlerMoves, Activation, Activates

\* Its checkout is being shown to the owner.
Shows(h, s) ==
    /\ task[h].step = "release" /\ task[h].by = "owner" /\ task[h].s = s /\ Acts(h)
    /\ UNCHANGED sub

\* It is being activated.
ActivatesNow(h, t) == task[h].step = "activate" /\ task[h].s = t /\ Acts(h)

\* An open checkout that can be paid could be, or is being shown.
LEMMA PayableBefore ==
    ASSUME Struct, [Next]_vars, NEW s \in Subs, Payable(s)'
    PROVE  /\ sub'[s] = sub[s] /\ sub[s].status = "created"
           /\ Payable(s) \/ \E h \in Handlers : Shows(h, s)
<1>1. TypeInv /\ RazorpayMoves(s)
  BY RazorpayMovesAlways DEF Struct
<1>2. sub'[s] = sub[s] /\ sub[s].status = "created" /\ rzp'[s].shown
  BY CreatedBefore, InsertedUnpaid DEF Payable
<1>3. CASE StaysShown(s)
  BY <1>2, <1>3 DEF StaysShown, Payable
<1>4. CASE Preparing(s)
  <2>1. \/ StaysShown(s)
        \/ \E h \in Handlers :
              /\ Acts(h) /\ task[h].step = "release" /\ task[h].s = s /\ UNCHANGED sub
              /\ rzp'[s].shown = (task[h].by = "owner")
    BY <1>4 DEF Preparing
  <2> QED
    BY <1>2, <1>3, <2>1 DEF Shows
<1>5. rzp'[s] = rzp[s] \/ Waiting(s) \/ Paying(s) \/ Charging(s) \/ Failing(s) \/ IsStopped(s)
         => StaysShown(s)
  BY DEF StaysShown, Waiting, Paying, Charging, Failing, IsStopped, EndsAt
<1> QED
  BY <1>1, <1>2, <1>3, <1>4, <1>5 DEF RazorpayMoves

\* What is held was, or its paid checkout is being activated, or an administrator gives it.
LEMMA HeldBefore ==
    ASSUME Core, [Next]_vars, NEW t \in Subs, Held(t)'
    PROVE  \/ Held(t)
           \/ PaidOpen(t) /\ \E h \in Handlers : ActivatesNow(h, t)
           \/ Granted(t)
<1>0. Struct /\ TypeInv /\ RowMoves(t)
  BY CoreAt, RowsMove
<1>1. sub'[t].status \in {"active", "past_due", "halted"}
  BY DEF Held
<1>2. CASE Updating(t)
  <2>1. PICK h \in Handlers :
          /\ Acts(h) /\ task[h].s = t
          /\ \/ task[h].step = "activate"
             \/ task[h].step = "renew" /\ Revivable(t, task[h].row)
             \/ IsLive(t)
             \/ sub'[t].status = sub[t].status
    BY <1>2 DEF Updating
  <2>2. CASE task[h].step = "activate"
    <3>1. Activates(task[h]) /\ sub[t].status = "created"
      BY <2>1, <2>2, CoreAt DEF Activates, Activation
    <3>2. PaidOpen(t)
      BY <1>0, <2>1, <3>1, ActivatesPaid DEF PaidOpen
    <3> QED
      BY <2>1, <2>2, <3>2 DEF ActivatesNow
  <2>3. CASE task[h].step = "renew" /\ Revivable(t, task[h].row)
    <3>1. Was(t)
      BY <1>0, <2>1, <2>3, WorkedWas DEF OfWas
    <3> QED
      BY <1>0, <2>3, <3>1, AtRow DEF Was, Revivable, Held, Statuses
  <2> QED
    BY <1>1, <2>1, <2>2, <2>3 DEF IsLive, Held
<1> QED
  BY <1>0, <1>1, <1>2 DEF RowMoves, Inserted, Cancelling, Cancels, Held

\* Of an add-on, what is written here holds of everybody.
Addon == kind = "addon" /\ "addon" \in Kinds /\ "ownerTwice" \notin Faults /\ "bothOpen" \notin Uses

LEMMA AddonAt ==
    ASSUME Core, Orderly, kind = "addon"
    PROVE  /\ Addon /\ OneOwner /\ \A s, t \in Subs : Offered(s, t)
           /\ \A h \in Handlers : Offerer(task[h])
<1>1. kind \in Kinds
  BY CoreAt DEF TypeInv, TypeOK
<1> QED
  BY <1>1 DEF Core, OffersInOrder, Offers, Addon, Orderly

LEMMA OneOwnerKept ==
    ASSUME Core, Orderly, kind = "addon", [Next]_vars
    PROVE  OneOwner'
<1> SUFFICES ASSUME NEW h \in Handlers, NEW k \in Handlers, task'[h].by \in {"owner", "admin"},
                    task'[k].by \in {"owner", "admin"}, h # k
             PROVE  FALSE
  BY DEF OneOwner
<1>0. TypeInv /\ OneOwner /\ Addon
  BY CoreAt, AddonAt
<1>1. \A i \in Handlers : HandlerMoves(i)
  BY CoreAt, HandlersMove
<1>2. ASSUME NEW i \in Handlers, task'[i].by \in {"owner", "admin"}
      PROVE  \/ task[i].by = task'[i].by
             \/ Others(i) /\ \A j \in Handlers : task[j].by \notin {"owner", "admin"}
  BY <1>0, <1>1, <1>2, IdleTyped DEF HandlerMoves, Leaves, GoesOn, Starts, OwnerFree, Addon
<1>3. CASE task[h].by = task'[h].by /\ task[k].by = task'[k].by
  BY <1>0, <1>3 DEF OneOwner
<1>4. ASSUME NEW i \in Handlers, NEW j \in Handlers, i # j, task'[j].by \in {"owner", "admin"},
             Others(i), \A l \in Handlers : task[l].by \notin {"owner", "admin"}
      PROVE  FALSE
  BY <1>4 DEF Others
<1> QED
  BY <1>2, <1>3, <1>4

\* Two checkouts are not open to be paid, nor one beside what it does not replace.
LEMMA OfferedKept ==
    ASSUME Core, Orderly, kind = "addon", [Next]_vars, NEW s \in Subs, NEW t \in Subs
    PROVE  Offered(s, t)'
<1>0. Struct /\ TypeInv /\ Offered(s, t) /\ Offered(t, s) /\ Addon
  BY CoreAt, AddonAt
<1> SUFFICES ASSUME Payable(s)'
             PROVE  (Payable(t)' => s = t) /\ (Held(t)' => sub'[s].replaces = t)
  BY DEF Offered, Payable, Held
<1>1. /\ sub'[s] = sub[s] /\ sub[s].status = "created"
      /\ Payable(s) \/ \E h \in Handlers : Shows(h, s)
  BY <1>0, PayableBefore
<1>2. ASSUME NEW h \in Handlers, NEW i \in Subs, Shows(h, i)
      PROVE  /\ \A j \in Subs : ~Payable(j)
             /\ \A j \in Subs : Held(j) => sub[i].replaces = j
             /\ \A k \in Handlers : Acts(k) => k = h
  <2>1. Offerer(task[h]) /\ Checkout(h)
    BY <1>0, AddonAt, StructOf
  <2> QED
    BY <1>2, <2>1 DEF Shows, Offerer, Checkout, Acts, Others
<1>3. Payable(t)' => s = t
  <2> SUFFICES ASSUME Payable(t)' PROVE s = t
    OBVIOUS
  <2>1. Payable(t) \/ \E h \in Handlers : Shows(h, t)
    BY <1>0, PayableBefore
  <2>2. CASE Payable(s) /\ Payable(t)
    BY <1>0, <2>2 DEF Offered
  <2>3. CASE (\E h \in Handlers : Shows(h, s)) /\ (\E h \in Handlers : Shows(h, t))
    BY <1>2, <2>3 DEF Shows
  <2> QED
    BY <1>1, <1>2, <2>1, <2>2, <2>3
<1>4. Held(t)' => sub[s].replaces = t
  <2> SUFFICES ASSUME Held(t)' PROVE sub[s].replaces = t
    OBVIOUS
  <2>1. CASE Held(t)
    BY <1>0, <1>1, <1>2, <2>1 DEF Offered
  <2>2. ASSUME PaidOpen(t), NEW k \in Handlers, ActivatesNow(k, t) PROVE FALSE
    <3>1. Payable(t)
      BY <1>0, <2>2, StructAt DEF PaidOpen, Payable, RowInOrder
    <3>2. Payable(s)
      <4>1. ASSUME NEW h \in Handlers, Shows(h, s) PROVE FALSE
        BY <1>2, <2>2, <4>1 DEF ActivatesNow, Shows
      <4> QED
        BY <1>1, <4>1
    <3>3. s = t
      BY <1>0, <3>1, <3>2 DEF Offered
    <3> QED
      BY <1>1, <3>3 DEF Held
  <2>3. ASSUME Granted(t) PROVE FALSE
    <3>1. PICK k \in Handlers : task[k].step = "grant" /\ Leaves(k)
      BY <2>3 DEF Granted
    <3>2. Acts(k)
      BY <3>1, IdleTyped DEF Leaves, Acts
    <3>3. ~Payable(s)
      BY <3>1, <1>0, AddonAt DEF Offerer
    <3>4. ASSUME NEW h \in Handlers, Shows(h, s) PROVE FALSE
      BY <1>2, <3>1, <3>2, <3>4 DEF Shows
    <3> QED
      BY <1>1, <3>3, <3>4
  <2> QED
    BY <2>1, <2>2, <2>3, HeldBefore
<1> QED
  BY <1>1, <1>3, <1>4

\* The owner leaves nothing to be paid but what was asked for, and nothing held beside what
\* is replaced.
LEMMA OffererStays ==
    ASSUME Core, Orderly, kind = "addon", [Next]_vars, NEW h \in Handlers, task'[h] = task[h]
    PROVE  Offerer(task[h])'
<1>0. Struct /\ TypeInv /\ Offerer(task[h]) /\ OneOwner /\ TaskInOrder(task[h])
      /\ task[h].by \in {"nobody", "webhook", "callback", "owner", "read", "admin"}
  BY CoreAt, AddonAt, AtStep
<1>1. ASSUME NEW s \in Subs, Payable(s)', task[h].by \in {"owner", "admin"}
      PROVE  Payable(s) /\ sub'[s] = sub[s]
  <2>1. ASSUME NEW k \in Handlers, Shows(k, s) PROVE FALSE
    BY <1>0, <1>1, <2>1 DEF Shows, Acts, OneOwner
  <2> QED
    BY <1>0, <1>1, <2>1, PayableBefore
<1>2. ASSUME NEW s \in Subs, Held(s)', task[h].by = "owner", Buyer(task[h])
      PROVE  Held(s)
  <2>1. ~PaidOpen(s)
    <3>1. NoBuyer(h, s)
      BY CoreAt
    <3> QED
      BY <1>2, <3>1 DEF NoBuyer
  <2>2. ASSUME Granted(s) PROVE FALSE
    <3>1. PICK k \in Handlers : task[k].step = "grant" /\ Leaves(k)
      BY <2>2 DEF Granted
    <3>2. TaskInOrder(task[k])
          /\ task[k].by \in {"nobody", "webhook", "callback", "owner", "read", "admin"}
      BY <1>0, AtStep
    <3>3. task[k].by = "admin"
      BY <3>1, <3>2 DEF TaskInOrder, OfEvent, Activating, Buying
    <3> QED
      BY <1>0, <1>2, <3>3 DEF OneOwner
  <2> QED
    BY <1>2, <2>1, <2>2, HeldBefore
<1>3. \A s \in Subs : Was(s) \/ sub'[s] = sub[s] \/ ~Payable(s)'
  BY <1>0, PayableBefore
<1>4. task[h].step \in {"clear", "grant"} => task[h].by = "admin"
  BY <1>0 DEF TaskInOrder, OfEvent, Activating, Buying
<1>5. task[h].by = "owner" /\ task[h].step \in {"browse", "dropOpen"} =>
         \A s \in Subs : Payable(s)' => sub'[s].tier = task[h].tier
  BY <1>0, <1>1 DEF Offerer
<1>6. task[h].by = "owner" /\ task[h].step \in {"subscribe", "insert", "release"} =>
         \A s \in Subs : ~Payable(s)'
  BY <1>0, <1>1 DEF Offerer
<1>7. task[h].by = "owner" /\ task[h].step \in {"dropOpen", "subscribe", "insert"} =>
         \A s \in Subs : Held(s)' => s = task[h].old \/ s \in task[h].halted
  BY <1>0, <1>2 DEF Offerer, Buyer, Buying
<1>8. task[h].by = "owner" /\ task[h].step = "release" =>
         \A s \in Subs : Held(s)' => s = task[h].old
  BY <1>0, <1>2 DEF Offerer, Buyer, Buying
<1>9. task[h].step = "clear" => \A s \in Subs : Payable(s)' => s \in task[h].halted
  BY <1>0, <1>1, <1>4 DEF Offerer
<1>10. task[h].step = "grant" => \A s \in Subs : ~Payable(s)'
  BY <1>0, <1>1, <1>4 DEF Offerer
<1>11. task[h].step \notin {"stopNow", "drop", "credit"}
  BY <1>0 DEF Offerer
<1> QED
  BY <1>5, <1>6, <1>7, <1>8, <1>9, <1>10, <1>11, task'[h] = task[h] DEF Offerer, Payable, Held

LEMMA OffererGoesOn ==
    ASSUME Core, Orderly, kind = "addon", [Next]_vars, NEW h \in Handlers, GoesOn(h)
    PROVE  Offerer(task[h])'
<1>0. Struct /\ TypeInv /\ Offerer(task[h]) /\ TaskInOrder(task[h]) /\ Checkout(h)
      /\ task[h].by \in {"nobody", "webhook", "callback", "owner", "read", "admin"}
      /\ task[h].s \in Subs \cup {None} /\ task[h].step # "release"
  BY CoreAt, AddonAt, AtStep, StructOf DEF GoesOn, Passes
<1>1. /\ Others(h) /\ task'[h].by = task[h].by /\ task'[h].tier = task[h].tier
      /\ task'[h].old = task[h].old
      /\ task[h].step # "browse" => task'[h].halted = task[h].halted
  BY DEF GoesOn
<1>2. task'[h].step # task[h].step
  BY DEF GoesOn, Passes, AfterActivate
<1>3. \A k \in Handlers : Acts(k) => k = h
  BY <1>2 DEF Acts, Others
<1>4. ASSUME NEW s \in Subs, Payable(s)'
      PROVE  Payable(s) /\ sub'[s] = sub[s] /\ sub[s].status = "created"
  <2>1. ~\E k \in Handlers : Shows(k, s)
    BY <1>0, <1>3 DEF Shows
  <2> QED
    BY <1>0, <1>4, <2>1, PayableBefore
<1>5. ASSUME NEW s \in Subs, Held(s)', task[h].step \in Buying
      PROVE  Held(s)
  <2>1. ASSUME NEW k \in Handlers, ActivatesNow(k, s) PROVE FALSE
    BY <1>3, <1>5, <2>1 DEF ActivatesNow, Buying
  <2>2. ASSUME Granted(s) PROVE FALSE
    <3>1. PICK k \in Handlers : task[k].step = "grant" /\ Leaves(k)
      BY <2>2 DEF Granted
    <3>2. k = h
      BY <1>3, <3>1, IdleTyped DEF Leaves, Acts
    <3> QED
      BY <1>5, <3>1, <3>2 DEF Buying
  <2> QED
    BY <1>5, <2>1, <2>2, HeldBefore
<1>6. task'[h].step \notin {"stopNow", "drop", "credit", "clear"}
  BY <1>0 DEF GoesOn, Passes, AfterActivate, Offerer
<1>7. task[h].by = "owner" /\ task'[h].step \in {"browse", "dropOpen"} =>
         \A s \in Subs : Payable(s)' => sub'[s].tier = task[h].tier
  <2>1. task[h].by = "owner" /\ task'[h].step \in {"browse", "dropOpen"} => task[h].step = "browse"
    BY <1>0 DEF GoesOn, Passes, AfterActivate, Offerer, TaskInOrder, Buying
  <2> QED
    BY <1>0, <1>4, <2>1 DEF Offerer
<1>8. task[h].by = "owner" /\ task'[h].step = "subscribe" => \A s \in Subs : ~Payable(s)'
  <2> SUFFICES ASSUME task[h].by = "owner", task'[h].step = "subscribe",
                      NEW s \in Subs, Payable(s)'
               PROVE  FALSE
    OBVIOUS
  <2>1. /\ task[h].step = "dropOpen"
        /\ sub[s].status = "created" /\ sub[s].tier = task[h].tier => sub'[s].status = "cancelled"
    BY <1>0, kind = "addon" DEF GoesOn, Passes, AfterActivate
  <2>2. sub[s].tier = task[h].tier
    BY <1>0, <1>4, <2>1 DEF Offerer
  <2> QED
    BY <1>4, <2>1, <2>2
<1>9. task[h].by = "owner" /\ task'[h].step \in {"insert", "release"} => \A s \in Subs : ~Payable(s)'
  <2>1. task'[h].step \in {"insert", "release"} => task[h].step \in {"subscribe", "insert"}
    BY DEF GoesOn, Passes, AfterActivate
  <2> QED
    BY <1>0, <1>4, <2>1 DEF Offerer
<1>10. task[h].by = "owner" /\ task'[h].step = "dropOpen" =>
          \A s \in Subs : Held(s)' => s = task[h].old \/ s \in task'[h].halted
  <2> SUFFICES ASSUME task'[h].step = "dropOpen", NEW s \in Subs, Held(s)'
               PROVE  s = task[h].old \/ s \in task'[h].halted
    OBVIOUS
  <2>1. /\ ~Blocked(task[h].old) /\ UNCHANGED sub
        /\ task'[h].halted = {i \in Subs : sub[i].status = "halted"}
    BY DEF GoesOn, Passes, AfterActivate
  <2>2. sub[s].status \in {"active", "past_due", "halted"}
    BY <2>1 DEF Held
  <2> QED
    BY <2>1, <2>2 DEF Blocked, IsLive
<1>11. task[h].by = "owner" /\ task'[h].step \in {"subscribe", "insert"} =>
          \A s \in Subs : Held(s)' => s = task[h].old \/ s \in task'[h].halted
  <2>1. task'[h].step \in {"subscribe", "insert"} => task[h].step \in {"dropOpen", "subscribe"}
    BY kind = "addon" DEF GoesOn, Passes, AfterActivate
  <2> QED
    BY <1>0, <1>1, <1>5, <2>1 DEF Offerer, Buying
<1>12. task[h].by = "owner" /\ task'[h].step = "release" =>
          \A s \in Subs : Held(s)' => s = task[h].old
  <2> SUFFICES ASSUME task[h].by = "owner", task'[h].step = "release", NEW s \in Subs, Held(s)'
               PROVE  s = task[h].old
    OBVIOUS
  <2>1. /\ task[h].step = "insert"
        /\ \A i \in Retired(h) : i # task[h].s => sub'[i].status = "cancelled"
    BY DEF GoesOn, Passes, AfterActivate
  <2>2. Held(s)
    BY <1>5, <2>1 DEF Buying
  <2>3. s = task[h].old \/ s \in task[h].halted
    BY <1>0, <2>1, <2>2 DEF Offerer
  <2>4. s # task[h].s
    BY <1>0, <2>1, <2>2 DEF Checkout, Held
  <2>5. s \notin Retired(h)
    BY <2>1, <2>4 DEF Held
  <2> QED
    BY <2>3, <2>5, kind = "addon" DEF Retired
<1>13. task'[h].step = "grant" => \A s \in Subs : ~Payable(s)'
  <2>1. task'[h].step = "grant" =>
           task[h].step = "clear" /\ \A s \in task[h].halted : sub'[s].status = "cancelled"
    BY DEF GoesOn, Passes, AfterActivate
  <2> QED
    BY <1>0, <1>4, <2>1 DEF Offerer
<1> QED
  BY <1>1, <1>6, <1>7, <1>8, <1>9, <1>10, <1>11, <1>12, <1>13 DEF Offerer, Payable, Held

LEMMA OffererKept ==
    ASSUME Core, Orderly, kind = "addon", [Next]_vars, NEW h \in Handlers
    PROVE  Offerer(task[h])'
<1>0. Struct /\ TypeInv /\ HandlerMoves(h) /\ Addon
  BY CoreAt, AddonAt, HandlersMove
<1>1. CASE Leaves(h)
  BY <1>1, IdleTyped DEF Leaves, Offerer
<1>2. ASSUME Starts(h) PROVE Offerer(task[h])'
  <2>1. sub' = sub
    BY <1>2 DEF Starts
  <2>2. \A s \in Subs : Payable(s)' => sub[s].status = "created" /\ sub'[s] = sub[s]
    BY <1>0, PayableBefore
  <2>3. CASE task'[h].by = "webhook"
    <3>1. /\ task'[h].s \in Subs /\ queue[task'[h].s] # <<>>
          /\ task'[h].event = Head(queue[task'[h].s]) /\ task'[h].row = sub[task'[h].s]
          /\ task'[h].step = FirstStep(task'[h].event, task'[h].row)
      BY <1>2, <2>3 DEF Starts
    <3>2. task'[h].step \in {"readToActivate", "renew", "fail", "halt", "end"}
      BY <1>0, <3>1, AtRow, TailAt, FirstStepOf
    <3> QED
      BY <2>3, <3>2 DEF Offerer
  <2>4. CASE task'[h].by \in {"callback", "read"}
    <3>1. task'[h].step \in {"readToActivate", "halt", "end", "endToBuy"}
      BY <1>2, <2>4 DEF Starts
    <3> QED
      BY <2>4, <3>1 DEF Offerer
  <2>5. CASE task'[h].by = "owner"
    <3>1. \/ task'[h].step = "browse" /\ MayBuy(task'[h].tier)
          \/ task'[h].step = "stopAtEnd"
      BY <1>0, <1>2, <2>5 DEF Starts, Addon
    <3>2. task'[h].step = "browse" => \A s \in Subs : Payable(s)' => sub'[s].tier = task'[h].tier
      BY <1>0, <2>2, <3>1 DEF MayBuy, Addon
    <3> QED
      BY <2>5, <3>1, <3>2 DEF Offerer, Payable
  <2>6. CASE task'[h].by = "admin"
    <3>1. \/ /\ task'[h].step = "clear"
             /\ task'[h].halted = {i \in Subs : sub[i].status \in {"created", "halted"}}
          \/ task'[h].step = "end"
      BY <1>2, <2>6 DEF Starts
    <3>2. task'[h].step = "clear" => \A s \in Subs : Payable(s)' => s \in task'[h].halted
      BY <2>2, <3>1
    <3> QED
      BY <2>6, <3>1, <3>2 DEF Offerer, Payable
  <2> QED
    BY <1>2, <2>3, <2>4, <2>5, <2>6 DEF Starts
<1> QED
  BY <1>0, <1>1, <1>2, OffererStays, OffererGoesOn DEF HandlerMoves

LEMMA CoreInit ==
    Init => Core
<1> SUFFICES ASSUME Init PROVE Core
  OBVIOUS
<1>1. Struct
  BY StructInit
<1>2. /\ \A s \in Subs : sub[s] = NoRow /\ queue[s] = <<>> /\ rzp[s] = NoMandate
      /\ \A h \in Handlers : task[h] = Idle
  BY DEF Init
<1>3. /\ NoRow.status = "none" /\ NoRow.replaces = None /\ NoRow.scheduled = None
      /\ NoMandate.paid = 0 /\ NoMandate.callback = FALSE
  BY DEF NoRow, NoMandate
<1>4. FirstsAreFirst
  BY <1>2 DEF FirstsAreFirst, FirstIsFirst
<1>5. EventsApplied /\ OneActivates /\ Activations
  BY <1>2, IdleTyped DEF EventsApplied, Applies, OneActivates, Activates, Activations, Activation
<1>6. TiersInOrder
  BY <1>2, <1>3, IdleTyped DEF TiersInOrder, Lower, Lowers
<1>7. NoBuyers
  BY <1>2, <1>3 DEF NoBuyers, NoBuyer, PaidOpen
<1>8. YoungOnes
  <2>1. \A s \in Subs : ~Firsts(s) /\ ~CallsBack(s)
    BY <1>2, <1>3, IdleTyped DEF Firsts, CallsBack
  <2> QED
    BY <2>1 DEF YoungOnes, Young
<1>9. OffersInOrder
  BY <1>2, <1>3, IdleTyped DEF OffersInOrder, OneOwner, Offers, Offered, Payable, Offerer
<1> QED
  BY <1>1, <1>4, <1>5, <1>6, <1>7, <1>8, <1>9 DEF Core

LEMMA CoreNext ==
    ASSUME Orderly
    PROVE  Core /\ [Next]_vars => Core'
<1> SUFFICES ASSUME Core, [Next]_vars PROVE Core'
  OBVIOUS
<1>1. Struct'
  BY CoreAt, StructNext
<1>2. FirstsAreFirst' /\ EventsApplied' /\ OneActivates'
  BY FirstsAreFirstKept, EventsAppliedKept, OneActivatesKept DEF Orderly
<1>3. TiersInOrder'
  BY LowerKept, LowersKept DEF TiersInOrder, Lower, Lowers
<1>4. NoBuyers'
  BY NoBuyersKept DEF NoBuyers
<1>5. YoungOnes'
  BY YoungKept DEF YoungOnes
<1>6. Activations'
  BY ActivationKept DEF Activations
<1>7. OffersInOrder'
  <2>1. kind' = kind
    BY CoreAt, KindStays
  <2>2. kind = "addon" => OneOwner' /\ Offers' /\ \A h \in Handlers : Offerer(task[h])'
    BY OneOwnerKept, OfferedKept, OffererKept DEF Offers
  <2> QED
    BY <2>1, <2>2 DEF OffersInOrder
<1> QED
  BY <1>1, <1>2, <1>3, <1>4, <1>5, <1>6, <1>7 DEF Core

\* A row that was cancelled stays so, and its grace is lifted only by a payment.
LEMMA RowGoesForward ==
    ASSUME Core, [Next]_vars, NEW s \in Subs
    PROVE  /\ sub[s].status = "cancelled" => sub'[s].status = "cancelled"
           /\ sub[s].grace # None => \/ sub'[s].grace = sub[s].grace
                                     \/ sub'[s].status = "active"
<1>0. Struct /\ TypeInv /\ RowMoves(s) /\ RowInOrder(s)
  BY CoreAt, RowsMove, StructAt
<1>1. CASE sub'[s] = sub[s]
  BY <1>1
<1>2. CASE sub[s].status = "none"
  BY <1>0, <1>2 DEF RowInOrder, NoRow
<1>3. CASE Cancelling(s)
  BY <1>3 DEF Cancelling, Cancels, Dates
<1>4. CASE Updating(s)
  <2>1. PICK h \in Handlers :
          /\ task[h].s = s
          /\ \/ task[h].step = "activate" /\ sub'[s].status = "active"
             \/ task[h].step = "renew" /\ sub'[s].status = "active" /\ Revivable(s, task[h].row)
             \/ /\ task[h].step = "fail" /\ IsLive(s) /\ sub'[s].grace = GraceOf(task[h].row)
             \/ IsLive(s) /\ Dates(s)
             \/ sub'[s].status = sub[s].status /\ Dates(s)
    BY <1>4 DEF Updating
  <2>2. CASE task[h].step = "activate" /\ sub'[s].status = "active"
    BY <2>1, <2>2, CoreAt DEF Activation
  <2>3. CASE task[h].step = "fail" /\ IsLive(s) /\ sub'[s].grace = GraceOf(task[h].row)
    <3>1. WorkInOrder(task[h])
      BY <1>0, StructOf
    <3> QED
      BY <2>1, <2>3, <3>1 DEF WorkInOrder, GraceOf, IsLive
  <2> QED
    BY <2>1, <2>2, <2>3 DEF Revivable, IsLive, Dates
<1> QED
  BY <1>0, <1>1, <1>2, <1>3, <1>4 DEF RowMoves

\* A subscription that was cancelled stays cancelled, and a grace deadline, once set, is only
\* lifted by a payment: whatever requests, deliveries, callbacks and days come between the
\* steps of each other, and also where requests die and calls to Razorpay fail, as long as owner,
\* callback and Razorpay keep to what Orderly says.
THEOREM GoesOnlyForward ==
    ASSUME Orderly
    PROVE  Spec => OnlyForward
<1>1. Core /\ [Next]_vars => [\A s \in Subs :
          /\ sub[s].status = "cancelled" => sub'[s].status = "cancelled"
          /\ sub[s].grace # None => \/ sub'[s].grace = sub[s].grace
                                    \/ sub'[s].status = "active"]_vars
  BY RowGoesForward
<1> QED
  BY <1>1, CoreInit, CoreNext, PTL DEF Spec, OnlyForward

-----------------------------------------------------------------------------
(* What becomes of an event, a charge and the plan.                        *)

Invoiced(h) ==
    \A c \in Subs \X Charges :
        invoices'[c] = IF c = <<task[h].s, task[h].event.charge>> THEN invoices[c] + 1
                       ELSE invoices[c]

\* An event is acknowledged once it was applied, or was by the other of callback and webhook;
\* a payment of what is cancelled is not.  What was halted is let go of at Razorpay.
Serves(h) ==
    Leaves(h) /\ task[h].step # "idle" =>
        \/ /\ task[h].by \notin {"webhook", "callback"}
           /\ task[h].step = "release" =>
                 Down \/ \A i \in task[h].halted : CanStop(i) => rzp'[i].state = "cancelled"
        \/ Answers(h) /\ task[h].step \in {"fail", "halt", "end"}
        \/ Answers(h) /\ task[h].step = "readToActivate" /\ sub[task[h].s].status = "active"
        \/ Answers(h) /\ task[h].step = "invoice" /\ Invoiced(h)
        \/ /\ Activates(task[h]) /\ sub[task[h].s].status = "cancelled"
           /\ UNCHANGED <<sub, queue, seen>>

Books ==
    /\ plan' = plan \/ \E h \in Handlers : /\ Passes(h, "setPlan", "invoice") /\ Others(h)
                                           /\ plan' = task[h].row.tier /\ UNCHANGED sub
    /\ invoices' = invoices \/ \E h \in Handlers :
          task[h].step = "invoice" /\ Leaves(h) /\ Invoiced(h) /\ UNCHANGED <<sub, rzp>>

Served == Books /\ \A h \in Handlers : Serves(h)

LEMMA OneServes ==
    ASSUME NEW h \in Handlers, Others(h), Serves(h), Books
    PROVE  Served
<1> SUFFICES ASSUME NEW k \in Handlers, k # h PROVE Serves(k)
  BY DEF Served
<1>1. ~(Leaves(k) /\ task[k].step # "idle")
  BY IdleTyped DEF Others, Leaves
<1> QED
  BY <1>1 DEF Serves

LEMMA NobodyServed ==
    ASSUME UNCHANGED <<task, plan, invoices>>
    PROVE  Served
BY IdleTyped DEF Served, Serves, Books, Leaves

\* As long as no request dies at an event or before Razorpay lets go of what was halted.
LEMMA AlwaysServed ==
    ASSUME "crashAtEvent" \notin Faults, Struct, [Next]_vars
    PROVE  Served
<1>1. ASSUME Tick PROVE Served
  BY <1>1, TickDoes, NobodyServed DEF Struct
<1>2. ASSUME NEW s \in Subs, Pay(s) PROVE Served
  BY <1>2, PayDoes, NobodyServed DEF Struct
<1>3. ASSUME NEW s \in Subs, Charge(s) PROVE Served
  BY <1>3, ChargeDoes, NobodyServed DEF Struct
<1>4. ASSUME NEW s \in Subs, Decline(s) PROVE Served
  BY <1>4, DeclineDoes, NobodyServed DEF Struct
<1>5. ASSUME NEW s \in Subs, GiveUp(s) PROVE Served
  BY <1>5, GiveUpDoes, NobodyServed DEF Struct
<1>6. ASSUME NEW s \in Subs, CycleEnds(s) PROVE Served
  BY <1>6, CycleEndsDoes, NobodyServed DEF Struct
<1>7. ASSUME NEW h \in Handlers, ReadToActivate(h) PROVE Served
  <2>0. TypeInv
    BY DEF Struct
  <2>1. Others(h) /\ Books
    BY <1>7, <2>0, ReadToActivateDoes DEF Answers, Leaves, Books
  <2>2. Serves(h)
    BY <1>7, <2>0, ReadToActivateDoes, IdleTyped DEF Serves, Activates, Leaves
  <2> QED
    BY <2>1, <2>2, OneServes
<1>8. ASSUME NEW h \in Handlers, Activate(h) PROVE Served
  <2>0. TypeInv
    BY DEF Struct
  <2>1. Others(h) /\ Books
    BY <1>8, <2>0, ActivateDoes DEF Moves, Leaves, Books
  <2>2. Serves(h)
    BY <1>8, <2>0, ActivateDoes, IdleTyped DEF Serves, Activates, Leaves, Moves
  <2> QED
    BY <2>1, <2>2, OneServes
<1>9. ASSUME NEW h \in Handlers, SetPlan(h) PROVE Served
  <2>0. TypeInv
    BY DEF Struct
  <2>1. Others(h) /\ Books /\ task'[h].step = "invoice"
    BY <1>9, <2>0, SetPlanDoes DEF Moves, Books, Passes
  <2>2. Serves(h)
    BY <2>1, IdleTyped DEF Serves, Leaves
  <2> QED
    BY <2>1, <2>2, OneServes
<1>10. ASSUME NEW h \in Handlers, CancelReplaced(h) PROVE Served
  <2>0. TypeInv
    BY DEF Struct
  <2>1. Others(h) /\ task'[h].step # "idle" /\ UNCHANGED <<plan, invoices>>
    BY <1>10, <2>0, CancelReplacedDoes DEF Moves
  <2> QED
    BY <2>1, OneServes, IdleTyped DEF Serves, Books, Leaves
<1>11. ASSUME NEW h \in Handlers, Retire(h) PROVE Served
  <2>0. TypeInv
    BY DEF Struct
  <2>1. Others(h) /\ task'[h].step # "idle" /\ UNCHANGED <<plan, invoices>>
    BY <1>11, <2>0, RetireDoes DEF Moves
  <2> QED
    BY <2>1, OneServes, IdleTyped DEF Serves, Books, Leaves
<1>12. ASSUME NEW h \in Handlers, CreditReplaced(h) PROVE Served
  <2>0. TypeInv
    BY DEF Struct
  <2>1. Others(h) /\ task'[h].step # "idle" /\ UNCHANGED <<plan, invoices>>
    BY <1>12, <2>0, CreditReplacedDoes DEF Moves
  <2> QED
    BY <2>1, OneServes, IdleTyped DEF Serves, Books, Leaves
<1>13. ASSUME NEW h \in Handlers, Invoice(h) PROVE Served
  <2>0. TypeInv
    BY DEF Struct
  <2>1. Answers(h) /\ task[h].step = "invoice" /\ UNCHANGED <<plan, sub, rzp>>
    BY <1>13, <2>0, InvoiceDoes
  <2>2. Invoiced(h)
    BY <1>13, <2>0, InvoiceDoes DEF Invoiced
  <2>3. Others(h) /\ Serves(h) /\ Books
    BY <2>1, <2>2 DEF Answers, Leaves, Serves, Books
  <2> QED
    BY <2>3, OneServes
<1>14. ASSUME NEW h \in Handlers, Renew(h) PROVE Served
  <2>0. TypeInv
    BY DEF Struct
  <2>1. Others(h) /\ task'[h].step # "idle" /\ UNCHANGED <<plan, invoices>>
    BY <1>14, <2>0, RenewDoes DEF Moves
  <2> QED
    BY <2>1, OneServes, IdleTyped DEF Serves, Books, Leaves
<1>15. ASSUME NEW h \in Handlers, Fail(h) PROVE Served
  <2>0. TypeInv
    BY DEF Struct
  <2>1. Answers(h) /\ task[h].step \in {"fail", "halt", "end"} /\ UNCHANGED <<plan, invoices>>
    BY <1>15, <2>0, FailDoes
  <2>2. Others(h) /\ Serves(h) /\ Books
    BY <2>1 DEF Answers, Leaves, Serves, Books
  <2> QED
    BY <2>2, OneServes
<1>16. ASSUME NEW h \in Handlers, Halt(h) PROVE Served
  <2>0. TypeInv
    BY DEF Struct
  <2>1. Answers(h) /\ task[h].step \in {"fail", "halt", "end"} /\ UNCHANGED <<plan, invoices>>
    BY <1>16, <2>0, HaltDoes
  <2>2. Others(h) /\ Serves(h) /\ Books
    BY <2>1 DEF Answers, Leaves, Serves, Books
  <2> QED
    BY <2>2, OneServes
<1>17. ASSUME NEW h \in Handlers, End(h) PROVE Served
  <2>0. TypeInv
    BY DEF Struct
  <2>1. Answers(h) /\ task[h].step \in {"fail", "halt", "end"} /\ UNCHANGED <<plan, invoices>>
    BY <1>17, <2>0, EndDoes
  <2>2. Others(h) /\ Serves(h) /\ Books
    BY <2>1 DEF Answers, Leaves, Serves, Books
  <2> QED
    BY <2>2, OneServes
<1>18. ASSUME NEW h \in Handlers, EndToBuy(h) PROVE Served
  <2>0. TypeInv
    BY DEF Struct
  <2>1. Others(h) /\ task'[h].step # "idle" /\ UNCHANGED <<plan, invoices>>
    BY <1>18, <2>0, EndToBuyDoes DEF Moves
  <2> QED
    BY <2>1, OneServes, IdleTyped DEF Serves, Books, Leaves
<1>19. ASSUME NEW h \in Handlers, Browse(h) PROVE Served
  <2>0. TypeInv /\ TaskInOrder(task[h])
    BY AtStep DEF Struct
  <2>1. Others(h) /\ task[h].step = "browse" /\ UNCHANGED <<plan, invoices>>
    BY <1>19, <2>0, BrowseDoes DEF Moves, Leaves
  <2>2. task[h].by \notin {"webhook", "callback"}
    BY <2>0, <2>1 DEF TaskInOrder, OfEvent, Activating
  <2> QED
    BY <2>1, <2>2, OneServes DEF Serves, Books
<1>20. ASSUME NEW h \in Handlers, DropOpen(h) PROVE Served
  <2>0. TypeInv
    BY DEF Struct
  <2>1. Others(h) /\ task'[h].step # "idle" /\ UNCHANGED <<plan, invoices>>
    BY <1>20, <2>0, DropOpenDoes DEF Moves
  <2> QED
    BY <2>1, OneServes, IdleTyped DEF Serves, Books, Leaves
<1>21. ASSUME NEW h \in Handlers, Subscribe(h) PROVE Served
  <2>0. TypeInv /\ TaskInOrder(task[h])
    BY AtStep DEF Struct
  <2>1. Others(h) /\ task[h].step = "subscribe" /\ UNCHANGED <<plan, invoices>>
    BY <1>21, <2>0, SubscribeDoes DEF Moves, Leaves
  <2>2. task[h].by \notin {"webhook", "callback"}
    BY <2>0, <2>1 DEF TaskInOrder, OfEvent, Activating
  <2> QED
    BY <2>1, <2>2, OneServes DEF Serves, Books
<1>22. ASSUME NEW h \in Handlers, Insert(h) PROVE Served
  <2>0. TypeInv /\ TaskInOrder(task[h])
    BY AtStep DEF Struct
  <2>1. Others(h) /\ task[h].step = "insert" /\ UNCHANGED <<plan, invoices>>
    BY <1>22, <2>0, InsertDoes DEF Moves, Leaves
  <2>2. task[h].by \notin {"webhook", "callback"}
    BY <2>0, <2>1 DEF TaskInOrder, OfEvent, Activating
  <2> QED
    BY <2>1, <2>2, OneServes DEF Serves, Books
<1>23. ASSUME NEW h \in Handlers, Release(h) PROVE Served
  <2>0. TypeInv /\ TaskInOrder(task[h])
    BY AtStep DEF Struct
  <2>1. Leaves(h) /\ task[h].step = "release" /\ UNCHANGED <<plan, invoices>>
        /\ task[h].halted \in SUBSET Subs
    BY <1>23, <2>0, ReleaseDoes, AtStep
  <2>2. task[h].by \notin {"webhook", "callback"}
    BY <2>0, <2>1 DEF TaskInOrder, OfEvent, Activating
  <2>3. Down \/ \A i \in task[h].halted : CanStop(i) => rzp'[i].state = "cancelled"
    BY <1>23, <2>0, <2>1, ReleaseDoes DEF EndsAt
  <2> QED
    BY <2>1, <2>2, <2>3, OneServes DEF Serves, Books, Leaves
<1>24. ASSUME NEW h \in Handlers, StopAtEnd(h) PROVE Served
  <2>0. TypeInv /\ TaskInOrder(task[h])
    BY AtStep DEF Struct
  <2>1. Others(h) /\ task[h].step = "stopAtEnd" /\ UNCHANGED <<plan, invoices>>
    BY <1>24, <2>0, StopAtEndDoes DEF Moves, Leaves
  <2>2. task[h].by \notin {"webhook", "callback"}
    BY <2>0, <2>1 DEF TaskInOrder, OfEvent, Activating
  <2> QED
    BY <2>1, <2>2, OneServes DEF Serves, Books
<1>25. ASSUME NEW h \in Handlers, MarkEnds(h) PROVE Served
  <2>0. TypeInv /\ TaskInOrder(task[h])
    BY AtStep DEF Struct
  <2>1. Others(h) /\ task[h].step = "markEnds" /\ UNCHANGED <<plan, invoices>>
    BY <1>25, <2>0, MarkEndsDoes DEF Moves, Leaves
  <2>2. task[h].by \notin {"webhook", "callback"}
    BY <2>0, <2>1 DEF TaskInOrder, OfEvent, Activating
  <2> QED
    BY <2>1, <2>2, OneServes DEF Serves, Books
<1>26. ASSUME NEW h \in Handlers, Schedule(h) PROVE Served
  <2>0. TypeInv /\ TaskInOrder(task[h])
    BY AtStep DEF Struct
  <2>1. Others(h) /\ task[h].step = "schedule" /\ UNCHANGED <<plan, invoices>>
    BY <1>26, <2>0, ScheduleDoes DEF Moves, Leaves
  <2>2. task[h].by \notin {"webhook", "callback"}
    BY <2>0, <2>1 DEF TaskInOrder, OfEvent, Activating
  <2> QED
    BY <2>1, <2>2, OneServes DEF Serves, Books
<1>27. ASSUME NEW h \in Handlers, StopNow(h) PROVE Served
  <2>0. TypeInv /\ TaskInOrder(task[h])
    BY AtStep DEF Struct
  <2>1. Others(h) /\ task[h].step = "stopNow" /\ UNCHANGED <<plan, invoices>>
    BY <1>27, <2>0, StopNowDoes DEF Moves, Leaves
  <2>2. task[h].by \notin {"webhook", "callback"}
    BY <2>0, <2>1 DEF TaskInOrder, OfEvent, Activating
  <2> QED
    BY <2>1, <2>2, OneServes DEF Serves, Books
<1>28. ASSUME NEW h \in Handlers, Drop(h) PROVE Served
  <2>0. TypeInv
    BY DEF Struct
  <2>1. Others(h) /\ task'[h].step # "idle" /\ UNCHANGED <<plan, invoices>>
    BY <1>28, <2>0, DropDoes DEF Moves
  <2> QED
    BY <2>1, OneServes, IdleTyped DEF Serves, Books, Leaves
<1>29. ASSUME NEW h \in Handlers, Credit(h) PROVE Served
  <2>0. TypeInv
    BY DEF Struct
  <2>1. Others(h) /\ task'[h].step # "idle" /\ UNCHANGED <<plan, invoices>>
    BY <1>29, <2>0, CreditDoes DEF Moves
  <2> QED
    BY <2>1, OneServes, IdleTyped DEF Serves, Books, Leaves
<1>30. ASSUME NEW h \in Handlers, Clear(h) PROVE Served
  <2>0. TypeInv
    BY DEF Struct
  <2>1. Others(h) /\ task'[h].step # "idle" /\ UNCHANGED <<plan, invoices>>
    BY <1>30, <2>0, ClearDoes DEF Moves
  <2> QED
    BY <2>1, OneServes, IdleTyped DEF Serves, Books, Leaves
<1>31. ASSUME NEW h \in Handlers, GrantRow(h) PROVE Served
  <2>0. TypeInv /\ TaskInOrder(task[h])
    BY AtStep DEF Struct
  <2>1. Others(h) /\ task[h].step = "grant" /\ UNCHANGED <<plan, invoices>>
    BY <1>31, <2>0, GrantRowDoes DEF Moves, Leaves
  <2>2. task[h].by \notin {"webhook", "callback"}
    BY <2>0, <2>1 DEF TaskInOrder, OfEvent, Activating
  <2> QED
    BY <2>1, <2>2, OneServes DEF Serves, Books
<1>32. ASSUME NEW h \in Handlers, Crash(h) PROVE Served
  <2>0. TypeInv
    BY DEF Struct
  <2>1. Leaves(h) /\ UNCHANGED <<plan, invoices>>
    BY <1>32, <2>0, CrashDoes
  <2>2. task[h].by \notin {"webhook", "callback"} /\ task[h].step # "release"
    BY <1>32, <2>0, CrashDoes
  <2> QED
    BY <2>1, <2>2, OneServes DEF Serves, Books, Leaves
<1>33. ASSUME NEW h \in Handlers, NEW tier \in Tiers, Buy(h, tier) PROVE Served
  <2>0. TypeInv
    BY DEF Struct
  <2>1. Others(h) /\ task[h].step = "idle" /\ UNCHANGED <<plan, invoices>>
    BY <1>33, <2>0, BuyDoes DEF Begins
  <2> QED
    BY <2>1, OneServes DEF Serves, Books
<1>34. ASSUME NEW h \in Handlers, NEW tier \in Tiers, Grant(h, tier) PROVE Served
  <2>0. TypeInv
    BY DEF Struct
  <2>1. Others(h) /\ task[h].step = "idle" /\ UNCHANGED <<plan, invoices>>
    BY <1>34, <2>0, GrantDoes DEF Begins
  <2> QED
    BY <2>1, OneServes DEF Serves, Books
<1>35. ASSUME NEW h \in Handlers, NEW s \in Subs, Deliver(h, s) PROVE Served
  <2>0. TypeInv
    BY DEF Struct
  <2>1. CASE UNCHANGED task
    BY <1>35, <2>0, <2>1, DeliverDoes, NobodyServed
  <2>2. CASE ~UNCHANGED task
    <3>1. Others(h) /\ task[h].step = "idle" /\ UNCHANGED <<plan, invoices>>
      BY <1>35, <2>0, <2>2, DeliverDoes DEF Begins
    <3> QED
      BY <3>1, OneServes DEF Serves, Books
  <2> QED
    BY <2>1, <2>2
<1>36. ASSUME NEW h \in Handlers, NEW s \in Subs, Callback(h, s) PROVE Served
  <2>0. TypeInv
    BY DEF Struct
  <2>1. Others(h) /\ task[h].step = "idle" /\ UNCHANGED <<plan, invoices>>
    BY <1>36, <2>0, CallbackDoes DEF Begins
  <2> QED
    BY <2>1, OneServes DEF Serves, Books
<1>37. ASSUME NEW h \in Handlers, NEW s \in Subs, Overdue(h, s) PROVE Served
  <2>0. TypeInv
    BY DEF Struct
  <2>1. Others(h) /\ task[h].step = "idle" /\ UNCHANGED <<plan, invoices>>
    BY <1>37, <2>0, OverdueDoes DEF Begins
  <2> QED
    BY <2>1, OneServes DEF Serves, Books
<1>38. ASSUME NEW h \in Handlers, NEW s \in Subs, Cancel(h, s) PROVE Served
  <2>0. TypeInv
    BY DEF Struct
  <2>1. Others(h) /\ task[h].step = "idle" /\ UNCHANGED <<plan, invoices>>
    BY <1>38, <2>0, CancelDoes DEF Begins
  <2> QED
    BY <2>1, OneServes DEF Serves, Books
<1>39. ASSUME NEW h \in Handlers, NEW s \in Subs, Revoke(h, s) PROVE Served
  <2>0. TypeInv
    BY DEF Struct
  <2>1. Others(h) /\ task[h].step = "idle" /\ UNCHANGED <<plan, invoices>>
    BY <1>39, <2>0, RevokeDoes DEF Begins
  <2> QED
    BY <2>1, OneServes DEF Serves, Books
<1>40. ASSUME NEW h \in Handlers, NEW s \in Subs, NEW tier \in Tiers, ChangePlan(h, s, tier) PROVE
   Served
  <2>0. TypeInv
    BY DEF Struct
  <2>1. Others(h) /\ task[h].step = "idle" /\ UNCHANGED <<plan, invoices>>
    BY <1>40, <2>0, ChangePlanDoes DEF Begins
  <2> QED
    BY <2>1, OneServes DEF Serves, Books
<1>41. ASSUME NEW h \in Handlers, NEW s \in Subs, NEW tier \in Tiers, ChangeAddon(h, s, tier)
   PROVE Served
  <2>0. TypeInv
    BY DEF Struct
  <2>1. Others(h) /\ task[h].step = "idle" /\ UNCHANGED <<plan, invoices>>
    BY <1>41, <2>0, ChangeAddonDoes DEF Begins
  <2> QED
    BY <2>1, OneServes DEF Serves, Books
<1>42. CASE UNCHANGED vars
  BY <1>42, NobodyServed DEF vars
<1> QED
  BY <1>1, <1>2, <1>3, <1>4, <1>5, <1>6, <1>7, <1>8, <1>9, <1>10, <1>11, <1>12, <1>13, <1>14,
     <1>15, <1>16, <1>17, <1>18, <1>19, <1>20, <1>21, <1>22, <1>23, <1>24, <1>25, <1>26, <1>27,
     <1>28, <1>29, <1>30, <1>31, <1>32, <1>33, <1>34, <1>35, <1>36, <1>37, <1>38, <1>39, <1>40,
     <1>41, <1>42 DEF Next, Step

-----------------------------------------------------------------------------
(* The organisation is on the plan it pays for.                            *)

\* An administrator gives add-ons only.
Grants(t) == t.step \in {"clear", "grant"} => kind = "addon"

\* When the plan is about to be written, nothing else is held or paid.
Alone(t) ==
    t.step = "setPlan" =>
        kind = "plan" /\ \A s \in Subs : s # t.s => ~Held(s) /\ ~PaidOpen(s)

\* The plan is that of what is held, or is about to be.
InForce(s) ==
    kind = "plan" /\ Held(s) =>
        plan = sub[s].tier \/ \E h \in Handlers : task[h].step = "setPlan" /\ task[h].s = s

PlanInv ==
    /\ Core
    /\ \A h \in Handlers : Grants(task[h]) /\ Alone(task[h])
    /\ \A s \in Subs : InForce(s)

LEMMA WebhookStarts ==
    ASSUME TypeInv, NEW h \in Handlers, Starts(h), task'[h].by = "webhook"
    PROVE  task'[h].step \in {"readToActivate", "renew", "fail", "halt", "end"}
<1> DEFINE s == task'[h].s
<1>1. s \in Subs /\ queue[s] # <<>> /\ task'[h].step = FirstStep(Head(queue[s]), sub[s])
  BY DEF Starts
<1>2. Head(queue[s]) \in Event /\ sub[s] \in Row
  BY <1>1, AtRow, TailAt
<1> QED
  BY <1>1, <1>2, FirstStepOf

LEMMA GrantsKept ==
    ASSUME Struct, [Next]_vars, NEW h \in Handlers, Grants(task[h])
    PROVE  Grants(task[h])'
<1>1. HandlerMoves(h) /\ kind' = kind /\ TypeInv
  BY HandlersMove, KindStays DEF Struct
<1>2. CASE task'[h] = task[h]
  BY <1>1, <1>2 DEF Grants
<1>3. CASE Leaves(h)
  BY <1>3, IdleTyped DEF Grants, Leaves
<1>4. CASE GoesOn(h)
  BY <1>1, <1>4 DEF Grants, GoesOn, Passes, AfterActivate
<1>5. CASE Starts(h)
  <2>1. task'[h].step \in {"clear", "grant"} => task'[h].by # "webhook"
    BY <1>1, <1>5, WebhookStarts
  <2> QED
    BY <1>1, <1>5, <2>1 DEF Grants, Starts
<1> QED
  BY <1>1, <1>2, <1>3, <1>4, <1>5 DEF HandlerMoves

\* A row that is being activated becomes active, in a run about plans the only one.
LEMMA ActivatesAlone ==
    ASSUME PlanInv, Orderly, [Next]_vars, NEW h \in Handlers, GoesOn(h), task'[h].step = "setPlan"
    PROVE  Alone(task[h])'
<1> DEFINE t == task[h].s
<1>1. Core' /\ Struct /\ Struct' /\ TypeInv /\ kind' = kind
  BY CoreNext, KindStays DEF PlanInv, Core, Struct
<1>2. /\ task[h].step = "activate" /\ AfterActivate(task[h].row) = "setPlan" /\ task'[h].s = t
      /\ Others(h) /\ task'[h].step # task[h].step
  BY DEF GoesOn, Passes
<1>3. kind = "plan"
  BY <1>2 DEF AfterActivate
<1>4. t \in Subs /\ sub[t].status = "created"
  BY <1>1, <1>2, ActivatesPaid, CoreAt DEF PlanInv, Activates, Activation
<1>5. sub'[t].status \notin {"none", "created"}
  <2>1. task'[h].step \in OfWas
    BY DEF OfWas
  <2> QED
    BY <1>1, <1>2, <2>1 DEF Struct, WorksInOrder, WorkInOrder, Was
<1>6. RowMoves(t)
  BY <1>1, <1>4, RowsMove
<1>7. Updating(t) \/ Cancelling(t)
  BY <1>4, <1>5, <1>6 DEF RowMoves
<1>8. ASSUME NEW k \in Handlers, Acts(k) PROVE k = h
  BY <1>1, <1>2, <1>8, OneActs DEF Acts
<1>9. sub'[t].status = "active"
  <2>1. ~Cancelling(t)
    BY <1>2, <1>8 DEF Cancelling, Passes
  <2> QED
    BY <1>2, <1>7, <1>8, <2>1 DEF Updating
<1>10. ASSUME NEW s \in Subs, s # t PROVE ~Held(s)' /\ ~PaidOpen(s)'
  BY <1>1, <1>3, <1>4, <1>9, <1>10 DEF Struct, Unique, Indexed, Held, PaidOpen
<1> QED
  BY <1>1, <1>2, <1>3, <1>10 DEF Alone

LEMMA AloneKept ==
    ASSUME PlanInv, Orderly, [Next]_vars, NEW h \in Handlers
    PROVE  Alone(task[h])'
<1>1. Core /\ Struct /\ TypeInv /\ HandlerMoves(h) /\ kind' = kind /\ Alone(task[h])
  BY HandlersMove, KindStays DEF PlanInv, Core, Struct
<1>2. CASE task'[h] = task[h]
  <2> SUFFICES ASSUME task[h].step = "setPlan", NEW s \in Subs, s # task[h].s
               PROVE  ~Held(s)' /\ ~PaidOpen(s)'
    BY <1>1, <1>2 DEF Alone
  <2>1. kind = "plan" /\ ~Held(s) /\ ~PaidOpen(s)
    BY <1>1 DEF Alone
  <2>2. ~Paying(s)
    BY DEF Paying, Unserved
  <2>3. ~Granted(s)
    BY <2>1 DEF PlanInv, Granted, Grants
  <2> QED
    BY <1>1, <2>1, <2>2, <2>3, HeldBefore, PaidOpenBefore
<1>3. CASE Leaves(h)
  BY <1>3, IdleTyped DEF Alone, Leaves
<1>4. CASE GoesOn(h)
  BY <1>4, ActivatesAlone DEF Alone
<1>5. CASE Starts(h)
  <2>1. task'[h].step # "setPlan"
    BY <1>1, <1>5, WebhookStarts DEF Starts
  <2> QED
    BY <2>1 DEF Alone
<1> QED
  BY <1>1, <1>2, <1>3, <1>4, <1>5 DEF HandlerMoves

LEMMA InForceKept ==
    ASSUME PlanInv, Orderly, "crashAtEvent" \notin Faults, [Next]_vars, NEW s \in Subs
    PROVE  InForce(s)'
<1>1. Core /\ Struct /\ TypeInv /\ kind' = kind /\ InForce(s)
  BY KindStays DEF PlanInv, Core, Struct
<1> SUFFICES ASSUME kind = "plan", Held(s)', plan' # sub'[s].tier
             PROVE  \E h \in Handlers : task'[h].step = "setPlan" /\ task'[h].s = s
  BY <1>1 DEF InForce
<1>2. Served
  BY <1>1, AlwaysServed
<1>3. ~Granted(s)
  BY DEF PlanInv, Granted, Grants
<1>4. CASE Held(s)
  <2>1. Was(s) /\ sub'[s].tier = sub[s].tier
    BY <1>1, <1>4, TiersStay DEF Held, Was
  <2>2. CASE plan = sub[s].tier
    <3>1. PICK h \in Handlers : /\ Passes(h, "setPlan", "invoice") /\ plan' = task[h].row.tier
      BY <1>2, <2>1, <2>2 DEF Served, Books
    <3>2. task[h].row.tier = sub[task[h].s].tier
      BY <1>1, <3>1, StructOf DEF Passes, WorkInOrder
    <3>3. task[h].s # s
      BY <2>1, <3>1, <3>2
    <3> QED
      BY <1>4, <3>1, <3>3 DEF PlanInv, Alone, Passes
  <2>3. CASE plan # sub[s].tier
    <3>1. PICK h \in Handlers : task[h].step = "setPlan" /\ task[h].s = s
      BY <1>1, <1>4, <2>3 DEF InForce
    <3>2. HandlerMoves(h) /\ Serves(h)
      BY <1>1, <1>2, HandlersMove DEF Served
    <3>3. ~Leaves(h)
      <4>1. task[h].by \in {"webhook", "callback"}
        BY <1>1, <3>1, AtStep DEF TaskInOrder, OfEvent, Activating, Buying
      <4> QED
        BY <3>1, <3>2, <4>1 DEF Serves, Activates
    <3>4. ~GoesOn(h)
      <4>1. task[h].row.tier = sub[s].tier
        BY <1>1, <3>1, StructOf DEF WorkInOrder
      <4> QED
        BY <2>1, <3>1, <4>1 DEF GoesOn, Passes
    <3>5. ~Starts(h)
      BY <3>1 DEF Starts
    <3> QED
      BY <3>1, <3>2, <3>3, <3>4, <3>5 DEF HandlerMoves
  <2> QED
    BY <2>2, <2>3
<1>5. CASE ~Held(s)
  <2>1. PICK h \in Handlers : ActivatesNow(h, s)
    BY <1>1, <1>3, <1>5, HeldBefore
  <2>2. PaidOpen(s)
    BY <1>1, <1>3, <1>5, HeldBefore
  <2>3. HandlerMoves(h) /\ Serves(h) /\ task[h].step = "activate" /\ task[h].s = s
        /\ task'[h].step # task[h].step
    BY <1>1, <1>2, <2>1, HandlersMove DEF Served, ActivatesNow, Acts
  <2>4. ~Leaves(h)
    <3>1. task[h].by \in {"webhook", "callback"}
      BY <1>1, <2>3, ActivatesPaid DEF Activates
    <3> QED
      BY <2>2, <2>3, <3>1 DEF Serves, PaidOpen
  <2>5. GoesOn(h)
    BY <2>3, <2>4 DEF HandlerMoves, Starts
  <2>6. task'[h].step = "setPlan" /\ task'[h].s = s
    BY <2>3, <2>5 DEF GoesOn, Passes, AfterActivate
  <2> QED
    BY <2>6
<1> QED
  BY <1>4, <1>5

\* The organisation is on the plan it pays for: without requests that die at an event, as long as
\* Orderly holds, and whoever else is at work on its subscriptions.
THEOREM PlanIsInForce ==
    ASSUME Orderly, "crashAtEvent" \notin Faults
    PROVE  Spec => []PlanInForce
<1>1. Init => PlanInv
  <2> SUFFICES ASSUME Init PROVE PlanInv
    OBVIOUS
  <2>1. Core
    BY CoreInit
  <2>2. \A h \in Handlers : task[h].step = "idle"
    BY IdleTyped DEF Init
  <2>3. \A s \in Subs : ~Held(s)
    BY DEF Init, NoRow, Held
  <2> QED
    BY <2>1, <2>2, <2>3 DEF PlanInv, Grants, Alone, InForce
<1>2. PlanInv /\ [Next]_vars => PlanInv'
  BY GrantsKept, AloneKept, InForceKept, CoreNext DEF PlanInv, Core
<1>3. PlanInv => PlanInForce
  BY DEF PlanInv, PlanInForce, InForce, Held, IsLive, Quiet
<1> QED
  BY <1>1, <1>2, <1>3, PTL DEF Spec

-----------------------------------------------------------------------------
(* Nothing that has ended is charged again.                                *)

\* Razorpay goes on to charge it.
Charged(s) == CanStop(s) /\ ~rzp[s].ends

\* Requests do not die at an event, calls to Razorpay do not fail, and an administrator gives
\* no add-on while another is halted.
Reliable == "crashAtEvent" \notin Faults /\ "gatewayDown" \notin Faults /\ "grantHalted" \notin Uses

\* What is to end here was told to end at Razorpay.
Ending(s) == sub[s].ends \/ sub[s].scheduled # None => rzp[s].ends

\* Who ends a row has told Razorpay before, or there was nothing to charge.
Ender(t) ==
    /\ t.step \in {"markEnds", "schedule"} => rzp[t.s].ends
    /\ t.by = "read" /\ t.step \in {"end", "endToBuy"} => rzp[t.s].ends
    /\ t.by = "admin" /\ t.step = "end" => sub[t.s].admin
    /\ t.step = "drop" => rzp[t.s].state = "cancelled"
    /\ t.step = "retire" => ~CanStop(t.row.replaces)
    /\ t.step = "clear" => \A s \in t.halted : rzp[s].paid = 0
    /\ t.old # None => kind = "addon"

\* Who buys a plan was told of everything that is held.
Retirer(t) ==
    /\ t.step = "dropOpen" => kind = "addon"
    /\ kind = "plan" /\ t.step \in {"subscribe", "insert"} =>
          \A s \in Subs : Held(s) => s \in t.halted

\* What was cancelled and is charged is about to be let go of.
LetGo(s) ==
    sub[s].status = "cancelled" /\ Charged(s) =>
        \E h \in Handlers : task[h].step = "release" /\ s \in task[h].halted

EndInv ==
    /\ Core
    /\ \A h \in Handlers : Grants(task[h]) /\ Ender(task[h]) /\ Retirer(task[h])
    /\ \A s \in Subs : Ending(s) /\ LetGo(s)

LEMMA EndAt ==
    ASSUME EndInv
    PROVE  /\ Core /\ Struct /\ TypeInv
           /\ \A h \in Handlers : Grants(task[h]) /\ Ender(task[h]) /\ Retirer(task[h])
           /\ \A s \in Subs : Ending(s) /\ LetGo(s)
BY DEF EndInv, Core, Struct

LEMMA PaidAtRazorpay ==
    ASSUME TypeInv, NEW s \in Subs
    PROVE  /\ CanStop(s) => rzp[s].paid > 0
           /\ rzp[s].paid \in Nat
BY Counted DEF TypeInv, MandatesInOrder, MandateInOrder, CanStop

\* What Razorpay can charge it could before, or it is being paid.
LEMMA CanStopBefore ==
    ASSUME Struct, [Next]_vars, NEW s \in Subs, CanStop(s)'
    PROVE  CanStop(s) \/ Paying(s)
<1>1. RazorpayMoves(s)
  BY RazorpayMovesAlways
<1>2. CASE rzp'[s] = rzp[s]
  BY <1>2 DEF CanStop
<1>3. CASE rzp'[s] # rzp[s]
  <2>1. Preparing(s) \/ Waiting(s) \/ Paying(s) \/ Charging(s) \/ Failing(s) \/ IsStopped(s)
    BY <1>1, <1>3 DEF RazorpayMoves
  <2>2. CASE Preparing(s) \/ Waiting(s)
    BY <2>2 DEF Preparing, Waiting, StaysState, CanStop
  <2>3. CASE Charging(s) \/ Failing(s) \/ IsStopped(s)
    BY <2>3 DEF Charging, Failing, IsStopped, CanStop
  <2> QED
    BY <2>1, <2>2, <2>3
<1> QED
  BY <1>2, <1>3

LEMMA MandateLastsAt ==
    ASSUME Struct, [Next]_vars, NEW s \in Subs
    PROVE  MandateLasts(s)
BY MandatesLastAlways DEF MandatesLast

LEMMA EndingKept ==
    ASSUME EndInv, [Next]_vars, NEW s \in Subs
    PROVE  Ending(s)'
<1>1. Struct /\ TypeInv /\ RowMoves(s) /\ MandateLasts(s) /\ Ending(s)
  BY EndAt, RowsMove, MandateLastsAt
<1>2. rzp[s].ends => rzp'[s].ends
  BY <1>1 DEF MandateLasts
<1>3. CASE sub'[s] = sub[s] \/ Plans(s)
  BY <1>1, <1>2, <1>3 DEF Ending, Plans
<1>4. CASE Inserted(s) \/ Granted(s)
  BY <1>4 DEF Inserted, Granted, Ending
<1>5. CASE Updating(s)
  <2>1. PICK h \in Handlers :
            /\ Acts(h) /\ task[h].s = s
            /\ Plans(s) \/ task[h].step \in {"markEnds", "schedule"}
    BY <1>5 DEF Updating
  <2>2. CASE task[h].step \in {"markEnds", "schedule"}
    <3>0. Ender(task[h])
      BY EndAt
    <3>1. rzp[task[h].s].ends
      BY <2>2, <3>0 DEF Ender
    <3>2. task[h].s = s
      BY <2>1
    <3>3. rzp[s].ends
      BY <3>1, <3>2
    <3> QED
      BY <1>2, <3>3 DEF Ending
  <2> QED
    BY <1>3, <2>1, <2>2
<1> QED
  BY <1>1, <1>3, <1>4, <1>5 DEF RowMoves, Cancelling, Cancels

LEMMA EnderStays ==
    ASSUME EndInv, [Next]_vars, NEW h \in Handlers, task'[h] = task[h]
    PROVE  Ender(task[h])'
<1>1. Struct /\ TypeInv /\ Ender(task[h]) /\ kind' = kind /\ TaskInOrder(task[h])
      /\ task[h].halted \in SUBSET Subs
  BY EndAt, KindStays, AtStep
<1>2. \A s \in Subs : MandateLasts(s)
  BY <1>1, MandateLastsAt
<1>3. task[h].step \in {"markEnds", "schedule", "end", "endToBuy", "drop"} => task[h].s \in Subs
  BY <1>1 DEF TaskInOrder, OfEvent
<1>4. task'[h].step \in {"markEnds", "schedule"} => rzp'[task'[h].s].ends
  BY <1>1, <1>2, <1>3 DEF Ender, MandateLasts
<1>5. task'[h].by = "read" /\ task'[h].step \in {"end", "endToBuy"} => rzp'[task'[h].s].ends
  BY <1>1, <1>2, <1>3 DEF Ender, MandateLasts
<1>6. task'[h].step = "drop" => rzp'[task'[h].s].state = "cancelled"
  BY <1>1, <1>2, <1>3 DEF Ender, MandateLasts
<1>7. task'[h].by = "admin" /\ task'[h].step = "end" => sub'[task'[h].s].admin
  <2> SUFFICES ASSUME task[h].by = "admin", task[h].step = "end" PROVE sub'[task[h].s].admin
    OBVIOUS
  <2>1. task[h].s \in Subs /\ sub[task[h].s].admin
    BY <1>1, <1>3 DEF Ender
  <2>2. sub[task[h].s].status # "none"
    BY <1>1, <2>1, StructAt DEF RowInOrder, Was
  <2> QED
    BY <1>1, <2>1, <2>2, RowsLastAlways DEF RowsLast, RowLasts, Terms
<1>8. (task[h].step = "retire" => ~CanStop(task[h].row.replaces))'
  <2> SUFFICES ASSUME task[h].step = "retire" PROVE ~CanStop(task[h].row.replaces)'
    OBVIOUS
  <2>1. PICK o \in Subs : o = task[h].row.replaces
    BY <1>1 DEF TaskInOrder
  <2>2. ~CanStop(o) /\ ~Paying(o)
    BY <1>1, <2>1 DEF Ender, Paying, Unserved
  <2>3. ~CanStop(o)'
    BY <1>1, <2>2, CanStopBefore
  <2> QED
    BY <2>1, <2>3 DEF CanStop
<1>9. task'[h].step = "clear" => \A s \in task'[h].halted : rzp'[s].paid = 0
  <2> SUFFICES ASSUME task[h].step = "clear", NEW s \in task[h].halted PROVE rzp'[s].paid = 0
    BY DEF Ender
  <2>1. s \in Subs /\ rzp[s].paid = 0
    BY <1>1 DEF Ender
  <2>2. ~CanStop(s) /\ ~Paying(s)
    BY <1>1, <2>1, PaidAtRazorpay DEF Paying, Unserved
  <2>3. RazorpayMoves(s)
    BY <1>1, <2>1, RazorpayMovesAlways
  <2> QED
    BY <2>1, <2>2, <2>3 DEF RazorpayMoves, Preparing, Waiting, Charging, Failing, IsStopped,
       CanStop, StaysPaid
<1>10. task'[h].old # None => kind' = "addon"
  BY <1>1 DEF Ender
<1> QED
  BY <1>4, <1>5, <1>6, <1>7, <1>8, <1>9, <1>10 DEF Ender

LEMMA EnderGoesOn ==
    ASSUME EndInv, Reliable, [Next]_vars, NEW h \in Handlers, GoesOn(h)
    PROVE  Ender(task[h])'
<1>1. Struct /\ TypeInv /\ Ender(task[h]) /\ kind' = kind /\ TaskInOrder(task[h])
  BY EndAt, KindStays, AtStep
<1>2. task'[h].step \in {"markEnds", "schedule"} =>
        task[h].step = "stopAtEnd" /\ rzp'[task[h].s].ends = TRUE /\ task'[h].s = task[h].s
  BY DEF GoesOn, Passes, AfterActivate
<1>3. task'[h].step \notin {"end", "endToBuy", "clear"}
  BY DEF GoesOn, Passes, AfterActivate
<1>4. task'[h].step = "drop" => rzp'[task[h].s].state = "cancelled" /\ task'[h].s = task[h].s
  BY DEF GoesOn, Passes, AfterActivate
<1>5. (task[h].step = "retire" => ~CanStop(task[h].row.replaces))'
  <2> SUFFICES ASSUME task'[h].step = "retire" PROVE ~CanStop(task[h].row.replaces)'
    OBVIOUS
  <2>0. PICK o : o = task[h].row.replaces
    OBVIOUS
  <2>1. /\ task[h].step = "cancelReplaced" /\ task'[h].row = task[h].row /\ Others(h)
        /\ Down \/ ~CanStop(o) \/ rzp'[o].state = "cancelled"
    BY <2>0 DEF GoesOn, Passes, AfterActivate
  <2>2. o \in Subs /\ ~Down
    BY <1>1, <2>0, <2>1 DEF TaskInOrder, Down, Reliable
  <2>3. ~Paying(o)
    BY <2>1 DEF Paying, Unserved
  <2>4. CASE ~CanStop(o)
    <3>1. ~CanStop(o)'
      BY <1>1, <2>2, <2>3, <2>4, CanStopBefore
    <3> QED
      BY <2>0, <2>1, <3>1 DEF CanStop
  <2>5. CASE rzp'[o].state = "cancelled"
    BY <2>0, <2>1, <2>5 DEF CanStop
  <2> QED
    BY <2>1, <2>2, <2>4, <2>5
<1>6. task'[h].old # None => kind' = "addon"
  BY <1>1 DEF Ender, GoesOn
<1> QED
  BY <1>2, <1>3, <1>4, <1>5, <1>6 DEF Ender

LEMMA EnderKept ==
    ASSUME EndInv, Orderly, Reliable, [Next]_vars, NEW h \in Handlers
    PROVE  Ender(task[h])'
<1>1. Struct /\ TypeInv /\ kind' = kind /\ HandlerMoves(h)
  BY EndAt, KindStays, HandlersMove
<1>2. CASE Leaves(h)
  BY <1>2, IdleTyped DEF Ender, Leaves
<1>3. CASE Starts(h)
  <2>1. task'[h].step \notin {"markEnds", "schedule", "drop", "retire"}
    BY <1>1, <1>3, WebhookStarts DEF Starts
  <2>2. task'[h].by = "read" /\ task'[h].step \in {"end", "endToBuy"} => rzp'[task'[h].s].ends
    <3>1. CASE task'[h].by = "read" /\ task'[h].step \in {"end", "endToBuy"}
      <4>1. /\ task'[h].s \in Subs /\ UNCHANGED rzp
            /\ sub[task'[h].s].ends \/ sub[task'[h].s].scheduled \in Tiers
        BY <1>3, <3>1 DEF Starts
      <4>2. Ending(task'[h].s)
        BY <4>1, EndAt
      <4> QED
        BY <4>1, <4>2, Bounds DEF Ending
    <3> QED
      BY <3>1
  <2>3. task'[h].by = "admin" /\ task'[h].step = "end" => sub'[task'[h].s].admin
    BY <1>3 DEF Starts
  <2>4. task'[h].step = "clear" => \A s \in task'[h].halted : rzp'[s].paid = 0
    <3> SUFFICES ASSUME task'[h].step = "clear", NEW s \in task'[h].halted PROVE rzp'[s].paid = 0
      OBVIOUS
    <3>1. /\ MayBuy(task'[h].tier) /\ UNCHANGED rzp /\ \A i \in Subs : sub[i].status # "halted"
          /\ task'[h].halted = {i \in Subs : sub[i].status \in {"created", "halted"}}
      BY <1>1, <1>3, WebhookStarts DEF Starts, Reliable
    <3>2. s \in Subs /\ sub[s].status = "created"
      BY <3>1
    <3> QED
      BY <3>1, <3>2 DEF MayBuy, Orderly
  <2>5. task'[h].old # None => kind' = "addon"
    BY <1>1, <1>3 DEF Starts
  <2> QED
    BY <2>1, <2>2, <2>3, <2>4, <2>5 DEF Ender
<1> QED
  BY <1>1, <1>2, <1>3, EnderStays, EnderGoesOn DEF HandlerMoves

LEMMA RetirerKept ==
    ASSUME EndInv, Orderly, [Next]_vars, NEW h \in Handlers
    PROVE  Retirer(task[h])'
<1>1. Core /\ Struct /\ TypeInv /\ kind' = kind /\ HandlerMoves(h) /\ Retirer(task[h])
  BY EndAt, KindStays, HandlersMove
<1>2. ASSUME task'[h].step \in {"dropOpen", "subscribe", "insert"}, task'[h] # task[h]
      PROVE  GoesOn(h)
  BY <1>1, <1>2, IdleTyped, WebhookStarts DEF HandlerMoves, Leaves, Starts
<1>3. task'[h].step = "dropOpen" => kind = "addon"
  <2>1. CASE task'[h] = task[h]
    BY <1>1, <2>1 DEF Retirer
  <2>2. CASE task'[h] # task[h] /\ task'[h].step = "dropOpen"
    <3>1. kind # "plan"
      BY <1>2, <2>2 DEF GoesOn, Passes, AfterActivate
    <3> QED
      BY <1>1, <3>1, BillingAssumption DEF TypeInv, TypeOK
  <2> QED
    BY <2>1, <2>2
<1> SUFFICES ASSUME kind = "plan", task'[h].step \in {"subscribe", "insert"}, NEW s \in Subs,
                    Held(s)'
             PROVE  s \in task'[h].halted
  BY <1>1, <1>3 DEF Retirer
<1>4. ~Granted(s)
  BY EndAt DEF Granted, Grants
<1>5. ASSUME task[h].step \in Buying PROVE Held(s)
  <2>1. ~PaidOpen(s)
    BY <1>1, <1>5, CoreAt DEF NoBuyer, Buyer
  <2> QED
    BY <1>1, <1>4, <2>1, HeldBefore
<1>6. CASE task'[h] = task[h]
  BY <1>1, <1>5, <1>6 DEF Retirer, Buying
<1>7. CASE task'[h] # task[h]
  <2>1. GoesOn(h)
    BY <1>2, <1>7
  <2>2. CASE task[h].step = "browse"
    <3>1. /\ ~Blocked(task[h].old) /\ task'[h].halted = {i \in Subs : sub[i].status = "halted"}
      BY <2>1, <2>2 DEF GoesOn, Passes
    <3>2. task[h].old = None
      BY EndAt DEF Ender
    <3>3. s # None /\ Held(s)
      BY <1>5, <2>2, Bounds DEF Buying, Subs, None
    <3> QED
      BY <3>1, <3>2, <3>3 DEF Blocked, IsLive, Held
  <2>3. CASE task[h].step = "subscribe"
    <3>1. task'[h].halted = task[h].halted
      BY <2>1, <2>3 DEF GoesOn
    <3> QED
      BY <1>1, <1>5, <2>3, <3>1 DEF Retirer, Buying
  <2>4. task[h].step \in {"browse", "subscribe"}
    BY <1>1, <2>1 DEF GoesOn, Passes, AfterActivate, Retirer
  <2> QED
    BY <2>2, <2>3, <2>4
<1> QED
  BY <1>6, <1>7

\* What Razorpay can charge after a request has acted, it could before.
LEMMA ChargedBefore ==
    ASSUME Struct, [Next]_vars, NEW s \in Subs, Charged(s)', ~Paying(s)
    PROVE  Charged(s) /\ rzp[s].paid > 0 /\ rzp[s].state \notin {"none", "open", "cancelled"}
<1>1. CanStop(s) /\ MandateLasts(s) /\ TypeInv
  BY CanStopBefore, MandateLastsAt DEF Charged, Struct
<1> QED
  BY <1>1, PaidAtRazorpay DEF Charged, MandateLasts, CanStop

\* Who ends what is charged has it let go of.
LEMMA EndsLetGo ==
    ASSUME EndInv, Orderly, [Next]_vars, NEW s \in Subs, Cancelling(s), Charged(s)'
    PROVE  \E h \in Handlers : task'[h].step = "release" /\ s \in task'[h].halted
<1>1. PICK h \in Handlers :
          /\ Acts(h)
          /\ \/ task[h].step \in {"end", "endToBuy", "drop"} /\ task[h].s = s
             \/ task[h].step = "retire" /\ task[h].row.replaces = s
             \/ task[h].step = "dropOpen" /\ sub[s].status = "created" /\ sub[s].tier = task[h].tier
             \/ Passes(h, "insert", "release") /\ s \in Retired(h) /\ s # task[h].s
             \/ task[h].step = "clear" /\ s \in task[h].halted
  BY DEF Cancelling
<1>2. Core /\ Struct /\ TypeInv /\ HandlerMoves(h) /\ Ender(task[h]) /\ TaskInOrder(task[h])
  BY EndAt, HandlersMove, AtStep
<1>3. Charged(s) /\ rzp[s].paid > 0 /\ rzp[s].state \notin {"none", "open", "cancelled"}
  <2>1. ~Paying(s)
    BY <1>1 DEF Paying, Unserved, Acts
  <2> QED
    BY <1>2, <2>1, ChargedBefore
<1>4. ~rzp[s].ends /\ CanStop(s)
  BY <1>3 DEF Charged
<1>5. ASSUME task[h].step \in Buying, sub[s].status = "created"
      PROVE  kind = "addon" /\ (task[h].step = "dropOpen" => task[h].tier < sub[s].tier)
  <2>1. PaidOpen(s) /\ NoBuyer(h, s)
    BY <1>2, <1>3, <1>5, CoreAt DEF PaidOpen
  <2> QED
    BY <1>5, <2>1 DEF NoBuyer, Buyer
<1>6. ~(task[h].step \in {"endToBuy", "drop"} /\ task[h].s = s)
  <2>1. task[h].step = "endToBuy" => task[h].by = "read"
    BY <1>2, AtStep DEF TaskInOrder, OfEvent, Activating, Buying
  <2> QED
    BY <1>2, <1>3, <1>4, <2>1 DEF Ender
<1>7. ~(task[h].step = "end" /\ task[h].s = s)
  <2> SUFFICES ASSUME task[h].step = "end", task[h].s = s PROVE FALSE
    OBVIOUS
  <2>1. task[h].by \in {"webhook", "read", "admin"}
    BY <1>2, AtStep DEF TaskInOrder, Activating, Buying
  <2>2. task[h].by # "read"
    BY <1>2, <1>4 DEF Ender
  <2>3. task[h].by # "admin"
    BY <1>2, <1>3, StructAt DEF Ender, RowInOrder
  <2>4. task[h].by # "webhook"
    <3> SUFFICES ASSUME task[h].by = "webhook" PROVE FALSE
      OBVIOUS
    <3>1. queue[s] # <<>> /\ Head(queue[s]).type = "cancelled"
      BY <1>2, CoreAt DEF TypeInv, Deliveries, Applies
    <3>2. queue[s][1].type = "cancelled" /\ 1 \in 1 .. Len(queue[s])
      BY <1>2, <3>1, AtRow, TailAt
    <3> QED
      BY <1>2, <1>3, <3>2, StructAt DEF QueueInOrder
  <2> QED
    BY <2>1, <2>2, <2>3, <2>4
<1>8. ~(task[h].step = "retire" /\ task[h].row.replaces = s)
  BY <1>2, <1>4 DEF Ender
<1>9. ~(task[h].step = "dropOpen" /\ sub[s].status = "created" /\ sub[s].tier = task[h].tier)
  <2> SUFFICES ASSUME task[h].step = "dropOpen", sub[s].status = "created",
                      sub[s].tier = task[h].tier
               PROVE  FALSE
    OBVIOUS
  <2>1. sub[s].tier < sub[s].tier /\ sub[s].tier \in Nat
    BY <1>2, <1>5, TierOrder DEF Buying
  <2> QED
    BY <2>1
<1>10. ~(task[h].step = "clear" /\ s \in task[h].halted)
  BY <1>2, <1>3 DEF Ender
<1>11. Passes(h, "insert", "release") /\ s \in Retired(h)
  BY <1>1, <1>6, <1>7, <1>8, <1>9, <1>10
<1>12. s \in task[h].halted
  <2>1. CASE kind = "plan"
    <3>1. sub[s].status = "halted"
      BY <1>5, <1>11, <2>1 DEF Retired, Passes, Buying
    <3> QED
      BY <1>11, <2>1, <3>1, EndAt DEF Retirer, Passes, Held
  <2> QED
    BY <1>11, <2>1 DEF Retired
<1>13. GoesOn(h)
  BY <1>2, <1>11, IdleTyped DEF HandlerMoves, Passes, Leaves, Starts
<1>14. task'[h].halted = task[h].halted
  BY <1>11, <1>13 DEF GoesOn, Passes
<1> QED
  BY <1>11, <1>12, <1>14 DEF Passes

LEMMA LetGoKept ==
    ASSUME EndInv, Orderly, Reliable, [Next]_vars, NEW s \in Subs
    PROVE  LetGo(s)'
<1> SUFFICES ASSUME sub'[s].status = "cancelled", Charged(s)'
             PROVE  \E h \in Handlers : task'[h].step = "release" /\ s \in task'[h].halted
  BY DEF LetGo
<1>1. Core /\ Struct /\ TypeInv /\ RowMoves(s)
  BY EndAt, RowsMove
<1>2. CASE sub[s].status # "cancelled"
  <2>1. ~Inserted(s) /\ ~Granted(s)
    BY DEF Inserted, Granted
  <2>2. ~Updating(s)
    BY <1>2 DEF Updating
  <2> QED
    BY <1>1, <1>2, <2>1, <2>2, EndsLetGo DEF RowMoves
<1>3. CASE sub[s].status = "cancelled"
  <2>1. ~Paying(s)
    BY <1>3 DEF Paying, Orderly
  <2>2. Charged(s)
    BY <1>1, <2>1, ChargedBefore
  <2>3. PICK h \in Handlers : task[h].step = "release" /\ s \in task[h].halted
    BY <1>3, <2>2, EndAt DEF LetGo
  <2>4. HandlerMoves(h) /\ Serves(h)
    BY <1>1, HandlersMove, AlwaysServed DEF Served, Reliable
  <2>5. ~Leaves(h)
    <3>1. CASE Leaves(h)
      <4>1. task[h].by \notin {"webhook", "callback"}
        BY <1>1, <2>3, AtStep DEF TaskInOrder, OfEvent, Activating
      <4>2. \A i \in task[h].halted : CanStop(i) => rzp'[i].state = "cancelled"
        BY <2>3, <2>4, <3>1 DEF Serves, Answers, Activates, Down, Reliable
      <4> QED
        BY <2>2, <2>3, <4>2 DEF Charged, CanStop
    <3> QED
      BY <3>1
  <2>6. ~GoesOn(h) /\ ~Starts(h)
    BY <2>3 DEF GoesOn, Passes, Starts
  <2> QED
    BY <2>3, <2>4, <2>5, <2>6 DEF HandlerMoves
<1> QED
  BY <1>2, <1>3

LEMMA EndInit ==
    Init => EndInv
<1> SUFFICES ASSUME Init PROVE EndInv
  OBVIOUS
<1>1. Core
  BY CoreInit
<1>2. \A h \in Handlers : task[h] = Idle
  BY DEF Init
<1>3. \A h \in Handlers : Grants(task[h]) /\ Ender(task[h]) /\ Retirer(task[h])
  BY <1>2, IdleTyped DEF Grants, Ender, Retirer
<1>4. \A s \in Subs : Ending(s) /\ LetGo(s)
  BY DEF Init, NoRow, Ending, LetGo
<1> QED
  BY <1>1, <1>3, <1>4 DEF EndInv

LEMMA EndNext ==
    ASSUME Orderly, Reliable
    PROVE  EndInv /\ [Next]_vars => EndInv'
<1> SUFFICES ASSUME EndInv, [Next]_vars PROVE EndInv'
  OBVIOUS
<1>1. Core'
  BY CoreNext DEF EndInv
<1>2. \A h \in Handlers : Grants(task[h])'
  BY EndAt, GrantsKept
<1>3. \A h \in Handlers : Ender(task[h])' /\ Retirer(task[h])'
  BY EnderKept, RetirerKept
<1>4. \A s \in Subs : Ending(s)' /\ LetGo(s)'
  BY EndingKept, LetGoKept
<1> QED
  BY <1>1, <1>2, <1>3, <1>4 DEF EndInv

\* Nothing that has ended is charged again, once the requests at it are through: where calls to
\* Razorpay do not fail, and requests do not die before what was halted is let go of.
THEOREM EndedStaysUncharged ==
    ASSUME Orderly, Reliable
    PROVE  Spec => []EndedIsNotCharged
<1>1. EndInv => EndedIsNotCharged
  <2> SUFFICES ASSUME EndInv, NEW s \in Subs, sub[s].status = "cancelled",
                      \A h \in Handlers : At(h, "idle"), ~rzp[s].ends,
                      rzp[s].state \notin {"none", "open", "cancelled"}
               PROVE  FALSE
    BY DEF EndedIsNotCharged
  <2>1. rzp[s].state \in {"active", "pending", "halted"}
    BY EndAt DEF TypeInv, TypeOK, Mandate
  <2> QED
    BY <2>1, EndAt DEF LetGo, Charged, CanStop, At
<1> QED
  BY EndInit, EndNext, <1>1, PTL DEF Spec

-----------------------------------------------------------------------------
(* Every charge is invoiced once.                                          *)

\* A request is at the first payment of its subscription, up to the invoice.
IsFirst(t) == t.step \in Activating /\ t.event.charge = 1

\* The payment of a checkout whose row is not active yet is the next event.
PaidTold(s) == PaidOpen(s) => Firsts(s)

\* An event that has its row is being applied; or it is the payment of what was cancelled since.
SeenServed(s) ==
    seen[s] => \/ \E h \in Handlers : task[h].by = "webhook" /\ task[h].s = s
               \/ sub[s].status = "cancelled" /\ Firsts(s)

\* A first payment that is told as a charge finds the row as it was, and nobody calls back.
ChargedFirst(s) ==
    Firsts(s) /\ Head(queue[s]).type = "charged" =>
        ~CallsBack(s) /\ (~seen[s] => sub[s].status = "created")

\* Who activates has the first payment, who renews has a later one.
Payment(t) ==
    /\ t.by = "callback" => t.event.charge = 1
    /\ t.by = "webhook" /\ t.step \in Activating \cup {"renew"} => IsPayment(t.event)
    /\ t.by = "webhook" /\ t.step \in Activating \ {"invoice"} => t.event.charge = 1
    /\ t.step = "renew" => t.event.charge # 1

OneFirst ==
    \A h, k \in Handlers : IsFirst(task[h]) /\ IsFirst(task[k]) /\ task[h].s = task[k].s => h = k

\* Every charge is told by one event.
Distinct(s) ==
    \A i \in 1 .. Len(queue[s]) : IsPayment(queue[s][i]) =>
        /\ queue[s][i].charge \in 1 .. rzp[s].paid
        /\ \A j \in 1 .. Len(queue[s]) :
              IsPayment(queue[s][j]) /\ queue[s][j].charge = queue[s][i].charge => i = j

Queued(s, n) == \E i \in 1 .. Len(queue[s]) : IsPayment(queue[s][i]) /\ queue[s][i].charge = n

\* The first charge is invoiced once the row was activated for it, and the others
\* once their event was acknowledged.
FirstSettled(s) ==
    Was(s) /\ rzp[s].paid > 0
    /\ \A h \in Handlers : IsFirst(task[h]) => task[h].s # s \/ Activates(task[h])
LaterSettled(s, n) == n <= rzp[s].paid /\ ~Queued(s, n)

Booked(s, n) ==
    /\ n = 1 => invoices[<<s, n>>] = IF FirstSettled(s) THEN 1 ELSE 0
    /\ n # 1 => invoices[<<s, n>>] = IF LaterSettled(s, n) THEN 1 ELSE 0

InvoiceInv ==
    /\ Core /\ PaidInv /\ OneFirst
    /\ \A h \in Handlers : Payment(task[h])
    /\ \A s \in Subs : PaidTold(s) /\ SeenServed(s) /\ ChargedFirst(s) /\ Distinct(s)
    /\ \A s \in Subs, n \in Charges : Booked(s, n)

LEMMA InvoiceAt ==
    ASSUME InvoiceInv
    PROVE  /\ Core /\ Struct /\ TypeInv /\ OneFirst
           /\ \A h \in Handlers : /\ Payment(task[h])
                                  /\ task[h].by = "webhook" => seen[task[h].s]
           /\ \A s \in Subs : PaidTold(s) /\ SeenServed(s) /\ ChargedFirst(s) /\ Distinct(s)
           /\ \A s \in Subs, n \in Charges : Booked(s, n)
BY DEF InvoiceInv, Core, Struct, PaidInv, Noted

\* An event that is being applied is the oldest of its subscription.
LEMMA AppliesHead ==
    ASSUME TypeInv, NEW h \in Handlers, task[h].by = "webhook"
    PROVE  /\ task[h].s \in Subs /\ task[h].event \in Event
           /\ queue[task[h].s] # <<>> /\ Head(queue[task[h].s]) = task[h].event
           /\ task[h].step \in OfEvent
BY AtStep DEF TypeInv, Deliveries, TaskInOrder, OfEvent

\* What becomes of the events of s: a payment is told for every charge.
LEMMA QueueMoves ==
    ASSUME Struct, "toldTwice" \notin Faults, [Next]_vars, NEW s \in Subs
    PROVE  \/ queue'[s] = queue[s] /\ rzp'[s].paid = rzp[s].paid
           \/ Popping(s) /\ rzp'[s] = rzp[s]
           \/ \E e \in Event :
                 /\ queue'[s] = Append(queue[s], e) /\ seen'[s] = seen[s]
                 /\ IsPayment(e) => /\ e.charge = rzp[s].paid + 1 /\ rzp'[s].paid = e.charge
                                    /\ UNCHANGED task
                 /\ ~IsPayment(e) => rzp'[s].paid = rzp[s].paid
<1>1. TypeInv /\ RazorpayMoves(s)
  BY RazorpayMovesAlways DEF Struct
<1>2. CASE rzp'[s] = rzp[s] /\ queue'[s] = queue[s]
  BY <1>2
<1>3. CASE rzp'[s] = rzp[s] /\ Popping(s)
  BY <1>3
<1>4. CASE queue'[s] = queue[s] /\ (Preparing(s) \/ Waiting(s))
  BY <1>4 DEF Preparing, Waiting, StaysPaid
<1>5. CASE seen'[s] = seen[s] /\ Paying(s)
  <2>1. PICK e \in Event : /\ e.charge = 1 /\ e.type \in {"activated", "charged"}
                           /\ queue'[s] = Append(queue[s], e)
    BY <1>5 DEF Paying, Said
  <2>2. rzp[s].paid = 0 /\ rzp'[s].paid = 1 /\ UNCHANGED task
    BY <1>5, PaidAnew DEF Paying, Unserved
  <2> QED
    BY <1>5, <2>1, <2>2 DEF IsPayment
<1>6. CASE seen'[s] = seen[s] /\ Charging(s)
  <2>1. PICK e \in Event : /\ e.charge = rzp[s].paid + 1 /\ e.type = "charged"
                           /\ queue'[s] = Append(queue[s], e)
    BY <1>6 DEF Charging, Said
  <2>2. rzp'[s].paid = rzp[s].paid + 1 /\ UNCHANGED task
    BY <1>6 DEF Charging
  <2> QED
    BY <1>6, <2>1, <2>2 DEF IsPayment
<1>7. CASE seen'[s] = seen[s] /\ Failing(s)
  <2>1. PICK e \in Event : e.type \in {"pending", "halted"} /\ queue'[s] = Append(queue[s], e)
    BY <1>7 DEF Failing, Said
  <2>2. rzp'[s].paid = rzp[s].paid /\ ~IsPayment(e)
    BY <1>7, <2>1 DEF Failing, StaysPaid, IsPayment
  <2> QED
    BY <1>7, <2>1, <2>2
<1>8. CASE seen'[s] = seen[s] /\ IsStopped(s)
  <2>1. /\ EndedEvent(s) \in Event /\ queue'[s] = Append(queue[s], EndedEvent(s))
        /\ rzp'[s].paid = rzp[s].paid /\ ~IsPayment(EndedEvent(s))
    BY <1>8 DEF IsStopped, EndsAt, EndedEvent, IsPayment
  <2> QED
    BY <1>8, <2>1
<1> QED
  BY <1>1, <1>2, <1>3, <1>4, <1>5, <1>6, <1>7, <1>8 DEF RazorpayMoves

LEMMA PaidNat ==
    ASSUME Struct, [Next]_vars, NEW s \in Subs
    PROVE  rzp[s].paid \in Nat /\ rzp'[s].paid \in Nat /\ rzp'[s].paid >= rzp[s].paid
BY Counted, PaidCounts, MandateLastsAt DEF Struct, MandateLasts

LEMMA DistinctKept ==
    ASSUME InvoiceInv, "toldTwice" \notin Faults, [Next]_vars, NEW s \in Subs
    PROVE  Distinct(s)'
<1>1. Struct /\ TypeInv /\ Distinct(s) /\ queue[s] \in Seq(Event)
  BY InvoiceAt, AtRow
<1>2. rzp[s].paid \in Nat /\ rzp'[s].paid \in Nat /\ rzp'[s].paid >= rzp[s].paid
  BY <1>1, PaidNat
<1>3. CASE queue'[s] = queue[s]
  BY <1>1, <1>2, <1>3 DEF Distinct, IsPayment
<1>4. CASE Popping(s) /\ rzp'[s] = rzp[s]
  <2>1. /\ Len(queue[s]) \in Nat /\ Len(queue'[s]) = Len(queue[s]) - 1
        /\ \A i \in 1 .. Len(queue'[s]) : queue'[s][i] = queue[s][i + 1]
    BY <1>1, <1>4, TailAt DEF Popping
  <2> SUFFICES ASSUME NEW i \in 1 .. Len(queue'[s]), IsPayment(queue'[s][i])
               PROVE  /\ queue'[s][i].charge \in 1 .. rzp[s].paid
                      /\ \A j \in 1 .. Len(queue'[s]) :
                            IsPayment(queue'[s][j]) /\ queue'[s][j].charge = queue'[s][i].charge
                               => i = j
    BY <1>4 DEF Distinct, IsPayment
  <2>2. i + 1 \in 1 .. Len(queue[s]) /\ queue'[s][i] = queue[s][i + 1]
    BY <2>1
  <2>3. \A j \in 1 .. Len(queue'[s]) : j + 1 \in 1 .. Len(queue[s]) /\ queue'[s][j] = queue[s][j + 1]
    BY <2>1
  <2>4. \A j \in 1 .. Len(queue'[s]) : i + 1 = j + 1 => i = j
    BY <2>1
  <2> QED
    BY <1>1, <2>2, <2>3, <2>4 DEF Distinct
<1>5. ASSUME NEW e \in Event, queue'[s] = Append(queue[s], e),
             IsPayment(e) => e.charge = rzp[s].paid + 1 /\ rzp'[s].paid = e.charge
      PROVE  Distinct(s)'
  <2>1. /\ Len(queue[s]) \in Nat /\ Len(queue'[s]) = Len(queue[s]) + 1
        /\ \A i \in 1 .. Len(queue[s]) : queue'[s][i] = queue[s][i]
        /\ queue'[s][Len(queue[s]) + 1] = e
    BY <1>1, <1>5, AppendAt
  <2>2. ASSUME NEW i \in 1 .. Len(queue'[s]), IsPayment(queue'[s][i])
        PROVE  \/ /\ i \in 1 .. Len(queue[s]) /\ queue'[s][i] = queue[s][i]
                  /\ queue'[s][i].charge \in 1 .. rzp[s].paid
               \/ /\ i = Len(queue[s]) + 1 /\ queue'[s][i].charge = rzp[s].paid + 1
                  /\ rzp'[s].paid = rzp[s].paid + 1
    <3>1. CASE i = Len(queue[s]) + 1
      BY <1>5, <2>1, <2>2, <3>1
    <3>2. CASE i # Len(queue[s]) + 1
      <4>1. i \in 1 .. Len(queue[s])
        BY <2>1, <3>2
      <4> QED
        BY <1>1, <2>1, <2>2, <4>1 DEF Distinct
    <3> QED
      BY <3>1, <3>2
  <2>3. ASSUME NEW i \in 1 .. Len(queue'[s]), IsPayment(queue'[s][i])
        PROVE  queue'[s][i].charge \in 1 .. rzp'[s].paid
    BY <1>2, <2>2, <2>3
  <2>4. ASSUME NEW i \in 1 .. Len(queue'[s]), IsPayment(queue'[s][i]),
               NEW j \in 1 .. Len(queue'[s]), IsPayment(queue'[s][j]),
               queue'[s][j].charge = queue'[s][i].charge
        PROVE  i = j
    <3>1. CASE i \in 1 .. Len(queue[s]) /\ j \in 1 .. Len(queue[s])
      BY <1>1, <2>1, <2>4, <3>1 DEF Distinct
    <3>2. CASE i = Len(queue[s]) + 1 /\ j = Len(queue[s]) + 1
      BY <3>2
    <3>3. ~(i \in 1 .. Len(queue[s]) /\ j = Len(queue[s]) + 1)
      BY <1>2, <2>1, <2>2, <2>4
    <3>4. ~(j \in 1 .. Len(queue[s]) /\ i = Len(queue[s]) + 1)
      BY <1>2, <2>1, <2>2, <2>4
    <3> QED
      BY <2>2, <2>4, <3>1, <3>2, <3>3, <3>4
  <2> QED
    BY <2>3, <2>4 DEF Distinct, IsPayment
<1> QED
  BY <1>1, <1>3, <1>4, <1>5, QueueMoves

\* What is answered is no payment, or the first one of what is active, or is invoiced; what was
\* answered already is the first payment of what was cancelled since.
LEMMA PopsHead ==
    ASSUME InvoiceInv, "crashAtEvent" \notin Faults, [Next]_vars, NEW s \in Subs, Popping(s)
    PROVE  LET e == Head(queue[s])
           IN  \/ ~IsPayment(e)
               \/ /\ e.charge = 1
                  /\ \/ sub[s].status = "cancelled"
                     \/ sub[s].status = "active"
               \/ \E h \in Handlers : /\ task[h].by = "webhook" /\ task[h].s = s /\ Leaves(h)
                                      /\ task[h].step = "invoice" /\ Invoiced(h)
                                      /\ task[h].event = e
<1>1. Struct /\ TypeInv /\ Core /\ SeenServed(s) /\ Served /\ queue[s] \in Seq(Event)
  BY InvoiceAt, AlwaysServed, AtRow
<1>2. CASE seen[s] /\ UNCHANGED task /\ \A h \in Handlers : task[h].by = "webhook" => task[h].s # s
  BY <1>1, <1>2 DEF SeenServed, Firsts
<1>3. ASSUME NEW h \in Handlers, task[h].by = "webhook", task[h].s = s, Leaves(h)
      PROVE  \/ ~IsPayment(Head(queue[s]))
             \/ /\ Head(queue[s]).charge = 1
                /\ \/ sub[s].status = "cancelled"
                   \/ sub[s].status = "active"
             \/ /\ task[h].step = "invoice" /\ Invoiced(h)
                /\ task[h].event = Head(queue[s])
  <2>1. /\ Serves(h) /\ Applies(task[h]) /\ Payment(task[h]) /\ task[h].event = Head(queue[s])
        /\ task[h].step \in OfEvent
    BY <1>1, <1>3, CoreAt, InvoiceAt, AppliesHead DEF Served
  <2>2. task[h].step # "idle"
    BY <2>1 DEF OfEvent, Activating
  <2>3. CASE task[h].step \in {"fail", "halt", "end"}
    BY <1>3, <2>1, <2>3 DEF Applies, IsPayment
  <2>4. CASE Activates(task[h]) /\ sub[s].status \in {"active", "cancelled"}
    <3>1. task[h].step \in Activating \ {"invoice"}
      BY <2>4 DEF Activates, Activating
    <3> QED
      BY <1>3, <2>1, <2>4, <3>1 DEF Payment
  <2>5. CASE task[h].step = "invoice" /\ Invoiced(h)
    BY <2>1, <2>5
  <2> QED
    BY <1>3, <2>1, <2>2, <2>3, <2>4, <2>5 DEF Serves, Activates
<1> QED
  BY <1>2, <1>3 DEF Popping

LEMMA PoppedFirsts ==
    ASSUME Core, NEW s \in Subs, Popping(s)
    PROVE  ~Firsts(s)'
<1>1. TypeInv /\ FirstIsFirst(s) /\ queue[s] \in Seq(Event) /\ queue[s] # <<>>
      /\ queue'[s] = Tail(queue[s])
  BY CoreAt, AtRow DEF Popping
<1> SUFFICES ASSUME queue'[s] # <<>>, IsPayment(Head(queue'[s])), Head(queue'[s]).charge = 1
             PROVE  FALSE
  BY DEF Firsts, IsPayment
<1>2. 1 \in 1 .. Len(queue'[s]) /\ Head(queue'[s]) = queue'[s][1]
  BY <1>1, TailAt
<1> QED
  BY <1>1, <1>2, FirstIsFirstPopped

\* As long as nothing is answered, the oldest event stays.
LEMMA FirstsStay ==
    ASSUME Struct, [Next]_vars, NEW s \in Subs, queue[s] # <<>>, ~Popping(s)
    PROVE  queue'[s] # <<>> /\ Head(queue'[s]) = Head(queue[s])
<1>1. queue[s] \in Seq(Event) /\ RazorpayMoves(s)
  BY AtRow, RazorpayMovesAlways DEF Struct
<1>2. CASE queue'[s] = queue[s]
  BY <1>2
<1>3. ASSUME NEW e \in Event, queue'[s] = Append(queue[s], e)
      PROVE  queue'[s] # <<>> /\ Head(queue'[s]) = Head(queue[s])
  BY <1>1, <1>3, AfterAppend
<1>4. ~Paying(s)
  BY PaidAnew
<1>5. \/ queue'[s] = queue[s]
      \/ \E e \in Event : queue'[s] = Append(queue[s], e)
  <2>1. CASE Charging(s) \/ Failing(s)
    BY <2>1 DEF Charging, Failing, Said
  <2>2. CASE IsStopped(s)
    BY <2>2 DEF IsStopped, EndsAt
  <2> QED
    BY <1>1, <1>4, <2>1, <2>2 DEF RazorpayMoves
<1> QED
  BY <1>2, <1>3, <1>5

\* The first payment is told at once.
LEMMA PayingTells ==
    ASSUME Struct, [Next]_vars, NEW s \in Subs, Paying(s)
    PROVE  /\ Firsts(s)' /\ sub' = sub /\ ~Popping(s) /\ rzp[s].paid = 0
           /\ Head(queue'[s]).type = "charged" /\ rzp'[s].callback => "chargedFirst" \in Faults
<1>1. TypeInv /\ RazorpayMoves(s) /\ queue[s] = <<>> /\ rzp[s].paid = 0
  BY RazorpayMovesAlways, PaidAnew DEF Struct
<1>2. PICK type \in {"activated", "charged"} :
         /\ type = "charged" /\ rzp'[s].callback => "chargedFirst" \in Faults
         /\ Said(s, type, 1) \/ SaidBoth(s, type)
  BY DEF Paying
<1>3. queue'[s] # <<>> /\ Head(queue'[s]).type = type /\ Head(queue'[s]).charge = 1
  <2>1. queue[s] \in Seq(Event)
    BY <1>1, AtRow
  <2>2. ASSUME NEW e \in Event
        PROVE  /\ Append(queue[s], e) \in Seq(Event) /\ Append(queue[s], e) # <<>>
               /\ Head(Append(queue[s], e)) = e
    <3>1. Append(queue[s], e) \in Seq(Event) /\ Append(queue[s], e) # <<>>
      BY <2>1, AfterAppend, AppendProperties
    <3> QED
      BY <1>1, <2>1, <3>1
  <2>3. CASE Said(s, type, 1)
    BY <2>2, <2>3 DEF Said
  <2>4. CASE SaidBoth(s, type)
    <3>1. PICK d, e \in Event : /\ d.type = type /\ d.charge = 1
                              /\ queue'[s] = Append(Append(queue[s], d), e)
      BY <2>4 DEF SaidBoth
    <3>2. /\ Append(queue[s], d) \in Seq(Event) /\ Append(queue[s], d) # <<>>
          /\ Head(Append(queue[s], d)) = d
      BY <2>2
    <3>3. queue'[s] # <<>> /\ Head(queue'[s]) = d
      BY <3>1, <3>2, AfterAppend
    <3> QED
      BY <3>1, <3>3
  <2> QED
    BY <1>2, <2>3, <2>4
<1>4. Firsts(s)'
  BY <1>2, <1>3 DEF Firsts, IsPayment
<1>5. sub' = sub
  BY <1>1 DEF RazorpayMoves, Paying, Preparing, Waiting, Charging, Failing, IsStopped, CanStop,
     StaysState
<1> QED
  BY <1>1, <1>2, <1>3, <1>4, <1>5 DEF Popping

LEMMA PaidToldKept ==
    ASSUME InvoiceInv, "crashAtEvent" \notin Faults, [Next]_vars, NEW s \in Subs
    PROVE  PaidTold(s)'
<1> SUFFICES ASSUME PaidOpen(s)' PROVE Firsts(s)'
  BY DEF PaidTold
<1>1. Struct /\ PaidTold(s)
  BY InvoiceAt
<1>2. sub'[s] = sub[s] /\ (PaidOpen(s) \/ Paying(s))
  BY <1>1, PaidOpenBefore
<1>3. CASE Paying(s)
  BY <1>1, <1>3, PayingTells
<1>4. CASE PaidOpen(s)
  <2>1. Firsts(s) /\ sub[s].status = "created"
    BY <1>1, <1>4 DEF PaidTold, PaidOpen
  <2>2. ASSUME Popping(s) PROVE FALSE
    <3>1. PICK h \in Handlers : task[h].s = s /\ task[h].step = "invoice"
      BY <2>1, <2>2, PopsHead DEF Firsts
    <3>2. Was(s)
      BY <1>1, <3>1, WorkedWas DEF OfWas
    <3> QED
      BY <2>1, <3>2 DEF Was
  <2>3. queue'[s] # <<>> /\ Head(queue'[s]) = Head(queue[s])
    BY <1>1, <2>1, <2>2, FirstsStay DEF Firsts
  <2> QED
    BY <2>1, <2>3 DEF Firsts, IsPayment
<1> QED
  BY <1>2, <1>3, <1>4

LEMMA SeenServedKept ==
    ASSUME InvoiceInv, "crashAtEvent" \notin Faults, [Next]_vars, NEW s \in Subs
    PROVE  SeenServed(s)'
<1> SUFFICES ASSUME seen'[s]
             PROVE  \/ \E h \in Handlers : task'[h].by = "webhook" /\ task'[h].s = s
                    \/ sub'[s].status = "cancelled" /\ Firsts(s)'
  BY DEF SeenServed
<1>1. Core /\ Struct /\ TypeInv /\ SeenServed(s) /\ RazorpayMoves(s) /\ Served
  BY InvoiceAt, RazorpayMovesAlways, AlwaysServed
<1>2. CASE Taking(s)
  BY <1>2 DEF Taking
<1>3. CASE ~Taking(s)
  <2>1. seen[s] /\ ~Popping(s)
    BY <1>1, <1>3 DEF RazorpayMoves, Popping
  <2>2. CASE sub[s].status = "cancelled" /\ Firsts(s)
    <3>1. sub'[s].status = "cancelled"
      BY <1>1, <2>2, RowGoesForward
    <3>2. queue'[s] # <<>> /\ Head(queue'[s]) = Head(queue[s])
      BY <1>1, <2>1, <2>2, FirstsStay DEF Firsts
    <3> QED
      BY <2>2, <3>1, <3>2 DEF Firsts, IsPayment
  <2>3. ASSUME NEW h \in Handlers, task[h].by = "webhook", task[h].s = s
        PROVE  \/ task'[h].by = "webhook" /\ task'[h].s = s
               \/ sub'[s].status = "cancelled" /\ Firsts(s)'
    <3>1. /\ HandlerMoves(h) /\ Serves(h) /\ task[h].step \in OfEvent /\ Payment(task[h])
          /\ queue[s] # <<>> /\ Head(queue[s]) = task[h].event
      BY <1>1, <2>3, HandlersMove, AppliesHead, InvoiceAt DEF Served
    <3>2. task[h].step \notin {"idle", "subscribe"}
      BY <3>1 DEF OfEvent, Activating
    <3>3. CASE Leaves(h)
      <4>1. ~Answers(h)
        BY <2>3 DEF Answers
      <4>2. Activates(task[h]) /\ sub[s].status = "cancelled" /\ UNCHANGED <<sub, queue>>
        BY <2>3, <3>1, <3>2, <3>3, <4>1 DEF Serves
      <4>3. task[h].step \in Activating \ {"invoice"}
        BY <4>2 DEF Activates, Activating
      <4> QED
        BY <2>3, <3>1, <4>2, <4>3 DEF Payment, Firsts, IsPayment
    <3>4. CASE GoesOn(h)
      BY <2>3, <3>2, <3>4 DEF GoesOn
    <3> QED
      BY <2>3, <3>1, <3>2, <3>3, <3>4 DEF HandlerMoves, Starts
  <2> QED
    BY <1>1, <2>1, <2>2, <2>3 DEF SeenServed
<1> QED
  BY <1>2, <1>3

LEMMA ChargedFirstKept ==
    ASSUME InvoiceInv, Orderly, "chargedFirst" \notin Faults, [Next]_vars, NEW s \in Subs
    PROVE  ChargedFirst(s)'
<1> SUFFICES ASSUME Firsts(s)', Head(queue'[s]).type = "charged"
             PROVE  ~CallsBack(s)' /\ (~seen'[s] => sub'[s].status = "created")
  BY DEF ChargedFirst
<1>1. Core /\ Struct /\ TypeInv /\ ChargedFirst(s) /\ RazorpayMoves(s)
  BY InvoiceAt, RazorpayMovesAlways
<1>2. CASE Paying(s)
  <2>1. sub' = sub /\ ~rzp'[s].callback
    BY <1>1, <1>2, PayingTells
  <2>2. \A h \in Handlers : task'[h].step = "idle"
    BY <1>2 DEF Paying, Unserved
  <2>3. ~CallsBack(s)'
    BY <2>1, <2>2 DEF CallsBack, Activates
  <2> QED
    BY <1>2, <2>1, <2>3 DEF Paying, Orderly
<1>3. CASE ~Paying(s)
  <2>1. Firsts(s) /\ ~Popping(s)
    BY <1>1, <1>3, FirstsBefore, PoppedFirsts
  <2>2. Head(queue[s]).type = "charged"
    BY <1>1, <2>1, FirstsStay DEF Firsts
  <2>3. ~CallsBack(s) /\ (~seen[s] => sub[s].status = "created")
    BY <1>1, <2>1, <2>2 DEF ChargedFirst
  <2>4. ~CallsBack(s)'
    BY <1>1, <1>3, <2>3, CallsBackBefore
  <2>5. ASSUME ~seen'[s] PROVE sub'[s].status = "created"
    <3>1. ~seen[s]
      BY <1>1, <2>1, <2>5 DEF RazorpayMoves, Taking
    <3>2. PaidOpen(s)
      BY <1>1, <2>1, <2>3, <3>1, StructAt DEF PaidOpen, Firsts, QueueInOrder
    <3>3. ASSUME NEW h \in Handlers, task[h].step = "activate", task[h].s = s PROVE FALSE
      <4>1. task[h].by \in {"webhook", "callback"}
        BY <1>1, <3>3, ActivatesPaid DEF Activates
      <4>2. task[h].by # "webhook"
        BY <3>1, <3>3, InvoiceAt
      <4>3. task[h].by # "callback"
        BY <2>3, <3>3 DEF CallsBack, Activates
      <4> QED
        BY <4>1, <4>2, <4>3
    <3> QED
      BY <1>1, <2>3, <3>1, <3>2, <3>3, PaidStays
  <2> QED
    BY <2>4, <2>5
<1> QED
  BY <1>2, <1>3

LEMMA PaymentKept ==
    ASSUME InvoiceInv, [Next]_vars, NEW h \in Handlers
    PROVE  Payment(task[h])'
<1>1. Core /\ Struct /\ TypeInv /\ HandlerMoves(h) /\ Payment(task[h])
  BY InvoiceAt, HandlersMove
<1>2. CASE task'[h] = task[h]
  BY <1>1, <1>2 DEF Payment, IsPayment
<1>3. CASE Leaves(h)
  BY <1>3, IdleTyped DEF Leaves, Payment, Activating
<1>4. CASE GoesOn(h)
  <2>1. /\ task'[h].by = task[h].by /\ task'[h].event = task[h].event
        /\ task'[h].step # "renew"
        /\ task'[h].step \in Activating => task[h].step \in Activating \cup {"renew"}
        /\ task'[h].step \in Activating \ {"invoice"} => task[h].step \in Activating \ {"invoice"}
    BY <1>4 DEF GoesOn, Passes, AfterActivate, Activating
  <2> QED
    BY <1>1, <2>1 DEF Payment, IsPayment
<1>5. CASE Starts(h) /\ task'[h].by = "webhook"
  <2> DEFINE s == task'[h].s
             e == task'[h].event
  <2>1. /\ s \in Subs /\ queue[s] # <<>> /\ ~seen[s] /\ e = Head(queue[s])
        /\ task'[h].step = FirstStep(e, sub[s])
    BY <1>5 DEF Starts
  <2>2. /\ queue[s] \in Seq(Event) /\ e \in Event /\ sub[s] \in Row /\ e = queue[s][1]
        /\ 1 \in 1 .. Len(queue[s])
    BY <1>1, <2>1, AtRow, TailAt
  <2>3. /\ task'[h].step = "renew" => e.type = "charged" /\ sub[s].status # "created"
        /\ task'[h].step \in {"readToActivate", "activate"} =>
              e.type = "activated" \/ (e.type = "charged" /\ sub[s].status = "created")
        /\ task'[h].step \in {"readToActivate", "renew", "fail", "halt", "end"}
    BY <2>1, <2>2, FirstStepFits, FirstStepOf
  <2>4. task'[h].step \in Activating \cup {"renew"} => IsPayment(e)
    BY <2>3 DEF IsPayment, Activating
  <2>5. task'[h].step \in Activating \ {"invoice"} => e.charge = 1
    <3> SUFFICES ASSUME task'[h].step = "readToActivate" PROVE e.charge = 1
      BY <2>3 DEF Activating
    <3>1. CASE e.type = "activated"
      BY <1>1, <2>1, <2>2, <3>1, StructAt DEF QueueInOrder
    <3>2. CASE sub[s].status = "created"
      <4>1. PaidOpen(s)
        BY <1>1, <2>1, <3>2, StructAt DEF PaidOpen, QueueInOrder
      <4> QED
        BY <2>1, <4>1, InvoiceAt DEF PaidTold, Firsts
    <3> QED
      BY <2>3, <3>1, <3>2
  <2>6. task'[h].step = "renew" => e.charge # 1
    <3> SUFFICES ASSUME task'[h].step = "renew", e.charge = 1 PROVE FALSE
      OBVIOUS
    <3>1. Firsts(s) /\ Head(queue[s]).type = "charged" /\ sub[s].status # "created"
      BY <2>1, <2>3 DEF Firsts, IsPayment
    <3> QED
      BY <2>1, <3>1, InvoiceAt DEF ChargedFirst
  <2> QED
    BY <1>5, <2>4, <2>5, <2>6 DEF Payment
<1>6. CASE Starts(h) /\ task'[h].by # "webhook"
  <2>1. /\ task'[h].by = "callback" => task'[h].event.charge = 1
        /\ task'[h].step # "renew"
    BY <1>6 DEF Starts
  <2> QED
    BY <1>6, <2>1 DEF Payment
<1> QED
  BY <1>1, <1>2, <1>3, <1>4, <1>5, <1>6 DEF HandlerMoves

\* Who is at a first payment was, or begins, while nobody is.
LEMMA IsFirstBefore ==
    ASSUME InvoiceInv, Orderly, [Next]_vars, NEW h \in Handlers, IsFirst(task'[h])
    PROVE  \/ task'[h] = task[h]
           \/ GoesOn(h) /\ IsFirst(task[h]) /\ task'[h].s = task[h].s
           \/ /\ Starts(h) /\ Others(h) /\ task'[h].step = "readToActivate"
              /\ \A k \in Handlers : task[k].step \in Activating => task[k].s # task'[h].s
<1>1. TypeInv /\ HandlerMoves(h) /\ Payment(task[h])
  BY InvoiceAt, HandlersMove
<1>2. ~Leaves(h)
  BY IdleTyped DEF Leaves, IsFirst, Activating
<1>3. CASE GoesOn(h)
  <2>1. /\ task'[h].event = task[h].event /\ task[h].step # "subscribe"
        /\ task[h].step \in Activating \cup {"renew"}
    BY <1>3 DEF GoesOn, Passes, AfterActivate, IsFirst, Activating
  <2>2. task[h].step # "renew"
    BY <1>1, <2>1 DEF IsFirst, Payment
  <2>3. task'[h].s = task[h].s
    BY <1>3, <2>1 DEF GoesOn
  <2> QED
    BY <1>3, <2>1, <2>2, <2>3 DEF IsFirst
<1>4. CASE Starts(h)
  <2>1. task'[h].by = "webhook" => task'[h].step = "readToActivate"
    BY <1>1, <1>4, WebhookStarts DEF IsFirst, Activating
  <2>2. /\ task'[h].by \in {"webhook", "callback"} /\ NoRace(task'[h].s) /\ Others(h)
        /\ task'[h].step = "readToActivate"
    BY <1>4, <2>1 DEF Starts, IsFirst, Activating
  <2> QED
    BY <1>4, <2>2 DEF NoRace, Orderly
<1> QED
  BY <1>1, <1>2, <1>3, <1>4 DEF HandlerMoves

LEMMA OneFirstKept ==
    ASSUME InvoiceInv, Orderly, [Next]_vars
    PROVE  OneFirst'
<1> SUFFICES ASSUME NEW h \in Handlers, NEW k \in Handlers, IsFirst(task'[h]), IsFirst(task'[k]),
                    task'[h].s = task'[k].s, h # k
             PROVE  FALSE
  BY DEF OneFirst, IsFirst
<1>1. OneFirst
  BY InvoiceAt
<1>2. ASSUME NEW i \in Handlers, NEW j \in Handlers, i # j, Starts(i), Others(i),
             IsFirst(task'[j]), task'[i].s = task'[j].s,
             \A l \in Handlers : task[l].step \in Activating => task[l].s # task'[i].s
      PROVE  FALSE
  BY <1>2 DEF Others, IsFirst
<1>3. IsFirst(task[h]) /\ task[h].s = task'[h].s
  BY <1>2, IsFirstBefore
<1>4. IsFirst(task[k]) /\ task[k].s = task'[k].s
  BY <1>2, IsFirstBefore
<1> QED
  BY <1>1, <1>3, <1>4 DEF OneFirst

Invoices(h, s, n) ==
    /\ task[h].step = "invoice" /\ Leaves(h) /\ task[h].s = s /\ task[h].event.charge = n
    /\ invoices'[<<s, n>>] = invoices[<<s, n>>] + 1 /\ UNCHANGED <<sub, rzp>>

\* Who is through with a charge has invoiced it.
LEMMA InvoicesMove ==
    ASSUME Struct, "crashAtEvent" \notin Faults, [Next]_vars, NEW s \in Subs, NEW n \in Charges
    PROVE  \/ \E h \in Handlers : Invoices(h, s, n)
           \/ /\ invoices'[<<s, n>>] = invoices[<<s, n>>]
              /\ \A h \in Handlers : task[h].step = "invoice" /\ Leaves(h) /\ task[h].s = s
                                        => task[h].event.charge # n
<1>1. /\ Served /\ Books /\ TypeInv /\ <<s, n>> \in Subs \X Charges
      /\ invoices[<<s, n>>] \in Nat
  BY AlwaysServed DEF Served, Struct, TypeInv, TypeOK
<1>2. ASSUME NEW h \in Handlers, task[h].step = "invoice", Leaves(h), task[h].s = s,
             task[h].event.charge = n
      PROVE  Invoices(h, s, n)
  <2>1. task[h].by \in {"webhook", "callback"}
    BY <1>1, <1>2, AtStep DEF TaskInOrder, Buying
  <2>2. Invoiced(h)
    BY <1>1, <1>2, <2>1 DEF Served, Serves, Activates
  <2>3. invoices'[<<s, n>>] = invoices[<<s, n>>] + 1
    BY <1>1, <1>2, <2>2 DEF Invoiced
  <2>4. UNCHANGED <<sub, rzp>>
    BY <1>1, <2>3 DEF Books
  <2> QED
    BY <1>2, <2>3, <2>4 DEF Invoices
<1>3. ASSUME NEW k \in Handlers, Invoiced(k), task[k].step = "invoice", Leaves(k)
      PROVE  \/ task[k].s = s /\ task[k].event.charge = n
             \/ invoices'[<<s, n>>] = invoices[<<s, n>>]
  BY <1>1, <1>3 DEF Invoiced
<1> QED
  BY <1>1, <1>2, <1>3 DEF Books

\* Who is at a first payment is paid and was sold.
LEMMA FirstIsPaid ==
    ASSUME Struct, NEW h \in Handlers, task[h].step \in Activating
    PROVE  /\ task[h].s \in Subs /\ rzp[task[h].s].paid > 0
           /\ task[h].by \in {"webhook", "callback"}
<1>1. task[h].by \in {"webhook", "callback"} /\ task[h].s \in Subs
  BY AtStep DEF Struct, TaskInOrder, OfEvent, Activating, Buying
<1> QED
  BY <1>1, StructOf DEF WorkInOrder

\* A first charge that was settled stays so.
LEMMA SettledStays ==
    ASSUME InvoiceInv, Orderly, [Next]_vars, NEW s \in Subs, FirstSettled(s)
    PROVE  FirstSettled(s)'
<1>1. Core /\ Struct /\ TypeInv /\ RowsLast
  BY InvoiceAt, RowsLastAlways
<1>2. rzp'[s].paid > 0
  BY <1>1, PaidNat DEF FirstSettled
<1>3. Was(s)'
  BY <1>1 DEF FirstSettled, RowsLast, RowLasts, Was
<1>4. ASSUME NEW h \in Handlers, IsFirst(task'[h]), task'[h].s = s
      PROVE  Activates(task'[h])
  <2>1. CASE task'[h] = task[h]
    BY <1>4, <2>1 DEF FirstSettled
  <2>2. CASE GoesOn(h) /\ IsFirst(task[h]) /\ task[h].s = s
    <3>1. Activates(task[h])
      BY <2>2 DEF FirstSettled
    <3>2. task[h].step # "activate"
      BY <1>1, <2>2, CoreAt DEF Activation, FirstSettled, Was
    <3> QED
      BY <2>2, <3>1, <3>2 DEF GoesOn, Passes, Activates
  <2>3. CASE task'[h].step = "readToActivate"
    BY <2>3 DEF Activates
  <2> QED
    BY <1>4, <2>1, <2>2, <2>3, IsFirstBefore
<1> QED
  BY <1>2, <1>3, <1>4 DEF FirstSettled, IsFirst, Activates

\* A first charge is settled by who activates, or by its invoice.
LEMMA SettledBefore ==
    ASSUME InvoiceInv, Orderly, "crashAtEvent" \notin Faults, [Next]_vars, NEW s \in Subs,
           FirstSettled(s)', \A h \in Handlers : ~Invoices(h, s, 1),
           \A h \in Handlers : task[h].step = "invoice" /\ Leaves(h) /\ task[h].s = s
                                  => task[h].event.charge # 1
    PROVE  FirstSettled(s)
<1>1. Core /\ Struct /\ TypeInv /\ Served /\ RowMoves(s) /\ RazorpayMoves(s)
  BY InvoiceAt, AlwaysServed, RowsMove, RazorpayMovesAlways
<1>2. /\ Was(s)' /\ rzp'[s].paid > 0
      /\ \A h \in Handlers : IsFirst(task'[h]) /\ task'[h].s = s => Activates(task'[h])
  BY DEF FirstSettled, IsFirst, Activates
<1>3. rzp[s].paid \in Nat
  BY <1>1, PaidNat
<1>4. rzp[s].paid > 0
  <2> SUFFICES ASSUME rzp[s].paid = 0 PROVE FALSE
    BY <1>3
  <2>1. Paying(s)
    <3>1. ~Charging(s)
      BY <1>1, ChargedLater
    <3> QED
      BY <1>1, <1>2, <3>1
         DEF RazorpayMoves, Preparing, Waiting, Failing, IsStopped, EndsAt, StaysPaid
  <2>2. sub' = sub
    BY <1>1, <2>1, PayingTells
  <2> QED
    BY <1>2, <2>1, <2>2 DEF Paying, Orderly, Was
<1>5. Was(s)
  <2> SUFFICES ASSUME ~Was(s) PROVE FALSE
    OBVIOUS
  <2>1. sub[s].status = "created"
    BY <1>1, <1>4, PaidIsSold DEF Was
  <2>2. PaidOpen(s)
    BY <1>4, <2>1 DEF PaidOpen
  <2>3. sub'[s].status # "created"
    BY <1>2 DEF Was
  <2>4. PICK h \in Handlers : Acts(h) /\ task[h].step = "activate" /\ task[h].s = s
    <3>1. ~Cancelling(s)
      BY <1>1, <2>2, PaidStays
    <3> QED
      BY <1>1, <2>1, <2>2, <2>3, PaidStays
  <2>5. /\ HandlerMoves(h) /\ Serves(h) /\ Payment(task[h])
        /\ task[h].by \in {"webhook", "callback"}
    BY <1>1, <2>4, HandlersMove, InvoiceAt, FirstIsPaid DEF Served, Activating
  <2>6. ~Leaves(h)
    <3>1. /\ task[h].step \notin {"idle", "fail", "halt", "end", "readToActivate", "invoice"}
          /\ sub[task[h].s].status # "cancelled"
      BY <2>1, <2>4
    <3> QED
      BY <2>5, <3>1 DEF Serves
  <2>7. GoesOn(h)
    BY <2>4, <2>5, <2>6 DEF HandlerMoves, Acts, Starts
  <2>8. /\ task'[h].step \in Activating /\ ~Activates(task'[h]) /\ task'[h].s = s
        /\ task'[h].event = task[h].event
    BY <2>4, <2>7 DEF GoesOn, Passes, AfterActivate, Activating, Activates
  <2>9. task[h].event.charge = 1
    BY <2>4, <2>5 DEF Payment, Activating
  <2> QED
    BY <1>2, <2>8, <2>9 DEF IsFirst
<1>6. ASSUME NEW h \in Handlers, IsFirst(task[h]), task[h].s = s
      PROVE  Activates(task[h])
  <2> SUFFICES ASSUME ~Activates(task[h]) PROVE FALSE
    OBVIOUS
  <2>1. /\ HandlerMoves(h) /\ Serves(h) /\ task[h].by \in {"webhook", "callback"}
        /\ task[h].step \in Activating
    BY <1>1, <1>6, HandlersMove, FirstIsPaid DEF Served, IsFirst
  <2>2. ~Leaves(h)
    BY <1>6, <2>1 DEF Serves, IsFirst, Activating, Activates
  <2>3. task'[h] # task[h]
    BY <1>2, <1>6
  <2>4. ~Starts(h)
    BY <2>1 DEF Starts, Activating
  <2>5. GoesOn(h)
    BY <2>1, <2>2, <2>3, <2>4 DEF HandlerMoves
  <2>6. /\ task'[h].step \in Activating /\ ~Activates(task'[h]) /\ task'[h].s = s
        /\ task'[h].event = task[h].event
    BY <1>6, <2>1, <2>5 DEF GoesOn, Passes, Activating, Activates
  <2> QED
    BY <1>2, <1>6, <2>6 DEF IsFirst
<1> QED
  BY <1>4, <1>5, <1>6 DEF FirstSettled

\* The invoice of a first charge settles it.
LEMMA InvoiceSettles ==
    ASSUME InvoiceInv, [Next]_vars, NEW s \in Subs, NEW h \in Handlers, Invoices(h, s, 1)
    PROVE  ~FirstSettled(s) /\ FirstSettled(s)'
<1>1. Struct /\ OneFirst /\ IsFirst(task[h]) /\ ~Activates(task[h]) /\ task[h].s = s
  BY InvoiceAt DEF Invoices, IsFirst, Activating, Activates
<1>2. ~FirstSettled(s)
  BY <1>1 DEF FirstSettled
<1>3. Was(s) /\ rzp[s].paid > 0
  BY <1>1, WorkedWas, FirstIsPaid DEF Invoices, OfWas, Activating
<1>4. Was(s)' /\ rzp'[s].paid > 0
  BY <1>3 DEF Invoices, Was
<1>5. ASSUME NEW k \in Handlers, IsFirst(task'[k]), task'[k].s = s PROVE FALSE
  <2>1. k # h
    BY <1>5, IdleTyped DEF Invoices, Leaves, IsFirst, Activating
  <2>2. task'[k] = task[k]
    BY <2>1 DEF Invoices, Leaves, Others
  <2> QED
    BY <1>1, <1>5, <2>1, <2>2 DEF OneFirst
<1> QED
  BY <1>2, <1>4, <1>5 DEF FirstSettled, IsFirst

LEMMA FirstBooked ==
    ASSUME InvoiceInv, Orderly, "crashAtEvent" \notin Faults, [Next]_vars, NEW s \in Subs,
           1 \in Charges
    PROVE  invoices'[<<s, 1>>] = IF FirstSettled(s)' THEN 1 ELSE 0
<1>1. Struct /\ invoices[<<s, 1>>] = IF FirstSettled(s) THEN 1 ELSE 0
  BY InvoiceAt DEF Booked
<1>2. ASSUME NEW h \in Handlers, Invoices(h, s, 1)
      PROVE  invoices'[<<s, 1>>] = IF FirstSettled(s)' THEN 1 ELSE 0
  BY <1>1, <1>2, InvoiceSettles DEF Invoices
<1>3. ASSUME \A h \in Handlers : ~Invoices(h, s, 1)
      PROVE  invoices'[<<s, 1>>] = IF FirstSettled(s)' THEN 1 ELSE 0
  <2>1. /\ invoices'[<<s, 1>>] = invoices[<<s, 1>>]
        /\ \A h \in Handlers : task[h].step = "invoice" /\ Leaves(h) /\ task[h].s = s
                                  => task[h].event.charge # 1
    BY <1>1, <1>3, InvoicesMove
  <2>2. FirstSettled(s) => FirstSettled(s)'
    BY SettledStays
  <2>3. FirstSettled(s)' => FirstSettled(s)
    BY <1>3, <2>1, SettledBefore
  <2> QED
    BY <1>1, <2>1, <2>2, <2>3
<1> QED
  BY <1>2, <1>3

LEMMA QueuedPopped ==
    ASSUME TypeInv, NEW s \in Subs, NEW n \in Charges, queue[s] # <<>>, queue'[s] = Tail(queue[s])
    PROVE  /\ ~(IsPayment(Head(queue[s])) /\ Head(queue[s]).charge = n) =>
                 (Queued(s, n)' <=> Queued(s, n))
           /\ Distinct(s) /\ IsPayment(Head(queue[s])) /\ Head(queue[s]).charge = n =>
                 Queued(s, n) /\ ~Queued(s, n)' /\ n <= rzp[s].paid
<1>1. /\ Len(queue[s]) \in Nat /\ Len(queue[s]) >= 1 /\ Len(queue'[s]) = Len(queue[s]) - 1
      /\ \A i \in 1 .. Len(queue[s]) - 1 : queue'[s][i] = queue[s][i + 1]
      /\ Head(queue[s]) = queue[s][1]
  BY AtRow, TailAt
<1>2. Queued(s, n)' =>
         \E i \in 1 .. Len(queue[s]) : i # 1 /\ IsPayment(queue[s][i]) /\ queue[s][i].charge = n
  <2> SUFFICES ASSUME NEW i \in 1 .. Len(queue'[s]), IsPayment(queue'[s][i]),
                      queue'[s][i].charge = n
               PROVE  \E j \in 1 .. Len(queue[s]) :
                         j # 1 /\ IsPayment(queue[s][j]) /\ queue[s][j].charge = n
    BY DEF Queued, IsPayment
  <2>1. i + 1 \in 1 .. Len(queue[s]) /\ i + 1 # 1 /\ queue'[s][i] = queue[s][i + 1]
    BY <1>1
  <2> QED
    BY <2>1
<1>3. ASSUME NEW i \in 1 .. Len(queue[s]), i # 1, IsPayment(queue[s][i]), queue[s][i].charge = n
      PROVE  Queued(s, n)'
  <2>1. i - 1 \in 1 .. Len(queue'[s]) /\ queue'[s][i - 1] = queue[s][i]
    <3>1. i - 1 \in 1 .. Len(queue[s]) - 1 /\ (i - 1) + 1 = i
      BY <1>1, <1>3
    <3> QED
      BY <1>1, <3>1
  <2> QED
    BY <1>3, <2>1 DEF Queued, IsPayment
<1>4. 1 \in 1 .. Len(queue[s])
  BY <1>1
<1>5. ASSUME ~(IsPayment(Head(queue[s])) /\ Head(queue[s]).charge = n)
      PROVE  Queued(s, n)' <=> Queued(s, n)
  <2>1. Queued(s, n) => Queued(s, n)'
    BY <1>1, <1>3, <1>5 DEF Queued
  <2>2. Queued(s, n)' => Queued(s, n)
    BY <1>2 DEF Queued
  <2> QED
    BY <2>1, <2>2
<1>6. ASSUME Distinct(s), IsPayment(Head(queue[s])), Head(queue[s]).charge = n
      PROVE  Queued(s, n) /\ ~Queued(s, n)' /\ n <= rzp[s].paid
  <2>1. n \in 1 .. rzp[s].paid
    BY <1>1, <1>4, <1>6 DEF Distinct
  <2>2. n <= rzp[s].paid
    BY <2>1
  <2>3. ~Queued(s, n)'
    BY <1>1, <1>2, <1>4, <1>6 DEF Distinct
  <2> QED
    BY <1>1, <1>4, <1>6, <2>2, <2>3 DEF Queued
<1> QED
  BY <1>5, <1>6

LEMMA QueuedTold ==
    ASSUME TypeInv, NEW s \in Subs, NEW n \in Charges, NEW e \in Event,
           queue'[s] = Append(queue[s], e)
    PROVE  Queued(s, n)' <=> Queued(s, n) \/ (IsPayment(e) /\ e.charge = n)
<1>1. /\ Len(queue[s]) \in Nat /\ Len(queue'[s]) = Len(queue[s]) + 1
      /\ \A i \in 1 .. Len(queue[s]) : queue'[s][i] = queue[s][i]
      /\ queue'[s][Len(queue[s]) + 1] = e
  BY AtRow, AppendAt
<1>2. \A i \in 1 .. Len(queue'[s]) : i \in 1 .. Len(queue[s]) \/ i = Len(queue[s]) + 1
  BY <1>1
<1>3. /\ Len(queue[s]) + 1 \in 1 .. Len(queue'[s])
      /\ \A i \in 1 .. Len(queue[s]) : i \in 1 .. Len(queue'[s])
  BY <1>1
<1>4. Queued(s, n)' =>  Queued(s, n) \/ (IsPayment(e) /\ e.charge = n)
  BY <1>1, <1>2 DEF Queued, IsPayment
<1>5. Queued(s, n) => Queued(s, n)'
  BY <1>1, <1>3 DEF Queued, IsPayment
<1>6. IsPayment(e) /\ e.charge = n => Queued(s, n)'
  BY <1>1, <1>3 DEF Queued, IsPayment
<1> QED
  BY <1>4, <1>5, <1>6

\* A later charge is invoiced by the webhook alone, as it acknowledges it.
LEMMA LaterInvoiced ==
    ASSUME InvoiceInv, "crashAtEvent" \notin Faults, [Next]_vars, NEW s \in Subs,
           NEW n \in Charges, n # 1, NEW h \in Handlers, Invoices(h, s, n)
    PROVE  ~LaterSettled(s, n) /\ LaterSettled(s, n)'
<1>1. /\ TypeInv /\ Served /\ Payment(task[h]) /\ task[h].by \in {"webhook", "callback"}
      /\ Distinct(s)
  BY InvoiceAt, AlwaysServed, FirstIsPaid DEF Invoices, Activating
<1>2. task[h].by = "webhook" /\ IsPayment(task[h].event)
  BY <1>1 DEF Invoices, Payment, Activating
<1>3. queue[s] # <<>> /\ Head(queue[s]) = task[h].event
  BY <1>1, <1>2, AppliesHead DEF Invoices
<1>4. queue'[s] = Tail(queue[s])
  BY <1>1, <1>2 DEF Served, Serves, Invoices, Answers, Activates
<1>5. Queued(s, n) /\ ~Queued(s, n)' /\ n <= rzp[s].paid
  BY <1>1, <1>2, <1>3, <1>4, QueuedPopped DEF Invoices
<1> QED
  BY <1>5 DEF LaterSettled, Invoices

LEMMA LaterStays ==
    ASSUME InvoiceInv, "toldTwice" \notin Faults, "crashAtEvent" \notin Faults, [Next]_vars,
           NEW s \in Subs,
           NEW n \in Charges, n # 1,
           \A h \in Handlers : task[h].step = "invoice" /\ Leaves(h) /\ task[h].s = s
                                  => task[h].event.charge # n
    PROVE  LaterSettled(s, n)' <=> LaterSettled(s, n)
<1>1. Struct /\ TypeInv /\ n \in Nat
  BY InvoiceAt, Bounds
<1>2. rzp[s].paid \in Nat
  BY <1>1, PaidNat
<1>3. CASE queue'[s] = queue[s] /\ rzp'[s].paid = rzp[s].paid
  BY <1>3 DEF LaterSettled, Queued
<1>4. CASE Popping(s) /\ rzp'[s] = rzp[s]
  <2>1. ~(IsPayment(Head(queue[s])) /\ Head(queue[s]).charge = n)
    BY <1>4, PopsHead
  <2>2. Queued(s, n)' <=> Queued(s, n)
    BY <1>1, <1>4, <2>1, QueuedPopped DEF Popping
  <2> QED
    BY <1>4, <2>2 DEF LaterSettled
<1>5. ASSUME NEW e \in Event, queue'[s] = Append(queue[s], e),
             IsPayment(e) => e.charge = rzp[s].paid + 1 /\ rzp'[s].paid = e.charge,
             ~IsPayment(e) => rzp'[s].paid = rzp[s].paid
      PROVE  LaterSettled(s, n)' <=> LaterSettled(s, n)
  <2>1. Queued(s, n)' <=> Queued(s, n) \/ (IsPayment(e) /\ e.charge = n)
    BY <1>1, <1>5, QueuedTold
  <2>2. CASE IsPayment(e)
    <3>1. e.charge = rzp[s].paid + 1 /\ rzp'[s].paid = rzp[s].paid + 1
      BY <1>5, <2>2
    <3> QED
      BY <1>1, <1>2, <2>1, <2>2, <3>1 DEF LaterSettled
  <2>3. CASE ~IsPayment(e)
    BY <1>5, <2>1, <2>3 DEF LaterSettled
  <2> QED
    BY <2>2, <2>3
<1> QED
  BY <1>1, <1>3, <1>4, <1>5, QueueMoves

LEMMA LaterBooked ==
    ASSUME InvoiceInv, "toldTwice" \notin Faults, "crashAtEvent" \notin Faults, [Next]_vars,
           NEW s \in Subs,
           NEW n \in Charges, n # 1
    PROVE  invoices'[<<s, n>>] = IF LaterSettled(s, n)' THEN 1 ELSE 0
<1>1. Struct /\ invoices[<<s, n>>] = IF LaterSettled(s, n) THEN 1 ELSE 0
  BY InvoiceAt DEF Booked
<1>2. ASSUME NEW h \in Handlers, Invoices(h, s, n)
      PROVE  invoices'[<<s, n>>] = IF LaterSettled(s, n)' THEN 1 ELSE 0
  BY <1>1, <1>2, LaterInvoiced DEF Invoices
<1>3. ASSUME invoices'[<<s, n>>] = invoices[<<s, n>>],
             \A h \in Handlers : task[h].step = "invoice" /\ Leaves(h) /\ task[h].s = s
                                    => task[h].event.charge # n
      PROVE  invoices'[<<s, n>>] = IF LaterSettled(s, n)' THEN 1 ELSE 0
  BY <1>1, <1>3, LaterStays
<1> QED
  BY <1>1, <1>2, <1>3, InvoicesMove

\* Every charge is invoiced once, also when its event is delivered again, comes before or after
\* the callback, or finds its subscription halted or replaced.  It takes that Razorpay tells one
\* thing of a first payment, that the webhook and the callback are not at it at the same moment
\* (both in Orderly, with the others), that no request dies at an event, and that a first payment
\* that is told as a charge is not called back.
THEOREM InvoicesOnce ==
    ASSUME Orderly, "crashAtEvent" \notin Faults, "chargedFirst" \notin Faults
    PROVE  Spec => []ChargesInvoicedOnce
<1>1. Init => InvoiceInv
  <2> SUFFICES ASSUME Init PROVE InvoiceInv
    OBVIOUS
  <2>1. Core /\ PaidInv
    BY CoreInit, PaidInit
  <2>2. \A h \in Handlers : task[h] = Idle
    BY DEF Init
  <2>3. \A s \in Subs : /\ queue[s] = <<>> /\ seen[s] = FALSE /\ sub[s].status = "none"
                        /\ rzp[s].paid = 0
    BY DEF Init, NoRow, NoMandate
  <2>4. OneFirst /\ \A h \in Handlers : Payment(task[h])
    BY <2>2, IdleTyped DEF OneFirst, IsFirst, Payment, Activating
  <2>5. \A s \in Subs : PaidTold(s) /\ SeenServed(s) /\ ChargedFirst(s) /\ Distinct(s)
    BY <2>3 DEF PaidTold, PaidOpen, SeenServed, ChargedFirst, Firsts, Distinct
  <2>6. ASSUME NEW s \in Subs, NEW n \in Charges PROVE Booked(s, n)
    <3>1. invoices[<<s, n>>] = 0 /\ n \in Nat /\ n > 0
      BY Bounds DEF Init
    <3>2. ~FirstSettled(s) /\ ~LaterSettled(s, n)
      BY <2>3, <3>1 DEF FirstSettled, LaterSettled, Was
    <3> QED
      BY <3>1, <3>2 DEF Booked
  <2> QED
    BY <2>1, <2>4, <2>5, <2>6 DEF InvoiceInv
<1>2. InvoiceInv /\ [Next]_vars => InvoiceInv'
  <2> SUFFICES ASSUME InvoiceInv, [Next]_vars PROVE InvoiceInv'
    OBVIOUS
  <2>1. Core'
    BY CoreNext DEF InvoiceInv
  <2>2. PaidInv'
    BY StructNext, NotedKept, GivenKept DEF InvoiceInv, PaidInv
  <2>3. OneFirst' /\ \A h \in Handlers : Payment(task[h])'
    BY OneFirstKept, PaymentKept
  <2>4. \A s \in Subs : /\ PaidTold(s)' /\ SeenServed(s)' /\ ChargedFirst(s)' /\ Distinct(s)'
    BY PaidToldKept, SeenServedKept, ChargedFirstKept, DistinctKept DEF Orderly
  <2>5. ASSUME NEW s \in Subs, NEW n \in Charges PROVE Booked(s, n)'
    BY FirstBooked, LaterBooked DEF Booked, Orderly
  <2> QED
    BY <2>1, <2>2, <2>3, <2>4, <2>5 DEF InvoiceInv
<1>3. InvoiceInv => ChargesInvoicedOnce
  <2> SUFFICES ASSUME InvoiceInv, NEW s \in Subs, NEW n \in Charges
               PROVE  /\ invoices[<<s, n>>] <= 1
                      /\ n > rzp[s].paid => invoices[<<s, n>>] = 0
                      /\ n <= rzp[s].paid /\ queue[s] = <<>> /\ Quiet(s) =>
                            invoices[<<s, n>>] = 1
    BY DEF ChargesInvoicedOnce
  <2>1. /\ Struct /\ Booked(s, n) /\ PaidTold(s) /\ rzp[s].paid \in Nat
        /\ n \in Nat /\ n > 0
    BY InvoiceAt, Bounds, Counted
  <2>2. CASE n = 1
    <3>1. ASSUME rzp[s].paid > 0, queue[s] = <<>>, Quiet(s) PROVE FirstSettled(s)
      <4>1. Was(s)
        BY <2>1, <3>1, PaidIsSold DEF PaidTold, PaidOpen, Firsts, Was
      <4> QED
        BY <3>1, <4>1 DEF FirstSettled, Quiet
    <3>2. invoices[<<s, n>>] = IF FirstSettled(s) THEN 1 ELSE 0
      BY <2>1, <2>2 DEF Booked
    <3>3. FirstSettled(s) => rzp[s].paid > 0
      BY DEF FirstSettled
    <3> QED
      BY <2>1, <2>2, <3>1, <3>2, <3>3
  <2>3. CASE n # 1
    <3>1. queue[s] = <<>> => ~Queued(s, n)
      BY DEF Queued
    <3>2. invoices[<<s, n>>] = IF LaterSettled(s, n) THEN 1 ELSE 0
      BY <2>1, <2>3 DEF Booked
    <3> QED
      BY <2>1, <3>1, <3>2 DEF LaterSettled
  <2> QED
    BY <2>2, <2>3
<1> QED
  BY <1>1, <1>2, <1>3, PTL DEF Spec

-----------------------------------------------------------------------------
(* Nobody is billed for two plans.                                         *)

\* The payment of a checkout whose row is not active yet is still to be told, also when it is
\* told as a charge and calls back.
ToldInOrder(s) ==
    /\ PaidTold(s)
    /\ seen[s] => \/ sub[s].status = "cancelled"
                  \/ \E h \in Handlers : task[h].by = "webhook" /\ task[h].s = s

\* While Razorpay is asked to let go of what was halted, no other plan is in force, and it is
\* asked for one at a time.
Ended(s) == sub[s].status = "cancelled" /\ Charged(s)
Cleared(t) == kind = "plan" /\ t.step = "release" => \A s \in Subs : ~Held(s)
OneEnded == kind = "plan" => \A s, t \in Subs : Ended(s) /\ Ended(t) => s = t

BilledInv ==
    /\ EndInv /\ OneEnded
    /\ \A s \in Subs : ToldInOrder(s)
    /\ \A h \in Handlers : Cleared(task[h])

LEMMA BilledAt ==
    ASSUME BilledInv
    PROVE  /\ EndInv /\ Core /\ Struct /\ TypeInv /\ OneEnded
           /\ \A s \in Subs : ToldInOrder(s) /\ LetGo(s)
           /\ \A h \in Handlers : Cleared(task[h]) /\ Grants(task[h]) /\ Retirer(task[h])
BY EndAt DEF BilledInv

LEMMA TellsFirst ==
    ASSUME BilledInv, Reliable, [Next]_vars, NEW s \in Subs
    PROVE  PaidTold(s)'
<1> SUFFICES ASSUME PaidOpen(s)' PROVE Firsts(s)'
  BY DEF PaidTold
<1>1. Core /\ Struct /\ TypeInv /\ ToldInOrder(s) /\ PaidTold(s) /\ Served
  BY BilledAt, AlwaysServed DEF ToldInOrder, Reliable
<1>2. sub'[s] = sub[s] /\ (PaidOpen(s) \/ Paying(s))
  BY <1>1, PaidOpenBefore
<1>3. CASE Paying(s)
  BY <1>1, <1>3, PayingTells
<1>4. CASE PaidOpen(s)
  <2>1. Firsts(s) /\ sub[s].status = "created" /\ ~Was(s)
    BY <1>1, <1>4 DEF PaidTold, PaidOpen, Was
  <2>2. ASSUME NEW h \in Handlers, task[h].by = "webhook", task[h].s = s, Leaves(h) PROVE FALSE
    <3>1. /\ Serves(h) /\ Applies(task[h]) /\ task[h].event = Head(queue[s])
          /\ task[h].step \in OfEvent
      BY <1>1, <2>2, CoreAt, AppliesHead DEF Served
    <3>2. task[h].step # "idle"
      BY <3>1 DEF OfEvent, Activating
    <3>3. task[h].step \notin {"fail", "halt", "end"}
      BY <2>1, <2>2, <3>1 DEF Applies, Firsts, IsPayment
    <3>4. task[h].step # "invoice"
      BY <1>1, <2>1, <2>2, WorkedWas DEF OfWas
    <3>5. sub[task[h].s].status \notin {"active", "cancelled"}
      BY <2>1, <2>2
    <3> QED
      BY <2>2, <3>1, <3>2, <3>3, <3>4, <3>5 DEF Serves
  <2>3. ~Popping(s)
    BY <1>1, <2>1, <2>2 DEF Popping, ToldInOrder
  <2>4. queue'[s] # <<>> /\ Head(queue'[s]) = Head(queue[s])
    BY <1>1, <2>1, <2>3, FirstsStay DEF Firsts
  <2> QED
    BY <2>1, <2>4 DEF Firsts, IsPayment
<1> QED
  BY <1>2, <1>3, <1>4

LEMMA ToldKept ==
    ASSUME BilledInv, Reliable, [Next]_vars, NEW s \in Subs
    PROVE  ToldInOrder(s)'
<1> SUFFICES ASSUME seen'[s]
             PROVE  \/ sub'[s].status = "cancelled"
                    \/ \E h \in Handlers : task'[h].by = "webhook" /\ task'[h].s = s
  BY TellsFirst DEF ToldInOrder
<1>1. Core /\ Struct /\ TypeInv /\ ToldInOrder(s) /\ RazorpayMoves(s) /\ Served
  BY BilledAt, RazorpayMovesAlways, AlwaysServed DEF Reliable
<1>2. CASE Taking(s)
  BY <1>2 DEF Taking
<1>3. CASE ~Taking(s)
  <2>1. seen[s] /\ ~Popping(s)
    BY <1>1, <1>3 DEF RazorpayMoves, Popping
  <2>2. CASE sub[s].status = "cancelled"
    BY <1>1, <2>2, RowGoesForward
  <2>3. ASSUME NEW h \in Handlers, task[h].by = "webhook", task[h].s = s
        PROVE  \/ task'[h].by = "webhook" /\ task'[h].s = s
               \/ sub'[s].status = "cancelled"
    <3>1. /\ HandlerMoves(h) /\ Serves(h) /\ task[h].step \in OfEvent
      BY <1>1, <2>3, HandlersMove, AppliesHead DEF Served
    <3>2. task[h].step \notin {"idle", "subscribe"}
      BY <3>1 DEF OfEvent, Activating
    <3>3. CASE Leaves(h)
      <4>1. ~Answers(h)
        BY <2>3 DEF Answers
      <4> QED
        BY <2>3, <3>1, <3>2, <3>3, <4>1 DEF Serves
    <3>4. CASE GoesOn(h)
      BY <2>3, <3>2, <3>4 DEF GoesOn
    <3> QED
      BY <2>3, <3>1, <3>2, <3>3, <3>4 DEF HandlerMoves, Starts
  <2> QED
    BY <1>1, <2>1, <2>2, <2>3 DEF ToldInOrder
<1> QED
  BY <1>2, <1>3

\* No plan comes into force while another checkout is under way.
LEMMA NothingHeldAnew ==
    ASSUME BilledInv, [Next]_vars, kind = "plan", NEW h \in Handlers, task[h].step \in Buying,
           NEW s \in Subs, Held(s)'
    PROVE  Held(s)
<1>1. Core /\ Struct /\ \A k \in Handlers : NoBuyer(k, s) /\ Grants(task[k])
  BY BilledAt, CoreAt
<1>2. ~PaidOpen(s)
  BY <1>1 DEF NoBuyer, Buyer
<1>3. ~Granted(s)
  BY <1>1 DEF Granted, Grants
<1> QED
  BY <1>1, <1>2, <1>3, HeldBefore

LEMMA ClearedKept ==
    ASSUME BilledInv, [Next]_vars, NEW h \in Handlers
    PROVE  Cleared(task[h])'
<1> SUFFICES ASSUME kind = "plan", task'[h].step = "release", NEW s \in Subs, Held(s)'
             PROVE  FALSE
  BY BilledAt, KindStays DEF Cleared
<1>1. Struct /\ TypeInv /\ HandlerMoves(h)
  BY BilledAt, HandlersMove
<1>2. CASE task'[h] = task[h]
  <2>1. task[h].step = "release"
    BY <1>2
  <2> QED
    BY <2>1, BilledAt, NothingHeldAnew DEF Cleared, Buying
<1>3. CASE GoesOn(h)
  <2>1. task[h].step = "insert" /\ task'[h].s = task[h].s
    BY <1>3 DEF GoesOn, Passes, AfterActivate
  <2> DEFINE n == task[h].s
  <2>2. Held(s)
    BY <2>1, NothingHeldAnew DEF Buying
  <2>3. n \in Subs /\ sub[n].status = "none"
    BY <1>1, <2>1, StructOf, AtStep DEF Checkout, TaskInOrder
  <2>4. Struct' /\ NewRows
    BY <1>1, StructNext, NewRowsAlways
  <2>5. sub'[n].status \in {"created", "cancelled"}
    BY <2>1, <2>4 DEF Struct, Checkouts, Checkout
  <2>6. sub'[n].status = "created"
    BY <2>3, <2>4, <2>5 DEF NewRows, Inserted, Granted
  <2>7. s # n
    BY <2>2, <2>3 DEF Held
  <2>8. Unique' /\ kind' = "plan"
    BY <1>1, UniqueKept, KindStays
  <2> QED
    BY <2>3, <2>6, <2>7, <2>8 DEF Unique, Indexed, Held
<1>4. ~Leaves(h) /\ ~Starts(h)
  <2>1. ~Leaves(h)
    BY IdleTyped DEF Leaves
  <2>2. ASSUME Starts(h) PROVE FALSE
    <3>1. task'[h].by = "webhook" => task'[h].step # "release"
      BY <1>1, <2>2, WebhookStarts
    <3> QED
      BY <2>2, <3>1 DEF Starts
  <2> QED
    BY <2>1, <2>2
<1> QED
  BY <1>1, <1>2, <1>3, <1>4 DEF HandlerMoves
\* What ends while Razorpay still charges it was in force.
LEMMA EndedBefore ==
    ASSUME BilledInv, Orderly, [Next]_vars, NEW s \in Subs, Ended(s)'
    PROVE  Ended(s) \/ (Held(s) /\ Charged(s))
<1>1. Core /\ Struct /\ TypeInv /\ RowMoves(s) /\ RazorpayMoves(s)
  BY BilledAt, RowsMove, RazorpayMovesAlways
<1>2. CASE Paying(s)
  <2>1. sub'[s] = sub[s]
    BY <1>1, <1>2, PayingTells
  <2> QED
    BY <1>2, <2>1 DEF Paying, Orderly, Ended
<1>3. CASE ~Paying(s)
  <2>1. Charged(s) /\ rzp[s].paid > 0
    BY <1>1, <1>3, ChargedBefore DEF Ended
  <2>2. sub[s].status # "none"
    BY <1>1, <2>1, PaidIsSold
  <2>3. sub[s].status # "created"
    <3> SUFFICES ASSUME sub[s].status = "created" PROVE FALSE
      OBVIOUS
    <3>1. PaidOpen(s)
      BY <2>1 DEF PaidOpen
    <3>2. sub'[s] = sub[s] \/ sub'[s].status = "active"
      BY <1>1, <3>1, PaidStays
    <3> QED
      BY <3>2 DEF Ended
  <2> QED
    BY <1>1, <2>1, <2>2, <2>3, AtRow DEF Ended, Held, Statuses
<1> QED
  BY <1>2, <1>3

LEMMA OneEndedKept ==
    ASSUME BilledInv, Orderly, [Next]_vars
    PROVE  OneEnded'
<1> SUFFICES ASSUME kind = "plan", NEW s \in Subs, NEW t \in Subs, Ended(s)', Ended(t)', s # t
             PROVE  FALSE
  BY BilledAt, KindStays DEF OneEnded, Ended, Charged, CanStop
<1>1. Struct /\ Unique /\ OneEnded
  BY BilledAt DEF Struct
<1>2. ASSUME NEW i \in Subs, NEW j \in Subs, Ended(i), Held(j) PROVE FALSE
  BY <1>2, BilledAt DEF Ended, LetGo, Cleared
<1>3. (Ended(s) \/ Held(s)) /\ (Ended(t) \/ Held(t))
  BY EndedBefore
<1>4. ~(Held(s) /\ Held(t))
  BY <1>1 DEF Unique, Indexed, Held
<1>5. ~(Ended(s) /\ Ended(t))
  BY <1>1 DEF OneEnded
<1> QED
  BY <1>2, <1>3, <1>4, <1>5

\* Nobody is billed for two plans at a time, however plans are changed, halted, bought again and
\* scheduled, as long as calls to Razorpay do not fail and what was replaced is not paid.  (For a
\* tier of an add-on and the one bought in its place, the runs check it.)
THEOREM PlanIsBilledOnce ==
    ASSUME Orderly, Reliable, "addon" \notin Kinds
    PROVE  Spec => []BilledOnce
<1>1. Init => BilledInv
  <2> SUFFICES ASSUME Init PROVE BilledInv
    OBVIOUS
  <2>1. EndInv
    BY EndInit
  <2>2. \A h \in Handlers : task[h] = Idle
    BY DEF Init
  <2>3. \A s \in Subs : /\ queue[s] = <<>> /\ seen[s] = FALSE /\ sub[s].status = "none"
    BY DEF Init, NoRow
  <2>4. \A h \in Handlers : Cleared(task[h])
    BY <2>2, IdleTyped DEF Cleared
  <2> QED
    BY <2>1, <2>3, <2>4 DEF BilledInv, OneEnded, Ended, ToldInOrder, PaidTold, PaidOpen
<1>2. BilledInv /\ [Next]_vars => BilledInv'
  <2> SUFFICES ASSUME BilledInv, [Next]_vars PROVE BilledInv'
    OBVIOUS
  <2>1. EndInv'
    BY EndNext DEF BilledInv
  <2> QED
    BY <2>1, OneEndedKept, ToldKept, ClearedKept DEF BilledInv
<1>3. BilledInv => BilledOnce
  <2> SUFFICES ASSUME BilledInv, NEW s \in Subs, NEW t \in Subs, s # t,
                      rzp[s].state = "active", rzp[t].state = "active",
                      ~rzp[s].ends, ~rzp[t].ends, queue[s] = <<>>, queue[t] = <<>>
               PROVE  FALSE
    BY DEF BilledOnce, Billed
  <2>0. kind = "plan"
    <3>1. kind \in Kinds
      BY BilledAt DEF TypeInv, TypeOK
    <3> QED
      BY <3>1, BillingAssumption
  <2>1. /\ TypeInv /\ Struct /\ Unique /\ OneEnded /\ kind = "plan"
        /\ \A i \in Subs : ToldInOrder(i) /\ LetGo(i)
    BY <2>0, BilledAt DEF Struct
  <2>2. ASSUME NEW i \in Subs, rzp[i].state = "active", ~rzp[i].ends, queue[i] = <<>>
        PROVE  Held(i) \/ Ended(i)
    <3>1. CanStop(i) /\ Charged(i) /\ rzp[i].paid > 0
      BY <2>1, <2>2, PaidAtRazorpay DEF CanStop, Charged
    <3>2. sub[i].status # "none"
      BY <2>1, <3>1, PaidIsSold
    <3>3. sub[i].status # "created"
      BY <2>1, <2>2, <3>1 DEF ToldInOrder, PaidTold, PaidOpen, Firsts
    <3> QED
      BY <2>1, <3>1, <3>2, <3>3, AtRow DEF Ended, Held, Statuses
  <2>3. ASSUME NEW i \in Subs, NEW j \in Subs, Ended(i), Held(j) PROVE FALSE
    BY <2>1, <2>3, BilledAt DEF Ended, LetGo, Cleared
  <2>4. ~(Held(s) /\ Held(t))
    BY <2>1 DEF Unique, Indexed, Held
  <2>5. ~(Ended(s) /\ Ended(t))
    BY <2>1 DEF OneEnded
  <2> QED
    BY <2>2, <2>3, <2>4, <2>5
<1> QED
  BY <1>1, <1>2, <1>3, PTL DEF Spec
=============================================================================
