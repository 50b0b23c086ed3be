--------------------------- MODULE PluginCommerce ---------------------------
(***************************************************************************)
(* How a paid plugin is bought, renewed, cancelled, refunded and expired:  *)
(* payment orders, the licence and the subscription rows of ONE plugin of  *)
(* price type 'sub', each a row of the registry database, and the requests *)
(* and scans of the admin workers that read and write them without a lock  *)
(* (plugin_manager/routes.py, payment.py, license.py, subscription.py).    *)
(*                                                                         *)
(* Time is what the code compares with: a row has `left` periods to its    *)
(* end, 0 is past the end, -1 past the seven days of grace too.  The       *)
(* expires_at of a licence, which the licence service chooses, is left     *)
(* out: validate may find it past at any time.                             *)
(* The payment gateway is the environment; it may repeat and delay its     *)
(* notifications.  Coupons, prices and version bundles are not modelled.   *)
(***************************************************************************)
EXTENDS Integers, Sequences, FiniteSets

CONSTANTS
    Orders,         \* order numbers
    NoOrder,        \* no order: an operation of the admin
    Requests,       \* request threads of the admin workers
    Scanners,       \* daily schedulers, one in each admin worker
    MaxByHand,      \* bound: renewals and changes the admin makes by hand
    MaxLeft,        \* bound: periods a subscription is extended ahead
    MaxGrants,      \* bound: activations of one order
    MaxFaults       \* bound: requests and scans that die half-way

ASSUME CommerceAssumption ==
    /\ NoOrder \notin Orders
    /\ MaxByHand \in Nat /\ MaxLeft \in Nat \ {0} /\ MaxGrants \in Nat /\ MaxFaults \in Nat

VARIABLES
    order,      \* order[o]: plugin_payment_orders.status, "none" before the INSERT
    money,      \* money[o]: what the gateway knows of the order
    licence,    \* license_status of the row of plugin_licenses, "none" without one
    subs,       \* the rows of plugin_subscriptions, by id
    request,    \* request[n]: what a request thread is doing
    renewing,   \* renewing[s]: the run of check_expired in s
    locking,    \* locking[s]: the rows the run of run_grace_lock_scan in s still has
    byHand,     \* renewals and changes made by hand
    faults,     \* requests and scans that have died
    granted,    \* history: granted[o], periods that were booked for o
    excused     \* history: orders notified in parallel, or after a refund

vars == <<order, money, licence, subs, request, renewing, locking, byHand,
          faults, granted, excused>>

Licences == {"none", "active", "grace", "expired", "pending"}
Rows == [status : {"active", "expired"}, auto : BOOLEAN, left : Int,
         pend : Orders \union {NoOrder}]
NewRow == [status |-> "active", auto |-> TRUE, left |-> 1, pend |-> NoOrder]

Idle == [pc |-> "idle"]
\* `row` and `left` are what renew and change have read of the latest row.
Busy == [pc : {"mark", "licence", "choose", "renew", "reactivate", "create", "extend", "change"},
         order : Orders \union {NoOrder}, row : Nat, left : Int]
NoScan == [due |-> {}, ending |-> {}, order |-> NoOrder, row |-> 0]
Scans == [due : SUBSET Nat, ending : SUBSET Nat,
          order : Orders \union {NoOrder}, row : Nat]

TypeOK ==
    /\ order \in [Orders -> {"none", "pending", "paid", "failed", "refunded"}]
    /\ money \in [Orders -> {"none", "open", "charged", "returned"}]
    /\ licence \in Licences
    /\ subs \in Seq(Rows)
    /\ request \in [Requests -> {Idle} \union Busy]
    /\ renewing \in [Scanners -> Scans]
    /\ locking \in [Scanners -> SUBSET Nat]
    /\ byHand \in Nat
    /\ faults \in Nat
    /\ granted \in [Orders -> Nat]
    /\ excused \subseteq Orders

Init ==
    /\ order = [o \in Orders |-> "none"]
    /\ money = [o \in Orders |-> "none"]
    /\ licence = "none"
    /\ subs = <<>>
    /\ request = [n \in Requests |-> Idle]
    /\ renewing = [s \in Scanners |-> NoScan]
    /\ locking = [s \in Scanners |-> {}]
    /\ byHand = 0
    /\ faults = 0
    /\ granted = [o \in Orders |-> 0]
    /\ excused = {}

\* SubscriptionManager.get_subscription: the newest row.
Latest == Len(subs)
\* A new period begins at the end of the old one, or now when that is past.
Extended(left) ==
    CASE left <= 0 -> 1
      [] left \in 1..(MaxLeft - 1) -> left + 1
      [] OTHER -> left
ExpireLicence == licence' = IF licence = "active" THEN "expired" ELSE licence
\* An UPDATE of the licence row finds nothing when there is none.
SetLicence(status) == licence' = IF licence = "none" THEN "none" ELSE status

-----------------------------------------------------------------------------
\* Orders and the gateway.

\* store_purchase refuses with 409 while a licence is in force.
Purchase(o) ==
    /\ order[o] = "none"
    /\ licence \notin {"active", "grace"}
    /\ order' = [order EXCEPT ![o] = "pending"]
    /\ UNCHANGED <<money, licence, subs, request, renewing, locking, byHand,
                   faults, granted, excused>>

\* The gateway takes the order of a purchase, or refuses it.  An order that
\* a scan is waiting with is answered there.
GatewayAnswers(o) ==
    /\ order[o] = "pending" /\ money[o] = "none"
    /\ \A s \in Scanners : renewing[s].order # o
    /\ \/ money' = [money EXCEPT ![o] = "open"] /\ UNCHANGED order
       \/ order' = [order EXCEPT ![o] = "failed"] /\ UNCHANGED money
    /\ UNCHANGED <<licence, subs, request, renewing, locking, byHand, faults, granted, excused>>

CustomerPays(o) ==
    /\ money[o] = "open"
    /\ money' = [money EXCEPT ![o] = "charged"]
    /\ UNCHANGED <<order, licence, subs, request, renewing, locking, byHand,
                   faults, granted, excused>>

\* payment_refund: the gateway pays back (once more: it agrees again), the
\* order is marked and the licence row deleted; the subscription stays.
Refund(o) ==
    /\ order[o] = "paid"
    /\ money' = [money EXCEPT ![o] = "returned"]
    /\ order' = [order EXCEPT ![o] = "refunded"]
    /\ licence' = "none"
    /\ UNCHANGED <<subs, request, renewing, locking, byHand, faults, granted, excused>>

-----------------------------------------------------------------------------
\* payment_notify: a notification of a charged order, new, repeated or late.

Working(n, o) == request[n].pc # "idle" /\ request[n].order = o
Start(n, step, o) ==
    request' = [request EXCEPT ![n] = [pc |-> step, order |-> o, row |-> 0, left |-> 0]]
Goto(n, step) == request' = [request EXCEPT ![n].pc = step]
End(n) == request' = [request EXCEPT ![n] = Idle]

\* fault: the notification does not look at the status of the order.
NotifyAlways(n, o) ==
    /\ request[n].pc = "idle"
    /\ money[o] \in {"charged", "returned"}
    /\ granted[o] < MaxGrants
    /\ Start(n, "mark", o)
    /\ excused' = IF money[o] = "returned" \/ \E m \in Requests : Working(m, o)
                  THEN excused \union {o} ELSE excused
    /\ UNCHANGED <<order, money, licence, subs, renewing, locking, byHand, faults, granted>>
Notify(n, o) ==
    /\ request[n].pc = "idle"
    /\ money[o] \in {"charged", "returned"}
    /\ order[o] # "paid"                     \* a paid order: answer 'success'
    /\ granted[o] < MaxGrants
    /\ Start(n, "mark", o)
    /\ excused' = IF money[o] = "returned" \/ \E m \in Requests : Working(m, o)
                  THEN excused \union {o} ELSE excused
    /\ UNCHANGED <<order, money, licence, subs, renewing, locking, byHand, faults, granted>>

MarkPaid(n) ==
    /\ request[n].pc = "mark"
    /\ order' = [order EXCEPT ![request[n].order] = "paid"]
    /\ Goto(n, "licence")
    /\ UNCHANGED <<money, licence, subs, renewing, locking, byHand, faults, granted, excused>>

\* LicenseManager.activate: a licence that is 'active' stays as it is, even
\* when it is past its end; otherwise the licence service activates it, or
\* cannot be reached and a grace of 72 hours begins.
Activate(n) ==
    /\ request[n].pc = "licence"
    /\ Goto(n, "choose")
    /\ IF licence = "active" THEN UNCHANGED licence ELSE licence' \in {"active", "grace"}
    /\ UNCHANGED <<order, money, subs, renewing, locking, byHand, faults, granted, excused>>

\* The subscription is looked up once to choose and once more to act.
Choose(n) ==
    /\ request[n].pc = "choose"
    /\ Goto(n, IF Latest = 0 THEN "create"
               ELSE IF subs[Latest].status = "active" THEN "renew"
               ELSE "reactivate")
    /\ UNCHANGED <<order, money, licence, subs, renewing, locking, byHand,
                   faults, granted, excused>>

Book(n) ==
    granted' = [o \in Orders |-> IF o = request[n].order THEN granted[o] + 1 ELSE granted[o]]

Create(n) ==
    /\ request[n].pc = "create"
    /\ subs' = Append(subs, NewRow)
    /\ Book(n)
    /\ End(n)
    /\ UNCHANGED <<order, money, licence, renewing, locking, byHand, faults, excused>>

Reactivate(n) ==
    /\ request[n].pc = "reactivate"
    /\ subs' = [subs EXCEPT ![Latest] = NewRow]
    /\ SetLicence("active")
    /\ Book(n)
    /\ End(n)
    /\ UNCHANGED <<order, money, renewing, locking, byHand, faults, excused>>

\* renew() and change() read the latest row, give up unless it is active,
\* and compute the new end from what they have read.
ReadRow(n, step) ==
    IF Latest > 0 /\ subs[Latest].status = "active"
    THEN request' = [request EXCEPT ![n] = [pc |-> step, order |-> request[n].order,
                                            row |-> Latest, left |-> subs[Latest].left]]
    ELSE End(n)

RenewReads(n) ==
    /\ request[n].pc = "renew"
    /\ ReadRow(n, "extend")
    /\ UNCHANGED <<order, money, licence, subs, renewing, locking, byHand,
                   faults, granted, excused>>

\* The row is found by its id and written whatever its status is by now.
Extend(n) ==
    LET r == request[n].row
    IN  /\ request[n].pc = "extend"
        /\ subs' = [subs EXCEPT ![r] = [@ EXCEPT !.left = Extended(request[n].left),
                                                 !.pend = NoOrder]]
        /\ Book(n)
        /\ End(n)
        /\ UNCHANGED <<order, money, licence, renewing, locking, byHand, faults, excused>>

-----------------------------------------------------------------------------
\* What the admin does by hand.

RenewByHand(n) ==
    /\ request[n].pc = "idle"
    /\ byHand < MaxByHand
    /\ byHand' = byHand + 1
    /\ Start(n, "renew", NoOrder)
    /\ UNCHANGED <<order, money, licence, subs, renewing, locking, faults, granted, excused>>

ChangeByHand(n) ==
    /\ request[n].pc = "idle" /\ Latest > 0 /\ subs[Latest].status = "active"
    /\ byHand < MaxByHand
    /\ byHand' = byHand + 1
    /\ request' = [request EXCEPT ![n] = [pc |-> "change", order |-> NoOrder,
                                          row |-> Latest, left |-> subs[Latest].left]]
    /\ UNCHANGED <<order, money, licence, subs, renewing, locking, faults, granted, excused>>

\* change() sets the licence active whatever it was.
Change(n) ==
    LET r == request[n].row
    IN  /\ request[n].pc = "change"
        /\ subs' = [subs EXCEPT ![r] = [@ EXCEPT !.left = Extended(request[n].left),
                                                 !.pend = NoOrder]]
        /\ SetLicence("active")
        /\ End(n)
        /\ UNCHANGED <<order, money, renewing, locking, byHand, faults, granted, excused>>

\* cancel() writes every row of the plugin.
\* fault: the row is set to a status of its own.
CancelWithStatus ==
    /\ Latest > 0
    /\ subs' = [i \in DOMAIN subs |-> [subs[i] EXCEPT !.auto = FALSE, !.status = "canceled"]]
    /\ UNCHANGED <<order, money, licence, request, renewing, locking, byHand,
                   faults, granted, excused>>
CancelAtEnd ==
    /\ Latest > 0
    /\ subs' = [i \in DOMAIN subs |-> [subs[i] EXCEPT !.auto = FALSE]]
    /\ UNCHANGED <<order, money, licence, request, renewing, locking, byHand,
                   faults, granted, excused>>

CancelNow ==
    /\ Latest > 0
    /\ subs' = [i \in DOMAIN subs |-> [subs[i] EXCEPT !.auto = FALSE, !.status = "expired"]]
    /\ SetLicence("expired")
    /\ UNCHANGED <<order, money, request, renewing, locking, byHand, faults, granted, excused>>

-----------------------------------------------------------------------------
\* check_expired: the rows past their end are fetched, then handled one by
\* one; a renewing row without an open renewal order gets one, a row that
\* does not renew is expired.

PastDue(i) == subs[i].status = "active" /\ subs[i].left <= 0

ScanRows(s) ==
    /\ renewing[s] = NoScan
    /\ \E i \in DOMAIN subs : PastDue(i) /\ (~subs[i].auto \/ subs[i].pend = NoOrder)
    /\ renewing' = [renewing EXCEPT ![s] =
            [NoScan EXCEPT
                !.due = {i \in DOMAIN subs : PastDue(i) /\ subs[i].auto /\ subs[i].pend = NoOrder},
                !.ending = {i \in DOMAIN subs : PastDue(i) /\ ~subs[i].auto}]]
    /\ UNCHANGED <<order, money, licence, subs, request, locking, byHand,
                   faults, granted, excused>>

ExpireRow(s, i) ==
    /\ renewing[s].order = NoOrder /\ i \in renewing[s].ending
    /\ subs' = [subs EXCEPT ![i].status = "expired"]
    /\ ExpireLicence
    /\ renewing' = [renewing EXCEPT ![s].ending = @ \ {i}]
    /\ UNCHANGED <<order, money, request, locking, byHand, faults, granted, excused>>

\* _ensure_renewal_order; when the model has no order number left the row is
\* passed over, as the code does when the INSERT fails.
RenewalOrder(s, i) ==
    /\ renewing[s].order = NoOrder /\ i \in renewing[s].due
    /\ \/ \E o \in Orders :
            /\ order[o] = "none"
            /\ order' = [order EXCEPT ![o] = "pending"]
            /\ renewing' = [renewing EXCEPT ![s] = [@ EXCEPT !.due = renewing[s].due \ {i},
                                                         !.order = o, !.row = i]]
       \/ /\ \A o \in Orders : order[o] # "none"
          /\ renewing' = [renewing EXCEPT ![s].due = @ \ {i}]
          /\ UNCHANGED order
    /\ UNCHANGED <<money, licence, subs, request, locking, byHand, faults, granted, excused>>

\* The column `extra` is written back as it was read, with the order or
\* without one; a refused order stays 'pending' in its table.
RenewalAnswered(s) ==
    LET o == renewing[s].order
        i == renewing[s].row
    IN  /\ o # NoOrder
        /\ \/ /\ money' = [money EXCEPT ![o] = "open"]
              /\ subs' = [subs EXCEPT ![i].pend = o]
           \/ /\ subs' = [subs EXCEPT ![i].pend = NoOrder]
              /\ UNCHANGED money
        /\ renewing' = [renewing EXCEPT ![s] = [@ EXCEPT !.order = NoOrder, !.row = 0]]
        /\ UNCHANGED <<order, licence, request, locking, byHand, faults, granted, excused>>

\* run_grace_lock_scan.
\* fault: only a row that has got a renewal order is locked.
LockableWithOrder(i) ==
    /\ subs[i].status = "active" /\ subs[i].auto /\ subs[i].left < 0
    /\ subs[i].pend # NoOrder
Lockable(i) == subs[i].status = "active" /\ subs[i].auto /\ subs[i].left < 0

ScanGrace(s) ==
    /\ locking[s] = {}
    /\ \E i \in DOMAIN subs : Lockable(i)
    /\ locking' = [locking EXCEPT ![s] = {i \in DOMAIN subs : Lockable(i)}]
    /\ UNCHANGED <<order, money, licence, subs, request, renewing, byHand,
                   faults, granted, excused>>

LockRow(s, i) ==
    /\ i \in locking[s]
    /\ subs' = [subs EXCEPT ![i] = [@ EXCEPT !.status = "expired", !.auto = FALSE]]
    /\ ExpireLicence
    /\ locking' = [locking EXCEPT ![s] = @ \ {i}]
    /\ UNCHANGED <<order, money, request, renewing, byHand, faults, granted, excused>>

-----------------------------------------------------------------------------
\* Time, the lazy expiry in LicenseManager.validate, and deaths.

\* A period, or the grace, of a row ends; no request is as slow as that.
Elapse(i) ==
    /\ i \in DOMAIN subs /\ subs[i].left > -1
    /\ \A n \in Requests : request[n].pc \in {"extend", "change"} => request[n].row # i
    /\ subs' = [subs EXCEPT ![i].left = @ - 1]
    /\ UNCHANGED <<order, money, licence, request, renewing, locking, byHand,
                   faults, granted, excused>>

\* expires_at, or grace_until, is past.
Validate ==
    /\ licence \in {"active", "grace"}
    /\ licence' = IF licence = "active" THEN "expired" ELSE "pending"
    /\ UNCHANGED <<order, money, subs, request, renewing, locking, byHand,
                   faults, granted, excused>>

\* A request or a scan ends half-way: an exception, or its worker recycled.
RequestDies(n) ==
    /\ request[n].pc # "idle" /\ faults < MaxFaults
    /\ faults' = faults + 1
    /\ End(n)
    /\ UNCHANGED <<order, money, licence, subs, renewing, locking, byHand, granted, excused>>

ScansDie(s) ==
    /\ renewing[s] # NoScan \/ locking[s] # {}
    /\ faults < MaxFaults
    /\ faults' = faults + 1
    /\ renewing' = [renewing EXCEPT ![s] = NoScan]
    /\ locking' = [locking EXCEPT ![s] = {}]
    /\ UNCHANGED <<order, money, licence, subs, request, byHand, granted, excused>>

-----------------------------------------------------------------------------
Handle(n) ==
    \/ MarkPaid(n) \/ Activate(n) \/ Choose(n)
    \/ Create(n) \/ Reactivate(n) \/ RenewReads(n) \/ Extend(n) \/ Change(n)

RenewalScan(s) ==
    \/ ScanRows(s) \/ RenewalAnswered(s)
    \/ \E i \in DOMAIN subs : ExpireRow(s, i) \/ RenewalOrder(s, i)

GraceScan(s) == ScanGrace(s) \/ \E i \in DOMAIN subs : LockRow(s, i)

Next ==
    \/ \E o \in Orders : Purchase(o) \/ GatewayAnswers(o) \/ CustomerPays(o) \/ Refund(o)
    \/ \E n \in Requests :
        \/ \E o \in Orders : Notify(n, o)
        \/ Handle(n)
        \/ RenewByHand(n) \/ ChangeByHand(n) \/ RequestDies(n)
    \/ CancelAtEnd \/ CancelNow
    \/ \E s \in Scanners : RenewalScan(s) \/ GraceScan(s) \/ ScansDie(s)
    \/ \E i \in DOMAIN subs : Elapse(i)
    \/ Validate

Spec == Init /\ [][Next]_vars

\* Requests run to their end, the schedulers scan every day, time passes;
\* customers and admins owe nothing.
Fairness ==
    /\ \A n \in Requests : WF_vars(Handle(n))
    /\ \A s \in Scanners : WF_vars(RenewalScan(s)) /\ WF_vars(GraceScan(s))
    /\ \A i \in 1..Cardinality(Requests) : WF_vars(Elapse(i))

FairSpec == Spec /\ Fairness
-----------------------------------------------------------------------------
\* An order is booked twice only when two of its notifications ran in
\* parallel or one came after a refund (the PAID test of payment_notify).
GrantedOnce == \A o \in Orders : granted[o] > 1 => o \in excused

\* No subscription stays in force past its end: it is renewed or expired,
\* by the scan or by the grace lock, whatever the requests do meanwhile.
PastDueSettles ==
    \A i \in 1..Cardinality(Requests) :
        (i <= Latest /\ PastDue(i)) ~> (i <= Latest /\ ~PastDue(i))
=============================================================================
