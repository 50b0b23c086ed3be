------------------------ MODULE PluginCommerceProofs ------------------------
(***************************************************************************)
(* Theorems about PluginCommerce for any number of orders, requests and    *)
(* scanners.  GrantedOnce is not inductive: it needs to know that, while   *)
(* an order is not excused, one request at most works on it, that nothing  *)
(* is booked before that request ends, and that a booked order is marked   *)
(* paid, or refunded with its money returned (Accounts).                   *)
(***************************************************************************)
EXTENDS PluginCommerce, SequenceTheorems, TLAPS

Settled(o) == order[o] = "paid" \/ (order[o] = "refunded" /\ money[o] = "returned")

\* What holds of an order whose notifications have come one at a time.
Accounts ==
    \A o \in Orders : o \notin excused =>
        /\ \A n, m \in Requests : Working(n, o) /\ Working(m, o) => n = m
        /\ \A n \in Requests : Working(n, o) => granted[o] = 0
        /\ \A n \in Requests : Working(n, o) /\ request[n].pc # "mark" => Settled(o)
        /\ granted[o] > 0 => granted[o] = 1 /\ Settled(o)

\* A request that has not marked its order yet has one to mark, and the
\* gateway has been paid for it.
MarksAnOrder ==
    \A n \in Requests : request[n].pc = "mark" =>
        request[n].order \in Orders /\ money[request[n].order] \in {"charged", "returned"}

\* The order a scan waits with is new, unknown to the gateway, and its own.
Awaited ==
    \A s \in Scanners : renewing[s].order \in Orders =>
        /\ order[renewing[s].order] = "pending" /\ money[renewing[s].order] = "none"
        /\ \A t \in Scanners : renewing[t].order = renewing[s].order => t = s

\* The gateway knows no order that was not inserted.
Known == \A o \in Orders : order[o] = "none" => money[o] = "none"

IInv == TypeOK /\ MarksAnOrder /\ Awaited /\ Known /\ Accounts

-----------------------------------------------------------------------------
LEMMA RowSeq == ASSUME NEW k \in Nat, NEW f \in [1..k -> Rows] PROVE f \in Seq(Rows)
  BY SeqDef

LEMMA SubsShape ==
  ASSUME TypeOK
  PROVE  /\ Len(subs) \in Nat
         /\ subs \in [1..Len(subs) -> Rows]
         /\ DOMAIN subs = 1..Len(subs)
  BY LenProperties DEF TypeOK

\* A row that is replaced by a row leaves a table.
LEMMA PatchedRow ==
  ASSUME TypeOK, NEW i, NEW r, i \in DOMAIN subs => r \in Rows
  PROVE  [subs EXCEPT ![i] = r] \in Seq(Rows)
<1>1. [subs EXCEPT ![i] = r] \in [1..Len(subs) -> Rows]
  BY SubsShape
<1> QED BY <1>1, SubsShape, RowSeq

LEMMA RowChanges ==
  ASSUME CommerceAssumption, NEW r \in Rows, NEW left \in Int, NEW p \in Orders \union {NoOrder}
  PROVE  /\ [r EXCEPT !.left = Extended(left), !.pend = NoOrder] \in Rows
         /\ [r EXCEPT !.status = "expired", !.auto = FALSE] \in Rows
         /\ [r EXCEPT !.auto = FALSE, !.status = "expired"] \in Rows
         /\ [r EXCEPT !.auto = FALSE] \in Rows
         /\ [r EXCEPT !.status = "expired"] \in Rows
         /\ [r EXCEPT !.pend = p] \in Rows
         /\ [r EXCEPT !.left = @ - 1] \in Rows
<1>1. Extended(left) \in Int
  <2>1. CASE left <= 0
    BY <2>1 DEF Extended
  <2>2. CASE left > 0
    BY <2>2 DEF Extended, CommerceAssumption
  <2> QED BY <2>1, <2>2
<1>2. [r EXCEPT !.left = Extended(left), !.pend = NoOrder] \in Rows
  BY <1>1 DEF Rows
<1>3. /\ [r EXCEPT !.status = "expired", !.auto = FALSE] \in Rows
      /\ [r EXCEPT !.auto = FALSE, !.status = "expired"] \in Rows
      /\ [r EXCEPT !.auto = FALSE] \in Rows
      /\ [r EXCEPT !.status = "expired"] \in Rows
  BY DEF Rows
<1>4. [r EXCEPT !.pend = p] \in Rows /\ [r EXCEPT !.left = @ - 1] \in Rows
  BY DEF Rows
<1> QED BY <1>2, <1>3, <1>4

LEMMA NewRowType == NewRow \in Rows
  BY DEF NewRow, Rows

LEMMA InitType == ASSUME CommerceAssumption PROVE Init => TypeOK
<1>1. <<>> \in Seq(Rows)
  OBVIOUS
<1> QED BY <1>1 DEF Init, TypeOK, Licences, NoScan, Scans

-----------------------------------------------------------------------------
\* Type correctness, by groups of actions.

LEMMA GatewayType ==
  ASSUME CommerceAssumption, TypeOK, NEW o \in Orders,
         Purchase(o) \/ GatewayAnswers(o) \/ CustomerPays(o) \/ Refund(o)
  PROVE  TypeOK'
<1>1. CASE Purchase(o)
  BY <1>1 DEF Purchase, TypeOK
<1>2. CASE GatewayAnswers(o)
  BY <1>2 DEF GatewayAnswers, TypeOK
<1>3. CASE CustomerPays(o)
  BY <1>3 DEF CustomerPays, TypeOK
<1>4. CASE Refund(o)
  BY <1>4 DEF Refund, TypeOK, Licences
<1> QED BY <1>1, <1>2, <1>3, <1>4

\* The steps of a request keep request[n] well formed.
LEMMA RequestShape ==
  ASSUME CommerceAssumption, TypeOK, NEW n \in Requests
  PROVE  /\ request[n].pc # "idle" => request[n] \in Busy
         /\ \A step \in {"mark", "renew"}, o \in Orders \union {NoOrder} :
                Start(n, step, o) => request' \in [Requests -> {Idle} \union Busy]
         /\ \A step \in {"licence", "create", "renew", "reactivate"} :
                request[n].pc # "idle" /\ Goto(n, step)
                    => request' \in [Requests -> {Idle} \union Busy]
         /\ End(n) => request' \in [Requests -> {Idle} \union Busy]
         /\ request[n].pc # "idle" /\ Goto(n, "choose")
                => request' \in [Requests -> {Idle} \union Busy]
         /\ request[n].pc # "idle" /\ ReadRow(n, "extend")
                => request' \in [Requests -> {Idle} \union Busy]
<1>1. request[n].pc # "idle" => request[n] \in Busy
  BY DEF TypeOK, Idle
<1>2. \A step \in {"mark", "renew"}, o \in Orders \union {NoOrder} :
          Start(n, step, o) => request' \in [Requests -> {Idle} \union Busy]
  BY DEF Start, TypeOK, Busy
<1>3. \A step \in {"licence", "create", "renew", "reactivate", "choose"} :
          request[n].pc # "idle" /\ Goto(n, step)
              => request' \in [Requests -> {Idle} \union Busy]
  <2> SUFFICES ASSUME NEW step \in {"licence", "create", "renew", "reactivate", "choose"},
                      request[n].pc # "idle", Goto(n, step)
               PROVE  request' \in [Requests -> {Idle} \union Busy]
    OBVIOUS
  <2>1. request' = [request EXCEPT ![n] = [request[n] EXCEPT !.pc = step]]
    BY DEF Goto, TypeOK
  <2>2. [request[n] EXCEPT !.pc = step] \in Busy
    BY <1>1 DEF Busy
  <2> QED BY <2>1, <2>2 DEF TypeOK
<1>4. End(n) => request' \in [Requests -> {Idle} \union Busy]
  BY DEF End, TypeOK
<1>5. request[n].pc # "idle" /\ ReadRow(n, "extend")
          => request' \in [Requests -> {Idle} \union Busy]
  <2> SUFFICES ASSUME request[n].pc # "idle", ReadRow(n, "extend")
               PROVE  request' \in [Requests -> {Idle} \union Busy]
    OBVIOUS
  <2>1. CASE Latest > 0 /\ subs[Latest].status = "active"
    <3>1. [pc |-> "extend", order |-> request[n].order, row |-> Latest,
           left |-> subs[Latest].left] \in Busy
      BY <1>1, <2>1, SubsShape DEF Busy, Latest, Rows
    <3> QED BY <2>1, <3>1 DEF ReadRow, TypeOK
  <2>2. CASE ~(Latest > 0 /\ subs[Latest].status = "active")
    BY <1>4, <2>2 DEF ReadRow
  <2> QED BY <2>1, <2>2
<1> QED BY <1>1, <1>2, <1>3, <1>4, <1>5

LEMMA BookType ==
  ASSUME TypeOK, NEW n \in Requests, Book(n)
  PROVE  granted' \in [Orders -> Nat]
  BY DEF Book, TypeOK

LEMMA NotifyType ==
  ASSUME CommerceAssumption, TypeOK, NEW n \in Requests, NEW o \in Orders, Notify(n, o)
  PROVE  TypeOK'
<1>1. request' \in [Requests -> {Idle} \union Busy]
  BY RequestShape DEF Notify
<1>2. excused' \subseteq Orders
  BY DEF Notify, TypeOK
<1> QED BY <1>1, <1>2 DEF Notify, TypeOK

LEMMA HandleType ==
  ASSUME CommerceAssumption, TypeOK, MarksAnOrder, NEW n \in Requests, Handle(n)
  PROVE  TypeOK'
<1>1. CASE MarkPaid(n)
  <2>1. request' \in [Requests -> {Idle} \union Busy]
    BY <1>1, RequestShape DEF MarkPaid
  <2> QED BY <1>1, <2>1 DEF MarkPaid, TypeOK
<1>2. CASE Activate(n)
  <2>1. request' \in [Requests -> {Idle} \union Busy]
    BY <1>2, RequestShape DEF Activate
  <2> QED BY <1>2, <2>1 DEF Activate, TypeOK, Licences
<1>3. CASE Choose(n)
  <2>1. request' \in [Requests -> {Idle} \union Busy]
    BY <1>3, RequestShape DEF Choose
  <2> QED BY <1>3, <2>1 DEF Choose, TypeOK
<1>4. CASE Create(n)
  <2>1. request' \in [Requests -> {Idle} \union Busy] /\ granted' \in [Orders -> Nat]
    BY <1>4, RequestShape, BookType DEF Create
  <2>2. subs' \in Seq(Rows)
    BY <1>4, NewRowType DEF Create, TypeOK
  <2> QED BY <1>4, <2>1, <2>2 DEF Create, TypeOK
<1>5. CASE Reactivate(n)
  <2>1. request' \in [Requests -> {Idle} \union Busy] /\ granted' \in [Orders -> Nat]
    BY <1>5, RequestShape, BookType DEF Reactivate
  <2>2. subs' \in Seq(Rows)
    BY <1>5, NewRowType, PatchedRow DEF Reactivate
  <2>3. licence' \in Licences
    BY <1>5 DEF Reactivate, SetLicence, TypeOK, Licences
  <2> QED BY <1>5, <2>1, <2>2, <2>3 DEF Reactivate, TypeOK
<1>6. CASE RenewReads(n)
  <2>1. request' \in [Requests -> {Idle} \union Busy]
    BY <1>6, RequestShape DEF RenewReads
  <2> QED BY <1>6, <2>1 DEF RenewReads, TypeOK
<1>7. ASSUME request[n].pc \in {"extend", "change"},
             subs' = [subs EXCEPT ![request[n].row] =
                        [@ EXCEPT !.left = Extended(request[n].left), !.pend = NoOrder]]
      PROVE  subs' \in Seq(Rows)
  <2>1. request[n].left \in Int
    BY <1>7, RequestShape DEF Busy
  <2>2. request[n].row \in DOMAIN subs =>
            [subs[request[n].row] EXCEPT !.left = Extended(request[n].left), !.pend = NoOrder]
                \in Rows
    BY <2>1, SubsShape, RowChanges
  <2> QED BY <1>7, <2>2, PatchedRow
<1>8. CASE Extend(n)
  <2>1. request' \in [Requests -> {Idle} \union Busy] /\ granted' \in [Orders -> Nat]
    BY <1>8, RequestShape, BookType DEF Extend
  <2>2. subs' \in Seq(Rows)
    BY <1>7, <1>8 DEF Extend
  <2> QED BY <1>8, <2>1, <2>2 DEF Extend, TypeOK
<1>9. CASE Change(n)
  <2>1. request' \in [Requests -> {Idle} \union Busy]
    BY <1>9, RequestShape DEF Change
  <2>2. subs' \in Seq(Rows)
    BY <1>7, <1>9 DEF Change
  <2>3. licence' \in Licences
    BY <1>9 DEF Change, SetLicence, TypeOK, Licences
  <2> QED BY <1>9, <2>1, <2>2, <2>3 DEF Change, TypeOK
<1> QED BY <1>1, <1>2, <1>3, <1>4, <1>5, <1>6, <1>8, <1>9 DEF Handle

LEMMA ByHandType ==
  ASSUME CommerceAssumption, TypeOK, NEW n \in Requests,
         RenewByHand(n) \/ ChangeByHand(n) \/ RequestDies(n)
  PROVE  TypeOK'
<1>1. CASE RenewByHand(n)
  <2>1. request' \in [Requests -> {Idle} \union Busy]
    BY <1>1, RequestShape DEF RenewByHand
  <2> QED BY <1>1, <2>1 DEF RenewByHand, TypeOK
<1>2. CASE ChangeByHand(n)
  <2>1. [pc |-> "change", order |-> NoOrder, row |-> Latest, left |-> subs[Latest].left] \in Busy
    BY <1>2, SubsShape DEF ChangeByHand, Busy, Latest, Rows
  <2>2. request' \in [Requests -> {Idle} \union Busy]
    BY <1>2, <2>1 DEF ChangeByHand, TypeOK
  <2> QED BY <1>2, <2>2 DEF ChangeByHand, TypeOK
<1>3. CASE RequestDies(n)
  <2>1. request' \in [Requests -> {Idle} \union Busy]
    BY <1>3, RequestShape DEF RequestDies
  <2> QED BY <1>3, <2>1 DEF RequestDies, TypeOK
<1> QED BY <1>1, <1>2, <1>3

LEMMA CancelType ==
  ASSUME CommerceAssumption, TypeOK, CancelAtEnd \/ CancelNow
  PROVE  TypeOK'
<1>1. subs' \in Seq(Rows)
  <2>1. \A i \in 1..Len(subs) : /\ [subs[i] EXCEPT !.auto = FALSE] \in Rows
                                /\ [subs[i] EXCEPT !.auto = FALSE, !.status = "expired"] \in Rows
    BY SubsShape DEF Rows
  <2>2. subs' \in [1..Len(subs) -> Rows]
    BY <2>1, SubsShape DEF CancelAtEnd, CancelNow
  <2> QED BY <2>2, SubsShape, RowSeq
<1>2. licence' \in Licences
  BY DEF CancelAtEnd, CancelNow, SetLicence, TypeOK, Licences
<1> QED BY <1>1, <1>2 DEF CancelAtEnd, CancelNow, TypeOK

LEMMA ScanType ==
  ASSUME CommerceAssumption, TypeOK, NEW s \in Scanners,
         RenewalScan(s) \/ GraceScan(s) \/ ScansDie(s)
  PROVE  TypeOK'
<1>1. renewing[s] \in Scans /\ locking[s] \in SUBSET Nat
  BY DEF TypeOK
<1>2. \A i \in DOMAIN subs : i \in Nat /\ subs[i] \in Rows
  BY SubsShape
<1>3. CASE ScanRows(s)
  <2>1. /\ {i \in DOMAIN subs : PastDue(i) /\ subs[i].auto /\ subs[i].pend = NoOrder} \in SUBSET Nat
        /\ {i \in DOMAIN subs : PastDue(i) /\ ~subs[i].auto} \in SUBSET Nat
    BY <1>2
  <2>2. renewing' \in [Scanners -> Scans]
    BY <1>3, <2>1 DEF ScanRows, NoScan, Scans, TypeOK
  <2> QED BY <1>3, <2>2 DEF ScanRows, TypeOK
<1>4. ASSUME NEW i \in DOMAIN subs, ExpireRow(s, i) PROVE TypeOK'
  <2>1. subs' \in Seq(Rows)
    <3>1. subs' = [subs EXCEPT ![i] = [subs[i] EXCEPT !.status = "expired"]]
      BY <1>4 DEF ExpireRow
    <3>2. [subs[i] EXCEPT !.status = "expired"] \in Rows
      BY <1>2 DEF Rows
    <3> QED BY <3>1, <3>2, PatchedRow
  <2>2. [renewing[s] EXCEPT !.ending = @ \ {i}] \in Scans
    BY <1>1 DEF Scans
  <2>3. renewing' \in [Scanners -> Scans]
    BY <1>4, <2>2 DEF ExpireRow, TypeOK
  <2> QED BY <1>4, <2>1, <2>3 DEF ExpireRow, ExpireLicence, TypeOK, Licences
<1>5. ASSUME NEW i \in DOMAIN subs, RenewalOrder(s, i) PROVE TypeOK'
  <2>1. \A o \in Orders : [renewing[s] EXCEPT !.due = @ \ {i}, !.order = o, !.row = i] \in Scans
    BY <1>1, <1>2 DEF Scans
  <2>2. [renewing[s] EXCEPT !.due = @ \ {i}] \in Scans
    BY <1>1 DEF Scans
  <2>3. \/ \E o \in Orders : renewing' = [renewing EXCEPT ![s] =
                [renewing[s] EXCEPT !.due = renewing[s].due \ {i}, !.order = o, !.row = i]]
        \/ renewing' = [renewing EXCEPT ![s] = [renewing[s] EXCEPT !.due = @ \ {i}]]
    BY <1>5 DEF RenewalOrder, TypeOK
  <2>5. renewing' \in [Scanners -> Scans]
    BY <2>1, <2>2, <2>3 DEF TypeOK
  <2>4. order' \in [Orders -> {"none", "pending", "paid", "failed", "refunded"}]
    BY <1>5 DEF RenewalOrder, TypeOK
  <2> QED BY <1>5, <2>4, <2>5 DEF RenewalOrder, TypeOK
<1>6. CASE RenewalAnswered(s)
  <2> DEFINE o == renewing[s].order
             i == renewing[s].row
  <2>1. o \in Orders
    BY <1>1, <1>6 DEF RenewalAnswered, Scans
  <2>2. \A p \in Orders \union {NoOrder} :
            i \in DOMAIN subs => [subs[i] EXCEPT !.pend = p] \in Rows
    BY <1>2 DEF Rows
  <2>3. \/ subs' = [subs EXCEPT ![i] = [subs[i] EXCEPT !.pend = o]]
        \/ subs' = [subs EXCEPT ![i] = [subs[i] EXCEPT !.pend = NoOrder]]
    BY <1>6 DEF RenewalAnswered
  <2>4. subs' \in Seq(Rows)
    <3>1. CASE subs' = [subs EXCEPT ![i] = [subs[i] EXCEPT !.pend = o]]
      <4> HIDE DEF o, i
      <4>1. i \in DOMAIN subs => [subs[i] EXCEPT !.pend = o] \in Rows
        BY <2>1, <2>2
      <4> QED BY <3>1, <4>1, PatchedRow
    <3>2. CASE subs' = [subs EXCEPT ![i] = [subs[i] EXCEPT !.pend = NoOrder]]
      <4> HIDE DEF o, i
      <4>1. i \in DOMAIN subs => [subs[i] EXCEPT !.pend = NoOrder] \in Rows
        BY <2>2
      <4> QED BY <3>2, <4>1, PatchedRow
    <3> QED BY <2>3, <3>1, <3>2
  <2>5. [renewing[s] EXCEPT !.order = NoOrder, !.row = 0] \in Scans
    BY <1>1 DEF Scans
  <2>6. renewing' \in [Scanners -> Scans]
    BY <1>6, <2>5 DEF RenewalAnswered, TypeOK
  <2>7. money' \in [Orders -> {"none", "open", "charged", "returned"}]
    BY <1>6, <2>1 DEF RenewalAnswered, TypeOK
  <2> QED BY <1>6, <2>4, <2>6, <2>7 DEF RenewalAnswered, TypeOK
<1>7. CASE ScanGrace(s)
  BY <1>2, <1>7 DEF ScanGrace, TypeOK
<1>8. ASSUME NEW i \in DOMAIN subs, LockRow(s, i) PROVE TypeOK'
  <2>1. subs' \in Seq(Rows)
    <3>1. subs' = [subs EXCEPT ![i] = [subs[i] EXCEPT !.status = "expired", !.auto = FALSE]]
      BY <1>8 DEF LockRow
    <3>2. [subs[i] EXCEPT !.status = "expired", !.auto = FALSE] \in Rows
      BY <1>2 DEF Rows
    <3> QED BY <3>1, <3>2, PatchedRow
  <2>2. locking' \in [Scanners -> SUBSET Nat]
    BY <1>8 DEF LockRow, TypeOK
  <2> QED BY <1>8, <2>1, <2>2 DEF LockRow, ExpireLicence, TypeOK, Licences
<1>9. CASE ScansDie(s)
  BY <1>9 DEF ScansDie, TypeOK, NoScan, Scans
<1> QED BY <1>3, <1>4, <1>5, <1>6, <1>7, <1>8, <1>9 DEF RenewalScan, GraceScan

LEMMA TimeType ==
  ASSUME CommerceAssumption, TypeOK, Validate \/ \E i \in DOMAIN subs : Elapse(i)
  PROVE  TypeOK'
<1>1. CASE Validate
  BY <1>1 DEF Validate, TypeOK, Licences
<1>2. ASSUME NEW i \in DOMAIN subs, Elapse(i) PROVE TypeOK'
  <2>1. subs' = [subs EXCEPT ![i] = [subs[i] EXCEPT !.left = @ - 1]]
    BY <1>2 DEF Elapse
  <2>2. [subs[i] EXCEPT !.left = @ - 1] \in Rows
    BY SubsShape DEF Rows
  <2>3. subs' \in Seq(Rows)
    BY <2>1, <2>2, PatchedRow
  <2> QED BY <1>2, <2>3 DEF Elapse, TypeOK
<1> QED BY <1>1, <1>2

LEMMA NextType ==
  ASSUME CommerceAssumption, TypeOK, MarksAnOrder, [Next]_vars
  PROVE  TypeOK'
<1>1. CASE UNCHANGED vars
  BY <1>1 DEF vars, TypeOK
<1> QED
  BY <1>1, GatewayType, NotifyType, HandleType, ByHandType, CancelType, ScanType, TimeType
     DEF Next

-----------------------------------------------------------------------------
\* The accounts, by what a step does to them.

\* Orders and the gateway: a settled order stays settled.
LEMMA SettledStays ==
  ASSUME TypeOK, Accounts, UNCHANGED <<request, granted, excused>>,
         \A o \in Orders : Settled(o) => Settled(o)'
  PROVE  Accounts'
  BY DEF Accounts, Working

\* A request goes on with the same order, ends, or works for no order.
LEMMA GoesOn ==
  ASSUME TypeOK, Accounts, UNCHANGED <<order, money, granted, excused>>,
         NEW n \in Requests,
         \A m \in Requests \ {n} : request'[m] = request[m],
         \/ request'[n].pc = "idle"
         \/ request'[n].order \notin Orders
         \/ /\ request'[n].order = request[n].order
            /\ request[n].pc \notin {"idle", "mark"}
  PROVE  Accounts'
<1>1. \A o \in Orders, m \in Requests : Working(m, o)' => Working(m, o)
  BY DEF Working
<1>2. \A o \in Orders, m \in Requests :
          Working(m, o)' /\ request'[m].pc # "mark" => Working(m, o) /\ request[m].pc # "mark"
  BY DEF Working
<1>3. \A o \in Orders : Settled(o)' <=> Settled(o)
  BY DEF Settled
<1> QED BY <1>1, <1>2, <1>3 DEF Accounts

\* A request books its period and ends.
LEMMA Books ==
  ASSUME TypeOK, Accounts, UNCHANGED <<order, money, excused>>,
         NEW n \in Requests, request[n].pc \notin {"idle", "mark"}, Book(n), End(n)
  PROVE  Accounts'
<1>1. \A m \in Requests : request'[m] = IF m = n THEN Idle ELSE request[m]
  BY DEF End, TypeOK
<1>2. \A o \in Orders, m \in Requests : Working(m, o)' => m # n /\ Working(m, o)
  BY <1>1 DEF Working, Idle
<1>3. \A o \in Orders : Settled(o)' <=> Settled(o)
  BY DEF Settled
<1> SUFFICES ASSUME NEW o \in Orders, o \notin excused
             PROVE  /\ \A k, m \in Requests : Working(k, o)' /\ Working(m, o)' => k = m
                    /\ \A m \in Requests : Working(m, o)' => granted'[o] = 0
                    /\ \A m \in Requests : Working(m, o)' /\ request'[m].pc # "mark" => Settled(o)'
                    /\ granted'[o] > 0 => granted'[o] = 1 /\ Settled(o)'
  BY DEF Accounts
<1>4. CASE o = request[n].order
  <2>1. Working(n, o)
    BY <1>4 DEF Working
  <2>2. granted[o] = 0 /\ Settled(o) /\ \A m \in Requests : Working(m, o) => m = n
    BY <2>1 DEF Accounts
  <2>3. granted'[o] = 1
    BY <1>4, <2>2 DEF Book
  <2> QED BY <1>2, <1>3, <2>2, <2>3
<1>5. CASE o # request[n].order
  <2>1. granted'[o] = granted[o]
    BY <1>5 DEF Book
  <2>2. \A m \in Requests : Working(m, o)' => request'[m] = request[m]
    BY <1>1, <1>2
  <2> QED BY <1>2, <1>3, <2>1, <2>2 DEF Accounts
<1> QED BY <1>4, <1>5

LEMMA NotifyAccounts ==
  ASSUME CommerceAssumption, TypeOK, Accounts, NEW n \in Requests, NEW p \in Orders, Notify(n, p)
  PROVE  Accounts'
<1>1. \A m \in Requests : request'[m] =
          IF m = n THEN [pc |-> "mark", order |-> p, row |-> 0, left |-> 0] ELSE request[m]
  BY DEF Notify, Start, TypeOK
<1>2. /\ order' = order /\ money' = money /\ granted' = granted /\ excused \subseteq excused'
      /\ order[p] # "paid" /\ request[n].pc = "idle"
  BY DEF Notify
<1>3. \A o \in Orders : Settled(o)' <=> Settled(o)
  BY <1>2 DEF Settled
<1> SUFFICES ASSUME NEW o \in Orders, o \notin excused'
             PROVE  /\ \A k, m \in Requests : Working(k, o)' /\ Working(m, o)' => k = m
                    /\ \A m \in Requests : Working(m, o)' => granted'[o] = 0
                    /\ \A m \in Requests : Working(m, o)' /\ request'[m].pc # "mark" => Settled(o)'
                    /\ granted'[o] > 0 => granted'[o] = 1 /\ Settled(o)'
  BY DEF Accounts
<1>4. CASE o = p
  <2>1. money[o] # "returned" /\ \A m \in Requests : ~Working(m, o)
    BY <1>2, <1>4 DEF Notify
  <2>2. \A m \in Requests : Working(m, o)' => m = n /\ request'[m].pc = "mark"
    BY <1>1, <2>1 DEF Working
  <2>3. ~Settled(o)
    BY <1>2, <1>4, <2>1 DEF Settled
  <2>4. granted[o] = 0
    BY <1>2, <2>3 DEF Accounts, TypeOK
  <2> QED BY <1>2, <2>2, <2>4
<1>5. CASE o # p
  <2>1. \A m \in Requests : Working(m, o)' => m # n /\ Working(m, o) /\ request'[m] = request[m]
    BY <1>1, <1>5 DEF Working
  <2> QED BY <1>2, <1>3, <2>1 DEF Accounts
<1> QED BY <1>4, <1>5

LEMMA MarkAccounts ==
  ASSUME CommerceAssumption, TypeOK, MarksAnOrder, Accounts, NEW n \in Requests, MarkPaid(n)
  PROVE  Accounts'
<1>1. request[n] \in Busy
  BY RequestShape DEF MarkPaid
<1>2. \A m \in Requests : request'[m] =
          IF m = n THEN [request[n] EXCEPT !.pc = "licence"] ELSE request[m]
  BY DEF MarkPaid, Goto, TypeOK
<1>3. /\ request'[n].order = request[n].order /\ request'[n].pc = "licence"
      /\ request[n].pc = "mark"
  BY <1>1, <1>2 DEF MarkPaid, Busy
<1>4. \A o \in Orders, m \in Requests : Working(m, o)' <=> Working(m, o)
  BY <1>2, <1>3 DEF Working
<1>5. \A o \in Orders : order'[o] = IF o = request[n].order THEN "paid" ELSE order[o]
  BY DEF MarkPaid, TypeOK
<1>6. money' = money /\ granted' = granted /\ excused' = excused
  BY DEF MarkPaid
<1>7. \A o \in Orders : /\ Settled(o) => Settled(o)'
                        /\ o = request[n].order => Settled(o)'
  BY <1>5, <1>6 DEF Settled
<1>8. \A o \in Orders, m \in Requests :
          Working(m, o)' /\ request'[m].pc # "mark"
              => o = request[n].order \/ (Working(m, o) /\ request[m].pc # "mark")
  BY <1>2, <1>3, <1>4 DEF Working
<1> QED BY <1>4, <1>6, <1>7, <1>8 DEF Accounts

LEMMA AccountsStep ==
  ASSUME CommerceAssumption, TypeOK, MarksAnOrder, Awaited, Accounts, [Next]_vars
  PROVE  Accounts'
<1>1. ASSUME NEW o \in Orders, Purchase(o) \/ GatewayAnswers(o) \/ CustomerPays(o) \/ Refund(o)
      PROVE  Accounts'
  <2>1. UNCHANGED <<request, granted, excused>>
    BY <1>1 DEF Purchase, GatewayAnswers, CustomerPays, Refund
  <2>2. \A p \in Orders : Settled(p) => Settled(p)'
    BY <1>1 DEF Purchase, GatewayAnswers, CustomerPays, Refund, Settled, TypeOK
  <2> QED BY <2>1, <2>2, SettledStays
<1>2. ASSUME NEW n \in Requests, Handle(n) PROVE Accounts'
  <2>1. CASE Create(n) \/ Reactivate(n) \/ Extend(n)
    BY <2>1, Books DEF Create, Reactivate, Extend
  <2>2. CASE Activate(n) \/ Choose(n) \/ RenewReads(n) \/ Change(n)
    <3>1. request[n] \in Busy /\ request[n].pc # "mark"
      BY <2>2, RequestShape DEF Activate, Choose, RenewReads, Change
    <3>2. \A m \in Requests \ {n} : request'[m] = request[m]
      BY <2>2 DEF Activate, Choose, RenewReads, ReadRow, Change, Goto, End, TypeOK
    <3>3. request'[n].pc = "idle" \/ request'[n].order = request[n].order
      <4>1. CASE Activate(n)
        BY <4>1, <3>1 DEF Activate, Goto, TypeOK, Busy
      <4>2. CASE Choose(n)
        BY <4>2, <3>1 DEF Choose, Goto, TypeOK, Busy
      <4>3. CASE RenewReads(n)
        BY <4>3, <3>1 DEF RenewReads, ReadRow, End, Idle, TypeOK, Busy
      <4>4. CASE Change(n)
        BY <4>4, <3>1 DEF Change, End, Idle, TypeOK
      <4> QED BY <2>2, <4>1, <4>2, <4>3, <4>4
    <3>4. UNCHANGED <<order, money, granted, excused>>
      BY <2>2 DEF Activate, Choose, RenewReads, Change
    <3> QED BY <3>1, <3>2, <3>3, <3>4, GoesOn DEF Busy
  <2> QED BY <1>2, <2>1, <2>2, MarkAccounts DEF Handle
<1>3. ASSUME NEW n \in Requests, RenewByHand(n) \/ ChangeByHand(n) \/ RequestDies(n)
      PROVE  Accounts'
  <2>1. \A m \in Requests \ {n} : request'[m] = request[m]
    BY <1>3 DEF RenewByHand, ChangeByHand, RequestDies, Start, End, TypeOK
  <2>2. request'[n].pc = "idle" \/ request'[n].order \notin Orders
    BY <1>3 DEF RenewByHand, ChangeByHand, RequestDies, Start, End, Idle, TypeOK,
                CommerceAssumption
  <2>3. UNCHANGED <<order, money, granted, excused>>
    BY <1>3 DEF RenewByHand, ChangeByHand, RequestDies
  <2> QED BY <2>1, <2>2, <2>3, GoesOn
<1>4. ASSUME NEW s \in Scanners, RenewalScan(s) \/ GraceScan(s) \/ ScansDie(s)
      PROVE  Accounts'
  <2>1. UNCHANGED <<request, granted, excused>>
    BY <1>4 DEF RenewalScan, GraceScan, ScansDie, ScanRows, RenewalAnswered, ExpireRow,
                RenewalOrder, ScanGrace, LockRow
  <2>2. \/ UNCHANGED <<order, money>>
        \/ \E i \in DOMAIN subs : RenewalOrder(s, i)
        \/ RenewalAnswered(s)
    BY <1>4 DEF RenewalScan, GraceScan, ScansDie, ScanRows, ExpireRow, ScanGrace, LockRow
  <2>3. \A p \in Orders : Settled(p) => Settled(p)'
    <3>1. CASE UNCHANGED <<order, money>>
      BY <3>1 DEF Settled
    <3>2. CASE \E i \in DOMAIN subs : RenewalOrder(s, i)
      BY <3>2 DEF RenewalOrder, Settled, TypeOK
    <3>3. CASE RenewalAnswered(s)
      <4>1. renewing[s].order \in Orders
        BY <3>3 DEF RenewalAnswered, TypeOK, Scans
      <4>2. order' = order
        BY <3>3 DEF RenewalAnswered
      <4>3. money' = money \/ money' = [money EXCEPT ![renewing[s].order] = "open"]
        BY <3>3 DEF RenewalAnswered
      <4>4. order[renewing[s].order] = "pending"
        BY <4>1 DEF Awaited
      <4> QED BY <4>1, <4>2, <4>3, <4>4 DEF Settled, TypeOK
    <3> QED BY <2>2, <3>1, <3>2, <3>3
  <2> QED BY <2>1, <2>3, SettledStays
<1>5. CASE UNCHANGED <<order, money, request, granted, excused>>
  BY <1>5 DEF Accounts, Working, Settled
<1>6. CancelAtEnd \/ CancelNow \/ Validate \/ (\E i \in DOMAIN subs : Elapse(i)) \/ UNCHANGED vars
          => UNCHANGED <<order, money, request, granted, excused>>
  BY DEF CancelAtEnd, CancelNow, Validate, Elapse, vars
<1> QED BY <1>1, <1>2, <1>3, <1>4, <1>5, <1>6, NotifyAccounts DEF Next

-----------------------------------------------------------------------------
\* What the requests mark, and what the scans wait with.

\* Money that was charged stays with the gateway, or goes back.
LEMMA MoneyStays ==
  ASSUME TypeOK, Awaited, [Next]_vars,
         NEW o \in Orders, money[o] \in {"charged", "returned"}
  PROVE  money'[o] \in {"charged", "returned"}
<1>1. ASSUME NEW p \in Orders, Purchase(p) \/ GatewayAnswers(p) \/ CustomerPays(p) \/ Refund(p)
      PROVE  money'[o] \in {"charged", "returned"}
  BY <1>1 DEF Purchase, GatewayAnswers, CustomerPays, Refund, TypeOK
<1>2. ASSUME NEW s \in Scanners, RenewalAnswered(s)
      PROVE  money'[o] \in {"charged", "returned"}
  <2>1. renewing[s].order \in Orders
    BY <1>2 DEF RenewalAnswered, TypeOK, Scans
  <2>2. renewing[s].order # o
    BY <2>1 DEF Awaited
  <2> QED BY <1>2, <2>1, <2>2 DEF RenewalAnswered, TypeOK
<1>3. CASE UNCHANGED money
  BY <1>3
<1> QED
  BY <1>1, <1>2, <1>3
     DEF Next, vars, Handle, Notify, MarkPaid, Activate, Choose, Create, Reactivate,
         RenewReads, Extend, Change, RenewByHand, ChangeByHand, RequestDies, CancelAtEnd,
         CancelNow, RenewalScan, ScanRows, ExpireRow, RenewalOrder, GraceScan, ScanGrace,
         LockRow, ScansDie, Elapse, Validate

LEMMA MarksStep ==
  ASSUME CommerceAssumption, TypeOK, MarksAnOrder, Awaited, [Next]_vars
  PROVE  MarksAnOrder'
<1> SUFFICES ASSUME NEW m \in Requests, request'[m].pc = "mark"
             PROVE  /\ request'[m].order \in Orders
                    /\ money'[request'[m].order] \in {"charged", "returned"}
  BY DEF MarksAnOrder
<1>1. ASSUME NEW n \in Requests, NEW p \in Orders, Notify(n, p)
      PROVE  request'[m] = request[m]
             \/ (request'[m].order = p /\ money[p] \in {"charged", "returned"})
  BY <1>1 DEF Notify, Start, TypeOK
<1>2. ASSUME NEW n \in Requests, Handle(n) PROVE request'[m] = request[m]
  <2>1. CASE MarkPaid(n)
    BY <2>1, RequestShape DEF MarkPaid, Goto, TypeOK, Busy
  <2>2. CASE Activate(n)
    BY <2>2, RequestShape DEF Activate, Goto, TypeOK, Busy
  <2>3. CASE Choose(n)
    BY <2>3, RequestShape DEF Choose, Goto, TypeOK, Busy
  <2>4. CASE Create(n) \/ Reactivate(n) \/ Extend(n) \/ Change(n)
    BY <2>4 DEF Create, Reactivate, Extend, Change, End, Idle, TypeOK
  <2>5. CASE RenewReads(n)
    BY <2>5 DEF RenewReads, ReadRow, End, Idle, TypeOK
  <2> QED BY <1>2, <2>1, <2>2, <2>3, <2>4, <2>5 DEF Handle
<1>3. ASSUME NEW n \in Requests, RenewByHand(n) \/ ChangeByHand(n) \/ RequestDies(n)
      PROVE  request'[m] = request[m]
  BY <1>3 DEF RenewByHand, ChangeByHand, RequestDies, Start, End, Idle, TypeOK
<1>4. \/ request'[m] = request[m]
      \/ request'[m].order \in Orders /\ money[request'[m].order] \in {"charged", "returned"}
  BY <1>1, <1>2, <1>3
     DEF Next, vars, Purchase, GatewayAnswers, CustomerPays, Refund, CancelAtEnd, CancelNow,
         RenewalScan, ScanRows, ExpireRow, RenewalOrder, RenewalAnswered, GraceScan,
         ScanGrace, LockRow, ScansDie, Elapse, Validate
<1>5. CASE request'[m] = request[m]
  <2>1. request[m].order \in Orders /\ money[request[m].order] \in {"charged", "returned"}
    BY <1>5 DEF MarksAnOrder
  <2> QED BY <1>5, <2>1, MoneyStays
<1> QED BY <1>4, <1>5, MoneyStays

LEMMA KnownStep ==
  ASSUME TypeOK, MarksAnOrder, Awaited, Known, [Next]_vars
  PROVE  Known'
<1>1. ASSUME NEW o \in Orders, Purchase(o) \/ GatewayAnswers(o) \/ CustomerPays(o) \/ Refund(o)
      PROVE  Known'
  BY <1>1 DEF Purchase, GatewayAnswers, CustomerPays, Refund, TypeOK, Known
<1>2. ASSUME NEW n \in Requests, MarkPaid(n) PROVE Known'
  BY <1>2 DEF MarkPaid, MarksAnOrder, Known, TypeOK
<1>3. ASSUME NEW s \in Scanners, NEW i \in DOMAIN subs, RenewalOrder(s, i) PROVE Known'
  BY <1>3 DEF RenewalOrder, Known, TypeOK
<1>4. ASSUME NEW s \in Scanners, RenewalAnswered(s) PROVE Known'
  <2>1. renewing[s].order \in Orders
    BY <1>4 DEF RenewalAnswered, TypeOK, Scans
  <2>2. order[renewing[s].order] = "pending"
    BY <2>1 DEF Awaited
  <2> QED BY <1>4, <2>1, <2>2 DEF RenewalAnswered, Known, TypeOK
<1>5. CASE UNCHANGED <<order, money>>
  BY <1>5 DEF Known
<1> QED
  BY <1>1, <1>2, <1>3, <1>4, <1>5
     DEF Next, vars, Handle, Notify, Activate, Choose, Create, Reactivate, RenewReads, Extend,
         Change, RenewByHand, ChangeByHand, RequestDies, CancelAtEnd, CancelNow, RenewalScan,
         ScanRows, ExpireRow, GraceScan, ScanGrace, LockRow, ScansDie, Elapse, Validate

LEMMA AwaitedStep ==
  ASSUME CommerceAssumption, TypeOK, MarksAnOrder, Awaited, Known, [Next]_vars
  PROVE  Awaited'
<1>1. ASSUME NEW o \in Orders, Purchase(o) \/ GatewayAnswers(o) \/ CustomerPays(o) \/ Refund(o)
      PROVE  Awaited'
  <2>1. renewing' = renewing
    BY <1>1 DEF Purchase, GatewayAnswers, CustomerPays, Refund
  <2>2. \A p \in Orders : /\ order[p] = "pending" /\ money[p] = "none"
                          /\ \E s \in Scanners : renewing[s].order = p
                          => order'[p] = "pending" /\ money'[p] = "none"
    BY <1>1 DEF Purchase, GatewayAnswers, CustomerPays, Refund, TypeOK
  <2> QED BY <2>1, <2>2 DEF Awaited
<1>2. ASSUME NEW n \in Requests, MarkPaid(n) PROVE Awaited'
  <2>1. request[n].order \in Orders /\ money[request[n].order] # "none"
    BY <1>2 DEF MarkPaid, MarksAnOrder
  <2> QED BY <1>2, <2>1 DEF MarkPaid, Awaited, TypeOK
<1>3. ASSUME NEW s \in Scanners, NEW i \in DOMAIN subs, RenewalOrder(s, i) PROVE Awaited'
  <2>1. \A t \in Scanners \ {s} : renewing'[t] = renewing[t]
    BY <1>3 DEF RenewalOrder, TypeOK
  <2>2. renewing[s] \in Scans /\ money' = money
    BY <1>3 DEF RenewalOrder, TypeOK
  <2>3. CASE \E o \in Orders :
               /\ order[o] = "none"
               /\ order' = [order EXCEPT ![o] = "pending"]
               /\ renewing' = [renewing EXCEPT ![s] = [@ EXCEPT !.due = renewing[s].due \ {i},
                                                            !.order = o, !.row = i]]
    <3>1. PICK o \in Orders :
               /\ order[o] = "none"
               /\ order' = [order EXCEPT ![o] = "pending"]
               /\ renewing' = [renewing EXCEPT ![s] = [@ EXCEPT !.due = renewing[s].due \ {i},
                                                            !.order = o, !.row = i]]
      BY <2>3
    <3>2. renewing'[s].order = o
      BY <2>2, <3>1 DEF TypeOK, Scans
    <3>3. \A t \in Scanners \ {s} : renewing[t].order # o
      BY <3>1 DEF Awaited
    <3>4. order'[o] = "pending" /\ \A p \in Orders \ {o} : order'[p] = order[p]
      BY <3>1 DEF TypeOK
    <3>5. money[o] = "none"
      BY <3>1 DEF Known
    <3> QED BY <2>1, <2>2, <3>2, <3>3, <3>4, <3>5 DEF Awaited
  <2>4. CASE /\ renewing' = [renewing EXCEPT ![s].due = @ \ {i}]
             /\ UNCHANGED order
    <3>1. renewing'[s].order = renewing[s].order
      BY <2>2, <2>4 DEF TypeOK, Scans
    <3> QED BY <2>1, <2>2, <2>4, <3>1 DEF Awaited
  <2> QED BY <1>3, <2>3, <2>4 DEF RenewalOrder
<1>4. ASSUME NEW s \in Scanners, RenewalAnswered(s) PROVE Awaited'
  <2>1. renewing[s].order \in Orders
    BY <1>4 DEF RenewalAnswered, TypeOK, Scans
  <2>2. \A t \in Scanners \ {s} : renewing'[t] = renewing[t] /\ renewing[t].order # renewing[s].order
    BY <1>4, <2>1 DEF RenewalAnswered, Awaited, TypeOK
  <2>3. renewing'[s].order \notin Orders
    BY <1>4 DEF RenewalAnswered, TypeOK, Scans, CommerceAssumption
  <2>4. order' = order /\ \A p \in Orders : p # renewing[s].order => money'[p] = money[p]
    BY <1>4 DEF RenewalAnswered, TypeOK
  <2> QED BY <2>2, <2>3, <2>4 DEF Awaited
<1>5. ASSUME NEW s \in Scanners, ScanRows(s) \/ ScansDie(s) PROVE Awaited'
  <2>1. \A t \in Scanners : renewing'[t] = renewing[t] \/ renewing'[t].order \notin Orders
    <3>1. CASE ScanRows(s)
      <4>1. PICK d, e : renewing' = [renewing EXCEPT ![s] = [NoScan EXCEPT !.due = d, !.ending = e]]
        BY <3>1 DEF ScanRows
      <4>2. [NoScan EXCEPT !.due = d, !.ending = e].order = NoOrder
        BY DEF NoScan
      <4> QED BY <4>1, <4>2 DEF TypeOK, CommerceAssumption
    <3>2. CASE ScansDie(s)
      BY <3>2 DEF ScansDie, NoScan, TypeOK, CommerceAssumption
    <3> QED BY <1>5, <3>1, <3>2
  <2>2. UNCHANGED <<order, money>>
    BY <1>5 DEF ScanRows, ScansDie
  <2> QED BY <2>1, <2>2 DEF Awaited
<1>6. ASSUME NEW s \in Scanners, NEW i \in DOMAIN subs, ExpireRow(s, i) PROVE Awaited'
  <2>1. \A t \in Scanners : renewing'[t].order = renewing[t].order
    BY <1>6 DEF ExpireRow, TypeOK, Scans
  <2>2. UNCHANGED <<order, money>>
    BY <1>6 DEF ExpireRow
  <2> QED BY <2>1, <2>2 DEF Awaited
<1>7. CASE UNCHANGED <<order, money, renewing>>
  BY <1>7 DEF Awaited
<1> QED
  BY <1>1, <1>2, <1>3, <1>4, <1>5, <1>6, <1>7
     DEF Next, vars, Handle, Notify, Activate, Choose, Create, Reactivate, RenewReads, Extend,
         Change, RenewByHand, ChangeByHand, RequestDies, CancelAtEnd, CancelNow, RenewalScan,
         GraceScan, ScanGrace, LockRow, Elapse, Validate

-----------------------------------------------------------------------------
LEMMA InitAccounts ==
  ASSUME CommerceAssumption
  PROVE  Init => MarksAnOrder /\ Awaited /\ Known /\ Accounts
  BY DEF Init, MarksAnOrder, Awaited, Known, Accounts, Working, Idle, NoScan, CommerceAssumption

\* The strengthening is an invariant.
THEOREM Inductive == ASSUME CommerceAssumption PROVE Spec => []IInv
<1>1. Init => IInv
  BY InitType, InitAccounts DEF IInv
<1>2. IInv /\ [Next]_vars => IInv'
  BY NextType, MarksStep, AwaitedStep, KnownStep, AccountsStep DEF IInv
<1> QED BY <1>1, <1>2, PTL DEF Spec

\* Every state reached is well typed: no request and no scan writes a row of
\* another shape, and none marks an order that does not exist.
THEOREM TypeCorrect == ASSUME CommerceAssumption PROVE Spec => []TypeOK
<1>1. IInv => TypeOK
  BY DEF IInv
<1> QED BY <1>1, Inductive, PTL

\* An order is booked twice only when its notifications overlapped or one
\* came after a refund, however many requests handle them.
THEOREM GrantedCorrect == ASSUME CommerceAssumption PROVE Spec => []GrantedOnce
<1>1. IInv => GrantedOnce
  <2> SUFFICES ASSUME TypeOK, Accounts, NEW o \in Orders, granted[o] > 1 PROVE o \in excused
    BY DEF IInv, GrantedOnce
  <2>1. granted[o] \in Nat
    BY DEF TypeOK
  <2> QED BY <2>1 DEF Accounts
<1> QED BY <1>1, Inductive, PTL
=============================================================================
