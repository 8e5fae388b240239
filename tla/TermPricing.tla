---------------------------- MODULE TermPricing ----------------------------
(***************************************************************************)
(* Pricing of a TERM purchase order and the cost layers it leaves.  An     *)
(* order is estimated, approved, received, and priced again from the bill  *)
(* (BILL_NORMALIZE), with the official rate (FINAL) and for the sheet the  *)
(* director signs (BOSS_SHEET).  FINAL writes InventoryCostLayer rows,     *)
(* which commitConsume uses up, oldest first.                              *)
(*                                                                         *)
(* Requests are cut where the code reads.  What a transaction has locked   *)
(* across steps is a field of its request: the layers a stage deletes      *)
(* ("gone") and those a consumption has updated ("left").                  *)
(***************************************************************************)
EXTENDS Integers, FiniteSets, FiniteSetsExt, Functions

CONSTANTS
    Orders,      \* TERM purchase orders, one line each
    Receipts,    \* ids a GoodsReceipt row may get
    Runs,        \* ids a PurchasePricingRun row may get
    Users,       \* requests the web process may be serving at a time
    Scenarios,   \* the instances to explore: who calls what, on which orders, from which start
    MaxLayers,   \* bound: cost layers ever created; a scenario may set a lower one
    MaxQty,      \* bound: quantities are whole units up to MaxQty
    None

ASSUME BoundsAssumption == MaxLayers \in Nat /\ MaxQty \in Nat \ {0}
ASSUME NoneAssumption == None \notin Orders \cup Receipts \cup Runs \cup (0 .. MaxQty)
ASSUME ScenariosAssumption ==
    \A s \in Scenarios :
        /\ s.users \subseteq Users /\ s.orders \subseteq Orders /\ s.billed \subseteq s.orders
        /\ s.finals \subseteq 0 .. MaxQty /\ s.layers \in 0 .. MaxLayers

VARIABLES
    scenario,   \* the instance explored, fixed by Init
    order,      \* PurchaseOrder.status
    receipt,    \* the GoodsReceipt table
    run,        \* the PurchasePricingRun table, each row with its stages
    latest,     \* the run of each order with the greatest createdAt
    layer,      \* the InventoryCostLayer table, in the order of costDate
    taken,      \* what commitConsume has answered it took from each layer
    request     \* what each request has read and written so far

vars == <<scenario, order, receipt, run, latest, layer, taken, request>>

StageTypes == {"ESTIMATE", "BILL_NORMALIZE", "FINAL", "BOSS_SHEET"}
RunStatus == {"DRAFT", "ESTIMATED", "NORMALIZED", "POSTED"}
OrderStatus == {"ABSENT", "DRAFT", "APPROVED", "IN_PROGRESS", "COMPLETED", "CANCELLED"}
Pcs == {"idle", "setOrder", "confirm", "confirmOrder", "void", "stageRun", "stageLayers",
        "stageDelete", "stageRead", "stageCommit", "consumeRead", "consumeWrite"}
Layers == 1 .. MaxLayers
LayerStatus == {"ABSENT", "OPEN", "CLOSED", "DELETED"}

NoStages == [t \in StageTypes |-> None]
AbsentRun == [order |-> None, status |-> "DRAFT", stage |-> NoStages]
AbsentLayer == [run |-> None, status |-> "ABSENT", original |-> 0, remaining |-> 0]
Idle == [pc |-> "idle", order |-> None, to |-> "ABSENT", receipt |-> None,
         type |-> "ESTIMATE", qty |-> 0, run |-> None, gone |-> {},
         want |-> [l \in Layers |-> 0], todo |-> {}, left |-> [l \in Layers |-> None]]

(***************************************************************************)
(* What the handlers read.                                                 *)
(***************************************************************************)
Confirmed(o) == {x \in Receipts : receipt[x].status = "CONFIRMED" /\ receipt[x].order = o}
HasStage(o, t) == \E k \in Runs : run[k].order = o /\ run[k].stage[t] # None
Live(l) == layer[l].status \in {"OPEN", "CLOSED"}
LiveOf(k) == {l \in Layers : Live(l) /\ layer[l].run = k}

ValidStageSkip(o, t) == order[o] \notin {"ABSENT", "CANCELLED"}
\* Each stage but the first needs a confirmed receipt and the stage before it, in any run.
ValidStage(o, t) ==
    /\ order[o] \notin {"ABSENT", "CANCELLED"}
    /\ t # "ESTIMATE" => Confirmed(o) # {}
    /\ t = "BILL_NORMALIZE" => HasStage(o, "ESTIMATE")
    /\ t = "FINAL" => HasStage(o, "BILL_NORMALIZE")
    /\ t = "BOSS_SHEET" => HasStage(o, "FINAL")

\* The run takes the status of the stage computed last, which need not be its furthest.
StatusOf(t) ==
    [ESTIMATE |-> "ESTIMATED", BILL_NORMALIZE |-> "NORMALIZED",
     FINAL |-> "POSTED", BOSS_SHEET |-> "POSTED"][t]

\* The only access to PurchasePricingRunReceipt in src/ is isUsedInPostedPricing, which reads it.
RunReceipts == {}
UsedInPostedPricing(x) == \E row \in RunReceipts : row.receipt = x /\ run[row.run].status = "POSTED"

LayerLocked(l, r) ==
    \E q \in Users \ {r} :
        \/ request[q].left[l] # None
        \/ request[q].pc \in {"stageRead", "stageCommit"} /\ l \in request[q].gone

SameStage(q, r) ==
    /\ request[q].pc = "stageCommit"
    /\ request[q].run = request[r].run /\ request[q].run # None
    /\ request[q].type = request[r].type

\* previewConsume uses the layers up one after the other, in the order of costDate.
Open == {l \in Layers : layer[l].status = "OPEN" /\ layer[l].remaining > 0}
OpenBeforeNewest(l) == {m \in Open : m > l}
OpenBefore(l) == {m \in Open : m < l}
Remaining(ls) == SumFunctionOnSet([l \in Layers |-> layer[l].remaining], ls)
Preview(q) ==
    [l \in Layers |->
        IF l \in Open THEN Max({0, Min({layer[l].remaining, q - Remaining(OpenBefore(l))})}) ELSE 0]
Enough(q) == q <= Remaining(Open)

(***************************************************************************)
(* Actions                                                                 *)
(***************************************************************************)
Become(r, req) == request' = [request EXCEPT ![r] = req]
Caller(r, call) == r \in scenario.users /\ call \in scenario.calls /\ request[r].pc = "idle"

CreateOrder(o) ==
    /\ o \in scenario.orders
    /\ order[o] = "ABSENT"
    /\ order' = [order EXCEPT ![o] = "DRAFT"]
    /\ UNCHANGED <<scenario, receipt, run, latest, layer, taken, request>>

Approvable(o) == order[o] = "DRAFT" /\ HasStage(o, "ESTIMATE")
Cancellable(o) == order[o] \in {"DRAFT", "APPROVED", "IN_PROGRESS"} /\ Confirmed(o) = {}
\* complete() does not look at the status.
Completable(o) == Confirmed(o) # {} /\ HasStage(o, "FINAL")

\* approve, cancel and complete check the order, then write its status whatever it has become.
CheckOrder(r, o, to) ==
    /\ Caller(r, to)
    /\ to = "APPROVED" => Approvable(o)
    /\ to = "CANCELLED" => Cancellable(o)
    /\ to = "COMPLETED" => Completable(o)
    /\ Become(r, [Idle EXCEPT !.pc = "setOrder", !.order = o, !.to = to])
    /\ UNCHANGED <<scenario, order, receipt, run, latest, layer, taken>>

\* approve and approveMany of the ordinary purchase orders take a TERM order too: they look at
\* its status only.  (cancel, cancelMany and createAutoConfirm do what the calls here do.)
ApproveAny(r, o) ==
    /\ Caller(r, "approveAny")
    /\ order[o] = "DRAFT"
    /\ Become(r, [Idle EXCEPT !.pc = "setOrder", !.order = o, !.to = "APPROVED"])
    /\ UNCHANGED <<scenario, order, receipt, run, latest, layer, taken>>

SetOrder(r) ==
    /\ request[r].pc = "setOrder"
    /\ order' = [order EXCEPT ![request[r].order] = request[r].to]
    /\ Become(r, Idle)
    /\ UNCHANGED <<scenario, receipt, run, latest, layer, taken>>

CreateReceipt(x, o) ==
    /\ receipt[x].status = "ABSENT"
    /\ order[o] \in {"APPROVED", "IN_PROGRESS"}
    /\ receipt' = [receipt EXCEPT ![x] = [status |-> "DRAFT", order |-> o]]
    /\ UNCHANGED <<scenario, order, run, latest, layer, taken, request>>

ConfirmRead(r, x) ==
    /\ Caller(r, "confirm")
    /\ receipt[x].status = "DRAFT"
    /\ Become(r, [Idle EXCEPT !.pc = "confirm", !.receipt = x, !.order = receipt[x].order])
    /\ UNCHANGED <<scenario, order, receipt, run, latest, layer, taken>>

ConfirmReadOrder(r) ==
    /\ request[r].pc = "confirm"
    /\ Become(r, [request[r] EXCEPT !.pc = "confirmOrder", !.to = order[request[r].order]])
    /\ UNCHANGED <<scenario, order, receipt, run, latest, layer, taken>>

ConfirmCommit(r) ==
    /\ request[r].pc = "confirmOrder"
    /\ receipt' = [receipt EXCEPT ![request[r].receipt].status = "CONFIRMED"]
    /\ order' = IF request[r].to = "APPROVED"
                THEN [order EXCEPT ![request[r].order] = "IN_PROGRESS"]
                ELSE order
    /\ Become(r, Idle)
    /\ UNCHANGED <<scenario, run, latest, layer, taken>>

VoidRead(r, x) ==
    /\ Caller(r, "void")
    /\ receipt[x].status \notin {"ABSENT", "VOID"}
    /\ ~UsedInPostedPricing(x)
    /\ Become(r, [Idle EXCEPT !.pc = "void", !.receipt = x])
    /\ UNCHANGED <<scenario, order, receipt, run, latest, layer, taken>>

VoidWrite(r) ==
    /\ request[r].pc = "void"
    /\ receipt' = [receipt EXCEPT ![request[r].receipt].status = "VOID"]
    /\ Become(r, Idle)
    /\ UNCHANGED <<scenario, order, run, latest, layer, taken>>

\* Only the quantity of a FINAL is used later, for its cost layer.
LineQtys(t) == IF t = "FINAL" THEN scenario.finals ELSE {1}

\* createEstimate, createBillNormalize, createFinal, createBossSheet; no lines is quantity 0.
CheckStage(r, o, t, q) ==
    /\ Caller(r, t)
    /\ ValidStage(o, t)
    /\ Become(r, [Idle EXCEPT !.pc = "stageRun", !.order = o, !.type = t, !.qty = q])
    /\ UNCHANGED <<scenario, order, receipt, run, latest, layer, taken>>

ReadRun(r) ==
    /\ request[r].pc = "stageRun"
    /\ Become(r, [request[r] EXCEPT
                    !.pc = IF request[r].type = "FINAL" THEN "stageLayers" ELSE "stageRead",
                    !.run = latest[request[r].order]])
    /\ UNCHANGED <<scenario, order, receipt, run, latest, layer, taken>>

SeenLayersNone(k) == {}
SeenLayers(k) == LiveOf(k)
\* deleteMany chooses its rows when the statement starts ...
SeeLayers(r) ==
    /\ request[r].pc = "stageLayers"
    /\ Become(r, [request[r] EXCEPT !.pc = "stageDelete", !.gone = SeenLayers(request[r].run)])
    /\ UNCHANGED <<scenario, order, receipt, run, latest, layer, taken>>

\* ... waits for those locked, and passes over those another transaction has deleted.
DeleteLayers(r) ==
    /\ request[r].pc = "stageDelete"
    /\ \A l \in request[r].gone : ~LayerLocked(l, r)
    /\ Become(r, [request[r] EXCEPT !.pc = "stageRead", !.gone = {l \in @ : Live(l)}])
    /\ UNCHANGED <<scenario, order, receipt, run, latest, layer, taken>>

ReadStage(r) ==
    /\ request[r].pc = "stageRead"
    /\ Become(r, [request[r] EXCEPT !.pc = "stageCommit"])
    /\ UNCHANGED <<scenario, order, receipt, run, latest, layer, taken>>

StageRow(r, k) ==
    [order |-> request[r].order,
     status |-> StatusOf(request[r].type),
     stage |-> [run[k].stage EXCEPT ![request[r].type] = request[r].qty]]
NewLayer(k, q) == [run |-> k, status |-> "OPEN", original |-> q, remaining |-> q]
\* The stage is replaced.  Another request that has read the stage this one replaces finds
\* its row gone or its key (runId, stageType) taken, and is rolled back.
CommitStage(r) ==
    /\ request[r].pc = "stageCommit"
    /\ \E k \in Runs :
        /\ IF request[r].run # None
           THEN k = request[r].run /\ latest' = latest
           ELSE /\ run[k].order = None
                /\ \E first \in {latest[request[r].order], k} \ {None} :
                        latest' = [latest EXCEPT ![request[r].order] = first]
        /\ run' = [run EXCEPT ![k] = StageRow(r, k)]
        /\ LET adds == request[r].type = "FINAL" /\ request[r].qty > 0
               next == 1 + Cardinality({l \in Layers : layer[l].status # "ABSENT"})
           IN /\ adds => next <= scenario.layers
              /\ layer' = [l \in Layers |->
                            IF l \in request[r].gone THEN [layer[l] EXCEPT !.status = "DELETED"]
                            ELSE IF adds /\ l = next THEN NewLayer(k, request[r].qty)
                            ELSE layer[l]]
    /\ request' = [q \in Users |-> IF q = r \/ SameStage(q, r) THEN Idle ELSE request[q]]
    /\ UNCHANGED <<scenario, order, receipt, taken>>

ConsumePreview(r, q) ==
    /\ Caller(r, "consume")
    /\ Enough(q)
    /\ Become(r, [Idle EXCEPT !.pc = "consumeRead", !.want = Preview(q),
                              !.todo = {l \in Layers : Preview(q)[l] > 0}])
    /\ UNCHANGED <<scenario, order, receipt, run, latest, layer, taken>>

StillThere(l, q) == Live(l) /\ layer[l].remaining >= q
\* TERM_COST_LAYER_NOT_FOUND and TERM_COST_LAYER_CONCURRENT_QTY_CHANGED abort.
ConsumeRead(r) ==
    /\ request[r].pc = "consumeRead"
    /\ LET l == Min(request[r].todo)
       IN Become(r, IF StillThere(l, request[r].want[l])
                    THEN [request[r] EXCEPT !.pc = "consumeWrite",
                                            !.qty = layer[l].remaining - request[r].want[l]]
                    ELSE Idle)
    /\ UNCHANGED <<scenario, order, receipt, run, latest, layer, taken>>

Used(l, left) == [layer[l] EXCEPT !.remaining = left,
                                  !.status = IF left <= 0 THEN "CLOSED" ELSE "OPEN"]
\* Waits for the row's lock; a row deleted in between fails the update.
ConsumeWrite(r) ==
    /\ request[r].pc = "consumeWrite"
    /\ LET l == Min(request[r].todo)
           after == [request[r] EXCEPT !.pc = "consumeRead", !.todo = @ \ {l},
                                       !.left[l] = request[r].qty, !.qty = 0]
       IN /\ ~LayerLocked(l, r)
          /\ IF ~Live(l)
             THEN Become(r, Idle) /\ UNCHANGED <<layer, taken>>
             ELSE IF after.todo # {}
             THEN Become(r, after) /\ UNCHANGED <<layer, taken>>
             ELSE /\ layer' = [m \in Layers |-> IF after.left[m] = None THEN layer[m]
                                                ELSE Used(m, after.left[m])]
                  /\ taken' = [m \in Layers |-> taken[m] + request[r].want[m]]
                  /\ Become(r, Idle)
    /\ UNCHANGED <<scenario, order, receipt, run, latest>>

Abort(r) ==
    /\ request[r].pc # "idle"
    /\ Become(r, Idle)
    /\ UNCHANGED <<scenario, order, receipt, run, latest, layer, taken>>

\* An order of "billed" has been estimated, approved, received and priced from its bill.
Init ==
    /\ scenario \in Scenarios
    /\ order = [o \in Orders |-> IF o \in scenario.billed THEN "IN_PROGRESS" ELSE "ABSENT"]
    /\ \E runOf \in Injection(scenario.billed, Runs), receiptOf \in Injection(scenario.billed, Receipts) :
        /\ receipt = [x \in Receipts |->
              IF \E o \in scenario.billed : x = receiptOf[o]
              THEN [status |-> "CONFIRMED", order |-> CHOOSE o \in scenario.billed : x = receiptOf[o]]
              ELSE [status |-> "ABSENT", order |-> None]]
        /\ run = [k \in Runs |->
              IF \E o \in scenario.billed : k = runOf[o]
              THEN [order |-> CHOOSE o \in scenario.billed : k = runOf[o], status |-> "NORMALIZED",
                    stage |-> [NoStages EXCEPT !["ESTIMATE"] = 1, !["BILL_NORMALIZE"] = 1]]
              ELSE AbsentRun]
        /\ latest = [o \in Orders |-> IF o \in scenario.billed THEN runOf[o] ELSE None]
    /\ layer = [l \in Layers |-> AbsentLayer]
    /\ taken = [l \in Layers |-> 0]
    /\ request = [r \in Users |-> Idle]

OrderStep(r) ==
    \/ \E o \in Orders, to \in {"APPROVED", "CANCELLED", "COMPLETED"} : CheckOrder(r, o, to)
    \/ \E o \in Orders : ApproveAny(r, o)
    \/ SetOrder(r)
ReceiptStep(r) ==
    \/ \E x \in Receipts : ConfirmRead(r, x) \/ VoidRead(r, x)
    \/ ConfirmReadOrder(r) \/ ConfirmCommit(r) \/ VoidWrite(r)
StageStep(r) ==
    \/ \E o \in Orders, t \in StageTypes : \E q \in LineQtys(t) : CheckStage(r, o, t, q)
    \/ ReadRun(r) \/ SeeLayers(r) \/ DeleteLayers(r) \/ ReadStage(r) \/ CommitStage(r)
ConsumeStep(r) ==
    \/ \E q \in 1 .. MaxQty : ConsumePreview(r, q)
    \/ ConsumeRead(r) \/ ConsumeWrite(r)

Next ==
    \/ \E o \in Orders : CreateOrder(o)
    \/ \E x \in Receipts, o \in Orders : CreateReceipt(x, o)
    \/ \E r \in Users : OrderStep(r) \/ ReceiptStep(r) \/ StageStep(r) \/ ConsumeStep(r) \/ Abort(r)

Spec == Init /\ [][Next]_vars

(***************************************************************************)
(* Properties                                                              *)
(***************************************************************************)
\* Every table holds rows of its shape; a request locks nothing while it is idle.
TypeOK ==
    /\ scenario \in Scenarios
    /\ order \in [Orders -> OrderStatus]
    /\ receipt \in [Receipts -> [status : {"ABSENT", "DRAFT", "UNLINKED", "CONFIRMED", "VOID"},
                                 order : Orders \cup {None}]]
    /\ run \in [Runs -> [order : Orders \cup {None}, status : RunStatus,
                         stage : [StageTypes -> 0 .. MaxQty \cup {None}]]]
    /\ latest \in [Orders -> Runs \cup {None}]
    /\ layer \in [Layers -> [run : Runs \cup {None}, status : LayerStatus,
                             original : 0 .. MaxQty, remaining : 0 .. MaxQty]]
    /\ taken \in [Layers -> Nat]
    /\ request \in [Users -> [pc : Pcs, order : Orders \cup {None}, to : OrderStatus,
                              receipt : Receipts \cup {None}, type : StageTypes,
                              qty : 0 .. MaxQty, run : Runs \cup {None},
                              gone : SUBSET Layers, want : [Layers -> 0 .. MaxQty],
                              todo : SUBSET Layers,
                              left : [Layers -> 0 .. MaxQty \cup {None}]]]

\* The ordinary approval asks for no estimate.
Founded(o) == HasStage(o, "ESTIMATE") \/ "approveAny" \in scenario.calls

\* Whatever requests overlap (createStage replaces stages, approve and complete write late), an
\* order has each stage only with the stage before it and is completed only with a FINAL.  Where
\* only the approve of TERM orders is called, it is approved only with an estimate.
StagesInOrder ==
    \A o \in Orders :
        /\ HasStage(o, "BOSS_SHEET") => HasStage(o, "FINAL")
        /\ HasStage(o, "FINAL") => HasStage(o, "BILL_NORMALIZE")
        /\ HasStage(o, "BILL_NORMALIZE") => HasStage(o, "ESTIMATE")
        /\ order[o] \in {"APPROVED", "IN_PROGRESS", "COMPLETED"} => Founded(o)
        /\ order[o] = "COMPLETED" => HasStage(o, "FINAL")

Alone == \E u \in scenario.users : scenario.users = {u}

\* When requests are served one by one, a run has one cost layer, of the quantity of its FINAL
\* stage, however often FINAL is priced again and whatever has been consumed (createStage).
LayersAreFinal ==
    Alone => \A k \in Runs :
        {layer[l].original : l \in LiveOf(k)} = {run[k].stage["FINAL"]} \ {None, 0}
        /\ Cardinality(LiveOf(k)) <= 1

\* No overlap of consumptions and pricings takes a layer below zero, leaves a used-up layer open
\* or closes one that has something left (commitConsume checks again before it writes).  When
\* requests are served one by one, what a layer has left is what it had less what was taken from
\* it, and nothing is taken from a layer while an older one has something left.
OldestFirst ==
    \A l \in Layers : Live(l) =>
        /\ layer[l].remaining \in 0 .. layer[l].original
        /\ layer[l].status = "CLOSED" <=> layer[l].remaining = 0
        /\ Alone => layer[l].original = layer[l].remaining + taken[l]
        /\ Alone /\ taken[l] > 0 => \A m \in Layers : m < l /\ Live(m) => layer[m].remaining = 0
=============================================================================
