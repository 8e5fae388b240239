--------------------------- MODULE TermFlow_proofs ---------------------------
(***************************************************************************)
(* Proofs about TermFlow and the pricing inside it (TermPricing), for any  *)
(* orders, receipts, runs, users, scenarios and bounds.                    *)
(*                                                                         *)
(* While any requests overlap: types, the order of the stages, the next    *)
(* action, payments and the bounds of the cost layers.  When requests are  *)
(* served one by one: the layers are what FINAL says and are used up       *)
(* oldest first.                                                           *)
(***************************************************************************)
EXTENDS TermFlow, SumTheorems

USE BoundsAssumption, NoneAssumption

ReceiptRow == [status : {"ABSENT", "DRAFT", "UNLINKED", "CONFIRMED", "VOID"}, order : Orders \cup {None}]
RunRow == [order : Orders \cup {None}, status : RunStatus, stage : [StageTypes -> 0 .. MaxQty \cup {None}]]
LayerRow == [run : Runs \cup {None}, status : LayerStatus, original : 0 .. MaxQty, remaining : 0 .. MaxQty]
RequestRow == [pc : Pcs, order : Orders \cup {None}, to : OrderStatus, receipt : Receipts \cup {None},
               type : StageTypes, qty : 0 .. MaxQty, run : Runs \cup {None},
               gone : SUBSET Layers, want : [Layers -> 0 .. MaxQty],
               todo : SUBSET Layers, left : [Layers -> 0 .. MaxQty \cup {None}]]

StagePcs == {"stageRun", "stageLayers", "stageDelete", "stageRead", "stageCommit"}
ConsumePcs == {"consumeRead", "consumeWrite"}

\* What a request has read when it comes to each of its steps.
Knows(q) ==
    /\ q.pc \in {"setOrder", "confirm", "confirmOrder"} \cup StagePcs => q.order \in Orders
    /\ q.pc = "setOrder" => q.to \in {"APPROVED", "CANCELLED", "COMPLETED"}
    /\ q.pc \in {"confirm", "confirmOrder", "void"} => q.receipt \in Receipts
    /\ q.pc \in ConsumePcs => q.todo # {}
RequestsKnow == \A r \in Users : Knows(request[r])

ReceiptsHaveOrders == \A x \in Receipts : receipt[x].status # "ABSENT" => receipt[x].order \in Orders

\* So has a receipt that a request confirms or voids.
Handled(q) == q.pc \in {"confirm", "confirmOrder", "void"} => receipt[q.receipt].order \in Orders
HandledHaveOrders == \A r \in Users : Handled(request[r])

TypeInv == TypeOK /\ RequestsKnow /\ ReceiptsHaveOrders /\ HandledHaveOrders

\* The rows of TypeOK by name.
LEMMA Types ==
  TypeOK <=> /\ scenario \in Scenarios
             /\ order \in [Orders -> OrderStatus]
             /\ receipt \in [Receipts -> ReceiptRow]
             /\ run \in [Runs -> RunRow]
             /\ latest \in [Orders -> Runs \cup {None}]
             /\ layer \in [Layers -> LayerRow]
             /\ taken \in [Layers -> Nat]
             /\ request \in [Users -> RequestRow]
  BY DEF TypeOK, ReceiptRow, RunRow, LayerRow, RequestRow

LEMMA TypesNext ==
  TypeOK' <=> /\ scenario' \in Scenarios
              /\ order' \in [Orders -> OrderStatus]
              /\ receipt' \in [Receipts -> ReceiptRow]
              /\ run' \in [Runs -> RunRow]
              /\ latest' \in [Orders -> Runs \cup {None}]
              /\ layer' \in [Layers -> LayerRow]
              /\ taken' \in [Layers -> Nat]
              /\ request' \in [Users -> RequestRow]
  BY DEF TypeOK, ReceiptRow, RunRow, LayerRow, RequestRow

LEMMA IdleType == Idle \in RequestRow /\ Knows(Idle)
  BY DEF Idle, RequestRow, Pcs, OrderStatus, StageTypes, Knows, StagePcs, ConsumePcs

LEMMA BecomeType ==
  ASSUME TypeInv, NEW r \in Users, NEW req \in RequestRow, Knows(req), Become(r, req)
  PROVE  /\ request' \in [Users -> RequestRow] /\ RequestsKnow'
         /\ request'[r] = req
         /\ \A q \in Users \ {r} : request'[q] = request[q]
  BY Types DEF Become, TypeInv, RequestsKnow

-----------------------------------------------------------------------------
(* The preview of a consumption.                                            *)

LEMMA LayersFinite == IsFiniteSet(Layers) /\ \A ls \in SUBSET Layers : IsFiniteSet(ls)
<1>1. IsFiniteSet(Layers)
  BY FS_Interval DEF Layers
<1> QED
  BY <1>1, FS_Subset

\* A set of layers has a first one.
LEMMA FirstLayer ==
  ASSUME NEW ls \in SUBSET Layers, ls # {}
  PROVE  Min(ls) \in ls /\ \A l \in ls : Min(ls) <= l
<1>1. ls \in SUBSET (0 .. MaxLayers)
  BY DEF Layers
<1>2. \E l \in ls : \A m \in ls : l <= m
  BY <1>1, Smallest
<1> QED
  BY <1>2 DEF Min

\* What is open before a layer.
LEMMA RemainingType ==
  ASSUME TypeOK, NEW ls \in SUBSET Layers
  PROVE  Remaining(ls) \in Nat
<1> DEFINE f == [l \in Layers |-> layer[l].remaining]
<1>1. IsFiniteSet(ls) /\ \A l \in ls : f[l] \in Nat
  BY LayersFinite, Types DEF LayerRow
<1> HIDE DEF f
<1>2. SumFunctionOnSet(f, ls) \in Nat
  BY <1>1, SumNat
<1> QED
  BY <1>2 DEF Remaining, f

\* The minimum and maximum of Preview.
LEMMA Clamped ==
  ASSUME NEW a \in Nat, NEW b \in Int
  PROVE  Max({0, Min({a, b})}) = IF b <= 0 THEN 0 ELSE IF b <= a THEN b ELSE a
<1>1. Min({a, b}) = IF b <= a THEN b ELSE a
  BY DEF Min
<1>2. \A c \in Int : Max({0, c}) = IF c <= 0 THEN 0 ELSE c
  BY DEF Max
<1> QED
  BY <1>1, <1>2

\* What a preview takes from one layer.
LEMMA PreviewOf ==
  ASSUME TypeOK, NEW q \in Nat, NEW l \in Layers
  PROVE  /\ OpenBefore(l) \in SUBSET Layers
         /\ Remaining(OpenBefore(l)) \in Nat
         /\ l \notin Open => Preview(q)[l] = 0
         /\ l \in Open => layer[l].remaining \in Nat /\
               Preview(q)[l] = IF q <= Remaining(OpenBefore(l)) THEN 0
                               ELSE IF q - Remaining(OpenBefore(l)) <= layer[l].remaining
                               THEN q - Remaining(OpenBefore(l)) ELSE layer[l].remaining
<1>1. OpenBefore(l) \in SUBSET Layers
  BY DEF OpenBefore, Open
<1>2. PICK n \in Nat : n = Remaining(OpenBefore(l))
  BY <1>1, RemainingType
<1>3. layer[l].remaining \in Nat
  BY Types DEF LayerRow
<1>4. Max({0, Min({layer[l].remaining, q - n})}) =
          IF q - n <= 0 THEN 0 ELSE IF q - n <= layer[l].remaining THEN q - n ELSE layer[l].remaining
  BY <1>3, Clamped
<1>5. Preview(q)[l] = IF l \in Open THEN Max({0, Min({layer[l].remaining, q - n})}) ELSE 0
  BY <1>2 DEF Preview
<1> QED
  BY <1>1, <1>2, <1>3, <1>4, <1>5

LEMMA PreviewType ==
  ASSUME TypeOK, NEW q \in Nat
  PROVE  /\ Preview(q) \in [Layers -> 0 .. MaxQty]
         /\ \A l \in Layers : Preview(q)[l] <= layer[l].remaining
<1>1. ASSUME NEW l \in Layers PROVE Preview(q)[l] \in 0 .. MaxQty /\ Preview(q)[l] <= layer[l].remaining
  <2>1. layer[l].remaining \in 0 .. MaxQty
    BY Types DEF LayerRow
  <2>2. PICK n \in Nat : n = Remaining(OpenBefore(l))
    BY PreviewOf
  <2> QED
    BY <2>1, <2>2, PreviewOf
<1>2. Preview(q) = [l \in Layers |-> Preview(q)[l]]
  BY DEF Preview
<1> QED
  BY <1>1, <1>2

\* A preview of something takes something.
LEMMA PreviewTakes ==
  ASSUME TypeOK, NEW q \in 1 .. MaxQty, Enough(q)
  PROVE  {l \in Layers : Preview(q)[l] > 0} # {}
<1> DEFINE f == [l \in Layers |-> layer[l].remaining]
<1>1. Open \in SUBSET Layers
  BY DEF Open
<1>2. Open # {}
  <2> SUFFICES ASSUME Open = {} PROVE FALSE
    OBVIOUS
  <2>1. Remaining(Open) = 0
    BY SumEmpty DEF Remaining
  <2> QED
    BY <2>1 DEF Enough
<1>3. PICK l \in Open : \A m \in Open : l <= m
  BY <1>1, <1>2, FirstLayer
<1>4. OpenBefore(l) = {}
  <2>1. \A m \in Open : m \in Nat
    BY <1>1 DEF Layers
  <2> QED
    BY <1>3, <2>1 DEF OpenBefore
<1>5. Remaining(OpenBefore(l)) = 0
  BY <1>4, SumEmpty DEF Remaining
<1>6. l \in Layers /\ layer[l].remaining > 0 /\ q \in Nat /\ q > 0
  BY <1>1, <1>3 DEF Open
<1>7. Preview(q)[l] > 0
  BY <1>3, <1>5, <1>6, PreviewOf
<1> QED
  BY <1>6, <1>7

-----------------------------------------------------------------------------
(* Types.  A step of the flow is a step of pricing or an update, which       *)
(* unlinks draft receipts; the rest leaves the pricing alone.                *)

Unlinks == \E o \in Orders : receipt' = Relined(o) /\ UNCHANGED <<scenario, order, run, latest, layer, taken, request>>
PricingNext == Next \/ Unlinks

LEMMA FlowSteps == [FlowNext]_allVars => [PricingNext]_vars
<1> SUFFICES ASSUME [FlowNext]_allVars PROVE [PricingNext]_vars
  OBVIOUS
<1>1. CASE UNCHANGED allVars
  BY <1>1 DEF allVars
<1>2. CASE OrderFlowStep
  BY <1>2 DEF OrderFlowStep, Create, Update, GenerateDocument, CreateAdjustment, CreatePaymentRequest,
              PricingNext, Next, Unlinks, vars
<1>3. CASE PaymentStep
  BY <1>3 DEF PaymentStep, CreateBankInstruction, MatchBankInstruction, CreateBatch, MarkSent, MatchItem
<1>4. CASE PricingStep
  BY <1>4 DEF PricingStep, PricingNext, Next
<1> QED
  BY <1>1, <1>2, <1>3, <1>4 DEF FlowNext

\* A request that ends, while receipts keep their orders.
LEMMA BecomeIdle ==
  ASSUME TypeInv, NEW r \in Users, Become(r, Idle), \A x \in Receipts : receipt'[x].order = receipt[x].order
  PROVE  request' \in [Users -> RequestRow] /\ RequestsKnow' /\ HandledHaveOrders'
<1>1. /\ request' \in [Users -> RequestRow] /\ RequestsKnow' /\ request'[r] = Idle
      /\ \A q \in Users \ {r} : request'[q] = request[q]
  BY BecomeType, IdleType
<1>2. ASSUME NEW q \in Users \ {r}, request'[q].pc \in {"confirm", "confirmOrder", "void"}
      PROVE  receipt'[request'[q].receipt].order \in Orders
  BY <1>1, <1>2 DEF TypeInv, RequestsKnow, Knows, HandledHaveOrders, Handled
<1>3. HandledHaveOrders'
  BY <1>1, <1>2 DEF HandledHaveOrders, Handled, Idle
<1> QED
  BY <1>1, <1>3

\* A request that becomes a row of its shape, and nothing else.
LEMMA OnlyRequest ==
  ASSUME TypeInv, NEW r \in Users, NEW req \in RequestRow, Knows(req), Handled(req), Become(r, req),
         UNCHANGED <<scenario, order, receipt, run, latest, layer, taken>>
  PROVE  TypeInv'
<1>1. request' \in [Users -> RequestRow] /\ RequestsKnow'
  BY BecomeType
<1>2. TypeOK'
  BY <1>1, Types, TypesNext DEF TypeInv
<1>3. ReceiptsHaveOrders' /\ HandledHaveOrders'
  BY BecomeType DEF TypeInv, ReceiptsHaveOrders, HandledHaveOrders, Handled
<1> QED
  BY <1>1, <1>2, <1>3 DEF TypeInv

LEMMA OrderTypes ==
  ASSUME TypeInv, NEW r \in Users, OrderStep(r)
  PROVE  TypeInv'
<1>0. TypeOK /\ request[r] \in RequestRow /\ Knows(request[r])
  BY Types DEF TypeInv, RequestsKnow
<1>1. ASSUME NEW o \in Orders, NEW to \in {"APPROVED", "CANCELLED", "COMPLETED"}, CheckOrder(r, o, to)
      PROVE  TypeInv'
  <2> DEFINE req == [Idle EXCEPT !.pc = "setOrder", !.order = o, !.to = to]
  <2>1. req \in RequestRow /\ Knows(req) /\ Handled(req)
    BY IdleType DEF RequestRow, Pcs, OrderStatus, Knows, Handled, StagePcs, ConsumePcs
  <2>2. Become(r, req) /\ UNCHANGED <<scenario, order, receipt, run, latest, layer, taken>>
    BY <1>1 DEF CheckOrder
  <2> HIDE DEF req
  <2> QED
    BY <2>1, <2>2, OnlyRequest
<1>3. ASSUME NEW o \in Orders, ApproveAny(r, o) PROVE TypeInv'
  <2> DEFINE req == [Idle EXCEPT !.pc = "setOrder", !.order = o, !.to = "APPROVED"]
  <2>1. req \in RequestRow /\ Knows(req) /\ Handled(req)
    BY IdleType DEF RequestRow, Pcs, OrderStatus, Knows, Handled, StagePcs, ConsumePcs
  <2>2. Become(r, req) /\ UNCHANGED <<scenario, order, receipt, run, latest, layer, taken>>
    BY <1>3 DEF ApproveAny
  <2> HIDE DEF req
  <2> QED
    BY <2>1, <2>2, OnlyRequest
<1>2. CASE SetOrder(r)
  <2>1. Become(r, Idle) /\ UNCHANGED <<scenario, receipt, run, latest, layer, taken>>
    BY <1>2 DEF SetOrder
  <2>2. order' \in [Orders -> OrderStatus]
    BY <1>0, <1>2, Types DEF SetOrder, Knows, OrderStatus
  <2>3. request' \in [Users -> RequestRow] /\ RequestsKnow' /\ HandledHaveOrders'
    BY <2>1, BecomeIdle
  <2> QED
    BY <1>0, <2>1, <2>2, <2>3, Types, TypesNext DEF TypeInv, ReceiptsHaveOrders
<1> QED
  BY <1>1, <1>2, <1>3 DEF OrderStep

LEMMA ReceiptTypes ==
  ASSUME TypeInv, NEW r \in Users, ReceiptStep(r)
  PROVE  TypeInv'
<1>0. /\ TypeOK /\ request[r] \in RequestRow /\ Knows(request[r]) /\ Handled(request[r])
      /\ receipt \in [Receipts -> ReceiptRow]
  BY Types DEF TypeInv, RequestsKnow, HandledHaveOrders
<1>1. ASSUME NEW x \in Receipts, ConfirmRead(r, x) PROVE TypeInv'
  <2> DEFINE req == [Idle EXCEPT !.pc = "confirm", !.receipt = x, !.order = receipt[x].order]
  <2>1. receipt[x].order \in Orders
    BY <1>1 DEF ConfirmRead, TypeInv, ReceiptsHaveOrders
  <2>2. req \in RequestRow /\ Knows(req) /\ req.receipt = x
    BY <2>1, IdleType DEF RequestRow, Pcs, Knows, StagePcs, ConsumePcs
  <2>3. Become(r, req) /\ UNCHANGED <<scenario, order, receipt, run, latest, layer, taken>>
    BY <1>1 DEF ConfirmRead
  <2> HIDE DEF req
  <2> QED
    BY <2>1, <2>2, <2>3, OnlyRequest DEF Handled
<1>2. CASE ConfirmReadOrder(r)
  <2> DEFINE req == [request[r] EXCEPT !.pc = "confirmOrder", !.to = order[request[r].order]]
  <2>1. /\ request[r].order \in Orders /\ request[r].receipt \in Receipts
        /\ receipt[request[r].receipt].order \in Orders
    BY <1>0, <1>2 DEF ConfirmReadOrder, Knows, Handled
  <2>2. order[request[r].order] \in OrderStatus
    BY <1>0, <2>1, Types
  <2>3. req \in RequestRow /\ Knows(req) /\ req.receipt = request[r].receipt
    BY <1>0, <2>1, <2>2 DEF RequestRow, Pcs, Knows, StagePcs, ConsumePcs
  <2>4. Become(r, req) /\ UNCHANGED <<scenario, order, receipt, run, latest, layer, taken>>
    BY <1>2 DEF ConfirmReadOrder
  <2> HIDE DEF req
  <2> QED
    BY <2>1, <2>3, <2>4, OnlyRequest DEF Handled
<1>3. CASE ConfirmCommit(r)
  <2>1. Become(r, Idle) /\ UNCHANGED <<scenario, run, latest, layer, taken>>
    BY <1>3 DEF ConfirmCommit
  <2>2. order' \in [Orders -> OrderStatus]
    BY <1>0, <1>3, Types DEF ConfirmCommit, OrderStatus
  <2>3. /\ receipt' \in [Receipts -> ReceiptRow]
        /\ \A x \in Receipts : receipt'[x].order = receipt[x].order
        /\ \A x \in Receipts : receipt'[x] = receipt[x] \/ x = request[r].receipt
    BY <1>0, <1>3 DEF ConfirmCommit, ReceiptRow
  <2>4. request' \in [Users -> RequestRow] /\ RequestsKnow' /\ HandledHaveOrders'
    BY <2>1, <2>3, BecomeIdle
  <2>5. receipt[request[r].receipt].order \in Orders
    BY <1>0, <1>3 DEF ConfirmCommit, Handled
  <2>6. ReceiptsHaveOrders'
    BY <2>3, <2>5 DEF TypeInv, ReceiptsHaveOrders
  <2> QED
    BY <1>0, <2>1, <2>2, <2>3, <2>4, <2>6, Types, TypesNext DEF TypeInv
<1>4. ASSUME NEW x \in Receipts, VoidRead(r, x) PROVE TypeInv'
  <2> DEFINE req == [Idle EXCEPT !.pc = "void", !.receipt = x]
  <2>1. receipt[x].order \in Orders
    BY <1>4 DEF VoidRead, TypeInv, ReceiptsHaveOrders
  <2>2. req \in RequestRow /\ Knows(req) /\ req.receipt = x
    BY <2>1, IdleType DEF RequestRow, Pcs, Knows, StagePcs, ConsumePcs
  <2>3. Become(r, req) /\ UNCHANGED <<scenario, order, receipt, run, latest, layer, taken>>
    BY <1>4 DEF VoidRead
  <2> HIDE DEF req
  <2> QED
    BY <2>1, <2>2, <2>3, OnlyRequest DEF Handled
<1>5. CASE VoidWrite(r)
  <2>1. Become(r, Idle) /\ UNCHANGED <<scenario, order, run, latest, layer, taken>>
    BY <1>5 DEF VoidWrite
  <2>3. /\ receipt' \in [Receipts -> ReceiptRow]
        /\ \A x \in Receipts : receipt'[x].order = receipt[x].order
        /\ \A x \in Receipts : receipt'[x] = receipt[x] \/ x = request[r].receipt
    BY <1>0, <1>5 DEF VoidWrite, ReceiptRow
  <2>4. request' \in [Users -> RequestRow] /\ RequestsKnow' /\ HandledHaveOrders'
    BY <2>1, <2>3, BecomeIdle
  <2>5. receipt[request[r].receipt].order \in Orders
    BY <1>0, <1>5 DEF VoidWrite, Handled
  <2>6. ReceiptsHaveOrders'
    BY <2>3, <2>5 DEF TypeInv, ReceiptsHaveOrders
  <2> QED
    BY <1>0, <2>1, <2>3, <2>4, <2>6, Types, TypesNext DEF TypeInv
<1> QED
  BY <1>1, <1>2, <1>3, <1>4, <1>5 DEF ReceiptStep

LEMMA RowTypes ==
  ASSUME TypeInv, \/ Unlinks
         \/ \E o \in Orders : CreateOrder(o) \/ \E x \in Receipts : CreateReceipt(x, o)
  PROVE  TypeInv'
<1>0. TypeOK /\ receipt \in [Receipts -> ReceiptRow]
  BY Types DEF TypeInv
<1>3. ASSUME NEW o \in Orders, CreateOrder(o) PROVE TypeInv'
  <2>1. order' \in [Orders -> OrderStatus]
    BY <1>0, <1>3, Types DEF CreateOrder, OrderStatus
  <2>2. UNCHANGED <<scenario, receipt, run, latest, layer, taken, request>>
    BY <1>3 DEF CreateOrder
  <2> QED
    BY <1>0, <2>1, <2>2, Types, TypesNext 
       DEF TypeInv, ReceiptsHaveOrders, RequestsKnow, HandledHaveOrders, Handled
\* Rows that are added or unlinked.
<1>6. ASSUME receipt' \in [Receipts -> ReceiptRow],
             \A x \in Receipts : receipt'[x].order = receipt[x].order \/ receipt'[x].order \in Orders,
             \A x \in Receipts : receipt'[x].status = "ABSENT" \/ receipt[x].status # "ABSENT"
                                 \/ receipt'[x].order \in Orders,
             UNCHANGED <<scenario, order, run, latest, layer, taken, request>>
      PROVE  TypeInv'
  <2>1. ReceiptsHaveOrders'
    BY <1>6 DEF TypeInv, ReceiptsHaveOrders
  <2>2. HandledHaveOrders'
    BY <1>6 DEF TypeInv, HandledHaveOrders, Handled, RequestsKnow, Knows
  <2>3. RequestsKnow'
    BY <1>6 DEF TypeInv, RequestsKnow
  <2> QED
    BY <1>0, <1>6, <2>1, <2>2, <2>3, Types, TypesNext DEF TypeInv
<1>7. ASSUME NEW x \in Receipts, NEW o \in Orders, CreateReceipt(x, o) PROVE TypeInv'
  BY <1>0, <1>6, <1>7 DEF CreateReceipt, ReceiptRow
<1>8. CASE Unlinks
  <2>1. PICK o \in Orders : receipt' = Relined(o)
    BY <1>8 DEF Unlinks
  <2>2. /\ receipt' \in [Receipts -> ReceiptRow]
        /\ \A x \in Receipts : receipt'[x].order = receipt[x].order
        /\ \A x \in Receipts : receipt'[x].status = "ABSENT" \/ receipt[x].status # "ABSENT"
    BY <1>0, <2>1 DEF Relined, ReceiptRow
  <2> QED
    BY <1>6, <1>8, <2>2 DEF Unlinks
<1> QED
  BY <1>3, <1>7, <1>8

LEMMA CommitTypes ==
  ASSUME TypeInv, NEW r \in Users, CommitStage(r)
  PROVE  TypeInv'
<1>0. /\ TypeOK /\ request[r] \in RequestRow /\ request[r].order \in Orders /\ request[r].qty \in 0 .. MaxQty
      /\ request[r].type \in StageTypes
  BY Types DEF TypeInv, RequestsKnow, Knows, CommitStage, StagePcs, RequestRow
<1>1. PICK k \in Runs :
        /\ IF request[r].run # None
           THEN k = request[r].run /\ latest' = latest
           ELSE /\ run[k].order = None
                /\ \E first \in {latest[request[r].order], k} \ {None} :
                        latest' = [latest EXCEPT ![request[r].order] = first]
        /\ run' = [run EXCEPT ![k] = StageRow(r, k)]
        /\ LET adds == request[r].type = "FINAL" /\ request[r].qty > 0
               next == 1 + Cardinality({l \in Layers : layer[l].status # "ABSENT"})
           IN /\ adds => next <= scenario.layers
              /\ layer' = [l \in Layers |->
                            IF l \in request[r].gone THEN [layer[l] EXCEPT !.status = "DELETED"]
                            ELSE IF adds /\ l = next THEN NewLayer(k, request[r].qty)
                            ELSE layer[l]]
  BY DEF CommitStage
<1>2. latest' \in [Orders -> Runs \cup {None}]
  BY <1>0, <1>1, Types
<1>3. run' \in [Runs -> RunRow]
  <2>1. StageRow(r, k) \in RunRow
    <3>1. StatusOf(request[r].type) \in RunStatus
      BY <1>0 DEF StatusOf, RunStatus, StageTypes
    <3>2. [run[k].stage EXCEPT ![request[r].type] = request[r].qty] \in [StageTypes -> 0 .. MaxQty \cup {None}]
      BY <1>0, Types DEF RunRow
    <3> QED
      BY <1>0, <3>1, <3>2 DEF StageRow, RunRow
  <2> QED
    BY <1>0, <1>1, <2>1, Types
<1>4. layer' \in [Layers -> LayerRow]
  <2>1. NewLayer(k, request[r].qty) \in LayerRow
    BY <1>0 DEF NewLayer, LayerRow, LayerStatus
  <2>2. \A l \in Layers : layer[l] \in LayerRow /\ [layer[l] EXCEPT !.status = "DELETED"] \in LayerRow
    BY <1>0, Types DEF LayerRow, LayerStatus
  <2>3. \A l \in Layers : layer'[l] \in {layer[l], [layer[l] EXCEPT !.status = "DELETED"], NewLayer(k, request[r].qty)}
    BY <1>1
  <2>4. layer' = [l \in Layers |-> layer'[l]]
    BY <1>1
  <2> QED
    BY <2>1, <2>2, <2>3, <2>4
<1>5. /\ UNCHANGED <<scenario, order, receipt, taken>>
      /\ request' = [q \in Users |-> IF q = r \/ SameStage(q, r) THEN Idle ELSE request[q]]
  BY DEF CommitStage
<1>6. request' \in [Users -> RequestRow] /\ RequestsKnow' /\ HandledHaveOrders'
  BY <1>0, <1>5, Types, IdleType DEF TypeInv, RequestsKnow, HandledHaveOrders, Handled, Idle
<1>7. ReceiptsHaveOrders'
  BY <1>5 DEF TypeInv, ReceiptsHaveOrders
<1> QED
  BY <1>0, <1>2, <1>3, <1>4, <1>5, <1>6, <1>7, Types, TypesNext DEF TypeInv

LEMMA StageTypesStep ==
  ASSUME TypeInv, NEW r \in Users, StageStep(r) \/ Abort(r)
  PROVE  TypeInv'
<1>0. /\ TypeOK /\ request[r] \in RequestRow /\ Knows(request[r])
      /\ latest \in [Orders -> Runs \cup {None}]
  BY Types DEF TypeInv, RequestsKnow
<1>1. ASSUME NEW o \in Orders, NEW t \in StageTypes, NEW q \in LineQtys(t), CheckStage(r, o, t, q)
      PROVE  TypeInv'
  <2> DEFINE req == [Idle EXCEPT !.pc = "stageRun", !.order = o, !.type = t, !.qty = q]
  <2>1. q \in 0 .. MaxQty
    BY <1>0, ScenariosAssumption, Types DEF LineQtys
  <2>2. req \in RequestRow /\ Knows(req) /\ Handled(req)
    BY <2>1, IdleType DEF RequestRow, Pcs, Knows, Handled, StagePcs, ConsumePcs
  <2>3. Become(r, req) /\ UNCHANGED <<scenario, order, receipt, run, latest, layer, taken>>
    BY <1>1 DEF CheckStage
  <2> HIDE DEF req
  <2> QED
    BY <2>2, <2>3, OnlyRequest
<1>2. CASE ReadRun(r)
  <2> DEFINE req == [request[r] EXCEPT !.pc = IF request[r].type = "FINAL" THEN "stageLayers" ELSE "stageRead",
                                       !.run = latest[request[r].order]]
  <2>1. request[r].order \in Orders
    BY <1>0, <1>2 DEF ReadRun, Knows, StagePcs
  <2>2. req \in RequestRow /\ Knows(req) /\ Handled(req)
    BY <1>0, <2>1 DEF RequestRow, Pcs, Knows, Handled, StagePcs, ConsumePcs
  <2>3. Become(r, req) /\ UNCHANGED <<scenario, order, receipt, run, latest, layer, taken>>
    BY <1>2 DEF ReadRun
  <2> HIDE DEF req
  <2> QED
    BY <2>2, <2>3, OnlyRequest
<1>3. CASE SeeLayers(r)
  <2> DEFINE req == [request[r] EXCEPT !.pc = "stageDelete", !.gone = SeenLayers(request[r].run)]
  <2>1. request[r].order \in Orders
    BY <1>0, <1>3 DEF SeeLayers, Knows, StagePcs
  <2>2. req \in RequestRow /\ Knows(req) /\ Handled(req)
    BY <1>0, <2>1 DEF RequestRow, Pcs, Knows, Handled, StagePcs, ConsumePcs, SeenLayers, LiveOf
  <2>3. Become(r, req) /\ UNCHANGED <<scenario, order, receipt, run, latest, layer, taken>>
    BY <1>3 DEF SeeLayers
  <2> HIDE DEF req
  <2> QED
    BY <2>2, <2>3, OnlyRequest
<1>4. CASE DeleteLayers(r)
  <2> DEFINE live == {l \in request[r].gone : Live(l)}
             req == [request[r] EXCEPT !.pc = "stageRead", !.gone = live]
  <2>1. request[r].order \in Orders /\ live \in SUBSET Layers
    BY <1>0, <1>4 DEF DeleteLayers, Knows, StagePcs, RequestRow
  <2>3. Become(r, req) /\ UNCHANGED <<scenario, order, receipt, run, latest, layer, taken>>
    BY <1>4 DEF DeleteLayers
  <2> HIDE DEF live
  <2>2. req \in RequestRow /\ Knows(req) /\ Handled(req)
    BY <1>0, <2>1 DEF RequestRow, Pcs, Knows, Handled, StagePcs, ConsumePcs
  <2> HIDE DEF req
  <2> QED
    BY <2>2, <2>3, OnlyRequest
<1>5. CASE ReadStage(r)
  <2> DEFINE req == [request[r] EXCEPT !.pc = "stageCommit"]
  <2>1. request[r].order \in Orders
    BY <1>0, <1>5 DEF ReadStage, Knows, StagePcs
  <2>2. req \in RequestRow /\ Knows(req) /\ Handled(req)
    BY <1>0, <2>1 DEF RequestRow, Pcs, Knows, Handled, StagePcs, ConsumePcs
  <2>3. Become(r, req) /\ UNCHANGED <<scenario, order, receipt, run, latest, layer, taken>>
    BY <1>5 DEF ReadStage
  <2> HIDE DEF req
  <2> QED
    BY <2>2, <2>3, OnlyRequest
<1>6. CASE Abort(r)
  BY <1>6, OnlyRequest, IdleType DEF Abort, Handled, Idle
<1> QED
  BY <1>1, <1>2, <1>3, <1>4, <1>5, <1>6, CommitTypes DEF StageStep

\* The layer a consumption comes to, and what it does to it.
LEMMA ConsumeTypes ==
  ASSUME TypeInv, NEW r \in Users, ConsumeStep(r)
  PROVE  TypeInv'
<1>0. /\ TypeOK /\ request[r] \in RequestRow /\ Knows(request[r])
      /\ layer \in [Layers -> LayerRow] /\ taken \in [Layers -> Nat]
  BY Types DEF TypeInv, RequestsKnow
<1>1. ASSUME NEW q \in 1 .. MaxQty, ConsumePreview(r, q) PROVE TypeInv'
  <2> DEFINE want == Preview(q)
             todo == {l \in Layers : want[l] > 0}
             req == [Idle EXCEPT !.pc = "consumeRead", !.want = want, !.todo = todo]
  <2>1. q \in Nat /\ Enough(q)
    BY <1>1 DEF ConsumePreview
  <2>2. want \in [Layers -> 0 .. MaxQty] /\ todo \in SUBSET Layers /\ todo # {}
    BY <1>0, <2>1, PreviewType, PreviewTakes
  <2>3. Become(r, req) /\ UNCHANGED <<scenario, order, receipt, run, latest, layer, taken>>
    BY <1>1 DEF ConsumePreview
  <2> HIDE DEF want, todo
  <2>4. req \in RequestRow /\ Knows(req) /\ Handled(req)
    BY <2>2, IdleType DEF RequestRow, Pcs, Knows, Handled, StagePcs, ConsumePcs
  <2> HIDE DEF req
  <2> QED
    BY <2>3, <2>4, OnlyRequest
<1>a. request[r].pc \in ConsumePcs =>
          /\ Min(request[r].todo) \in request[r].todo
          /\ Min(request[r].todo) \in Layers
  BY <1>0, FirstLayer DEF Knows, RequestRow
<1>2. CASE ConsumeRead(r)
  <2>1. PICK l \in Layers : l = Min(request[r].todo)
    BY <1>a, <1>2 DEF ConsumeRead, ConsumePcs
  <2> DEFINE req == [request[r] EXCEPT !.pc = "consumeWrite", !.qty = layer[l].remaining - request[r].want[l]]
  <2>2. request[r].todo # {} /\ request[r].want[l] \in 0 .. MaxQty /\ layer[l].remaining \in 0 .. MaxQty
    BY <1>0, <1>2 DEF ConsumeRead, Knows, ConsumePcs, RequestRow, LayerRow
  <2>3. ASSUME StillThere(l, request[r].want[l])
        PROVE  req \in RequestRow /\ Knows(req) /\ Handled(req)
    <3>1. PICK n \in 0 .. MaxQty : n = layer[l].remaining - request[r].want[l]
      BY <2>2, <2>3 DEF StillThere
    <3> QED
      BY <1>0, <2>2, <3>1 DEF RequestRow, Pcs, Knows, Handled, StagePcs, ConsumePcs
  <2>4. Become(r, IF StillThere(l, request[r].want[l]) THEN req ELSE Idle)
    BY <1>2, <2>1 DEF ConsumeRead
  <2>5. UNCHANGED <<scenario, order, receipt, run, latest, layer, taken>>
    BY <1>2 DEF ConsumeRead
  <2> HIDE DEF req
  <2>6. Handled(Idle)
    BY DEF Handled, Idle
  <2> QED
    BY <2>3, <2>4, <2>5, <2>6, OnlyRequest, IdleType
<1>3. CASE ConsumeWrite(r)
  <2>1. PICK l \in Layers : l = Min(request[r].todo)
    BY <1>a, <1>3 DEF ConsumeWrite, ConsumePcs
  <2> DEFINE after == [request[r] EXCEPT !.pc = "consumeRead", !.todo = request[r].todo \ {l},
                                         !.left[l] = request[r].qty, !.qty = 0]
  <2>2. /\ after \in RequestRow /\ Handled(after) /\ after.todo = request[r].todo \ {l}
        /\ after.pc = "consumeRead" /\ after.left \in [Layers -> 0 .. MaxQty \cup {None}]
    <3>1. [request[r].left EXCEPT ![l] = request[r].qty] \in [Layers -> 0 .. MaxQty \cup {None}]
      BY <1>0 DEF RequestRow
    <3> DEFINE left == [request[r].left EXCEPT ![l] = request[r].qty]
    <3>2. after = [request[r] EXCEPT !.pc = "consumeRead", !.todo = request[r].todo \ {l}, !.left = left, !.qty = 0]
      BY <1>0 DEF RequestRow
    <3> HIDE DEF after, left
    <3>3. left \in [Layers -> 0 .. MaxQty \cup {None}]
      BY <3>1 DEF left
    <3>4. request[r].todo \ {l} \in SUBSET Layers /\ 0 \in 0 .. MaxQty /\ "consumeRead" \in Pcs
      BY <1>0 DEF RequestRow, Pcs
    <3>5. after \in RequestRow
      BY <1>0, <3>2, <3>3, <3>4 DEF RequestRow
    <3>6. after.pc = "consumeRead" /\ after.left = left /\ after.todo = request[r].todo \ {l}
      BY <1>0, <3>2 DEF RequestRow
    <3> QED
      BY <3>3, <3>5, <3>6 DEF Handled
  <2>3. IF ~Live(l)
        THEN Become(r, Idle) /\ UNCHANGED <<layer, taken>>
        ELSE IF after.todo # {}
        THEN Become(r, after) /\ UNCHANGED <<layer, taken>>
        ELSE /\ layer' = [m \in Layers |-> IF after.left[m] = None THEN layer[m] ELSE Used(m, after.left[m])]
             /\ taken' = [m \in Layers |-> taken[m] + request[r].want[m]]
             /\ Become(r, Idle)
    BY <1>3, <2>1 DEF ConsumeWrite
  <2>4. UNCHANGED <<scenario, order, receipt, run, latest>>
    BY <1>3 DEF ConsumeWrite
  <2> HIDE DEF after
  <2>5. Handled(Idle)
    BY DEF Handled, Idle
  <2>6. CASE ~Live(l)
    BY <2>3, <2>4, <2>5, <2>6, OnlyRequest, IdleType
  <2>7. CASE Live(l) /\ after.todo # {}
    <3>1. Knows(after)
      BY <2>2, <2>7 DEF Knows, StagePcs, ConsumePcs
    <3> QED
      BY <2>2, <2>3, <2>4, <2>7, <3>1, OnlyRequest
  <2>8. CASE Live(l) /\ after.todo = {}
    <3>1. ASSUME NEW m \in Layers, after.left[m] # None PROVE Used(m, after.left[m]) \in LayerRow
      <4>1. after.left[m] \in 0 .. MaxQty /\ layer[m] \in LayerRow
        BY <1>0, <2>2, <3>1
      <4> QED
        BY <4>1 DEF Used, LayerRow, LayerStatus
    <3>2. layer' \in [Layers -> LayerRow]
      BY <1>0, <2>3, <2>8, <3>1
    <3>3. taken' \in [Layers -> Nat]
      BY <1>0, <2>3, <2>8 DEF RequestRow
    <3>4. Become(r, Idle) /\ \A x \in Receipts : receipt'[x].order = receipt[x].order
      BY <2>3, <2>4, <2>8
    <3>5. request' \in [Users -> RequestRow] /\ RequestsKnow' /\ HandledHaveOrders'
      BY <3>4, BecomeIdle
    <3>6. ReceiptsHaveOrders'
      BY <2>4 DEF TypeInv, ReceiptsHaveOrders
    <3> QED
      BY <1>0, <2>4, <3>2, <3>3, <3>5, <3>6, Types, TypesNext DEF TypeInv
  <2> QED
    BY <2>6, <2>7, <2>8
<1> QED
  BY <1>1, <1>2, <1>3 DEF ConsumeStep

LEMMA TypeStep == TypeInv /\ [PricingNext]_vars => TypeInv'
<1> SUFFICES ASSUME TypeInv, [PricingNext]_vars PROVE TypeInv'
  OBVIOUS
<1>1. CASE UNCHANGED vars
  BY <1>1 DEF vars, TypeInv, TypeOK, RequestsKnow, ReceiptsHaveOrders, HandledHaveOrders, Handled
<1>2. CASE \E r \in Users : OrderStep(r) \/ ReceiptStep(r) \/ StageStep(r) \/ ConsumeStep(r) \/ Abort(r)
  BY <1>2, OrderTypes, ReceiptTypes, StageTypesStep, ConsumeTypes
<1>3. CASE Unlinks \/ \E o \in Orders : CreateOrder(o) \/ \E x \in Receipts : CreateReceipt(x, o)
  BY <1>3, RowTypes
<1> QED
  BY <1>1, <1>2, <1>3 DEF PricingNext, Next

-----------------------------------------------------------------------------
(* The order of the stages.                                                 *)

\* A run that is not there has no stages; the latest run of an order is its own.
RunsHaveOrders ==
    /\ \A k \in Runs : run[k].order = None => run[k].stage = NoStages
    /\ \A o \in Orders : latest[o] # None => run[latest[o]].order = o

\* What a stage needs to be there.
Prepared(o, t) ==
    /\ t = "BILL_NORMALIZE" => HasStage(o, "ESTIMATE")
    /\ t = "FINAL" => HasStage(o, "BILL_NORMALIZE")
    /\ t = "BOSS_SHEET" => HasStage(o, "FINAL")

\* What a request has found still holds when it writes.
CheckedOne(q) ==
    /\ q.pc \in StagePcs => Prepared(q.order, q.type)
    /\ q.pc \in StagePcs /\ q.run # None => run[q.run].order = q.order
    /\ q.pc \in {"setOrder", "confirmOrder"} /\ q.to = "APPROVED" => Founded(q.order)
    /\ q.pc = "setOrder" /\ q.to = "COMPLETED" => HasStage(q.order, "FINAL")
Checked == \A r \in Users : CheckedOne(request[r])

StageInv == RunsHaveOrders /\ Checked /\ StagesInOrder

\* A commit adds one stage and takes none away.
LEMMA CommitAdds ==
  ASSUME TypeInv, StageInv, NEW r \in Users, CommitStage(r)
  PROVE  /\ \A o \in Orders, t \in StageTypes : HasStage(o, t) => HasStage(o, t)'
         /\ \A o \in Orders, t \in StageTypes :
                HasStage(o, t)' => HasStage(o, t) \/ (o = request[r].order /\ t = request[r].type)
         /\ \A k \in Runs : run[k].order # None => run'[k].order = run[k].order
         /\ \A k \in Runs : run'[k].order = None => run'[k] = run[k]
         /\ \A o \in Orders : latest'[o] # None => run'[latest'[o]].order = o
<1>0. /\ TypeOK /\ request[r] \in RequestRow /\ request[r].order \in Orders /\ request[r].qty \in 0 .. MaxQty
      /\ request[r].type \in StageTypes /\ request[r].pc \in StagePcs
      /\ run \in [Runs -> RunRow] /\ latest \in [Orders -> Runs \cup {None}]
  BY Types DEF TypeInv, RequestsKnow, Knows, CommitStage, StagePcs, RequestRow
<1>1. PICK k \in Runs :
        /\ IF request[r].run # None
           THEN k = request[r].run /\ latest' = latest
           ELSE /\ run[k].order = None
                /\ \E first \in {latest[request[r].order], k} \ {None} :
                        latest' = [latest EXCEPT ![request[r].order] = first]
        /\ run' = [run EXCEPT ![k] = StageRow(r, k)]
  BY DEF CommitStage
<1>2. run[k].order \in {None, request[r].order}
  BY <1>0, <1>1 DEF StageInv, Checked, CheckedOne
<1>3. /\ run'[k].order = request[r].order
      /\ run'[k].stage[request[r].type] = request[r].qty
      /\ \A t \in StageTypes \ {request[r].type} : run'[k].stage[t] = run[k].stage[t]
      /\ \A j \in Runs \ {k} : run'[j] = run[j]
  BY <1>0, <1>1 DEF StageRow, RunRow
<1>4. run[k].order = None => \A t \in StageTypes : run[k].stage[t] = None
  BY DEF StageInv, RunsHaveOrders, NoStages
<1>5. ASSUME NEW o \in Orders, NEW t \in StageTypes, HasStage(o, t) PROVE HasStage(o, t)'
  <2>1. PICK j \in Runs : run[j].order = o /\ run[j].stage[t] # None
    BY <1>5 DEF HasStage
  <2>2. run'[j].order = o /\ run'[j].stage[t] # None
    BY <1>0, <1>2, <1>3, <2>1
  <2> QED
    BY <2>2 DEF HasStage
<1>6. ASSUME NEW o \in Orders, NEW t \in StageTypes, HasStage(o, t)'
      PROVE  HasStage(o, t) \/ (o = request[r].order /\ t = request[r].type)
  <2>1. PICK j \in Runs : run'[j].order = o /\ run'[j].stage[t] # None
    BY <1>6 DEF HasStage
  <2>2. CASE j # k
    BY <1>3, <2>1, <2>2 DEF HasStage
  <2>3. CASE j = k /\ t # request[r].type
    <3>1. run[k].stage[t] # None /\ run[k].order = o
      BY <1>2, <1>3, <1>4, <2>1, <2>3
    <3> QED
      BY <3>1 DEF HasStage
  <2> QED
    BY <1>3, <2>1, <2>2, <2>3
<1>7. \A j \in Runs : run[j].order # None => run'[j].order = run[j].order
  BY <1>2, <1>3
<1>8. \A j \in Runs : run'[j].order = None => run'[j] = run[j]
  BY <1>0, <1>3
<1>9. ASSUME NEW o \in Orders, latest'[o] # None PROVE run'[latest'[o]].order = o
  <2>1. CASE latest'[o] = latest[o]
    BY <1>0, <1>7, <1>9, <2>1 DEF StageInv, RunsHaveOrders
  <2>2. CASE latest'[o] # latest[o]
    BY <1>0, <1>1, <1>3, <2>2
  <2> QED
    BY <2>1, <2>2
<1> QED
  BY <1>5, <1>6, <1>7, <1>8, <1>9

LEMMA CommitStages ==
  ASSUME TypeInv, StageInv, NEW r \in Users, CommitStage(r)
  PROVE  StageInv'
<1>0. /\ TypeOK /\ request[r].order \in Orders /\ request[r].type \in StageTypes /\ request[r].pc \in StagePcs
      /\ order \in [Orders -> OrderStatus] /\ request \in [Users -> RequestRow]
  BY Types DEF TypeInv, RequestsKnow, Knows, CommitStage, StagePcs, RequestRow
<1>1. /\ order' = order /\ scenario' = scenario
      /\ request' = [q \in Users |-> IF q = r \/ SameStage(q, r) THEN Idle ELSE request[q]]
  BY DEF CommitStage
<1>2. \A t \in StageTypes : t = request[r].type => Prepared(request[r].order, t)
  BY <1>0 DEF StageInv, Checked, CheckedOne
<1>3. RunsHaveOrders'
  BY CommitAdds DEF StageInv, RunsHaveOrders
<1>4. Checked'
  <2> SUFFICES ASSUME NEW q \in Users, request'[q].pc # "idle" PROVE CheckedOne(request[q])'
    BY DEF Checked, CheckedOne, StagePcs
  <2>1. request'[q] = request[q]
    BY <1>1 DEF Idle
  <2>2. CheckedOne(request[q]) /\ request[q] \in RequestRow /\ Knows(request[q])
    BY <1>0 DEF StageInv, Checked, TypeInv, RequestsKnow
  <2>3. ASSUME NEW o \in Orders, NEW t \in StageTypes, Prepared(o, t) PROVE Prepared(o, t)'
    BY <2>3, CommitAdds DEF Prepared, StageTypes
  <2>4. request[q].pc \in StagePcs => Prepared(request[q].order, request[q].type)'
    BY <2>1, <2>2, <2>3 DEF CheckedOne, Knows, RequestRow
  <2>5. request[q].pc \in StagePcs /\ request[q].run # None => run'[request[q].run].order = request[q].order
    BY <2>2, CommitAdds DEF CheckedOne, Knows, RequestRow
  <2>6. ASSUME request[q].pc \in {"setOrder", "confirmOrder"}, NEW t \in StageTypes, HasStage(request[q].order, t)
        PROVE  HasStage(request[q].order, t)'
    <3>1. PICK o \in Orders : o = request[q].order
      BY <2>2, <2>6 DEF Knows
    <3>2. HasStage(o, t)'
      BY <2>6, <3>1, CommitAdds
    <3> QED
      BY <2>1, <3>1, <3>2 DEF HasStage
  <2>7. /\ request[q].pc \in {"setOrder", "confirmOrder"} /\ request[q].to = "APPROVED" =>
               Founded(request[q].order)'
        /\ request[q].pc = "setOrder" /\ request[q].to = "COMPLETED" => HasStage(request[q].order, "FINAL")'
    BY <1>1, <2>2, <2>6 DEF CheckedOne, StageTypes, Founded
  <2> QED
    BY <2>1, <2>4, <2>5, <2>7 DEF CheckedOne
<1>5. StagesInOrder'
  <2> SUFFICES ASSUME NEW o \in Orders
               PROVE  /\ (HasStage(o, "BOSS_SHEET") => HasStage(o, "FINAL"))'
                      /\ (HasStage(o, "FINAL") => HasStage(o, "BILL_NORMALIZE"))'
                      /\ (HasStage(o, "BILL_NORMALIZE") => HasStage(o, "ESTIMATE"))'
                      /\ (order[o] \in {"APPROVED", "IN_PROGRESS", "COMPLETED"} => Founded(o))'
                      /\ (order[o] = "COMPLETED" => HasStage(o, "FINAL"))'
    BY DEF StagesInOrder
  <2>1. /\ HasStage(o, "BOSS_SHEET") => HasStage(o, "FINAL")
        /\ HasStage(o, "FINAL") => HasStage(o, "BILL_NORMALIZE")
        /\ HasStage(o, "BILL_NORMALIZE") => HasStage(o, "ESTIMATE")
        /\ order[o] \in {"APPROVED", "IN_PROGRESS", "COMPLETED"} => Founded(o)
        /\ order[o] = "COMPLETED" => HasStage(o, "FINAL")
    BY DEF StageInv, StagesInOrder
  <2>2. \A t \in StageTypes : /\ HasStage(o, t) => HasStage(o, t)'
                              /\ HasStage(o, t)' => HasStage(o, t) \/ (o = request[r].order /\ t = request[r].type)
    BY CommitAdds
  <2> QED
    BY <1>1, <1>2, <2>1, <2>2 DEF Prepared, StageTypes, Founded
<1> QED
  BY <1>3, <1>4, <1>5 DEF StageInv

\* A step that adds no stage.
LEMMA OtherStages ==
  ASSUME TypeInv, StageInv, UNCHANGED <<scenario, run, latest>>,
         \A r \in Users : request'[r] = request[r] \/ CheckedOne(request'[r]),
         \A o \in Orders : order'[o] = order[o] \/ order'[o] \in {"DRAFT", "CANCELLED"}
                           \/ (order'[o] \in {"APPROVED", "IN_PROGRESS"} /\ Founded(o))
                           \/ (order'[o] = "COMPLETED" /\ HasStage(o, "FINAL"))
  PROVE  StageInv'
<1>1. /\ \A o, t : HasStage(o, t)' = HasStage(o, t)
      /\ \A o : Founded(o)' = Founded(o)
  BY DEF HasStage, Founded
<1>2. \A o, t : Prepared(o, t)' = Prepared(o, t)
  BY <1>1 DEF Prepared
<1>3. RunsHaveOrders'
  BY DEF StageInv, RunsHaveOrders
<1>4. \A q : (CheckedOne(q) => /\ q.pc \in StagePcs => Prepared(q.order, q.type)'
                               /\ q.pc \in StagePcs /\ q.run # None => run'[q.run].order = q.order
                               /\ q.pc \in {"setOrder", "confirmOrder"} /\ q.to = "APPROVED" => Founded(q.order)'
                               /\ q.pc = "setOrder" /\ q.to = "COMPLETED" => HasStage(q.order, "FINAL")')
  BY <1>1, <1>2 DEF CheckedOne
<1>5. ASSUME NEW r \in Users PROVE CheckedOne(request[r])'
  <2>1. CheckedOne(request'[r])
    BY DEF StageInv, Checked
  <2> QED
    BY <1>4, <2>1 DEF CheckedOne
<1>6. StagesInOrder'
  <2>1. ASSUME NEW o \in Orders
        PROVE  /\ HasStage(o, "BOSS_SHEET") => HasStage(o, "FINAL")
               /\ HasStage(o, "FINAL") => HasStage(o, "BILL_NORMALIZE")
               /\ HasStage(o, "BILL_NORMALIZE") => HasStage(o, "ESTIMATE")
               /\ order'[o] \in {"APPROVED", "IN_PROGRESS", "COMPLETED"} => Founded(o)
               /\ order'[o] = "COMPLETED" => HasStage(o, "FINAL")
    BY DEF StageInv, StagesInOrder, Founded
  <2> QED
    BY <1>1, <2>1 DEF StagesInOrder
<1> QED
  BY <1>3, <1>5, <1>6 DEF StageInv, Checked

\* A step in which one request goes on or ends, and nothing else.
LEMMA OnlyChecked ==
  ASSUME TypeInv, StageInv, NEW r \in Users, NEW req, CheckedOne(req), Become(r, req),
         UNCHANGED <<scenario, order, run, latest>>
  PROVE  StageInv'
<1>1. \A q \in Users : request'[q] = request[q] \/ CheckedOne(request'[q])
  BY Types DEF TypeInv, Become
<1> QED
  BY <1>1, OtherStages

LEMMA OrderStages ==
  ASSUME TypeInv, StageInv, NEW r \in Users, OrderStep(r)
  PROVE  StageInv'
<1>1. ASSUME NEW o \in Orders, NEW to \in {"APPROVED", "CANCELLED", "COMPLETED"}, CheckOrder(r, o, to)
      PROVE  StageInv'
  <2> DEFINE req == [Idle EXCEPT !.pc = "setOrder", !.order = o, !.to = to]
  <2>1. /\ to = "APPROVED" => Founded(o)
        /\ to = "COMPLETED" => HasStage(o, "FINAL")
    BY <1>1 DEF CheckOrder, Approvable, Completable, Founded
  <2>2. CheckedOne(req)
    BY <2>1 DEF CheckedOne, StagePcs, Idle
  <2>3. Become(r, req) /\ UNCHANGED <<scenario, order, run, latest>>
    BY <1>1 DEF CheckOrder
  <2> HIDE DEF req
  <2> QED
    BY <2>2, <2>3, OnlyChecked
<1>3. ASSUME NEW o \in Orders, ApproveAny(r, o) PROVE StageInv'
  <2> DEFINE req == [Idle EXCEPT !.pc = "setOrder", !.order = o, !.to = "APPROVED"]
  <2>1. Founded(o)
    BY <1>3 DEF ApproveAny, Caller, Founded
  <2>2. CheckedOne(req)
    BY <2>1 DEF CheckedOne, StagePcs, Idle
  <2>3. Become(r, req) /\ UNCHANGED <<scenario, order, run, latest>>
    BY <1>3 DEF ApproveAny
  <2> HIDE DEF req
  <2> QED
    BY <2>2, <2>3, OnlyChecked
<1>2. CASE SetOrder(r)
  <2>1. /\ UNCHANGED <<scenario, run, latest>> /\ request \in [Users -> RequestRow] /\ order \in [Orders -> OrderStatus]
        /\ order' = [order EXCEPT ![request[r].order] = request[r].to]
        /\ request' = [request EXCEPT ![r] = Idle]
    BY <1>2, Types DEF SetOrder, Become, TypeInv
  <2>2. \A q \in Users : request'[q] = request[q] \/ CheckedOne(request'[q])
    BY <2>1 DEF CheckedOne, StagePcs, Idle
  <2>3. /\ request[r].pc = "setOrder" /\ request[r].to \in {"APPROVED", "CANCELLED", "COMPLETED"}
        /\ request[r].to = "APPROVED" => Founded(request[r].order)
        /\ request[r].to = "COMPLETED" => HasStage(request[r].order, "FINAL")
    BY <1>2 DEF SetOrder, TypeInv, RequestsKnow, Knows, StageInv, Checked, CheckedOne
  <2>4. \A o \in Orders : order'[o] = order[o] \/ (o = request[r].order /\ order'[o] = request[r].to)
    BY <2>1
  <2> QED
    BY <2>1, <2>2, <2>3, <2>4, OtherStages
<1> QED
  BY <1>1, <1>2, <1>3 DEF OrderStep

LEMMA ReceiptStages ==
  ASSUME TypeInv, StageInv, NEW r \in Users, ReceiptStep(r)
  PROVE  StageInv'
<1>0. CheckedOne(Idle)
  BY DEF CheckedOne, StagePcs, Idle
<1>1. ASSUME NEW x \in Receipts, ConfirmRead(r, x) PROVE StageInv'
  <2> DEFINE req == [Idle EXCEPT !.pc = "confirm", !.receipt = x, !.order = receipt[x].order]
  <2>1. CheckedOne(req)
    BY DEF CheckedOne, StagePcs, Idle
  <2>2. Become(r, req) /\ UNCHANGED <<scenario, order, run, latest>>
    BY <1>1 DEF ConfirmRead
  <2> HIDE DEF req
  <2> QED
    BY <2>1, <2>2, OnlyChecked
<1>2. CASE ConfirmReadOrder(r)
  <2> DEFINE req == [request[r] EXCEPT !.pc = "confirmOrder", !.to = order[request[r].order]]
  <2>1. request[r].order \in Orders /\ request[r] \in RequestRow
    BY <1>2, Types DEF ConfirmReadOrder, TypeInv, RequestsKnow, Knows
  <2>2. order[request[r].order] = "APPROVED" => Founded(request[r].order)
    BY <2>1 DEF StageInv, StagesInOrder
  <2>3. req.pc = "confirmOrder" /\ req.to = order[request[r].order] /\ req.order = request[r].order
    BY <2>1 DEF RequestRow
  <2>4. Become(r, req) /\ UNCHANGED <<scenario, order, run, latest>>
    BY <1>2 DEF ConfirmReadOrder
  <2> HIDE DEF req
  <2>5. CheckedOne(req)
    BY <2>2, <2>3 DEF CheckedOne, StagePcs
  <2> QED
    BY <2>4, <2>5, OnlyChecked
<1>3. CASE ConfirmCommit(r)
  <2>1. /\ UNCHANGED <<scenario, run, latest>> /\ request \in [Users -> RequestRow] /\ order \in [Orders -> OrderStatus]
        /\ request[r].pc = "confirmOrder"
        /\ order' = IF request[r].to = "APPROVED"
                    THEN [order EXCEPT ![request[r].order] = "IN_PROGRESS"]
                    ELSE order
        /\ request' = [request EXCEPT ![r] = Idle]
    BY <1>3, Types DEF ConfirmCommit, Become, TypeInv
  <2>2. \A q \in Users : request'[q] = request[q] \/ CheckedOne(request'[q])
    BY <1>0, <2>1
  <2>3. request[r].to = "APPROVED" => Founded(request[r].order)
    BY <2>1 DEF StageInv, Checked, CheckedOne
  <2>4. \A o \in Orders : order'[o] = order[o] \/ (o = request[r].order /\ request[r].to = "APPROVED"
                                                   /\ order'[o] = "IN_PROGRESS")
    BY <2>1
  <2> QED
    BY <2>1, <2>2, <2>3, <2>4, OtherStages
<1>4. ASSUME NEW x \in Receipts, VoidRead(r, x) PROVE StageInv'
  <2> DEFINE req == [Idle EXCEPT !.pc = "void", !.receipt = x]
  <2>1. CheckedOne(req)
    BY DEF CheckedOne, StagePcs, Idle
  <2>2. Become(r, req) /\ UNCHANGED <<scenario, order, run, latest>>
    BY <1>4 DEF VoidRead
  <2> HIDE DEF req
  <2> QED
    BY <2>1, <2>2, OnlyChecked
<1>5. CASE VoidWrite(r)
  <2>1. Become(r, Idle) /\ UNCHANGED <<scenario, order, run, latest>>
    BY <1>5 DEF VoidWrite
  <2> QED
    BY <1>0, <2>1, OnlyChecked
<1> QED
  BY <1>1, <1>2, <1>3, <1>4, <1>5 DEF ReceiptStep

LEMMA PricingStages ==
  ASSUME TypeInv, StageInv, NEW r \in Users, StageStep(r)
  PROVE  StageInv'
<1>0. /\ request[r] \in RequestRow /\ CheckedOne(request[r]) /\ Knows(request[r])
  BY Types DEF TypeInv, RequestsKnow, StageInv, Checked
<1>1. ASSUME NEW o \in Orders, NEW t \in StageTypes, NEW q \in LineQtys(t), CheckStage(r, o, t, q)
      PROVE  StageInv'
  <2> DEFINE req == [Idle EXCEPT !.pc = "stageRun", !.order = o, !.type = t, !.qty = q]
  <2>1. Prepared(o, t)
    BY <1>1 DEF CheckStage, ValidStage, Prepared
  <2>2. req.pc = "stageRun" /\ req.order = o /\ req.type = t /\ req.run = None
    BY DEF Idle
  <2>3. Become(r, req) /\ UNCHANGED <<scenario, order, run, latest>>
    BY <1>1 DEF CheckStage
  <2> HIDE DEF req
  <2>4. CheckedOne(req)
    BY <2>1, <2>2 DEF CheckedOne
  <2> QED
    BY <2>3, <2>4, OnlyChecked
<1>2. CASE ReadRun(r)
  <2> DEFINE req == [request[r] EXCEPT
                       !.pc = IF request[r].type = "FINAL" THEN "stageLayers" ELSE "stageRead",
                       !.run = latest[request[r].order]]
  <2>1. request[r].order \in Orders /\ Prepared(request[r].order, request[r].type)
    BY <1>0, <1>2 DEF ReadRun, Knows, CheckedOne, StagePcs
  <2>2. latest[request[r].order] # None => run[latest[request[r].order]].order = request[r].order
    BY <2>1 DEF StageInv, RunsHaveOrders
  <2>3. /\ req.pc \in {"stageLayers", "stageRead"} /\ req.run = latest[request[r].order]
        /\ req.order = request[r].order /\ req.type = request[r].type
    BY <1>0 DEF RequestRow
  <2>4. Become(r, req) /\ UNCHANGED <<scenario, order, run, latest>>
    BY <1>2 DEF ReadRun
  <2> HIDE DEF req
  <2>5. CheckedOne(req)
    BY <2>1, <2>2, <2>3 DEF CheckedOne
  <2> QED
    BY <2>4, <2>5, OnlyChecked
<1>3. ASSUME NEW req, request[r].pc \in StagePcs, Become(r, req), UNCHANGED <<scenario, order, run, latest>>,
             req.pc \in StagePcs, req.run = request[r].run, req.order = request[r].order, req.type = request[r].type
      PROVE  StageInv'
  <2>1. CheckedOne(req)
    BY <1>0, <1>3 DEF CheckedOne, StagePcs
  <2> QED
    BY <1>3, <2>1, OnlyChecked
<1>4. CASE SeeLayers(r) \/ DeleteLayers(r) \/ ReadStage(r)
  <2>1. PICK req : /\ Become(r, req)
                   /\ \E pc \in StagePcs :
                        \/ req = [request[r] EXCEPT !.pc = pc]
                        \/ \E gone : req = [request[r] EXCEPT !.pc = pc, !.gone = gone]
    BY <1>0, <1>4 DEF SeeLayers, DeleteLayers, ReadStage, StagePcs, RequestRow
  <2>2. req.pc \in StagePcs /\ req.run = request[r].run /\ req.order = request[r].order /\ req.type = request[r].type
    BY <1>0, <2>1 DEF RequestRow
  <2>3. request[r].pc \in StagePcs /\ UNCHANGED <<scenario, order, run, latest>>
    BY <1>4 DEF SeeLayers, DeleteLayers, ReadStage, StagePcs
  <2> QED
    BY <1>3, <2>1, <2>2, <2>3
<1>5. CASE CommitStage(r)
  BY <1>5, CommitStages
<1> QED
  BY <1>1, <1>2, <1>4, <1>5 DEF StageStep

LEMMA ConsumeStages ==
  ASSUME TypeInv, StageInv, NEW r \in Users, ConsumeStep(r)
  PROVE  StageInv'
<1>0. request[r] \in RequestRow /\ request \in [Users -> RequestRow]
  BY Types DEF TypeInv
<1>1. UNCHANGED <<scenario, order, run, latest>>
  BY DEF ConsumeStep, ConsumePreview, ConsumeRead, ConsumeWrite
<1>2. request'[r].pc \in {"idle", "consumeRead", "consumeWrite"} /\ \A q \in Users \ {r} : request'[q] = request[q]
  <2>1. ASSUME NEW q \in 1 .. MaxQty, ConsumePreview(r, q)
        PROVE  request'[r].pc = "consumeRead" /\ \A u \in Users \ {r} : request'[u] = request[u]
    BY <1>0, <2>1 DEF ConsumePreview, Become, Idle
  <2>2. ASSUME NEW req, NEW pc, req.pc = pc, Become(r, req)
        PROVE  request'[r].pc = pc /\ \A u \in Users \ {r} : request'[u] = request[u]
    BY <1>0, <2>2 DEF Become
  <2>3. Idle.pc = "idle"
    BY DEF Idle
  <2>4. CASE ConsumeRead(r)
    <3>1. PICK req : /\ Become(r, req) /\ req.pc \in {"idle", "consumeWrite"}
      <4>1. \A q : [request[r] EXCEPT !.pc = "consumeWrite", !.qty = q].pc = "consumeWrite"
        BY <1>0 DEF RequestRow
      <4> QED
        BY <2>3, <2>4, <4>1 DEF ConsumeRead
    <3> QED
      BY <2>2, <3>1
  <2>5. CASE ConsumeWrite(r)
    <3>1. PICK req : /\ Become(r, req) /\ req.pc \in {"idle", "consumeRead"}
      <4>1. \A l : [request[r] EXCEPT !.pc = "consumeRead", !.todo = @ \ {l},
                                      !.left[l] = request[r].qty, !.qty = 0].pc = "consumeRead"
        BY <1>0 DEF RequestRow
      <4> QED
        BY <2>3, <2>5, <4>1 DEF ConsumeWrite
    <3> QED
      BY <2>2, <3>1
  <2> QED
    BY <2>1, <2>4, <2>5 DEF ConsumeStep
<1>3. \A q \in Users : request'[q] = request[q] \/ CheckedOne(request'[q])
  BY <1>2 DEF CheckedOne, StagePcs
<1> QED
  BY <1>1, <1>3, OtherStages

LEMMA StagesStep == TypeInv /\ StageInv /\ [PricingNext]_vars => StageInv'
<1> SUFFICES ASSUME TypeInv, StageInv, [PricingNext]_vars PROVE StageInv'
  OBVIOUS
<1>1. CASE UNCHANGED vars
  BY <1>1, OtherStages DEF vars
<1>2. CASE \E r \in Users : OrderStep(r) \/ ReceiptStep(r) \/ StageStep(r) \/ ConsumeStep(r)
  BY <1>2, OrderStages, ReceiptStages, PricingStages, ConsumeStages
<1>3. ASSUME NEW r \in Users, Abort(r) PROVE StageInv'
  <2>1. Become(r, Idle) /\ UNCHANGED <<scenario, order, run, latest>> /\ CheckedOne(Idle)
    BY <1>3 DEF Abort, CheckedOne, StagePcs, Idle
  <2> QED
    BY <2>1, OnlyChecked
<1>4. ASSUME NEW o \in Orders, CreateOrder(o) PROVE StageInv'
  <2>1. UNCHANGED <<scenario, run, latest, request>> /\ \A p \in Orders : order'[p] = order[p] \/ order'[p] = "DRAFT"
    BY <1>4, Types DEF CreateOrder, TypeInv
  <2> QED
    BY <2>1, OtherStages
<1>5. CASE Unlinks \/ \E x \in Receipts, o \in Orders : CreateReceipt(x, o)
  <2>1. UNCHANGED <<scenario, order, run, latest, request>>
    BY <1>5 DEF Unlinks, CreateReceipt
  <2> QED
    BY <2>1, OtherStages
<1> QED
  BY <1>1, <1>2, <1>3, <1>4, <1>5 DEF PricingNext, Next

\* At first each billed order has its run and its confirmed receipt.
LEMMA Initially == Init => TypeInv /\ StageInv
<1> SUFFICES ASSUME Init PROVE TypeInv /\ StageInv
  OBVIOUS
<1>1. PICK runOf \in [scenario.billed -> Runs], receiptOf \in [scenario.billed -> Receipts] :
        /\ \A a, b \in scenario.billed : runOf[a] = runOf[b] => a = b
        /\ receipt = [x \in Receipts |->
              IF \E o \in scenario.billed : x = receiptOf[o]
              THEN [status |-> "CONFIRMED", order |-> CHOOSE o \in scenario.billed : x = receiptOf[o]]
              ELSE [status |-> "ABSENT", order |-> None]]
        /\ run = [k \in Runs |->
              IF \E o \in scenario.billed : k = runOf[o]
              THEN [order |-> CHOOSE o \in scenario.billed : k = runOf[o], status |-> "NORMALIZED",
                    stage |-> [NoStages EXCEPT !["ESTIMATE"] = 1, !["BILL_NORMALIZE"] = 1]]
              ELSE AbsentRun]
        /\ latest = [o \in Orders |-> IF o \in scenario.billed THEN runOf[o] ELSE None]
  BY DEF Init, Injection, IsInjective
<1>2. scenario \in Scenarios /\ scenario.billed \subseteq Orders
  BY ScenariosAssumption DEF Init
<1>3. /\ order = [o \in Orders |-> IF o \in scenario.billed THEN "IN_PROGRESS" ELSE "ABSENT"]
      /\ layer = [l \in Layers |-> AbsentLayer] /\ taken = [l \in Layers |-> 0]
      /\ request = [r \in Users |-> Idle]
  BY DEF Init
<1>4. receipt \in [Receipts -> ReceiptRow] /\ ReceiptsHaveOrders
  <2>1. ASSUME NEW x \in Receipts, \E o \in scenario.billed : x = receiptOf[o]
        PROVE  receipt[x].status = "CONFIRMED" /\ receipt[x].order \in Orders /\ receipt[x] \in ReceiptRow
    <3>1. PICK o \in scenario.billed : o = CHOOSE p \in scenario.billed : x = receiptOf[p]
      BY <2>1
    <3> QED
      BY <1>1, <1>2, <2>1, <3>1 DEF ReceiptRow
  <2>2. ASSUME NEW x \in Receipts, ~ \E o \in scenario.billed : x = receiptOf[o]
        PROVE  receipt[x].status = "ABSENT" /\ receipt[x] \in ReceiptRow
    BY <1>1, <2>2 DEF ReceiptRow
  <2> QED
    BY <1>1, <2>1, <2>2 DEF ReceiptsHaveOrders
<1>5. ASSUME NEW o \in scenario.billed
      PROVE  run[runOf[o]] = [order |-> o, status |-> "NORMALIZED",
                              stage |-> [NoStages EXCEPT !["ESTIMATE"] = 1, !["BILL_NORMALIZE"] = 1]]
  <2>1. (CHOOSE p \in scenario.billed : runOf[o] = runOf[p]) = o
    BY <1>1
  <2> QED
    BY <1>1, <2>1
<1> DEFINE billedStage == [NoStages EXCEPT !["ESTIMATE"] = 1, !["BILL_NORMALIZE"] = 1]
<1>6. \A k \in Runs : run[k] = AbsentRun \/ \E o \in scenario.billed : k = runOf[o]
  BY <1>1
<1>7. AbsentRun \in RunRow /\ AbsentRun.order = None /\ AbsentRun.stage = NoStages
  BY DEF AbsentRun, RunRow, RunStatus, NoStages
<1>t. /\ billedStage \in [StageTypes -> 0 .. MaxQty \cup {None}]
      /\ billedStage["ESTIMATE"] = 1 /\ billedStage["BILL_NORMALIZE"] = 1
      /\ billedStage["FINAL"] = None /\ billedStage["BOSS_SHEET"] = None
      /\ None # 1
  BY DEF NoStages, StageTypes
<1>u. \A o \in scenario.billed :
        /\ runOf[o] \in Runs /\ run[runOf[o]].order = o /\ run[runOf[o]].stage = billedStage
        /\ run[runOf[o]] = [order |-> o, status |-> "NORMALIZED", stage |-> billedStage]
  BY <1>1, <1>5
<1> HIDE DEF billedStage
<1>8. ASSUME NEW o \in Orders
      PROVE  [order |-> o, status |-> "NORMALIZED", stage |-> billedStage] \in RunRow
  BY <1>t DEF RunRow, RunStatus
<1>9. run \in [Runs -> RunRow]
  <2>1. ASSUME NEW o \in scenario.billed PROVE run[runOf[o]] \in RunRow
    <3>1. o \in Orders
      BY <1>2
    <3>2. [order |-> o, status |-> "NORMALIZED", stage |-> billedStage] \in RunRow
      BY <1>8, <3>1
    <3> QED
      BY <1>u, <3>2, Zenon
  <2>2. \A k \in Runs : run[k] \in RunRow
    BY <1>6, <1>7, <2>1
  <2> QED
    BY <1>1, <2>2
<1>10. latest \in [Orders -> Runs \cup {None}]
  BY <1>1
<1>11. TypeOK /\ RequestsKnow /\ HandledHaveOrders
  <2>1. order \in [Orders -> OrderStatus]
    BY <1>3 DEF OrderStatus
  <2>2. layer \in [Layers -> LayerRow] /\ taken \in [Layers -> Nat]
    BY <1>3 DEF AbsentLayer, LayerRow, LayerStatus
  <2>3. request \in [Users -> RequestRow] /\ RequestsKnow /\ HandledHaveOrders
    BY <1>3, IdleType DEF RequestsKnow, HandledHaveOrders, Handled, Idle
  <2> QED
    BY <1>2, <1>4, <1>9, <1>10, <2>1, <2>2, <2>3, Types
<1>12. RunsHaveOrders
  <2>1. ASSUME NEW k \in Runs, run[k].order = None PROVE run[k].stage = NoStages
    <3>1. \A o \in scenario.billed : run[runOf[o]].order # None
      BY <1>2, <1>u
    <3>2. run[k] = AbsentRun
      BY <1>6, <2>1, <3>1
    <3> QED
      BY <1>7, <3>2
  <2>2. \A o \in Orders : latest[o] # None => run[latest[o]].order = o
    BY <1>1, <1>5
  <2> QED
    BY <2>1, <2>2 DEF RunsHaveOrders
<1>13. Checked
  BY <1>3 DEF Checked, CheckedOne, Idle, StagePcs
<1>14. ASSUME NEW o \in Orders, NEW t \in StageTypes
       PROVE  HasStage(o, t) <=> (o \in scenario.billed /\ t \in {"ESTIMATE", "BILL_NORMALIZE"})
  <2>1. ASSUME HasStage(o, t) PROVE o \in scenario.billed /\ t \in {"ESTIMATE", "BILL_NORMALIZE"}
    <3>1. PICK k \in Runs : run[k].order = o /\ run[k].stage[t] # None
      BY <2>1 DEF HasStage
    <3>2. PICK p \in scenario.billed : k = runOf[p]
      BY <1>6, <1>7, <3>1 DEF NoStages
    <3> QED
      BY <1>t, <1>u, <3>1, <3>2 DEF StageTypes
  <2>2. ASSUME o \in scenario.billed, t \in {"ESTIMATE", "BILL_NORMALIZE"} PROVE HasStage(o, t)
    <3>1. run[runOf[o]].order = o /\ run[runOf[o]].stage[t] = 1
      BY <1>t, <1>u, <2>2
    <3>2. None # 1 /\ runOf[o] \in Runs
      BY <1>1, <2>2
    <3> QED
      BY <3>1, <3>2 DEF HasStage
  <2> QED
    BY <2>1, <2>2
<1>15. StagesInOrder
  BY <1>3, <1>14 DEF StagesInOrder, Founded, StageTypes
<1> QED
  BY <1>4, <1>11, <1>12, <1>13, <1>15 DEF TypeInv, StageInv

LEMMA PricingInvariant == FlowSpec => [](TypeInv /\ StageInv)
<1>1. FlowInit => TypeInv /\ StageInv
  BY Initially DEF FlowInit
<1>2. TypeInv /\ StageInv /\ [FlowNext]_allVars => (TypeInv /\ StageInv)'
  BY FlowSteps, TypeStep, StagesStep
<1> QED
  BY <1>1, <1>2, PTL DEF FlowSpec

\* Whatever requests overlap, every table of the pricing holds rows of its shape.
THEOREM TypeCorrect == FlowSpec => []TypeOK
<1>1. TypeInv /\ StageInv => TypeOK
  BY DEF TypeInv
<1> QED
  BY <1>1, PricingInvariant, PTL

\* Whatever documents, payments and pricings overlap, an order has each stage of its pricing only
\* with the stage before it and is completed only with a FINAL, and it is approved only with an
\* estimate where the ordinary approval is not called: createStage only ever replaces a stage, so
\* what a request has found is there when it writes.
THEOREM StagesInOrderCorrect == FlowSpec => []StagesInOrder
<1>1. TypeInv /\ StageInv => StagesInOrder
  BY DEF StageInv
<1> QED
  BY <1>1, PricingInvariant, PTL

-----------------------------------------------------------------------------
(* Payment requests, batches and items.                                     *)

FlowRow == [contract : BOOLEAN, type : FlowTypes, priced : BOOLEAN, document : BOOLEAN, adjusted : BOOLEAN]
PaymentRow == [status : PaymentStatus, order : Orders \cup {None}, amount : 0 .. MaxQty]
ItemRow == [status : ItemStatus \cup {"ABSENT"}, paid : 0 .. MaxQty]
FlowTables ==
    /\ flow \in [Orders -> FlowRow]
    /\ payment \in [PaymentRequests -> PaymentRow]
    /\ instruction \in [PaymentRequests -> {"ABSENT", "DRAFT", "SENT", "MATCHED"}]
    /\ batch \in [Batches -> BatchStatus]
    /\ item \in [Batches -> [PaymentRequests -> ItemRow]]

HasItem(b, p) == item[b][p].status # "ABSENT"
\* An order has one request, and a request has left SUBMITTED exactly when it is in a batch.
OnePayment ==
    \A p, q \in PaymentRequests :
        payment[p].status # "ABSENT" /\ payment[q].status # "ABSENT" /\ payment[p].order = payment[q].order => p = q
InOneBatch ==
    /\ \A b \in Batches, p \in PaymentRequests : HasItem(b, p) => batch[b] # "ABSENT"
    /\ \A p \in PaymentRequests :
        (\E b \in Batches : HasItem(b, p)) <=> payment[p].status \notin {"ABSENT", "SUBMITTED"}
    /\ \A b, c \in Batches, p \in PaymentRequests : HasItem(b, p) /\ HasItem(c, p) => b = c
PaidIsPaid ==
    /\ \A p \in PaymentRequests : payment[p].status = "PAID" => \E b \in Batches : item[b][p].status = "PAID"
    /\ \A b \in Batches, p \in PaymentRequests :
            batch[b] = "PAID" /\ item[b][p].status \in LiveItemStatus => item[b][p].status = "PAID"

PaymentInv == FlowTables /\ OnePayment /\ InOneBatch /\ PaidIsPaid

LEMMA CreateBatchStep ==
  ASSUME PaymentInv, NEW b \in Batches, NEW ps \in SUBSET PaymentRequests, CreateBatch(b, ps)
  PROVE  PaymentInv'
<1>1. /\ batch[b] = "ABSENT" /\ \A p \in ps : payment[p].status = "SUBMITTED"
      /\ batch' = [batch EXCEPT ![b] = "DRAFT"]
      /\ item' = [item EXCEPT ![b] = [p \in PaymentRequests |->
                     IF p \in ps THEN [status |-> "PENDING", paid |-> 0] ELSE AbsentItem]]
      /\ payment' = [p \in PaymentRequests |->
                     IF p \in ps THEN [payment[p] EXCEPT !.status = "IN_BATCH"] ELSE payment[p]]
      /\ UNCHANGED <<flow, instruction>>
  BY DEF CreateBatch, Batchable
<1>2. /\ payment \in [PaymentRequests -> PaymentRow] /\ batch \in [Batches -> BatchStatus]
      /\ item \in [Batches -> [PaymentRequests -> ItemRow]]
  BY DEF PaymentInv, FlowTables
<1>3. \A p \in PaymentRequests :
        /\ payment'[p] \in PaymentRow /\ payment'[p].order = payment[p].order
        /\ payment'[p].status = IF p \in ps THEN "IN_BATCH" ELSE payment[p].status
  BY <1>1, <1>2 DEF PaymentRow, PaymentStatus
<1>4. /\ \A c \in Batches \ {b} : item'[c] = item[c] /\ batch'[c] = batch[c]
      /\ batch'[b] = "DRAFT"
      /\ \A p \in PaymentRequests :
            /\ item'[b][p] = IF p \in ps THEN [status |-> "PENDING", paid |-> 0] ELSE AbsentItem
            /\ item'[b][p].status = IF p \in ps THEN "PENDING" ELSE "ABSENT"
            /\ item'[b][p] \in ItemRow
  BY <1>1, <1>2 DEF AbsentItem, ItemRow, ItemStatus
<1>5. FlowTables'
  <2>1. payment' \in [PaymentRequests -> PaymentRow]
    BY <1>1, <1>3
  <2>2. item'[b] \in [PaymentRequests -> ItemRow]
    BY <1>1, <1>2, <1>4
  <2>3. item' \in [Batches -> [PaymentRequests -> ItemRow]] /\ batch' \in [Batches -> BatchStatus]
    BY <1>1, <1>2, <1>4, <2>2 DEF BatchStatus
  <2> QED
    BY <1>1, <2>1, <2>3 DEF PaymentInv, FlowTables
<1>6. OnePayment'
  BY <1>1, <1>3 DEF PaymentInv, OnePayment
<1>7. InOneBatch'
  <2>1. \A c \in Batches, p \in PaymentRequests :
            HasItem(c, p)' <=> (c # b /\ HasItem(c, p)) \/ (c = b /\ p \in ps)
    BY <1>4 DEF HasItem
  <2>2. \A p \in PaymentRequests : ~HasItem(b, p)
    BY <1>1 DEF PaymentInv, InOneBatch
  <2>3. \A p \in ps, c \in Batches : ~HasItem(c, p)
    BY <1>1 DEF PaymentInv, InOneBatch
  <2>4. \A c \in Batches, p \in PaymentRequests : HasItem(c, p)' => batch'[c] # "ABSENT"
    BY <1>4, <2>1 DEF PaymentInv, InOneBatch
  <2>5. \A p \in PaymentRequests :
          (\E c \in Batches : HasItem(c, p)') <=> payment'[p].status \notin {"ABSENT", "SUBMITTED"}
    BY <1>3, <2>1, <2>2 DEF PaymentInv, InOneBatch
  <2>6. \A c, d \in Batches, p \in PaymentRequests : HasItem(c, p)' /\ HasItem(d, p)' => c = d
    BY <2>1, <2>3 DEF PaymentInv, InOneBatch
  <2> QED
    BY <2>4, <2>5, <2>6 DEF InOneBatch
<1>8. PaidIsPaid'
  <2>1. ASSUME NEW p \in PaymentRequests, payment'[p].status = "PAID"
        PROVE  \E c \in Batches : item'[c][p].status = "PAID"
    <3>1. payment[p].status = "PAID"
      BY <1>3, <2>1
    <3>2. PICK c \in Batches : item[c][p].status = "PAID"
      BY <3>1 DEF PaymentInv, PaidIsPaid
    <3>3. c # b
      BY <1>1, <3>2 DEF PaymentInv, InOneBatch, HasItem
    <3> QED
      BY <1>4, <3>2, <3>3
  <2> QED
    BY <1>4, <2>1 DEF PaymentInv, PaidIsPaid
<1> QED
  BY <1>5, <1>6, <1>7, <1>8 DEF PaymentInv

LEMMA MarkSentStep ==
  ASSUME PaymentInv, NEW b \in Batches, MarkSent(b)
  PROVE  PaymentInv'
<1>1. /\ batch[b] # "ABSENT"
      /\ batch' = [batch EXCEPT ![b] = "SENT_TO_BANK"]
      /\ item' = [item EXCEPT ![b] = [p \in PaymentRequests |->
                     IF item[b][p].status = "PENDING" THEN [item[b][p] EXCEPT !.status = "SENT"] ELSE item[b][p]]]
      /\ payment' = [p \in PaymentRequests |->
                     IF HasItem(b, p) THEN [payment[p] EXCEPT !.status = "SENT_TO_BANK"] ELSE payment[p]]
      /\ UNCHANGED <<flow, instruction>>
  BY DEF MarkSent, HasItem
<1>2. /\ payment \in [PaymentRequests -> PaymentRow] /\ batch \in [Batches -> BatchStatus]
      /\ item \in [Batches -> [PaymentRequests -> ItemRow]]
  BY DEF PaymentInv, FlowTables
<1>3. \A p \in PaymentRequests :
        /\ payment'[p] \in PaymentRow /\ payment'[p].order = payment[p].order
        /\ payment'[p].status = IF HasItem(b, p) THEN "SENT_TO_BANK" ELSE payment[p].status
  BY <1>1, <1>2 DEF PaymentRow, PaymentStatus
<1>4. /\ \A c \in Batches \ {b} : item'[c] = item[c] /\ batch'[c] = batch[c]
      /\ batch'[b] = "SENT_TO_BANK"
      /\ \A p \in PaymentRequests :
            /\ item'[b][p].status = IF item[b][p].status = "PENDING" THEN "SENT" ELSE item[b][p].status
            /\ item'[b][p] \in ItemRow
  <2>1. ASSUME NEW row \in ItemRow
        PROVE  /\ [row EXCEPT !.status = "SENT"] \in ItemRow
               /\ [row EXCEPT !.status = "SENT"].status = "SENT"
    BY DEF ItemRow, ItemStatus
  <2>2. \A p \in PaymentRequests :
            /\ item[b][p] \in ItemRow
            /\ item'[b][p] = IF item[b][p].status = "PENDING" THEN [item[b][p] EXCEPT !.status = "SENT"] ELSE item[b][p]
    BY <1>1, <1>2
  <2>3. (\A c \in Batches \ {b} : item'[c] = item[c] /\ batch'[c] = batch[c]) /\ batch'[b] = "SENT_TO_BANK"
    BY <1>1, <1>2
  <2> QED
    BY <2>1, <2>2, <2>3
<1>5. FlowTables'
  <2>1. payment' \in [PaymentRequests -> PaymentRow]
    BY <1>1, <1>3
  <2>2. item'[b] \in [PaymentRequests -> ItemRow]
    BY <1>1, <1>2, <1>4
  <2>3. item' \in [Batches -> [PaymentRequests -> ItemRow]] /\ batch' \in [Batches -> BatchStatus]
    BY <1>1, <1>2, <1>4, <2>2 DEF BatchStatus
  <2> QED
    BY <1>1, <2>1, <2>3 DEF PaymentInv, FlowTables
<1>6. \A c \in Batches, p \in PaymentRequests : HasItem(c, p)' <=> HasItem(c, p)
  BY <1>4 DEF HasItem
<1>a. \A p \in PaymentRequests : HasItem(b, p) => payment[p].status \notin {"ABSENT", "SUBMITTED"}
  BY DEF PaymentInv, InOneBatch
<1>7. OnePayment'
  BY <1>3, <1>a DEF PaymentInv, OnePayment
<1>8. InOneBatch'
  <2>1. \A c \in Batches, p \in PaymentRequests : HasItem(c, p)' => batch'[c] # "ABSENT"
    BY <1>4, <1>6 DEF PaymentInv, InOneBatch
  <2>2. \A p \in PaymentRequests :
          (\E c \in Batches : HasItem(c, p)') <=> payment'[p].status \notin {"ABSENT", "SUBMITTED"}
    BY <1>3, <1>6 DEF PaymentInv, InOneBatch
  <2>3. \A c, d \in Batches, p \in PaymentRequests : HasItem(c, p)' /\ HasItem(d, p)' => c = d
    BY <1>6 DEF PaymentInv, InOneBatch
  <2> QED
    BY <2>1, <2>2, <2>3 DEF InOneBatch
<1>9. PaidIsPaid'
  <2>1. ASSUME NEW p \in PaymentRequests, payment'[p].status = "PAID"
        PROVE  \E c \in Batches : item'[c][p].status = "PAID"
    <3>1. payment[p].status = "PAID" /\ ~HasItem(b, p)
      BY <1>3, <2>1
    <3>2. PICK c \in Batches : item[c][p].status = "PAID"
      BY <3>1 DEF PaymentInv, PaidIsPaid
    <3> QED
      BY <1>4, <3>1, <3>2 DEF HasItem
  <2> QED
    BY <1>4, <2>1 DEF PaymentInv, PaidIsPaid
<1> QED
  BY <1>5, <1>7, <1>8, <1>9 DEF PaymentInv

\* A status that a match gives is one of an item; it pays the request exactly when it is PAID.
LEMMA MatchStatusType ==
  ASSUME NEW p \in PaymentRequests, NEW paid \in 0 .. MaxQty, NEW given \in ItemStatus \cup {None}
  PROVE  /\ MatchStatus(p, paid, given) \in ItemStatus /\ MatchStatus(p, paid, given) # "ABSENT"
         /\ \A status : RequestStatus(status) \in {"PAID", "PARTIALLY_PAID"}
         /\ \A status : RequestStatus(status) = "PAID" <=> status = "PAID"
  BY DEF MatchStatus, RequestStatus, ItemStatus

\* refreshBatchStatus calls a batch paid when every live item is.
LEMMA Refreshed ==
  ASSUME NEW items \in [PaymentRequests -> ItemRow]
  PROVE  /\ RefreshedStatus(items) \in BatchStatus \ {"ABSENT"}
         /\ RefreshedStatus(items) = "PAID" =>
                \A p \in PaymentRequests : items[p].status \in LiveItemStatus => items[p].status = "PAID"
<1> DEFINE active == {row \in Range(items) : row.status \in LiveItemStatus}
<1>1. RefreshedStatus(items) = IF AllPaid(active) THEN "PAID"
         ELSE IF \E row \in active : row.paid > 0 \/ row.status = "PARTIALLY_PAID" THEN "PARTIALLY_PAID"
         ELSE IF \E row \in active : row.status = "SENT" THEN "SENT_TO_BANK"
         ELSE "DRAFT"
  BY DEF RefreshedStatus
<1>2. \A p \in PaymentRequests : items[p].status \in LiveItemStatus => items[p] \in active
  BY DEF Range
<1> HIDE DEF active
<1>3. RefreshedStatus(items) = "PAID" => AllPaid(active)
  BY <1>1
<1> QED
  BY <1>1, <1>2, <1>3 DEF AllPaid, BatchStatus

LEMMA MatchItemStep ==
  ASSUME PaymentInv, NEW b \in Batches, NEW p \in PaymentRequests, NEW paid \in 0 .. MaxQty,
         NEW given \in ItemStatus \cup {None}, MatchItem(b, p, paid, given)
  PROVE  PaymentInv'
<1>1. PICK status : status = MatchStatus(p, paid, given)
  OBVIOUS
<1>2. status \in ItemStatus /\ status # "ABSENT"
  BY <1>1, MatchStatusType
<1>3. PICK req \in {"PAID", "PARTIALLY_PAID"} : req = RequestStatus(status) /\ (req = "PAID" <=> status = "PAID")
  BY MatchStatusType
<1>4. /\ HasItem(b, p)
      /\ item' = [item EXCEPT ![b][p] = [status |-> status, paid |-> paid]]
      /\ payment' = [payment EXCEPT ![p].status = req]
      /\ instruction' = [instruction EXCEPT ![p] = "MATCHED"]
      /\ batch' = [batch EXCEPT ![b] = RefreshedStatus(item'[b])]
      /\ UNCHANGED flow
  BY <1>1, <1>3 DEF MatchItem, HasItem
<1>5. /\ payment \in [PaymentRequests -> PaymentRow] /\ batch \in [Batches -> BatchStatus]
      /\ item \in [Batches -> [PaymentRequests -> ItemRow]]
      /\ instruction \in [PaymentRequests -> {"ABSENT", "DRAFT", "SENT", "MATCHED"}]
  BY DEF PaymentInv, FlowTables
<1>6. /\ payment' \in [PaymentRequests -> PaymentRow]
      /\ payment'[p].status = req /\ payment'[p].order = payment[p].order
      /\ \A q \in PaymentRequests \ {p} : payment'[q] = payment[q]
  BY <1>3, <1>4, <1>5 DEF PaymentRow, PaymentStatus
<1>7. /\ item' \in [Batches -> [PaymentRequests -> ItemRow]]
      /\ item'[b][p].status = status
      /\ \A c \in Batches, q \in PaymentRequests : (c # b \/ q # p) => item'[c][q] = item[c][q]
  <2>1. [status |-> status, paid |-> paid] \in ItemRow /\ [status |-> status, paid |-> paid].status = status
    BY <1>2 DEF ItemRow
  <2> QED
    BY <1>4, <1>5, <2>1
<1>8. item'[b] \in [PaymentRequests -> ItemRow]
  BY <1>7
<1>9. /\ batch' \in [Batches -> BatchStatus] /\ batch'[b] # "ABSENT"
      /\ \A c \in Batches \ {b} : batch'[c] = batch[c]
      /\ batch'[b] = "PAID" => \A q \in PaymentRequests : item'[b][q].status \in LiveItemStatus => item'[b][q].status = "PAID"
  BY <1>4, <1>5, <1>8, Refreshed
<1>10. FlowTables'
  BY <1>4, <1>5, <1>6, <1>7, <1>9 DEF PaymentInv, FlowTables
<1>11. \A c \in Batches, q \in PaymentRequests : HasItem(c, q)' <=> HasItem(c, q)
  BY <1>2, <1>4, <1>7 DEF HasItem
<1>12. payment[p].status \notin {"ABSENT", "SUBMITTED"}
  BY <1>4 DEF PaymentInv, InOneBatch
<1>13. OnePayment'
  BY <1>6, <1>12 DEF PaymentInv, OnePayment
<1>14. InOneBatch'
  <2>1. \A c \in Batches, q \in PaymentRequests : HasItem(c, q)' => batch'[c] # "ABSENT"
    BY <1>9, <1>11 DEF PaymentInv, InOneBatch
  <2>2. \A q \in PaymentRequests :
          (\E c \in Batches : HasItem(c, q)') <=> payment'[q].status \notin {"ABSENT", "SUBMITTED"}
    BY <1>3, <1>6, <1>11, <1>12 DEF PaymentInv, InOneBatch
  <2>3. \A c, d \in Batches, q \in PaymentRequests : HasItem(c, q)' /\ HasItem(d, q)' => c = d
    BY <1>11 DEF PaymentInv, InOneBatch
  <2> QED
    BY <2>1, <2>2, <2>3 DEF InOneBatch
<1>15. PaidIsPaid'
  <2>1. ASSUME NEW q \in PaymentRequests, payment'[q].status = "PAID"
        PROVE  \E c \in Batches : item'[c][q].status = "PAID"
    <3>1. CASE q = p
      BY <1>3, <1>6, <1>7, <2>1, <3>1
    <3>2. CASE q # p
      BY <1>6, <1>7, <2>1, <3>2 DEF PaymentInv, PaidIsPaid
    <3> QED
      BY <3>1, <3>2
  <2>2. ASSUME NEW c \in Batches, NEW q \in PaymentRequests, batch'[c] = "PAID", item'[c][q].status \in LiveItemStatus
        PROVE  item'[c][q].status = "PAID"
    BY <1>7, <1>9, <2>2 DEF PaymentInv, PaidIsPaid
  <2> QED
    BY <2>1, <2>2 DEF PaidIsPaid
<1> QED
  BY <1>10, <1>13, <1>14, <1>15 DEF PaymentInv

LEMMA NewFlowsType == \A new \in NewFlows : new \in FlowRow
<1>1. ASSUME NEW type \in FlowTypes, NEW priced \in BOOLEAN PROVE NewFlow(type, priced) \in FlowRow
  BY DEF NewFlow, FlowRow
<1>2. "ESTIMATE_FIRST" \in FlowTypes
  BY DEF FlowTypes
<1>3. \A new \in NewFlows : \E type \in FlowTypes, priced \in BOOLEAN : new = NewFlow(type, priced)
  <2>1. CASE "document" \in scenario.calls
    <3>1. NewFlows = {NewFlow(type, priced) : type \in FlowTypes, priced \in BOOLEAN}
      BY <2>1 DEF NewFlows
    <3> QED
      BY <3>1, SMT
  <2>2. CASE "document" \notin scenario.calls
    <3>1. NewFlows = {NewFlow("ESTIMATE_FIRST", TRUE)}
      BY <2>2 DEF NewFlows
    <3>2. TRUE \in BOOLEAN
      OBVIOUS
    <3> QED
      BY <1>2, <3>1, <3>2, Zenon
  <2> QED
    BY <2>1, <2>2
<1> QED
  BY <1>1, <1>3

LEMMA OrderFlowPayments ==
  ASSUME PaymentInv, OrderFlowStep
  PROVE  PaymentInv'
<1>0. flow \in [Orders -> FlowRow] /\ payment \in [PaymentRequests -> PaymentRow]
  BY DEF PaymentInv, FlowTables
<1>1. ASSUME flow' \in [Orders -> FlowRow], UNCHANGED <<payment, instruction, batch, item>>
      PROVE  PaymentInv'
  BY <1>1 DEF PaymentInv, FlowTables, OnePayment, InOneBatch, PaidIsPaid, HasItem
<1>2. PICK o \in Orders :
        \/ Create(o) \/ Update(o) \/ GenerateDocument(o) \/ CreateAdjustment(o)
        \/ \E p \in PaymentRequests, amount \in 1 .. MaxQty : CreatePaymentRequest(p, o, amount)
  BY DEF OrderFlowStep
<1>3. CASE Create(o)
  <2>1. \A new \in NewFlows : new \in FlowRow
    BY NewFlowsType
  <2> QED
    BY <1>0, <1>1, <1>3, <2>1 DEF Create
<1>4. CASE Update(o)
  <2>1. \A f \in [Orders -> FlowRow], type \in FlowTypes : [f EXCEPT ![o].type = type] \in [Orders -> FlowRow]
    BY DEF FlowRow
  <2>2. \A f \in [Orders -> FlowRow], b \in BOOLEAN : /\ [f EXCEPT ![o].contract = b] \in [Orders -> FlowRow]
                                                    /\ [f EXCEPT ![o].priced = b] \in [Orders -> FlowRow]
    BY DEF FlowRow
  <2>3. PICK type \in FlowTypes, contract \in BOOLEAN :
            \/ flow' = [[flow EXCEPT ![o].type = type] EXCEPT ![o].contract = contract]
            \/ \E priced \in BOOLEAN :
                flow' = [[[flow EXCEPT ![o].type = type] EXCEPT ![o].contract = contract] EXCEPT ![o].priced = priced]
    BY <1>4 DEF Update
  <2>4. [[flow EXCEPT ![o].type = type] EXCEPT ![o].contract = contract] \in [Orders -> FlowRow]
    BY <1>0, <2>1, <2>2
  <2>5. flow' \in [Orders -> FlowRow]
    <3>1. PICK f \in [Orders -> FlowRow] :
            f = [[flow EXCEPT ![o].type = type] EXCEPT ![o].contract = contract]
      BY <2>4
    <3>2. flow' = f \/ \E priced \in BOOLEAN : flow' = [f EXCEPT ![o].priced = priced]
      BY <2>3, <3>1
    <3>3. ASSUME NEW priced \in BOOLEAN PROVE [f EXCEPT ![o].priced = priced] \in [Orders -> FlowRow]
      BY <2>2
    <3> QED
      BY <3>2, <3>3, Zenon
  <2>6. UNCHANGED <<payment, instruction, batch, item>>
    BY <1>4 DEF Update
  <2> QED
    BY <1>1, <2>5, <2>6
<1>5. CASE GenerateDocument(o) \/ CreateAdjustment(o)
  <2>1. /\ [flow EXCEPT ![o].document = TRUE] \in [Orders -> FlowRow]
        /\ [flow EXCEPT ![o].adjusted = TRUE] \in [Orders -> FlowRow]
    BY <1>0 DEF FlowRow
  <2> QED
    BY <1>1, <1>5, <2>1 DEF GenerateDocument, CreateAdjustment
<1>6. ASSUME NEW p \in PaymentRequests, NEW amount \in 1 .. MaxQty, CreatePaymentRequest(p, o, amount)
      PROVE  PaymentInv'
  <2>1. /\ \A q \in PaymentRequests : ~(payment[q].status # "ABSENT" /\ payment[q].order = o)
        /\ payment[p].status = "ABSENT"
        /\ payment' = [payment EXCEPT ![p] = [status |-> "SUBMITTED", order |-> o, amount |-> amount]]
        /\ UNCHANGED <<flow, instruction, batch, item>>
    BY <1>6 DEF CreatePaymentRequest, NoRequestYet, PaymentsOf
  <2>2. [status |-> "SUBMITTED", order |-> o, amount |-> amount] \in PaymentRow
    BY DEF PaymentRow, PaymentStatus
  <2>3. /\ payment' \in [PaymentRequests -> PaymentRow]
        /\ payment'[p].status = "SUBMITTED" /\ payment'[p].order = o
        /\ \A q \in PaymentRequests \ {p} : payment'[q] = payment[q]
    BY <1>0, <2>1, <2>2
  <2>4. OnePayment'
    BY <2>1, <2>3 DEF PaymentInv, OnePayment
  <2>5. InOneBatch' /\ PaidIsPaid'
    BY <2>1, <2>3 DEF PaymentInv, InOneBatch, PaidIsPaid, HasItem
  <2> QED
    BY <2>1, <2>3, <2>4, <2>5 DEF PaymentInv, FlowTables
<1> QED
  BY <1>2, <1>3, <1>4, <1>5, <1>6

LEMMA PaymentsStep == PaymentInv /\ [FlowNext]_allVars => PaymentInv'
<1> SUFFICES ASSUME PaymentInv, [FlowNext]_allVars PROVE PaymentInv'
  OBVIOUS
<1>1. ASSUME instruction' \in [PaymentRequests -> {"ABSENT", "DRAFT", "SENT", "MATCHED"}],
             UNCHANGED <<flow, payment, batch, item>>
      PROVE  PaymentInv'
  BY <1>1 DEF PaymentInv, FlowTables, OnePayment, InOneBatch, PaidIsPaid, HasItem
<1>2. instruction \in [PaymentRequests -> {"ABSENT", "DRAFT", "SENT", "MATCHED"}]
  BY DEF PaymentInv, FlowTables
<1>3. CASE UNCHANGED allVars \/ PricingStep
  BY <1>1, <1>2, <1>3 DEF allVars, flowVars, PricingStep
<1>4. CASE OrderFlowStep
  BY <1>4, OrderFlowPayments
<1>5. ASSUME NEW p \in PaymentRequests, NEW status \in DrawnAs, CreateBankInstruction(p, status)
      PROVE  PaymentInv'
  <2>1. status \in {"DRAFT", "SENT", "MATCHED"}
    BY <1>5 DEF DrawnAs
  <2>2. Further(p, status) \in {status, instruction[p]}
    BY DEF Further
  <2> QED
    BY <1>1, <1>2, <1>5, <2>1, <2>2 DEF CreateBankInstruction
<1>6. ASSUME NEW p \in PaymentRequests, MatchBankInstruction(p) PROVE PaymentInv'
  BY <1>1, <1>2, <1>6 DEF MatchBankInstruction
<1>7. CASE PaymentStep
  BY <1>5, <1>6, <1>7, CreateBatchStep, MarkSentStep, MatchItemStep DEF PaymentStep
<1> QED
  BY <1>3, <1>4, <1>7 DEF FlowNext

LEMMA PaymentsInvariant == FlowSpec => []PaymentInv
<1>1. FlowInit => PaymentInv
  <2> SUFFICES ASSUME FlowInit PROVE PaymentInv
    OBVIOUS
  <2>1. \A new \in NewFlows : new \in FlowRow
    BY NewFlowsType
  <2>2. AbsentPayment \in PaymentRow /\ AbsentPayment.status = "ABSENT"
    BY DEF AbsentPayment, PaymentRow, PaymentStatus
  <2>3. AbsentItem \in ItemRow /\ AbsentItem.status = "ABSENT"
    BY DEF AbsentItem, ItemRow
  <2>4. FlowTables
    BY <2>1, <2>2, <2>3 DEF FlowInit, FlowTables, BatchStatus
  <2>5. /\ \A p \in PaymentRequests : payment[p].status = "ABSENT"
        /\ \A b \in Batches, p \in PaymentRequests : item[b][p].status = "ABSENT"
    BY <2>2, <2>3 DEF FlowInit
  <2> QED
    BY <2>4, <2>5 DEF PaymentInv, OnePayment, InOneBatch, PaidIsPaid, HasItem, LiveItemStatus
<1> QED
  BY <1>1, PaymentsStep, PTL DEF FlowSpec

\* The tables of the flow hold rows of their shapes, whatever the calls.
THEOREM FlowTypeCorrect == FlowSpec => []FlowTypeOK
<1>1. Range(InstructionStatus) = {"ABSENT", "DRAFT", "SENT", "MATCHED"}
  BY DEF Range, InstructionStatus
<1>2. TypeOK /\ PaymentInv => FlowTypeOK
  BY <1>1 DEF PaymentInv, FlowTables, FlowTypeOK, FlowRow, PaymentRow, ItemRow
<1> QED
  BY <1>2, TypeCorrect, PaymentsInvariant, PTL

\* Payment requests, batches and their items tell one story for any numbers of them: an order has
\* one request, which is in a batch from the moment it is no longer SUBMITTED and never in two, a
\* paid request has a paid item, and a paid batch no live item that is not.
THEOREM PaymentsAgreeCorrect == FlowSpec => []PaymentsAgree
<1>1. PaymentInv => PaymentsAgree
  <2> SUFFICES ASSUME PaymentInv PROVE PaymentsAgree
    OBVIOUS
  <2>1. ASSUME NEW S, \A x, y \in S : x = y
        PROVE  Cardinality(S) = IF S = {} THEN 0 ELSE 1
    <3>1. CASE S = {}
      BY <3>1, FS_EmptySet
    <3>2. CASE S # {}
      <4>1. PICK x \in S : TRUE
        BY <3>2
      <4>2. S = {x}
        BY <2>1, <4>1
      <4> QED
        BY <3>2, <4>2, FS_Singleton
    <3> QED
      BY <3>1, <3>2
  <2>2. ASSUME NEW o \in Orders PROVE Cardinality(PaymentsOf(o)) <= 1
    <3>1. \A p, q \in PaymentsOf(o) : p = q
      BY DEF PaymentInv, OnePayment, PaymentsOf
    <3> QED
      BY <2>1, <3>1
  <2>3. ASSUME NEW p \in PaymentRequests
        PROVE  Cardinality(ItemsOf(p)) = IF payment[p].status \in {"ABSENT", "SUBMITTED"} THEN 0 ELSE 1
    <3>1. \A b, c \in ItemsOf(p) : b = c
      BY DEF PaymentInv, InOneBatch, HasItem, ItemsOf
    <3>2. ItemsOf(p) = {} <=> payment[p].status \in {"ABSENT", "SUBMITTED"}
      BY DEF PaymentInv, InOneBatch, HasItem, ItemsOf
    <3> QED
      BY <2>1, <3>1, <3>2
  <2> QED
    BY <2>2, <2>3 DEF PaymentInv, PaidIsPaid, PaymentsAgree
<1> QED
  BY <1>1, PaymentsInvariant, PTL

-----------------------------------------------------------------------------
(* Cost layers.                                                             *)

Absent(l) == layer[l].status = "ABSENT"

\* Layers are created in order.  None is below zero, and one is closed when nothing is left of it.
LayersInOrder == \A l, m \in Layers : m < l /\ ~Absent(l) => ~Absent(m)
LayersBounded ==
    \A l \in Layers :
        /\ layer[l].remaining <= layer[l].original
        /\ Live(l) => (layer[l].status = "CLOSED" <=> layer[l].remaining = 0)

\* The layers a request deletes or writes are there, and it writes no more than they were created with.
Fits(l, left) == ~Absent(l) /\ left <= layer[l].original
LayerReq(q) ==
    /\ \A l \in q.gone : ~Absent(l)
    /\ \A l \in Layers : q.left[l] # None => Fits(l, q.left[l])
    /\ q.pc = "consumeWrite" => Fits(Min(q.todo), q.qty)

\* Only the users of the scenario call anything.
OthersIdle == \A r \in Users \ scenario.users : request[r] = Idle

LayerInv == LayersInOrder /\ LayersBounded /\ OthersIdle /\ \A r \in Users : LayerReq(request[r])

\* A run has the one layer of its FINAL stage.
FinalLayers ==
    /\ \A l, m \in Layers : Live(l) /\ Live(m) /\ layer[l].run = layer[m].run => l = m
    /\ \A l \in Layers : Live(l) =>
          /\ layer[l].run \in Runs
          /\ layer[l].original > 0 /\ layer[l].original = run[layer[l].run].stage["FINAL"]
    /\ \A k \in Runs : run[k].stage["FINAL"] \notin {None, 0} => \E l \in Layers : Live(l) /\ layer[l].run = k

\* Layers are used up oldest first, and what is taken is accounted for.
UsedUp ==
    /\ \A l \in Layers : Absent(l) => taken[l] = 0
    /\ \A l \in Layers : Live(l) => layer[l].original = layer[l].remaining + taken[l]
    /\ \A l, m \in Layers : Live(l) /\ Live(m) /\ m < l /\ taken[l] > 0 => layer[m].remaining = 0

\* A consumption takes from a layer only what it has, and only when it leaves nothing in older ones.
PlanOf(want) ==
    /\ \A l \in Layers : want[l] <= layer[l].remaining
    /\ \A l \in Layers : want[l] > 0 => l \in Open
    /\ \A l \in Layers, m \in Layers : want[l] > 0 /\ m \in Open /\ m < l => want[m] = layer[m].remaining
\* While nobody else writes, the layers are as the request has read them.
SerialReq(q) ==
    /\ q.pc \in {"stageRun", "stageLayers"} => q.gone = {}
    /\ q.pc = "stageLayers" => q.type = "FINAL"
    /\ q.pc \in {"stageDelete", "stageRead", "stageCommit"} =>
          q.gone = IF q.type = "FINAL" THEN LiveOf(q.run) ELSE {}
    /\ q.pc \in ConsumePcs =>
          /\ PlanOf(q.want)
          /\ \A l \in Layers : q.want[l] > 0 <=> (l \in q.todo \/ q.left[l] # None)
          /\ \A l \in Layers : q.left[l] # None => q.left[l] = layer[l].remaining - q.want[l]
    /\ q.pc = "consumeWrite" => q.qty = layer[Min(q.todo)].remaining - q.want[Min(q.todo)]

SerialInv == FinalLayers /\ UsedUp /\ \A r \in Users : SerialReq(request[r])

\* previewConsume leaves nothing in a layer before it goes on to the next.
LEMMA PreviewIsPlan ==
  ASSUME TypeOK, NEW q \in Nat
  PROVE  PlanOf(Preview(q))
<1> DEFINE f == [l \in Layers |-> layer[l].remaining]
<1>1. \A l \in Layers : layer[l].remaining \in Nat
  BY Types DEF LayerRow
<1>2. ASSUME NEW l \in Layers, Preview(q)[l] > 0 PROVE l \in Open
  BY <1>2, PreviewOf
<1>3. ASSUME NEW l \in Layers, NEW m \in Layers, Preview(q)[l] > 0, m \in Open, m < l
      PROVE  Preview(q)[m] = layer[m].remaining
  <2>1. PICK nl \in Nat : nl = Remaining(OpenBefore(l))
    BY PreviewOf
  <2>2. PICK nm \in Nat : nm = Remaining(OpenBefore(m))
    BY PreviewOf
  <2>3. nl < q
    BY <1>2, <1>3, <2>1, PreviewOf
  <2>4. nm + layer[m].remaining <= nl
    <3>1. /\ OpenBefore(m) \in SUBSET Layers /\ OpenBefore(l) \in SUBSET Layers
          /\ m \notin OpenBefore(m) /\ OpenBefore(m) \cup {m} \subseteq OpenBefore(l)
      <4>1. m \in Int /\ l \in Int /\ \A x \in Open : x \in Int
        BY DEF Layers, Open
      <4> QED
        BY <1>3, <4>1 DEF OpenBefore, Open
    <3>2. IsFiniteSet(OpenBefore(m)) /\ IsFiniteSet(OpenBefore(l))
      BY <3>1, LayersFinite
    <3>3. \A x \in Layers : f[x] \in Nat /\ f[x] = layer[x].remaining
      BY <1>1
    <3> HIDE DEF f
    <3>4. SumFunctionOnSet(f, OpenBefore(m) \cup {m}) = SumFunctionOnSet(f, OpenBefore(m)) + f[m]
      <4>1. \A y \in OpenBefore(m) \cup {m} : f[y] \in Int
        BY <3>1, <3>3
      <4> QED
        BY <3>1, <3>2, <4>1, SumAdd
    <3>5. SumFunctionOnSet(f, OpenBefore(m) \cup {m}) <= SumFunctionOnSet(f, OpenBefore(l))
      BY <3>1, <3>2, <3>3, SumSubset
    <3> QED
      BY <2>1, <2>2, <3>3, <3>4, <3>5 DEF Remaining, f
  <2> QED
    BY <1>1, <1>3, <2>2, <2>3, <2>4, PreviewOf
<1> QED
  BY <1>2, <1>3, PreviewType DEF PlanOf

\* The layers there are are the first ones, so a new one comes right after them.
LEMMA NextLayer ==
  ASSUME LayersInOrder, NEW n, n = 1 + Cardinality({l \in Layers : layer[l].status # "ABSENT"})
  PROVE  /\ n \in Nat \ {0}
         /\ n \in Layers => Absent(n) /\ \A m \in Layers : m < n <=> ~Absent(m)
<1> DEFINE there == {l \in Layers : layer[l].status # "ABSENT"}
           rest == {l \in Layers : Absent(l)}
<1>1. CASE rest = {}
  <2>1. there = 1 .. MaxLayers
    BY <1>1 DEF Absent, Layers
  <2>2. Cardinality(there) = MaxLayers
    <3>1. PICK k \in Nat : k = MaxLayers
      OBVIOUS
    <3>2. Cardinality(1 .. k) = k
      BY FS_Interval
    <3> QED
      BY <2>1, <3>1, <3>2
  <2> QED
    BY <2>2 DEF Layers
<1>2. CASE rest # {}
  <2>1. PICK first : first \in rest /\ \A l \in rest : first <= l
    BY <1>2, FirstLayer
  <2>2. first \in Layers /\ Absent(first) /\ first \in Nat /\ first >= 1 /\ first <= MaxLayers
    BY <2>1 DEF Layers
  <2>3. \A m \in Layers : m < first <=> ~Absent(m)
    <3>1. \A m \in Layers : m \in Int
      BY DEF Layers
    <3>2. ASSUME NEW m \in Layers, Absent(m) PROVE ~(m < first)
      BY <2>1, <2>2, <3>1, <3>2
    <3>3. ASSUME NEW m \in Layers, ~Absent(m) PROVE m < first
      BY <2>2, <3>1, <3>3 DEF LayersInOrder
    <3> QED
      BY <3>2, <3>3
  <2>4. there = 1 .. (first - 1)
    BY <2>2, <2>3 DEF Absent, Layers
  <2>5. Cardinality(there) = first - 1
    <3>1. PICK k \in Nat : k = first - 1
      BY <2>2
    <3>2. Cardinality(1 .. k) = k
      BY FS_Interval
    <3> QED
      BY <2>4, <3>1, <3>2
  <2>6. n = first
    BY <2>2, <2>5
  <2>7. n \in Nat \ {0}
    BY <2>2, <2>6
  <2>8. Absent(n) /\ \A m \in Layers : m < n <=> ~Absent(m)
    <3> HIDE DEF there, rest
    <3> QED
      BY <2>2, <2>3, <2>6
  <2> QED
    BY <2>7, <2>8
<1> QED
  BY <1>1, <1>2

\* A request that has not come to the layers touches none.
LEMMA QuietReq ==
  ASSUME NEW q, q.gone = {}, \A l \in Layers : q.left[l] = None,
         q.pc \notin ConsumePcs \cup {"stageLayers", "stageDelete", "stageRead", "stageCommit"}
  PROVE  LayerReq(q) /\ SerialReq(q)
  BY DEF LayerReq, SerialReq, ConsumePcs

LEMMA IdleReq == LayerReq(Idle) /\ SerialReq(Idle)
<1>1. Idle.gone = {} /\ Idle.pc = "idle" /\ \A l \in Layers : Idle.left[l] = None
  BY DEF Idle
<1> QED
  BY <1>1, QuietReq DEF ConsumePcs

\* A step in which one request goes on or ends, and no layer is written.
LEMMA OnlyLayered ==
  ASSUME TypeInv, LayerInv, NEW r \in Users, r \in scenario.users, NEW req, Become(r, req), LayerReq(req),
         UNCHANGED <<scenario, run, layer, taken>>
  PROVE  LayerInv' /\ (SerialInv /\ SerialReq(req) => SerialInv')
<1>1. request'[r] = req /\ \A q \in Users \ {r} : request'[q] = request[q]
  BY Types DEF TypeInv, Become
<1>2. LayersInOrder' /\ LayersBounded'
  BY DEF LayerInv, LayersInOrder, LayersBounded, Absent, Live
<1>3. OthersIdle'
  BY <1>1 DEF LayerInv, OthersIdle
<1>4. \A l, left : (Absent(l)' <=> Absent(l)) /\ (Fits(l, left)' <=> Fits(l, left))
  BY DEF Absent, Fits
<1>5. ASSUME NEW q \in Users PROVE LayerReq(request[q])'
  <2>1. LayerReq(request'[q])
    BY <1>1 DEF LayerInv
  <2> QED
    BY <1>4, <2>1 DEF LayerReq
<1>6. FinalLayers' <=> FinalLayers
  BY DEF FinalLayers, Live
<1>7. UsedUp' <=> UsedUp
  BY DEF UsedUp, Live, Absent
<1>8. ASSUME SerialInv, SerialReq(req), NEW q \in Users PROVE SerialReq(request[q])'
  <2>1. SerialReq(request'[q])
    BY <1>1, <1>8 DEF SerialInv
  <2>2. Open' = Open /\ \A k : LiveOf(k)' = LiveOf(k)
    BY DEF Open, LiveOf, Live
  <2>3. \A want : PlanOf(want)' = PlanOf(want)
    BY <2>2 DEF PlanOf
  <2> QED
    BY <2>1, <2>2, <2>3 DEF SerialReq
<1> QED
  BY <1>2, <1>3, <1>5, <1>6, <1>7, <1>8 DEF LayerInv, SerialInv

\* What each step keeps.
LayersKept == LayerInv' /\ (Alone /\ SerialInv => SerialInv')

LEMMA Active ==
  ASSUME LayerInv, NEW r \in Users, request[r].pc # "idle"
  PROVE  r \in scenario.users
  BY DEF LayerInv, OthersIdle, Idle

LEMMA OrderLayers ==
  ASSUME TypeInv, LayerInv, NEW r \in Users, OrderStep(r) \/ Abort(r)
  PROVE  LayersKept
<1>1. ASSUME NEW o \in Orders, NEW to \in {"APPROVED", "CANCELLED", "COMPLETED"}, CheckOrder(r, o, to)
      PROVE  LayersKept
  <2> DEFINE req == [Idle EXCEPT !.pc = "setOrder", !.order = o, !.to = to]
  <2>1. req.gone = {} /\ req.pc = "setOrder" /\ \A l \in Layers : req.left[l] = None
    BY DEF Idle
  <2>2. Become(r, req) /\ r \in scenario.users /\ UNCHANGED <<scenario, run, layer, taken>>
    BY <1>1 DEF CheckOrder, Caller
  <2> HIDE DEF req
  <2>3. LayerReq(req) /\ SerialReq(req)
    BY <2>1, QuietReq DEF ConsumePcs
  <2> QED
    BY <2>2, <2>3, OnlyLayered DEF LayersKept
<1>3. ASSUME NEW o \in Orders, ApproveAny(r, o) PROVE LayersKept
  <2> DEFINE req == [Idle EXCEPT !.pc = "setOrder", !.order = o, !.to = "APPROVED"]
  <2>1. req.gone = {} /\ req.pc = "setOrder" /\ \A l \in Layers : req.left[l] = None
    BY DEF Idle
  <2>2. Become(r, req) /\ r \in scenario.users /\ UNCHANGED <<scenario, run, layer, taken>>
    BY <1>3 DEF ApproveAny, Caller
  <2> HIDE DEF req
  <2>3. LayerReq(req) /\ SerialReq(req)
    BY <2>1, QuietReq DEF ConsumePcs
  <2> QED
    BY <2>2, <2>3, OnlyLayered DEF LayersKept
<1>2. CASE SetOrder(r) \/ Abort(r)
  <2>1. Become(r, Idle) /\ r \in scenario.users /\ UNCHANGED <<scenario, run, layer, taken>>
    BY <1>2, Active DEF SetOrder, Abort
  <2> QED
    BY <2>1, IdleReq, OnlyLayered DEF LayersKept
<1> QED
  BY <1>1, <1>2, <1>3 DEF OrderStep

LEMMA ReceiptLayers ==
  ASSUME TypeInv, LayerInv, NEW r \in Users, ReceiptStep(r)
  PROVE  LayersKept
<1>1. ASSUME NEW x \in Receipts, ConfirmRead(r, x) PROVE LayersKept
  <2> DEFINE req == [Idle EXCEPT !.pc = "confirm", !.receipt = x, !.order = receipt[x].order]
  <2>1. req.gone = {} /\ req.pc = "confirm" /\ \A l \in Layers : req.left[l] = None
    BY DEF Idle
  <2>2. Become(r, req) /\ r \in scenario.users /\ UNCHANGED <<scenario, run, layer, taken>>
    BY <1>1 DEF ConfirmRead, Caller
  <2> HIDE DEF req
  <2>3. LayerReq(req) /\ SerialReq(req)
    BY <2>1, QuietReq DEF ConsumePcs
  <2> QED
    BY <2>2, <2>3, OnlyLayered DEF LayersKept
<1>2. ASSUME NEW x \in Receipts, VoidRead(r, x) PROVE LayersKept
  <2> DEFINE req == [Idle EXCEPT !.pc = "void", !.receipt = x]
  <2>1. req.gone = {} /\ req.pc = "void" /\ \A l \in Layers : req.left[l] = None
    BY DEF Idle
  <2>2. Become(r, req) /\ r \in scenario.users /\ UNCHANGED <<scenario, run, layer, taken>>
    BY <1>2 DEF VoidRead, Caller
  <2> HIDE DEF req
  <2>3. LayerReq(req) /\ SerialReq(req)
    BY <2>1, QuietReq DEF ConsumePcs
  <2> QED
    BY <2>2, <2>3, OnlyLayered DEF LayersKept
<1>3. CASE ConfirmReadOrder(r)
  <2> DEFINE req == [request[r] EXCEPT !.pc = "confirmOrder", !.to = order[request[r].order]]
  <2>1. req.gone = request[r].gone /\ req.left = request[r].left /\ req.pc = "confirmOrder"
    BY Types DEF TypeInv, RequestRow
  <2>2. Become(r, req) /\ r \in scenario.users /\ UNCHANGED <<scenario, run, layer, taken>>
    BY <1>3, Active DEF ConfirmReadOrder
  <2> HIDE DEF req
  <2>3. LayerReq(req) /\ SerialReq(req)
    BY <2>1 DEF LayerInv, LayerReq, SerialReq, ConsumePcs
  <2> QED
    BY <2>2, <2>3, OnlyLayered DEF LayersKept
<1>4. CASE ConfirmCommit(r) \/ VoidWrite(r)
  <2>1. Become(r, Idle) /\ r \in scenario.users /\ UNCHANGED <<scenario, run, layer, taken>>
    BY <1>4, Active DEF ConfirmCommit, VoidWrite
  <2> QED
    BY <2>1, IdleReq, OnlyLayered DEF LayersKept
<1> QED
  BY <1>1, <1>2, <1>3, <1>4 DEF ReceiptStep

\* The steps of a stage up to its commit: what it is to delete is what there is of its run.
LEMMA StageReads ==
  ASSUME TypeInv, LayerInv, NEW r \in Users, StageStep(r), ~CommitStage(r)
  PROVE  LayersKept
<1>0. request[r] \in RequestRow
  BY Types DEF TypeInv
<1>1. ASSUME NEW o \in Orders, NEW t \in StageTypes, NEW q \in LineQtys(t), CheckStage(r, o, t, q)
      PROVE  LayersKept
  <2> DEFINE req == [Idle EXCEPT !.pc = "stageRun", !.order = o, !.type = t, !.qty = q]
  <2>1. req.gone = {} /\ req.pc = "stageRun" /\ \A l \in Layers : req.left[l] = None
    BY DEF Idle
  <2>2. Become(r, req) /\ r \in scenario.users /\ UNCHANGED <<scenario, run, layer, taken>>
    BY <1>1 DEF CheckStage, Caller
  <2> HIDE DEF req
  <2>3. LayerReq(req) /\ SerialReq(req)
    BY <2>1, QuietReq DEF ConsumePcs
  <2> QED
    BY <2>2, <2>3, OnlyLayered DEF LayersKept
<1>2. ASSUME NEW req, Become(r, req), UNCHANGED <<scenario, run, layer, taken>>, request[r].pc \in StagePcs,
             req.pc \in StagePcs, req.left = request[r].left, \A l \in req.gone : ~Absent(l),
             SerialReq(request[r]) => SerialReq(req)
      PROVE  LayersKept
  <2>1. LayerReq(req)
    BY <1>2 DEF LayerInv, LayerReq, StagePcs
  <2>2. r \in scenario.users
    BY <1>2, Active DEF StagePcs
  <2>3. SerialInv => SerialReq(request[r])
    BY DEF SerialInv
  <2> QED
    BY <1>2, <2>1, <2>2, <2>3, OnlyLayered DEF LayersKept
<1>3. \A l \in request[r].gone : ~Absent(l)
  BY DEF LayerInv, LayerReq
<1>4. CASE ReadRun(r)
  <2> DEFINE req == [request[r] EXCEPT
                       !.pc = IF request[r].type = "FINAL" THEN "stageLayers" ELSE "stageRead",
                       !.run = latest[request[r].order]]
  <2>1. /\ req.pc = (IF request[r].type = "FINAL" THEN "stageLayers" ELSE "stageRead")
        /\ req.gone = request[r].gone /\ req.left = request[r].left /\ req.type = request[r].type
    BY <1>0 DEF RequestRow
  <2>2. Become(r, req) /\ request[r].pc = "stageRun" /\ UNCHANGED <<scenario, run, layer, taken>>
    BY <1>4 DEF ReadRun
  <2> HIDE DEF req
  <2>3. SerialReq(request[r]) => SerialReq(req)
    BY <2>1, <2>2 DEF SerialReq, ConsumePcs
  <2> QED
    BY <1>2, <1>3, <2>1, <2>2, <2>3 DEF StagePcs
<1>5. CASE SeeLayers(r)
  <2> DEFINE req == [request[r] EXCEPT !.pc = "stageDelete", !.gone = LiveOf(request[r].run)]
  <2>1. /\ req.pc = "stageDelete" /\ req.gone = LiveOf(request[r].run) /\ req.left = request[r].left
        /\ req.type = request[r].type /\ req.run = request[r].run
    BY <1>0 DEF RequestRow
  <2>2. Become(r, req) /\ request[r].pc = "stageLayers" /\ UNCHANGED <<scenario, run, layer, taken>>
    BY <1>5 DEF SeeLayers, SeenLayers
  <2> HIDE DEF req
  <2>4. SerialReq(request[r]) => SerialReq(req)
    BY <2>1, <2>2 DEF SerialReq, ConsumePcs
  <2>5. \A l \in req.gone : ~Absent(l)
    BY <2>1 DEF LiveOf, Live, Absent
  <2> QED
    BY <1>2, <2>1, <2>2, <2>4, <2>5 DEF StagePcs
<1>6. CASE DeleteLayers(r)
  <2> DEFINE gone == {l \in request[r].gone : Live(l)}
             req == [request[r] EXCEPT !.pc = "stageRead", !.gone = gone]
  <2>1. /\ req.pc = "stageRead" /\ req.gone = gone /\ req.left = request[r].left
        /\ req.type = request[r].type /\ req.run = request[r].run
    BY <1>0 DEF RequestRow
  <2>2. Become(r, req) /\ request[r].pc = "stageDelete" /\ UNCHANGED <<scenario, run, layer, taken>>
    BY <1>6 DEF DeleteLayers
  <2> HIDE DEF req
  <2>3. SerialReq(request[r]) => SerialReq(req)
    <3>1. request[r].gone \in {{}, LiveOf(request[r].run)} => gone = request[r].gone
      BY DEF LiveOf
    <3> HIDE DEF gone
    <3> QED
      BY <2>1, <2>2, <3>1 DEF SerialReq, ConsumePcs
  <2>4. \A l \in req.gone : ~Absent(l)
    BY <1>3, <2>1
  <2> QED
    BY <1>2, <2>1, <2>2, <2>3, <2>4 DEF StagePcs
<1>7. CASE ReadStage(r)
  <2> DEFINE req == [request[r] EXCEPT !.pc = "stageCommit"]
  <2>1. /\ req.pc = "stageCommit" /\ req.gone = request[r].gone /\ req.left = request[r].left
        /\ req.type = request[r].type /\ req.run = request[r].run
    BY <1>0 DEF RequestRow
  <2>2. Become(r, req) /\ request[r].pc = "stageRead" /\ UNCHANGED <<scenario, run, layer, taken>>
    BY <1>7 DEF ReadStage
  <2> HIDE DEF req
  <2>3. SerialReq(request[r]) => SerialReq(req)
    BY <2>1, <2>2 DEF SerialReq, ConsumePcs
  <2> QED
    BY <1>2, <1>3, <2>1, <2>2, <2>3 DEF StagePcs
<1> QED
  BY <1>1, <1>4, <1>5, <1>6, <1>7 DEF StageStep

\* When requests are served one by one, nobody else has read or locked anything.
LEMMA AloneIdle ==
  ASSUME LayerInv, Alone, NEW r \in Users, r \in scenario.users
  PROVE  \A q \in Users \ {r} : request[q] = Idle
  BY DEF Alone, LayerInv, OthersIdle

\* A consumption up to its last write.
LEMMA ConsumeReads ==
  ASSUME TypeInv, LayerInv, NEW r \in Users,
         (\E q \in 1 .. MaxQty : ConsumePreview(r, q)) \/ ConsumeRead(r)
  PROVE  LayersKept
<1>0. /\ TypeOK /\ request[r] \in RequestRow /\ Knows(request[r]) /\ LayerReq(request[r])
      /\ layer \in [Layers -> LayerRow]
  BY Types DEF TypeInv, RequestsKnow, LayerInv
<1>1. ASSUME NEW q \in 1 .. MaxQty, ConsumePreview(r, q) PROVE LayersKept
  <2> DEFINE want == Preview(q)
             todo == {l \in Layers : want[l] > 0}
             req == [Idle EXCEPT !.pc = "consumeRead", !.want = want, !.todo = todo]
  <2>1. PlanOf(want)
    BY <1>0, PreviewIsPlan
  <2>2. Become(r, req) /\ r \in scenario.users /\ UNCHANGED <<scenario, run, layer, taken>>
    BY <1>1 DEF ConsumePreview, Caller
  <2> HIDE DEF want
  <2>3. /\ req.pc = "consumeRead" /\ req.gone = {} /\ req.want = want /\ req.todo = todo
        /\ \A l \in Layers : req.left[l] = None
    BY DEF Idle
  <2> HIDE DEF req
  <2>4. LayerReq(req)
    BY <2>3 DEF LayerReq
  <2>5. SerialReq(req)
    BY <2>1, <2>3 DEF SerialReq, ConsumePcs
  <2> QED
    BY <2>2, <2>4, <2>5, OnlyLayered DEF LayersKept
<1>2. CASE ConsumeRead(r)
  <2>1. request[r].pc = "consumeRead" /\ r \in scenario.users
    BY <1>2, Active DEF ConsumeRead
  <2>2. PICK l \in Layers : l = Min(request[r].todo) /\ l \in request[r].todo
    BY <1>0, <2>1, FirstLayer DEF Knows, ConsumePcs, RequestRow
  <2>3. PICK left : left = layer[l].remaining - request[r].want[l]
    OBVIOUS
  <2> DEFINE req == [request[r] EXCEPT !.pc = "consumeWrite", !.qty = left]
  <2>4. /\ Become(r, IF StillThere(l, request[r].want[l]) THEN req ELSE Idle)
        /\ UNCHANGED <<scenario, run, layer, taken>>
    BY <1>2, <2>2, <2>3 DEF ConsumeRead
  <2>5. /\ req.pc = "consumeWrite" /\ req.gone = request[r].gone /\ req.left = request[r].left
        /\ req.want = request[r].want /\ req.todo = request[r].todo /\ req.qty = left
    BY <1>0 DEF RequestRow
  <2>6. CASE ~StillThere(l, request[r].want[l])
    BY <2>1, <2>4, <2>6, IdleReq, OnlyLayered DEF LayersKept
  <2>7. CASE StillThere(l, request[r].want[l])
    <3> HIDE DEF req
    <3>1. Fits(l, left)
      <4>1. /\ layer[l].remaining \in Nat /\ request[r].want[l] \in Nat /\ layer[l].original \in Nat
            /\ layer[l].remaining <= layer[l].original
        BY <1>0 DEF LayerRow, RequestRow, LayerInv, LayersBounded
      <4>2. ~Absent(l)
        BY <2>7 DEF StillThere, Live, Absent
      <4> QED
        BY <2>3, <4>1, <4>2 DEF Fits
    <3>2. LayerReq(req)
      BY <1>0, <2>2, <2>5, <3>1 DEF LayerReq
    <3>3. SerialReq(request[r]) => SerialReq(req)
      BY <2>1, <2>2, <2>3, <2>5 DEF SerialReq, ConsumePcs
    <3>4. SerialInv => SerialReq(request[r])
      BY DEF SerialInv
    <3> QED
      BY <2>1, <2>4, <2>7, <3>2, <3>3, <3>4, OnlyLayered DEF LayersKept
  <2> QED
    BY <2>6, <2>7
<1> QED
  BY <1>1, <1>2

\* A step that leaves every layer that is there as large as it was keeps what requests know of them.
LEMMA FitsKept ==
  ASSUME TypeInv, LayerInv,
         \A l \in Layers : ~Absent(l) => ~Absent(l)' /\ layer'[l].original = layer[l].original,
         NEW q \in RequestRow, Knows(q), LayerReq(q)
  PROVE  /\ \A l \in q.gone : ~Absent(l)'
         /\ \A l \in Layers : q.left[l] # None => Fits(l, q.left[l])'
         /\ q.pc = "consumeWrite" => Fits(Min(q.todo), q.qty)'
<1>1. ASSUME NEW l \in Layers, NEW left, Fits(l, left) PROVE Fits(l, left)'
  BY <1>1 DEF Fits
<1>2. q.pc = "consumeWrite" => Min(q.todo) \in Layers
  BY FirstLayer DEF Knows, ConsumePcs, RequestRow
<1>3. q.gone \in SUBSET Layers
  BY DEF RequestRow
<1> QED
  BY <1>1, <1>2, <1>3 DEF LayerReq

\* The last write of a consumption.
LEMMA LastWrite ==
  ASSUME TypeInv, LayerInv, NEW r \in Users, r \in scenario.users,
         NEW left \in [Layers -> 0 .. MaxQty \cup {None}],
         \A m \in Layers : left[m] # None => Fits(m, left[m]),
         layer' = [m \in Layers |-> IF left[m] = None THEN layer[m] ELSE Used(m, left[m])],
         Become(r, Idle), UNCHANGED <<scenario, run>>
  PROVE  /\ LayerInv'
         /\ \A m \in Layers :
              /\ Absent(m)' <=> Absent(m)
              /\ layer'[m].run = layer[m].run /\ layer'[m].original = layer[m].original
              /\ left[m] = None => layer'[m] = layer[m]
              /\ left[m] # None => Live(m)' /\ layer'[m].remaining = left[m]
         /\ \A q \in Users \ {r} : request'[q] = request[q]
         /\ request'[r] = Idle
<1>0. layer \in [Layers -> LayerRow] /\ request \in [Users -> RequestRow]
  BY Types DEF TypeInv
<1>1. request'[r] = Idle /\ \A q \in Users \ {r} : request'[q] = request[q]
  BY <1>0 DEF Become
<1>2. ASSUME NEW m \in Layers, left[m] # None
      PROVE  /\ layer'[m].run = layer[m].run /\ layer'[m].original = layer[m].original
             /\ layer'[m].remaining = left[m] /\ left[m] \in Nat /\ left[m] <= layer[m].original
             /\ layer'[m].status \in {"OPEN", "CLOSED"} /\ ~Absent(m)
             /\ layer'[m].status = "CLOSED" <=> left[m] = 0
  <2>1. layer[m] \in LayerRow /\ left[m] \in Nat /\ layer'[m] = Used(m, left[m])
    BY <1>0, <1>2
  <2>2. Fits(m, left[m])
    BY <1>2
  <2>3. PICK k \in Nat, row \in LayerRow : row = layer[m] /\ k = left[m]
    BY <2>1
  <2>4. layer'[m] = [row EXCEPT !.remaining = k, !.status = IF k <= 0 THEN "CLOSED" ELSE "OPEN"]
    BY <2>1, <2>3 DEF Used
  <2>5. /\ layer'[m].run = row.run /\ layer'[m].original = row.original /\ layer'[m].remaining = k
        /\ layer'[m].status = IF k <= 0 THEN "CLOSED" ELSE "OPEN"
    BY <2>3, <2>4 DEF LayerRow
  <2> QED
    BY <2>1, <2>2, <2>3, <2>5 DEF Fits
<1>3. \A m \in Layers : left[m] = None => layer'[m] = layer[m]
  BY DEF Used
<1>4. \A m \in Layers : Absent(m)' <=> Absent(m)
  BY <1>2, <1>3 DEF Absent
<1>5. LayersInOrder'
  BY <1>4 DEF LayerInv, LayersInOrder
<1>6. LayersBounded'
  <2> SUFFICES ASSUME NEW m \in Layers
               PROVE  /\ layer'[m].remaining <= layer'[m].original
                      /\ Live(m)' => (layer'[m].status = "CLOSED" <=> layer'[m].remaining = 0)
    BY DEF LayersBounded
  <2>1. CASE left[m] = None
    BY <1>3, <2>1 DEF LayerInv, LayersBounded, Live
  <2>2. CASE left[m] # None
    BY <1>2, <2>2
  <2> QED
    BY <2>1, <2>2
<1>7. OthersIdle'
  BY <1>1 DEF LayerInv, OthersIdle
<1>8. ASSUME NEW q \in Users PROVE LayerReq(request[q])'
  <2>1. PICK req \in RequestRow : req = request'[q] /\ Knows(req) /\ LayerReq(req)
    BY <1>0, <1>1, IdleType, IdleReq DEF TypeInv, RequestsKnow, LayerInv
  <2>2. \A l \in Layers : ~Absent(l) => ~Absent(l)' /\ layer'[l].original = layer[l].original
    BY <1>2, <1>3, <1>4
  <2> QED
    BY <2>1, <2>2, FitsKept DEF LayerReq
<1>9. ASSUME NEW m \in Layers, left[m] # None PROVE Live(m)'
  BY <1>2, <1>9 DEF Live
<1> QED
  BY <1>1, <1>2, <1>3, <1>4, <1>5, <1>6, <1>7, <1>8, <1>9 DEF LayerInv

\* What the last write of a consumption leaves when nobody else was being served.
LEMMA SerialWrite ==
  ASSUME TypeInv, LayerInv, SerialInv, Alone, NEW r \in Users, r \in scenario.users,
         NEW left \in [Layers -> 0 .. MaxQty \cup {None}],
         NEW want \in [Layers -> 0 .. MaxQty], PlanOf(want),
         \A m \in Layers : want[m] > 0 <=> left[m] # None,
         \A m \in Layers : left[m] # None => left[m] = layer[m].remaining - want[m],
         \A m \in Layers : left[m] # None => Fits(m, left[m]),
         layer' = [m \in Layers |-> IF left[m] = None THEN layer[m] ELSE Used(m, left[m])],
         taken' = [m \in Layers |-> taken[m] + want[m]],
         Become(r, Idle), UNCHANGED <<scenario, run>>
  PROVE  SerialInv'
<1>0. /\ layer \in [Layers -> LayerRow] /\ taken \in [Layers -> Nat]
      /\ \A m \in Layers : layer[m].remaining \in Nat /\ layer[m].original \in Nat /\ want[m] \in Nat /\ taken[m] \in Nat
  BY Types DEF TypeInv, LayerRow
<1>1. /\ \A m \in Layers :
           /\ Absent(m)' <=> Absent(m)
           /\ layer'[m].run = layer[m].run /\ layer'[m].original = layer[m].original
           /\ left[m] = None => layer'[m] = layer[m]
           /\ left[m] # None => Live(m)' /\ layer'[m].remaining = left[m]
      /\ request'[r] = Idle /\ \A q \in Users \ {r} : request'[q] = request[q]
  BY LastWrite
<1>2. ASSUME NEW m \in Layers
      PROVE  /\ want[m] > 0 => Live(m)
             /\ Live(m)' <=> Live(m)
             /\ layer'[m].remaining = layer[m].remaining - want[m]
             /\ taken'[m] = taken[m] + want[m]
  <2>1. want[m] > 0 => Live(m) /\ layer[m].remaining > 0
    BY DEF PlanOf, Open, Live
  <2>2. CASE want[m] > 0
    BY <1>0, <1>1, <2>1, <2>2
  <2>3. CASE ~(want[m] > 0)
    <3>1. layer'[m] = layer[m] /\ want[m] = 0
      BY <1>0, <1>1, <2>3
    <3> QED
      BY <1>0, <3>1 DEF Live
  <2> QED
    BY <2>2, <2>3
<1>3. FinalLayers'
  BY <1>1, <1>2 DEF SerialInv, FinalLayers
<1>4. UsedUp'
  <2>1. ASSUME NEW m \in Layers, Absent(m)' PROVE taken'[m] = 0
    <3>1. Absent(m) /\ ~Live(m) /\ taken[m] = 0
      BY <1>1, <2>1 DEF SerialInv, UsedUp, Absent, Live
    <3> QED
      BY <1>0, <1>2, <3>1
  <2>2. ASSUME NEW m \in Layers, Live(m)' PROVE layer'[m].original = layer'[m].remaining + taken'[m]
    <3>1. layer[m].original = layer[m].remaining + taken[m]
      BY <1>2, <2>2 DEF SerialInv, UsedUp
    <3> QED
      BY <1>0, <1>1, <1>2, <3>1
  <2>3. ASSUME NEW l \in Layers, NEW m \in Layers, Live(l)', Live(m)', m < l, taken'[l] > 0
        PROVE  layer'[m].remaining = 0
    <3>1. Live(l) /\ Live(m)
      BY <1>2, <2>3
    <3>2. CASE want[l] > 0
      <4>1. layer[m].remaining > 0 => m \in Open
        BY <1>0, <3>1 DEF Open, Live, LayerInv, LayersBounded
      <4>2. m \in Open => want[m] = layer[m].remaining
        BY <2>3, <3>2 DEF PlanOf
      <4>3. want[m] <= layer[m].remaining
        BY DEF PlanOf
      <4> QED
        BY <1>0, <1>2, <4>1, <4>2, <4>3
    <3>3. CASE taken[l] > 0
      <4>1. layer[m].remaining = 0
        BY <2>3, <3>1, <3>3 DEF SerialInv, UsedUp
      <4>2. want[m] <= layer[m].remaining
        BY DEF PlanOf
      <4> QED
        BY <1>0, <1>2, <4>1, <4>2
    <3>4. want[l] > 0 \/ taken[l] > 0
      BY <1>0, <1>2, <2>3
    <3> QED
      BY <3>2, <3>3, <3>4
  <2> QED
    BY <2>1, <2>2, <2>3 DEF UsedUp
<1>5. ASSUME NEW q \in Users PROVE SerialReq(request[q])'
  <2>1. request'[q] = Idle
    BY <1>1, AloneIdle
  <2> QED
    BY <2>1 DEF SerialReq, Idle, ConsumePcs
<1> QED
  BY <1>3, <1>4, <1>5 DEF SerialInv

\* Each write of a consumption.
LEMMA ConsumeWrites ==
  ASSUME TypeInv, LayerInv, NEW r \in Users, ConsumeWrite(r)
  PROVE  LayersKept
<1>0. /\ TypeOK /\ request[r] \in RequestRow /\ Knows(request[r]) /\ LayerReq(request[r])
      /\ layer \in [Layers -> LayerRow]
  BY Types DEF TypeInv, RequestsKnow, LayerInv
<1>1. request[r].pc = "consumeWrite" /\ r \in scenario.users
  BY Active DEF ConsumeWrite
<1>2. PICK l \in Layers : l = Min(request[r].todo) /\ l \in request[r].todo
  BY <1>0, <1>1, FirstLayer DEF Knows, ConsumePcs, RequestRow
<1> DEFINE after == [request[r] EXCEPT !.pc = "consumeRead", !.todo = request[r].todo \ {l},
                                       !.left[l] = request[r].qty, !.qty = 0]
<1>3. IF ~Live(l)
      THEN Become(r, Idle) /\ UNCHANGED <<layer, taken>>
      ELSE IF after.todo # {}
      THEN Become(r, after) /\ UNCHANGED <<layer, taken>>
      ELSE /\ layer' = [m \in Layers |-> IF after.left[m] = None THEN layer[m] ELSE Used(m, after.left[m])]
           /\ taken' = [m \in Layers |-> taken[m] + request[r].want[m]]
           /\ Become(r, Idle)
  BY <1>2 DEF ConsumeWrite
<1>4. UNCHANGED <<scenario, run>>
  BY DEF ConsumeWrite
<1>5. PICK left : left = [request[r].left EXCEPT ![l] = request[r].qty]
  OBVIOUS
<1>6. /\ after.pc = "consumeRead" /\ after.todo = request[r].todo \ {l} /\ after.left = left
      /\ after.gone = request[r].gone /\ after.want = request[r].want
  BY <1>0, <1>5 DEF RequestRow
<1> HIDE DEF after
<1>7. /\ left \in [Layers -> 0 .. MaxQty \cup {None}] /\ left[l] = request[r].qty /\ left[l] # None
      /\ \A m \in Layers \ {l} : left[m] = request[r].left[m]
      /\ request[r].want \in [Layers -> 0 .. MaxQty]
  BY <1>0, <1>5 DEF RequestRow
<1>8. \A m \in Layers : left[m] # None => Fits(m, left[m])
  BY <1>0, <1>1, <1>2, <1>7 DEF LayerReq
<1>9. LayerReq(after)
  BY <1>0, <1>6, <1>8 DEF LayerReq
<1>10. ASSUME SerialInv
       PROVE  /\ PlanOf(request[r].want)
              /\ \A m \in Layers : request[r].want[m] > 0 <=> (m \in after.todo \/ left[m] # None)
              /\ \A m \in Layers : left[m] # None => left[m] = layer[m].remaining - request[r].want[m]
  <2>1. SerialReq(request[r])
    BY <1>10 DEF SerialInv
  <2> QED
    BY <1>1, <1>2, <1>6, <1>7, <2>1 DEF SerialReq, ConsumePcs
<1>11. SerialInv => SerialReq(after)
  BY <1>6, <1>10 DEF SerialReq
<1>12. CASE ~Live(l)
  BY <1>1, <1>3, <1>4, <1>12, IdleReq, OnlyLayered DEF LayersKept
<1>13. CASE Live(l) /\ after.todo # {}
  BY <1>1, <1>3, <1>4, <1>9, <1>11, <1>13, OnlyLayered DEF LayersKept
<1>14. CASE Live(l) /\ after.todo = {}
  <2>1. /\ layer' = [m \in Layers |-> IF left[m] = None THEN layer[m] ELSE Used(m, left[m])]
        /\ taken' = [m \in Layers |-> taken[m] + request[r].want[m]]
        /\ Become(r, Idle)
    BY <1>3, <1>6, <1>14
  <2>2. LayerInv'
    BY <1>1, <1>4, <1>7, <1>8, <2>1, LastWrite
  <2>3. ASSUME SerialInv, Alone PROVE SerialInv'
    <3>1. \A m \in Layers : request[r].want[m] > 0 <=> left[m] # None
      BY <1>10, <1>14, <2>3
    <3> QED
      BY <1>1, <1>4, <1>7, <1>8, <1>10, <2>1, <2>3, <3>1, SerialWrite
  <2> QED
    BY <2>2, <2>3 DEF LayersKept
<1> QED
  BY <1>12, <1>13, <1>14

\* What a commit does to the layers: it deletes those it has chosen and may add one.
CommitsLayers(r, k, new) ==
    /\ \A l \in Layers :
          /\ l \in request[r].gone => ~Absent(l) /\ layer'[l].status = "DELETED"
          /\ l \in new => Absent(l) /\ layer'[l] = NewLayer(k, request[r].qty)
          /\ l \notin request[r].gone \cup new => layer'[l] = layer[l]
          /\ l \notin new => /\ layer'[l].run = layer[l].run /\ layer'[l].original = layer[l].original
                             /\ layer'[l].remaining = layer[l].remaining
    /\ \A n \in new, m \in Layers : m < n <=> ~Absent(m)
    /\ \A n, m \in new : n = m
    /\ new \in SUBSET Layers
    /\ new # {} <=> request[r].type = "FINAL" /\ request[r].qty > 0

LEMMA CommitLayersAre ==
  ASSUME TypeInv, LayerInv, NEW r \in Users, CommitStage(r)
  PROVE  \E k \in Runs, new \in SUBSET Layers :
            /\ CommitsLayers(r, k, new)
            /\ run' = [run EXCEPT ![k] = StageRow(r, k)]
            /\ IF request[r].run # None THEN k = request[r].run ELSE run[k].order = None
<1>0. /\ TypeOK /\ request[r] \in RequestRow /\ LayerReq(request[r]) /\ layer \in [Layers -> LayerRow]
      /\ scenario.layers \in 0 .. MaxLayers
  BY Types, ScenariosAssumption DEF TypeInv, LayerInv
<1> DEFINE next == 1 + Cardinality({l \in Layers : layer[l].status # "ABSENT"})
           adds == request[r].type = "FINAL" /\ request[r].qty > 0
<1>3. PICK k \in Runs :
        /\ IF request[r].run # None THEN k = request[r].run ELSE run[k].order = None
        /\ run' = [run EXCEPT ![k] = StageRow(r, k)]
        /\ adds => next <= scenario.layers
        /\ layer' = [l \in Layers |->
                        IF l \in request[r].gone THEN [layer[l] EXCEPT !.status = "DELETED"]
                        ELSE IF adds /\ l = next THEN NewLayer(k, request[r].qty)
                        ELSE layer[l]]
  BY DEF CommitStage
<1>4. /\ next \in Nat \ {0}
      /\ next \in Layers => Absent(next) /\ \A m \in Layers : m < next <=> ~Absent(m)
  BY NextLayer DEF LayerInv
<1> HIDE DEF next
<1>5. adds => next \in Layers
  BY <1>0, <1>3, <1>4 DEF Layers
<1> DEFINE new == {l \in Layers : adds /\ l = next}
<1>6. /\ new \in SUBSET Layers
      /\ new # {} <=> adds
      /\ \A n, m \in new : n = m
      /\ \A n \in new, m \in Layers : m < n <=> ~Absent(m)
      /\ \A l \in new : Absent(l)
      /\ \A l \in Layers : l \in new <=> (adds /\ l = next)
  BY <1>4, <1>5
<1> HIDE DEF new
<1>7. \A l \in request[r].gone : ~Absent(l)
  BY <1>0 DEF LayerReq
<1>8. ASSUME NEW l \in Layers, l \in request[r].gone
      PROVE  /\ layer'[l].status = "DELETED"
             /\ layer'[l].run = layer[l].run /\ layer'[l].original = layer[l].original
             /\ layer'[l].remaining = layer[l].remaining
  <2>1. layer[l] \in LayerRow /\ layer'[l] = [layer[l] EXCEPT !.status = "DELETED"]
    BY <1>0, <1>3, <1>8
  <2> QED
    BY <2>1 DEF LayerRow
<1>9. ASSUME NEW l \in new PROVE layer'[l] = NewLayer(k, request[r].qty)
  BY <1>3, <1>6, <1>7
<1>10. ASSUME NEW l \in Layers, l \notin request[r].gone \cup new PROVE layer'[l] = layer[l]
  BY <1>3, <1>6, <1>10
<1>11. CommitsLayers(r, k, new)
  BY <1>6, <1>7, <1>8, <1>9, <1>10 DEF CommitsLayers
<1> QED
  BY <1>3, <1>6, <1>11

LEMMA CommitKeeps ==
  ASSUME TypeInv, LayerInv, NEW r \in Users, CommitStage(r), NEW k \in Runs, NEW new, CommitsLayers(r, k, new)
  PROVE  LayerInv'
<1>0. /\ TypeOK /\ request[r] \in RequestRow /\ request[r].qty \in Nat
      /\ request \in [Users -> RequestRow] /\ \A l \in Layers : l \in Int
  BY Types DEF TypeInv, RequestRow, Layers
<1>1. /\ UNCHANGED scenario
      /\ \A q \in Users : request'[q] = Idle \/ request'[q] = request[q]
  BY DEF CommitStage
<1>2. \A l \in new : /\ layer'[l].status = "OPEN" /\ layer'[l].original = request[r].qty
                     /\ layer'[l].remaining = request[r].qty
  BY DEF CommitsLayers, NewLayer
<1>3. \A l \in Layers : Absent(l)' <=> Absent(l) /\ l \notin new
  BY <1>2 DEF CommitsLayers, Absent
<1>4. LayersInOrder'
  <2> SUFFICES ASSUME NEW l \in Layers, NEW m \in Layers, m < l, ~Absent(l)' PROVE ~Absent(m)'
    BY DEF LayersInOrder
  <2>1. CASE l \in new
    BY <1>3, <2>1 DEF CommitsLayers
  <2>2. CASE l \notin new
    BY <1>3, <2>2 DEF LayerInv, LayersInOrder
  <2> QED
    BY <2>1, <2>2
<1>5. LayersBounded'
  <2> SUFFICES ASSUME NEW l \in Layers
               PROVE  /\ layer'[l].remaining <= layer'[l].original
                      /\ Live(l)' => (layer'[l].status = "CLOSED" <=> layer'[l].remaining = 0)
    BY DEF LayersBounded
  <2>1. CASE l \in new
    <3>1. request[r].qty > 0
      BY <2>1 DEF CommitsLayers
    <3> QED
      BY <1>0, <1>2, <2>1, <3>1
  <2>2. CASE l \in request[r].gone
    BY <2>2 DEF CommitsLayers, LayerInv, LayersBounded, Live
  <2>3. CASE l \notin request[r].gone \cup new
    BY <2>3 DEF CommitsLayers, LayerInv, LayersBounded, Live
  <2> QED
    BY <2>1, <2>2, <2>3
<1>6. OthersIdle'
  BY <1>1 DEF LayerInv, OthersIdle
<1>7. ASSUME NEW q \in Users PROVE LayerReq(request[q])'
  <2>1. PICK req \in RequestRow : req = request'[q] /\ Knows(req) /\ LayerReq(req)
    BY <1>0, <1>1, IdleType, IdleReq DEF TypeInv, RequestsKnow, LayerInv
  <2>2. \A l \in Layers : ~Absent(l) => ~Absent(l)' /\ layer'[l].original = layer[l].original
    BY <1>3 DEF CommitsLayers
  <2> QED
    BY <2>1, <2>2, FitsKept DEF LayerReq
<1> QED
  BY <1>4, <1>5, <1>6, <1>7 DEF LayerInv

LEMMA CommitSerial ==
  ASSUME TypeInv, StageInv, LayerInv, SerialInv, Alone, NEW r \in Users, CommitStage(r),
         NEW k \in Runs, NEW new, CommitsLayers(r, k, new), run' = [run EXCEPT ![k] = StageRow(r, k)],
         IF request[r].run # None THEN k = request[r].run ELSE run[k].order = None
  PROVE  SerialInv'
<1>0. /\ TypeOK /\ request[r] \in RequestRow /\ request[r].qty \in 0 .. MaxQty /\ request[r].type \in StageTypes
      /\ request[r].pc = "stageCommit" /\ r \in scenario.users /\ SerialReq(request[r])
      /\ layer \in [Layers -> LayerRow] /\ run \in [Runs -> RunRow] /\ taken \in [Layers -> Nat]
      /\ \A l \in Layers : l \in Int
      /\ \A l \in Layers : layer[l].original \in 0 .. MaxQty
  BY Types, Active DEF TypeInv, RequestRow, CommitStage, SerialInv, Layers, LayerRow
<1>1. /\ UNCHANGED <<scenario, taken>> /\ request'[r] = Idle
      /\ \A q \in Users : request'[q] = Idle \/ request'[q] = request[q]
  BY DEF CommitStage
<1>2. \A l \in new : /\ layer'[l].status = "OPEN" /\ layer'[l].original = request[r].qty /\ layer'[l].run = k
                     /\ layer'[l].remaining = request[r].qty
  BY DEF CommitsLayers, NewLayer
<1>3. /\ \A j \in Runs \ {k} : run'[j] = run[j]
      /\ run'[k].stage["FINAL"] = IF request[r].type = "FINAL" THEN request[r].qty ELSE run[k].stage["FINAL"]
  BY <1>0 DEF StageRow, RunRow, StageTypes
<1>4. request[r].gone = IF request[r].type = "FINAL" THEN LiveOf(k) ELSE {}
  <2>1. CASE request[r].run # None
    BY <1>0, <2>1 DEF SerialReq
  <2>2. CASE request[r].run = None
    <3>1. run[k].stage["FINAL"] = None
      BY <2>2 DEF StageInv, RunsHaveOrders, NoStages, StageTypes
    <3>2. LiveOf(k) = {} /\ LiveOf(None) = {}
      <4>1. \A l \in Layers : Live(l) => layer[l].run # None /\ layer[l].run # k
        BY <1>0, <3>1 DEF SerialInv, FinalLayers
      <4> QED
        BY <4>1 DEF LiveOf
    <3> QED
      BY <1>0, <2>2, <3>2 DEF SerialReq
  <2> QED
    BY <2>1, <2>2
<1>5. \A l \in Layers : Live(l)' <=> \/ l \in new
                                     \/ Live(l) /\ (request[r].type = "FINAL" => layer[l].run # k)
  <2>1. ASSUME NEW l \in Layers, l \in new PROVE Live(l)'
    BY <1>2, <2>1 DEF Live
  <2>2. ASSUME NEW l \in Layers, l \in request[r].gone
        PROVE  ~Live(l)' /\ l \notin new /\ Live(l) /\ request[r].type = "FINAL" /\ layer[l].run = k
    BY <1>4, <2>2 DEF Live, LiveOf, CommitsLayers
  <2>3. ASSUME NEW l \in Layers, l \notin request[r].gone \cup new
        PROVE  (Live(l)' <=> Live(l)) /\ ~(Live(l) /\ request[r].type = "FINAL" /\ layer[l].run = k)
    BY <1>4, <2>3 DEF Live, LiveOf, CommitsLayers
  <2> QED
    BY <2>1, <2>2, <2>3
<1>6. \A l \in Layers : l \notin new => /\ layer'[l].run = layer[l].run /\ layer'[l].original = layer[l].original
                                        /\ layer'[l].remaining = layer[l].remaining
  BY DEF CommitsLayers
<1>7. new # {} => request[r].type = "FINAL" /\ request[r].qty > 0
  BY DEF CommitsLayers
<1>8. FinalLayers'
  <2>1. ASSUME NEW l \in Layers, NEW m \in Layers, Live(l)', Live(m)', layer'[l].run = layer'[m].run PROVE l = m
    <3>1. CASE l \in new /\ m \in new
      BY <3>1 DEF CommitsLayers
    <3>2. CASE l \in new /\ m \notin new
      BY <1>2, <1>5, <1>6, <1>7, <2>1, <3>2
    <3>3. CASE l \notin new /\ m \in new
      BY <1>2, <1>5, <1>6, <1>7, <2>1, <3>3
    <3>4. CASE l \notin new /\ m \notin new
      BY <1>5, <1>6, <2>1, <3>4 DEF SerialInv, FinalLayers
    <3> QED
      BY <3>1, <3>2, <3>3, <3>4
  <2>2. ASSUME NEW l \in Layers, Live(l)'
        PROVE  /\ layer'[l].run \in Runs
               /\ layer'[l].original > 0 /\ layer'[l].original = run'[layer'[l].run].stage["FINAL"]
    <3>1. CASE l \in new
      BY <1>2, <1>3, <1>7, <3>1
    <3>2. CASE l \notin new
      <4>1. Live(l) /\ layer'[l].run = layer[l].run /\ layer'[l].original = layer[l].original
        BY <1>5, <1>6, <2>2, <3>2
      <4>2. /\ layer[l].run \in Runs
            /\ layer[l].original > 0 /\ layer[l].original = run[layer[l].run].stage["FINAL"]
        BY <4>1 DEF SerialInv, FinalLayers
      <4>3. layer[l].run = k => request[r].type # "FINAL"
        BY <1>5, <2>2, <3>2
      <4> QED
        BY <1>3, <4>1, <4>2, <4>3
    <3> QED
      BY <3>1, <3>2
  <2>3. ASSUME NEW j \in Runs, run'[j].stage["FINAL"] \notin {None, 0}
        PROVE  \E l \in Layers : Live(l)' /\ layer'[l].run = j
    <3>1. CASE j = k /\ request[r].type = "FINAL"
      <4>1. new # {}
        BY <1>0, <1>3, <2>3, <3>1 DEF CommitsLayers
      <4>2. PICK l \in new : l \in Layers
        BY <4>1 DEF CommitsLayers
      <4> QED
        BY <1>2, <1>5, <3>1, <4>2
    <3>2. CASE ~(j = k /\ request[r].type = "FINAL")
      <4>1. run[j].stage["FINAL"] \notin {None, 0}
        BY <1>3, <2>3, <3>2
      <4>2. PICK l \in Layers : Live(l) /\ layer[l].run = j
        BY <4>1 DEF SerialInv, FinalLayers
      <4>3. l \notin new
        BY <4>2 DEF CommitsLayers, Live, Absent
      <4> QED
        BY <1>5, <1>6, <3>2, <4>2, <4>3
    <3> QED
      BY <3>1, <3>2
  <2> QED
    BY <2>1, <2>2, <2>3 DEF FinalLayers
<1>9. UsedUp'
  <2>1. \A l \in new : taken[l] = 0 /\ Absent(l)
    BY DEF CommitsLayers, SerialInv, UsedUp
  <2>2. ASSUME NEW l \in Layers, Absent(l)' PROVE taken'[l] = 0
    <3>1. Absent(l) \/ l \in new
      BY <2>2 DEF CommitsLayers, Absent
    <3> QED
      BY <1>1, <2>1, <3>1 DEF SerialInv, UsedUp
  <2>3. ASSUME NEW l \in Layers, Live(l)' PROVE layer'[l].original = layer'[l].remaining + taken'[l]
    <3>1. CASE l \in new
      BY <1>0, <1>1, <1>2, <2>1, <3>1
    <3>2. CASE l \notin new
      BY <1>1, <1>5, <1>6, <2>3, <3>2 DEF SerialInv, UsedUp
    <3> QED
      BY <3>1, <3>2
  <2>4. ASSUME NEW l \in Layers, NEW m \in Layers, Live(l)', Live(m)', m < l, taken'[l] > 0
        PROVE  layer'[m].remaining = 0
    <3>1. l \notin new /\ Live(l) /\ ~Absent(l)
      BY <1>1, <1>5, <2>1, <2>4 DEF Live, Absent
    <3>2. m \notin new
      <4>1. m \in new => l < m
        BY <3>1 DEF CommitsLayers
      <4> QED
        BY <1>0, <2>4, <4>1
    <3> QED
      BY <1>1, <1>5, <1>6, <2>4, <3>1, <3>2 DEF SerialInv, UsedUp
  <2> QED
    BY <2>2, <2>3, <2>4 DEF UsedUp
<1>10. ASSUME NEW q \in Users PROVE SerialReq(request[q])'
  <2>1. request'[q] = Idle
    BY <1>0, <1>1, AloneIdle
  <2> QED
    BY <2>1 DEF SerialReq, Idle, ConsumePcs
<1> QED
  BY <1>8, <1>9, <1>10 DEF SerialInv

LEMMA LayersStep == TypeInv /\ StageInv /\ LayerInv /\ [PricingNext]_vars => LayersKept
<1> SUFFICES ASSUME TypeInv, StageInv, LayerInv, [PricingNext]_vars PROVE LayersKept
  OBVIOUS
<1>1. ASSUME UNCHANGED <<scenario, run, layer, taken, request>> PROVE LayersKept
  <2>1. LayerInv'
    BY <1>1 DEF LayerInv, LayersInOrder, LayersBounded, OthersIdle, LayerReq, Absent, Live, Fits
  <2>2. SerialInv => SerialInv'
    <3>1. FinalLayers' <=> FinalLayers
      BY <1>1 DEF FinalLayers, Live
    <3>2. UsedUp' <=> UsedUp
      BY <1>1 DEF UsedUp, Live, Absent
    <3>3. Open' = Open /\ \A k : LiveOf(k)' = LiveOf(k)
      BY <1>1 DEF Open, LiveOf, Live
    <3>4. \A want : PlanOf(want)' = PlanOf(want)
      BY <1>1, <3>3 DEF PlanOf
    <3>5. ASSUME NEW q \in Users, SerialReq(request[q]) PROVE SerialReq(request[q])'
      BY <1>1, <3>3, <3>4, <3>5 DEF SerialReq
    <3> QED
      BY <3>1, <3>2, <3>5 DEF SerialInv
  <2> QED
    BY <2>1, <2>2 DEF LayersKept
<1>2. CASE UNCHANGED vars \/ Unlinks \/ (\E o \in Orders : CreateOrder(o))
           \/ (\E x \in Receipts, o \in Orders : CreateReceipt(x, o))
  BY <1>1, <1>2 DEF vars, Unlinks, CreateOrder, CreateReceipt
<1>3. ASSUME NEW r \in Users, CommitStage(r) PROVE LayersKept
  <2>1. PICK k \in Runs, new \in SUBSET Layers :
            /\ CommitsLayers(r, k, new)
            /\ run' = [run EXCEPT ![k] = StageRow(r, k)]
            /\ IF request[r].run # None THEN k = request[r].run ELSE run[k].order = None
    BY <1>3, CommitLayersAre
  <2>2. LayerInv'
    BY <1>3, <2>1, CommitKeeps
  <2>3. ASSUME SerialInv, Alone PROVE SerialInv'
    BY <1>3, <2>1, <2>3, CommitSerial
  <2> QED
    BY <2>2, <2>3 DEF LayersKept
<1>4. ASSUME NEW r \in Users, OrderStep(r) \/ ReceiptStep(r) \/ StageStep(r) \/ ConsumeStep(r) \/ Abort(r)
      PROVE  LayersKept
  <2>1. CASE OrderStep(r) \/ Abort(r)
    BY <2>1, OrderLayers
  <2>2. CASE ReceiptStep(r)
    BY <2>2, ReceiptLayers
  <2>3. CASE StageStep(r)
    BY <1>3, <2>3, StageReads
  <2>4. CASE ConsumeStep(r)
    BY <2>4, ConsumeReads, ConsumeWrites DEF ConsumeStep
  <2> QED
    BY <1>4, <2>1, <2>2, <2>3, <2>4
<1> QED
  BY <1>2, <1>4 DEF PricingNext, Next

\* While the scenario stays the same, so does who is alone.
SerialLayers == Alone => SerialInv

LEMMA LayersInvariant == FlowSpec => [](LayerInv /\ SerialLayers)
<1> DEFINE Before == TypeInv /\ StageInv
           Inv == LayerInv /\ SerialLayers
<1>1. FlowInit => Inv
  <2> SUFFICES ASSUME FlowInit PROVE LayerInv /\ SerialInv
    BY DEF SerialLayers
  <2>1. /\ \A l \in Layers : Absent(l) /\ ~Live(l) /\ layer[l].remaining = 0 /\ layer[l].original = 0
        /\ \A r \in Users : request[r] = Idle
        /\ \A l \in Layers : taken[l] = 0
    BY DEF FlowInit, Init, AbsentLayer, Absent, Live
  <2>2. LayerInv
    BY <2>1, IdleReq DEF LayerInv, LayersInOrder, LayersBounded, OthersIdle
  <2>3. \A k \in Runs : run[k].stage["FINAL"] = None
    <3>1. PICK runOf \in [scenario.billed -> Runs] :
            run = [k \in Runs |->
              IF \E o \in scenario.billed : k = runOf[o]
              THEN [order |-> CHOOSE o \in scenario.billed : k = runOf[o], status |-> "NORMALIZED",
                    stage |-> [NoStages EXCEPT !["ESTIMATE"] = 1, !["BILL_NORMALIZE"] = 1]]
              ELSE AbsentRun]
      BY DEF FlowInit, Init, Injection, IsInjective
    <3> QED
      BY <3>1 DEF AbsentRun, NoStages, StageTypes
  <2>4. SerialInv
    BY <2>1, <2>3, IdleReq DEF SerialInv, FinalLayers, UsedUp
  <2> QED
    BY <2>2, <2>4
<1>2. Before /\ Inv /\ [FlowNext]_allVars => Inv'
  <2> SUFFICES ASSUME Before, Inv, [FlowNext]_allVars PROVE Inv'
    OBVIOUS
  <2>1. [PricingNext]_vars
    BY FlowSteps
  <2>2. LayersKept
    BY <2>1, LayersStep
  <2>3. scenario' = scenario
    BY <2>1 DEF PricingNext, Next, Unlinks, vars, CreateOrder, CreateReceipt, OrderStep, CheckOrder, ApproveAny, SetOrder,
                ReceiptStep, ConfirmRead, ConfirmReadOrder, ConfirmCommit, VoidRead, VoidWrite,
                StageStep, CheckStage, ReadRun, SeeLayers, DeleteLayers, ReadStage, CommitStage,
                ConsumeStep, ConsumePreview, ConsumeRead, ConsumeWrite, Abort
  <2>4. Alone' <=> Alone
    BY <2>3 DEF Alone
  <2> QED
    BY <2>2, <2>4 DEF LayersKept, SerialLayers
<1> HIDE DEF Before, Inv
<1>3. FlowSpec => []Before
  BY PricingInvariant DEF Before
<1>4. FlowSpec => []Inv
  BY <1>1, <1>2, <1>3, PTL DEF FlowSpec
<1> QED
  BY <1>4 DEF Inv

\* However often FINAL is priced again and whatever has been consumed, a run has one cost layer of
\* the quantity of its FINAL stage, when requests are served one by one (createStage).
THEOREM LayersAreFinalCorrect == FlowSpec => []LayersAreFinal
<1>1. TypeOK /\ SerialLayers => LayersAreFinal
  <2> SUFFICES ASSUME TypeOK, SerialInv, NEW k \in Runs
               PROVE  /\ {layer[l].original : l \in LiveOf(k)} = {run[k].stage["FINAL"]} \ {None, 0}
                      /\ Cardinality(LiveOf(k)) <= 1
    BY DEF SerialLayers, LayersAreFinal
  <2>1. CASE LiveOf(k) = {}
    <3>1. run[k].stage["FINAL"] \in {None, 0}
      BY <2>1 DEF SerialInv, FinalLayers, LiveOf
    <3>2. Cardinality(LiveOf(k)) = 0
      BY <2>1, FS_EmptySet
    <3> QED
      BY <2>1, <3>1, <3>2
  <2>2. CASE LiveOf(k) # {}
    <3>1. PICK l \in LiveOf(k) : TRUE
      BY <2>2
    <3>2. LiveOf(k) = {l}
      BY <3>1 DEF SerialInv, FinalLayers, LiveOf
    <3>3. layer[l].original > 0 /\ layer[l].original = run[k].stage["FINAL"] /\ layer[l].original \in 0 .. MaxQty
      BY <3>1, Types DEF SerialInv, FinalLayers, LiveOf, LayerRow
    <3>4. Cardinality(LiveOf(k)) = 1
      BY <3>2, FS_Singleton
    <3> QED
      BY <3>2, <3>3, <3>4
  <2> QED
    BY <2>1, <2>2
<1> QED
  BY <1>1, TypeCorrect, LayersInvariant, PTL

\* No overlap of consumptions and pricings takes a layer below zero, leaves a used-up layer open or
\* closes one that has something left.  When requests are served one by one, what a layer has left
\* is what it had less what was taken, and nothing is taken from it while an older one has any.
THEOREM OldestFirstCorrect == FlowSpec => []OldestFirst
<1>1. TypeOK /\ LayerInv /\ SerialLayers => OldestFirst
  <2> SUFFICES ASSUME TypeOK, LayerInv, SerialLayers, NEW l \in Layers, Live(l)
               PROVE  /\ layer[l].remaining \in 0 .. layer[l].original
                      /\ layer[l].status = "CLOSED" <=> layer[l].remaining = 0
                      /\ Alone => layer[l].original = layer[l].remaining + taken[l]
                      /\ Alone /\ taken[l] > 0 => \A m \in Layers : m < l /\ Live(m) => layer[m].remaining = 0
    BY DEF OldestFirst
  <2>1. layer[l].remaining \in 0 .. layer[l].original
    BY Types DEF LayerRow, LayerInv, LayersBounded
  <2> QED
    BY <2>1 DEF LayerInv, LayersBounded, SerialLayers, SerialInv, UsedUp
<1> QED
  BY <1>1, TypeCorrect, LayersInvariant, PTL

-----------------------------------------------------------------------------
(* The next action of an order.                                           *)

\* The first thing that an order needs.
NeededFirst(o, i) ==
    /\ i \in 1 .. 10 /\ Needs(o)[i][2]
    /\ \A j \in 1 .. 10 : j < i => ~Needs(o)[j][2]

LEMMA NextActionIs ==
  ASSUME NEW o \in Orders
  PROVE  \/ NextAction(o) = "VIEW_ONLY"
         \/ Editable(o) /\ \E i \in 1 .. 10 : NeededFirst(o, i) /\ NextAction(o) = Needs(o)[i][1]
<1> DEFINE open == {i \in DOMAIN Needs(o) : Needs(o)[i][2]}
<1>1. NextAction(o) = IF Editable(o) /\ open # {} THEN Needs(o)[Min(open)][1] ELSE "VIEW_ONLY"
  BY DEF NextAction
<1>2. DOMAIN Needs(o) = 1 .. 10
  BY DEF Needs
<1>3. SUFFICES ASSUME Editable(o), open # {}
               PROVE  \E i \in 1 .. 10 : NeededFirst(o, i) /\ NextAction(o) = Needs(o)[i][1]
  BY <1>1
<1>4. open \in SUBSET (0 .. 10)
  BY <1>2
<1>5. \E i \in open : \A j \in open : i <= j
  <2> HIDE DEF open
  <2> QED
    BY <1>3, <1>4, Smallest
<1>6. Min(open) \in open /\ \A j \in open : Min(open) <= j
  <2> HIDE DEF open
  <2> QED
    BY <1>5 DEF Min
<1>7. NeededFirst(o, Min(open))
  <2>1. Min(open) \in 1 .. 10 /\ Needs(o)[Min(open)][2]
    BY <1>2, <1>6
  <2>2. ASSUME NEW j \in 1 .. 10, j < Min(open) PROVE ~Needs(o)[j][2]
    BY <1>2, <1>6, <2>1, <2>2
  <2> QED
    BY <2>1, <2>2 DEF NeededFirst
<1>8. NextAction(o) = Needs(o)[Min(open)][1]
  BY <1>1, <1>3
<1>9. Min(open) \in 1 .. 10
  BY <1>7 DEF NeededFirst
<1> QED
  BY <1>7, <1>8, <1>9

\* The steps of the workflow.
Steps == {"TERM_PROFILE", "ESTIMATE_PRICE", "PURCHASE_ORDER", "PAYMENT_REQUEST", "BANK_TRANSACTION",
          "RECEIPT", "INVOICE_PRICE", "OFFICIAL_PRICE", "ADJUSTMENT", "BOSS_SHEET", "SETTLEMENT"}
LEMMA StepsAre == /\ \A o : DOMAIN StepAction(o) = Steps
                  /\ \A o, next : DOMAIN StepDone(o, next) = Steps /\ DOMAIN Workflow(o, next) = Steps
<1>1. \A o : DOMAIN StepAction(o) = Steps
  BY DEF StepAction, Steps
<1>2. \A o, next : DOMAIN StepDone(o, next) = Steps
  BY DEF StepDone, Steps
<1> QED
  BY <1>1, <1>2 DEF Workflow

\* What is current, when the step of the next action is not done.
LEMMA CurrentIs ==
  ASSUME NEW o \in Orders, NEW next, StepOf(next) \subseteq Steps,
         \A step \in StepOf(next) : ~StepDone(o, next)[step]
  PROVE  {step \in DOMAIN Workflow(o, next) : Workflow(o, next)[step] = "CURRENT"} =
            StepOf(next)
            \cup (IF SentToBank(o) /\ ~StepDone(o, next)["BANK_TRANSACTION"] THEN {"BANK_TRANSACTION"} ELSE {})
            \cup (IF StepDone(o, next)["TERM_PROFILE"] THEN {} ELSE {"TERM_PROFILE"})
<1>1. ASSUME NEW step \in Steps
      PROVE  Workflow(o, next)[step] = "CURRENT" <=> ~StepDone(o, next)[step] /\ step \in Begun(o, next)
  BY StepsAre DEF Workflow
<1>2. Begun(o, next) \subseteq Steps
  BY DEF Begun, Steps
<1>3. {step \in DOMAIN Workflow(o, next) : Workflow(o, next)[step] = "CURRENT"} =
        {step \in Begun(o, next) : ~StepDone(o, next)[step]}
  BY <1>1, <1>2, StepsAre
<1> QED
  BY <1>3 DEF Begun

\* The steps, their actions and what they ask, one by one.
LEMMA StepsOfAre ==
  /\ StepOf("CALCULATE_TEMP_PRICE") = {"ESTIMATE_PRICE"}
  /\ StepOf("CREATE_ORDER_DOCUMENT") = {"PURCHASE_ORDER"}
  /\ StepOf("CREATE_PAYMENT_REQUEST") = {"PAYMENT_REQUEST"}
  /\ StepOf("CREATE_BANK_INSTRUCTION") = {"BANK_TRANSACTION"}
  /\ StepOf("CREATE_RECEIPT") = {"RECEIPT"}
  /\ StepOf("CALCULATE_INVOICE_PRICE") = {"INVOICE_PRICE"}
  /\ StepOf("CALCULATE_OFFICIAL_FX") = {"OFFICIAL_PRICE"}
  /\ StepOf("CREATE_SETTLEMENT_ADJUSTMENT") = {"ADJUSTMENT"}
  /\ StepOf("CREATE_BOSS_SHEET") = {"BOSS_SHEET"}
  /\ StepOf("COMPLETE_ORDER") = {"SETTLEMENT"}
  /\ StepOf("VIEW_ONLY") = {}
  BY DEF StepOf

LEMMA ActionsAre ==
  ASSUME NEW o \in Orders
  PROVE  /\ StepAction(o)["ESTIMATE_PRICE"] = "CALCULATE_TEMP_PRICE"
         /\ StepAction(o)["PURCHASE_ORDER"] = "CREATE_ORDER_DOCUMENT"
         /\ StepAction(o)["PAYMENT_REQUEST"] = "CREATE_PAYMENT_REQUEST"
         /\ ~HasBankInstruction(o) => StepAction(o)["BANK_TRANSACTION"] = "CREATE_BANK_INSTRUCTION"
         /\ StepAction(o)["RECEIPT"] = "CREATE_RECEIPT"
         /\ StepAction(o)["INVOICE_PRICE"] = "CALCULATE_INVOICE_PRICE"
         /\ StepAction(o)["OFFICIAL_PRICE"] = "CALCULATE_OFFICIAL_FX"
         /\ StepAction(o)["ADJUSTMENT"] = "CREATE_SETTLEMENT_ADJUSTMENT"
         /\ StepAction(o)["BOSS_SHEET"] = "CREATE_BOSS_SHEET"
         /\ StepAction(o)["SETTLEMENT"] = "COMPLETE_ORDER"
  BY DEF StepAction

LEMMA NeedsAre ==
  ASSUME NEW o \in Orders
  PROVE  /\ Needs(o)[1][1] = "CALCULATE_TEMP_PRICE" /\ (Needs(o)[1][2] <=> flow[o].type = "ESTIMATE_FIRST" /\ ~HasStage(o, "ESTIMATE"))
         /\ Needs(o)[2][1] = "CREATE_ORDER_DOCUMENT" /\ (Needs(o)[2][2] <=> ~flow[o].document)
         /\ Needs(o)[3][1] = "CREATE_PAYMENT_REQUEST" /\ (Needs(o)[3][2] <=> PaymentsOf(o) = {})
         /\ Needs(o)[4][1] = "CREATE_BANK_INSTRUCTION" /\ (Needs(o)[4][2] <=> ~\E p \in PaymentsOf(o) : AtBank(p))
         /\ Needs(o)[5][1] = "CREATE_RECEIPT" /\ (Needs(o)[5][2] <=> Confirmed(o) = {})
         /\ Needs(o)[6][1] = "CALCULATE_INVOICE_PRICE" /\ (Needs(o)[6][2] <=> ~HasStage(o, "BILL_NORMALIZE"))
         /\ Needs(o)[7][1] = "CALCULATE_OFFICIAL_FX" /\ (Needs(o)[7][2] <=> ~HasStage(o, "FINAL"))
         /\ Needs(o)[8][1] = "CREATE_SETTLEMENT_ADJUSTMENT" /\ (Needs(o)[8][2] <=> PaymentDiffers(o) /\ ~flow[o].adjusted)
         /\ Needs(o)[9][1] = "CREATE_BOSS_SHEET" /\ (Needs(o)[9][2] <=> ~HasStage(o, "BOSS_SHEET"))
         /\ Needs(o)[10][1] = "COMPLETE_ORDER" /\ (Needs(o)[10][2] <=> ~\E k \in Runs : run[k].order = o /\ run[k].status = "POSTED")
  BY DEF Needs

LEMMA DoneAre ==
  ASSUME NEW o \in Orders, NEW next
  PROVE  /\ StepDone(o, next)["TERM_PROFILE"] = flow[o].contract
         /\ StepDone(o, next)["ESTIMATE_PRICE"] <=> flow[o].type = "DIRECT_ORDER" \/ HasStage(o, "ESTIMATE")
         /\ StepDone(o, next)["PURCHASE_ORDER"] <=> flow[o].document
         /\ StepDone(o, next)["PAYMENT_REQUEST"] <=> PaymentsOf(o) # {}
         /\ StepDone(o, next)["BANK_TRANSACTION"] <=> \E p \in PaymentsOf(o) : PaidByBank(p)
         /\ StepDone(o, next)["RECEIPT"] <=> Confirmed(o) # {}
         /\ StepDone(o, next)["INVOICE_PRICE"] <=> HasStage(o, "BILL_NORMALIZE")
         /\ StepDone(o, next)["OFFICIAL_PRICE"] <=> HasStage(o, "FINAL")
         /\ StepDone(o, next)["ADJUSTMENT"] <=> flow[o].adjusted \/ (HasStage(o, "FINAL") /\ next # "CREATE_SETTLEMENT_ADJUSTMENT")
         /\ StepDone(o, next)["BOSS_SHEET"] <=> HasStage(o, "BOSS_SHEET")
         /\ StepDone(o, next)["SETTLEMENT"] <=> order[o] = "COMPLETED"
  BY DEF StepDone

LEMMA AcceptedAre ==
  ASSUME NEW o \in Orders
  PROVE  /\ Accepted(o, "CALCULATE_TEMP_PRICE") <=> ValidStage(o, "ESTIMATE")
         /\ Accepted(o, "CREATE_ORDER_DOCUMENT") <=> Documentable(o)
         /\ Accepted(o, "CREATE_PAYMENT_REQUEST") <=> Requestable(o)
         /\ Accepted(o, "CREATE_BANK_INSTRUCTION") <=> Editable(o) /\ PaymentsOf(o) # {}
         /\ Accepted(o, "CREATE_RECEIPT") <=> order[o] \in {"APPROVED", "IN_PROGRESS"}
         /\ Accepted(o, "CALCULATE_INVOICE_PRICE") <=> ValidStage(o, "BILL_NORMALIZE")
         /\ Accepted(o, "CALCULATE_OFFICIAL_FX") <=> ValidStage(o, "FINAL")
         /\ Accepted(o, "CREATE_SETTLEMENT_ADJUSTMENT") <=> Editable(o) /\ HasStage(o, "FINAL") /\ PaymentDiffers(o)
         /\ Accepted(o, "CREATE_BOSS_SHEET") <=> ValidStage(o, "BOSS_SHEET")
         /\ Accepted(o, "COMPLETE_ORDER") <=> Completable(o)
         /\ Accepted(o, "VIEW_ONLY")
  BY DEF Accepted

\* The step of the next action is not done, and offers the action unless a batch is open.
Offered(o, next) ==
    /\ StepOf(next) \subseteq Steps
    /\ \A step \in StepOf(next) : /\ ~StepDone(o, next)[step]
                                  /\ StepAction(o)[step] = next \/ InOpenBatch(o)
LEMMA NextIsOffered ==
  ASSUME FlowTables, NEW o \in Orders, Editable(o), NEW i \in 1 .. 10, NeededFirst(o, i)
  PROVE  Offered(o, Needs(o)[i][1])
<1>1. Needs(o)[i][2]
  BY DEF NeededFirst
<1>2. flow[o].type \in FlowTypes
  BY DEF FlowTables, FlowRow
<1>3. \A p \in PaymentRequests : PaidByBank(p) => AtBank(p)
  <2>1. \A p \in PaymentRequests : instruction[p] = "MATCHED" => Instructed(p)
    BY DEF Instructed
  <2> QED
    BY <2>1 DEF PaidByBank, AtBank
<1>4. PaymentsOf(o) \subseteq PaymentRequests
  BY DEF PaymentsOf
<1>16. ASSUME ~\E p \in PaymentsOf(o) : AtBank(p), HasBankInstruction(o) PROVE InOpenBatch(o)
  BY <1>4, <1>16 DEF HasBankInstruction, AtBank, LiveItems, LiveItemStatus, InOpenBatch
<1>17. ASSUME NEW next, NEW step \in Steps, StepOf(next) = {step}, ~StepDone(o, next)[step],
              StepAction(o)[step] = next \/ InOpenBatch(o)
       PROVE  Offered(o, next)
  BY <1>17 DEF Offered
<1>5. CASE i = 1
  BY <1>1, <1>2, <1>5, <1>17, NeedsAre, DoneAre, ActionsAre, StepsOfAre DEF Steps, FlowTypes
<1>6. CASE i = 2
  BY <1>1, <1>6, <1>17, NeedsAre, DoneAre, ActionsAre, StepsOfAre DEF Steps
<1>7. CASE i = 3
  BY <1>1, <1>7, <1>17, NeedsAre, DoneAre, ActionsAre, StepsOfAre DEF Steps
<1>8. CASE i = 4
  BY <1>1, <1>3, <1>4, <1>8, <1>16, <1>17, NeedsAre, DoneAre, ActionsAre, StepsOfAre DEF Steps
<1>9. CASE i = 5
  BY <1>1, <1>9, <1>17, NeedsAre, DoneAre, ActionsAre, StepsOfAre DEF Steps
<1>10. CASE i = 6
  BY <1>1, <1>10, <1>17, NeedsAre, DoneAre, ActionsAre, StepsOfAre DEF Steps
<1>11. CASE i = 7
  BY <1>1, <1>11, <1>17, NeedsAre, DoneAre, ActionsAre, StepsOfAre DEF Steps
<1>12. CASE i = 8
  BY <1>1, <1>12, <1>17, NeedsAre, DoneAre, ActionsAre, StepsOfAre DEF Steps
<1>13. CASE i = 9
  BY <1>1, <1>13, <1>17, NeedsAre, DoneAre, ActionsAre, StepsOfAre DEF Steps
<1>14. CASE i = 10
  BY <1>1, <1>14, <1>17, NeedsAre, DoneAre, ActionsAre, StepsOfAre DEF Steps, Editable
<1>15. i = 1 \/ i = 2 \/ i = 3 \/ i = 4 \/ i = 5 \/ i = 6 \/ i = 7 \/ i = 8 \/ i = 9 \/ i = 10
  OBVIOUS
<1> QED
  BY <1>5, <1>6, <1>7, <1>8, <1>9, <1>10, <1>11, <1>12, <1>13, <1>14, <1>15

\* What the order has when its first need is the i-th makes the handler take the call.
LEMMA NextIsAccepted ==
  ASSUME StagesInOrder, NEW o \in Orders, order[o] \in {"APPROVED", "IN_PROGRESS"},
         Editable(o), NEW i \in 1 .. 10, NeededFirst(o, i),
         i \in {2, 6} => HasStage(o, "ESTIMATE")
  PROVE  Accepted(o, Needs(o)[i][1])
<1>1. Needs(o)[i][2]
  BY DEF NeededFirst
<1>2. HasStage(o, "BOSS_SHEET") => HasStage(o, "FINAL")
  BY DEF StagesInOrder
<1>3. i > 2 => flow[o].document
  BY NeedsAre DEF NeededFirst
<1>4. i > 3 => PaymentsOf(o) # {}
  BY NeedsAre DEF NeededFirst
<1>5. i > 5 => Confirmed(o) # {}
  BY NeedsAre DEF NeededFirst
<1>6. i > 6 => HasStage(o, "BILL_NORMALIZE")
  BY NeedsAre DEF NeededFirst
<1>7. i > 7 => HasStage(o, "FINAL")
  BY NeedsAre DEF NeededFirst
<1>8. CASE i = 1
  BY <1>8, NeedsAre, AcceptedAre DEF ValidStage
<1>9. CASE i = 2
  BY <1>2, <1>9, NeedsAre, AcceptedAre DEF Documentable
<1>10. CASE i = 3
  BY <1>3, <1>10, NeedsAre, AcceptedAre DEF Requestable
<1>11. CASE i = 4
  BY <1>4, <1>11, NeedsAre, AcceptedAre
<1>12. CASE i = 5
  BY <1>12, NeedsAre, AcceptedAre
<1>13. CASE i = 6
  BY <1>2, <1>5, <1>13, NeedsAre, AcceptedAre DEF ValidStage
<1>14. CASE i = 7
  BY <1>5, <1>6, <1>14, NeedsAre, AcceptedAre DEF ValidStage
<1>15. CASE i = 8
  BY <1>1, <1>7, <1>15, NeedsAre, AcceptedAre
<1>16. CASE i = 9
  BY <1>5, <1>7, <1>16, NeedsAre, AcceptedAre DEF ValidStage
<1>17. CASE i = 10
  BY <1>5, <1>7, <1>17, NeedsAre, AcceptedAre DEF Completable
<1>18. i = 1 \/ i = 2 \/ i = 3 \/ i = 4 \/ i = 5 \/ i = 6 \/ i = 7 \/ i = 8 \/ i = 9 \/ i = 10
  OBVIOUS
<1> QED
  BY <1>8, <1>9, <1>10, <1>11, <1>12, <1>13, <1>14, <1>15, <1>16, <1>17, <1>18

\* Whatever documents, payments, pricings and voids came before, the workflow of an order shows as
\* current the one step of what getNextAction answers, beside a payment at the bank and a missing
\* contract, and the step offers the answer unless the payment waits in a batch; from the approval
\* on the handler behind the answer takes the call, but for the form and the price of the bill of
\* an order that has no estimate.
THEOREM NextActionIsAcceptedCorrect == FlowSpec => []NextActionIsAccepted
<1>1. FlowTables /\ StagesInOrder => NextActionIsAccepted
  <2> SUFFICES ASSUME FlowTables, StagesInOrder, NEW o \in Orders, order[o] # "ABSENT", NEW next, next = NextAction(o)
               PROVE  /\ {step \in DOMAIN Workflow(o, next) : Workflow(o, next)[step] = "CURRENT"} =
                            StepOf(next)
                            \cup (IF SentToBank(o) /\ ~\E p \in PaymentsOf(o) : PaidByBank(p)
                                  THEN {"BANK_TRANSACTION"} ELSE {})
                            \cup (IF flow[o].contract THEN {} ELSE {"TERM_PROFILE"})
                      /\ \A step \in StepOf(next) : StepAction(o)[step] = next \/ InOpenBatch(o)
                      /\ /\ order[o] \in {"APPROVED", "IN_PROGRESS"}
                         /\ next \in {"CREATE_ORDER_DOCUMENT", "CALCULATE_INVOICE_PRICE"}
                            => HasStage(o, "ESTIMATE")
                         => Accepted(o, next)
    BY DEF NextActionIsAccepted
  <2>0. ASSUME Offered(o, next)
        PROVE  {step \in DOMAIN Workflow(o, next) : Workflow(o, next)[step] = "CURRENT"} =
                    StepOf(next)
                    \cup (IF SentToBank(o) /\ ~\E p \in PaymentsOf(o) : PaidByBank(p)
                          THEN {"BANK_TRANSACTION"} ELSE {})
                    \cup (IF flow[o].contract THEN {} ELSE {"TERM_PROFILE"})
    <3>1. {step \in DOMAIN Workflow(o, next) : Workflow(o, next)[step] = "CURRENT"} =
            StepOf(next)
            \cup (IF SentToBank(o) /\ ~StepDone(o, next)["BANK_TRANSACTION"] THEN {"BANK_TRANSACTION"} ELSE {})
            \cup (IF StepDone(o, next)["TERM_PROFILE"] THEN {} ELSE {"TERM_PROFILE"})
      BY <2>0, CurrentIs DEF Offered
    <3> QED
      BY <3>1, DoneAre
  <2>1. CASE next = "VIEW_ONLY"
    <3>1. StepOf(next) = {}
      BY <2>1, StepsOfAre
    <3>2. Offered(o, next)
      BY <3>1 DEF Offered
    <3> QED
      BY <2>0, <2>1, <3>1, <3>2, AcceptedAre
  <2>2. CASE next # "VIEW_ONLY"
    <3>1. PICK i \in 1 .. 10 : Editable(o) /\ NeededFirst(o, i) /\ next = Needs(o)[i][1]
      BY <2>2, NextActionIs
    <3>2. Offered(o, next)
      BY <3>1, NextIsOffered
    <3>3. i \in {2, 6} => next \in {"CREATE_ORDER_DOCUMENT", "CALCULATE_INVOICE_PRICE"}
      BY <3>1, NeedsAre
    <3>4. /\ order[o] \in {"APPROVED", "IN_PROGRESS"}
          /\ next \in {"CREATE_ORDER_DOCUMENT", "CALCULATE_INVOICE_PRICE"} => HasStage(o, "ESTIMATE")
          => Accepted(o, next)
      BY <3>1, <3>3, NextIsAccepted
    <3> QED
      BY <2>0, <3>2, <3>4 DEF Offered
  <2> QED
    BY <2>1, <2>2
<1> QED
  BY <1>1, StagesInOrderCorrect, PaymentsInvariant, PTL DEF PaymentInv

=============================================================================
