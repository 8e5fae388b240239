------------------------------ MODULE TermFlow ------------------------------
(***************************************************************************)
(* The paper trail of a TERM purchase order around its pricing             *)
(* (TermPricing): the order form sent to the supplier, the payment         *)
(* request, bank instructions, the batches in which the bank pays          *)
(* requests, the settlement adjustment after the FINAL price, and          *)
(* getNextAction, which tells the user what comes next.                    *)
(*                                                                         *)
(* Pricing and receipts keep the steps of TermPricing; a call modelled     *)
(* here is one step, taken while no other request is being served.  The    *)
(* number of a stage also stands for its amount (a liter costs one).       *)
(***************************************************************************)
EXTENDS TermPricing, SequencesExt

CONSTANTS
    PaymentRequests,   \* ids a PurchaseTermPaymentRequest row may get
    Batches            \* ids a TermPaymentBatch row may get

VARIABLES
    flow,          \* of each order: contractNo, termFlowType, prices on its lines, ACTIVE document,
                   \* adjustment
    payment,       \* the PurchaseTermPaymentRequest table
    instruction,   \* the furthest status of the bank instructions of each payment request
    batch,         \* TermPaymentBatch.status
    item           \* the TermPaymentBatchItem rows, by batch and payment request

flowVars == <<flow, payment, instruction, batch, item>>
allVars == <<vars, flowVars>>

FlowTypes == {"ESTIMATE_FIRST", "DIRECT_ORDER"}
PaymentStatus == {"ABSENT", "SUBMITTED", "IN_BATCH", "SENT_TO_BANK", "PARTIALLY_PAID", "PAID"}
InstructionStatus == <<"ABSENT", "DRAFT", "SENT", "MATCHED">>
BatchStatus == {"ABSENT", "DRAFT", "SENT_TO_BANK", "PARTIALLY_PAID", "PAID"}
ItemStatus == {"PENDING", "SENT", "PARTIALLY_PAID", "PAID", "FAILED", "CANCELLED"}
LiveItemStatus == {"PENDING", "SENT", "PARTIALLY_PAID", "PAID"}
AbsentItem == [status |-> "ABSENT", paid |-> 0]

NewFlow(type, priced) ==
    [contract |-> TRUE, type |-> type, priced |-> priced, document |-> FALSE, adjusted |-> FALSE]
\* Without the calls of this module all orders are of one kind.
NewFlows ==
    IF "document" \in scenario.calls THEN {NewFlow(type, priced) : type \in FlowTypes, priced \in BOOLEAN}
    ELSE {NewFlow("ESTIMATE_FIRST", TRUE)}
AbsentPayment == [status |-> "ABSENT", order |-> None, amount |-> 0]

PaymentsOf(o) == {p \in PaymentRequests : payment[p].status # "ABSENT" /\ payment[p].order = o}
ItemsOf(p) == {b \in Batches : item[b][p].status # "ABSENT"}
LiveItems(p) == {b \in Batches : item[b][p].status \in LiveItemStatus}
Instructed(p) == instruction[p] # "ABSENT"
FinalAmount(o) == CHOOSE q \in 0 .. MaxQty : \E k \in Runs : run[k].order = o /\ run[k].stage["FINAL"] = q
PaymentAmount(o) == payment[CHOOSE p \in PaymentsOf(o) : TRUE].amount
Editable(o) == order[o] \notin {"ABSENT", "CANCELLED", "COMPLETED"}

(***************************************************************************)
(* getNextAction: the first thing an open order needs.                     *)
(***************************************************************************)
PaymentDiffers(o) == PaymentsOf(o) # {} /\ HasStage(o, "FINAL") /\ FinalAmount(o) # PaymentAmount(o)
AtBank(p) ==
    \/ Instructed(p)
    \/ \E b \in Batches : item[b][p].status \in {"SENT", "PARTIALLY_PAID", "PAID"}

Needs(o) ==
    << <<"CALCULATE_TEMP_PRICE", flow[o].type = "ESTIMATE_FIRST" /\ ~HasStage(o, "ESTIMATE")>>,
       <<"CREATE_ORDER_DOCUMENT", ~flow[o].document>>,
       <<"CREATE_PAYMENT_REQUEST", PaymentsOf(o) = {}>>,
       <<"CREATE_BANK_INSTRUCTION", ~\E p \in PaymentsOf(o) : AtBank(p)>>,
       <<"CREATE_RECEIPT", Confirmed(o) = {}>>,
       <<"CALCULATE_INVOICE_PRICE", ~HasStage(o, "BILL_NORMALIZE")>>,
       <<"CALCULATE_OFFICIAL_FX", ~HasStage(o, "FINAL")>>,
       <<"CREATE_SETTLEMENT_ADJUSTMENT", PaymentDiffers(o) /\ ~flow[o].adjusted>>,
       <<"CREATE_BOSS_SHEET", ~HasStage(o, "BOSS_SHEET")>>,
       <<"COMPLETE_ORDER", ~\E k \in Runs : run[k].order = o /\ run[k].status = "POSTED">> >>
NextAction(o) ==
    LET open == {i \in DOMAIN Needs(o) : Needs(o)[i][2]}
    IN IF Editable(o) /\ open # {} THEN Needs(o)[Min(open)][1] ELSE "VIEW_ONLY"

(***************************************************************************)
(* toWorkflow: the steps of an order as the user sees them.                *)
(***************************************************************************)
HasBankInstruction(o) == \E p \in PaymentsOf(o) : Instructed(p) \/ LiveItems(p) # {}
\* The action a step offers.
StepAction(o) ==
    [TERM_PROFILE |-> "NONE", ESTIMATE_PRICE |-> "CALCULATE_TEMP_PRICE",
     PURCHASE_ORDER |-> "CREATE_ORDER_DOCUMENT", PAYMENT_REQUEST |-> "CREATE_PAYMENT_REQUEST",
     BANK_TRANSACTION |-> IF HasBankInstruction(o) THEN "MATCH_BANK_TRANSACTION"
                          ELSE "CREATE_BANK_INSTRUCTION",
     RECEIPT |-> "CREATE_RECEIPT", INVOICE_PRICE |-> "CALCULATE_INVOICE_PRICE",
     OFFICIAL_PRICE |-> "CALCULATE_OFFICIAL_FX", ADJUSTMENT |-> "CREATE_SETTLEMENT_ADJUSTMENT",
     BOSS_SHEET |-> "CREATE_BOSS_SHEET", SETTLEMENT |-> "COMPLETE_ORDER"]
\* The next action that makes a step the current one (getNextAction never says
\* MATCH_BANK_TRANSACTION).
StepOf(next) ==
    [CALCULATE_TEMP_PRICE |-> {"ESTIMATE_PRICE"}, CREATE_ORDER_DOCUMENT |-> {"PURCHASE_ORDER"},
     CREATE_PAYMENT_REQUEST |-> {"PAYMENT_REQUEST"}, CREATE_BANK_INSTRUCTION |-> {"BANK_TRANSACTION"},
     CREATE_RECEIPT |-> {"RECEIPT"}, CALCULATE_INVOICE_PRICE |-> {"INVOICE_PRICE"},
     CALCULATE_OFFICIAL_FX |-> {"OFFICIAL_PRICE"}, CREATE_SETTLEMENT_ADJUSTMENT |-> {"ADJUSTMENT"},
     CREATE_BOSS_SHEET |-> {"BOSS_SHEET"}, COMPLETE_ORDER |-> {"SETTLEMENT"}, VIEW_ONLY |-> {}][next]

\* An item with a bank transaction has been matched, and so has its instruction.
PaidByBank(p) ==
    \/ instruction[p] = "MATCHED"
    \/ \E b \in Batches : item[b][p].status \in {"PAID", "PARTIALLY_PAID"}
SentToBank(o) == \E p \in PaymentsOf(o), b \in Batches : item[b][p].status \in {"SENT", "PARTIALLY_PAID", "PAID"}

StepDone(o, next) ==
    [TERM_PROFILE |-> flow[o].contract,
     ESTIMATE_PRICE |-> flow[o].type = "DIRECT_ORDER" \/ HasStage(o, "ESTIMATE"),
     PURCHASE_ORDER |-> flow[o].document,
     PAYMENT_REQUEST |-> PaymentsOf(o) # {},
     BANK_TRANSACTION |-> \E p \in PaymentsOf(o) : PaidByBank(p),
     RECEIPT |-> Confirmed(o) # {},
     INVOICE_PRICE |-> HasStage(o, "BILL_NORMALIZE"),
     OFFICIAL_PRICE |-> HasStage(o, "FINAL"),
     ADJUSTMENT |-> \/ flow[o].adjusted
                    \/ HasStage(o, "FINAL") /\ next # "CREATE_SETTLEMENT_ADJUSTMENT",
     BOSS_SHEET |-> HasStage(o, "BOSS_SHEET"),
     SETTLEMENT |-> order[o] = "COMPLETED"]
Begun(o, next) ==
    {"TERM_PROFILE"} \cup StepOf(next) \cup (IF SentToBank(o) THEN {"BANK_TRANSACTION"} ELSE {})
Workflow(o, next) ==
    LET done == StepDone(o, next)
        begun == Begun(o, next)
    IN [step \in DOMAIN StepAction(o) |->
            IF done[step] THEN "DONE" ELSE IF step \in begun THEN "CURRENT" ELSE "WAITING"]

(***************************************************************************)
(* Actions                                                                 *)
(***************************************************************************)
Quiet(call) == call \in scenario.calls /\ \A r \in Users : request[r].pc = "idle"

\* create and update set the kind of flow and the lines with their optional prices.
Create(o) ==
    /\ CreateOrder(o)
    /\ \E new \in NewFlows : flow' = [flow EXCEPT ![o] = new]
    /\ UNCHANGED <<payment, instruction, batch, item>>

\* New lines replace the old ones, to which draft receipts were linked; an empty contractNo is
\* written like any other.
Relined(o) ==
    [x \in Receipts |-> IF receipt[x].status = "DRAFT" /\ receipt[x].order = o
                       THEN [receipt[x] EXCEPT !.status = "UNLINKED"] ELSE receipt[x]]
Update(o) ==
    /\ Quiet("update")
    /\ Editable(o) /\ Confirmed(o) = {}
    /\ \E type \in FlowTypes, contract \in BOOLEAN :
        \/ /\ flow' = [flow EXCEPT ![o].type = type, ![o].contract = contract]
           /\ UNCHANGED receipt
        \/ /\ \E priced \in BOOLEAN :
                flow' = [flow EXCEPT ![o].type = type, ![o].contract = contract, ![o].priced = priced]
           /\ receipt' = Relined(o)
    /\ UNCHANGED <<scenario, order, run, latest, layer, taken, request, payment, instruction, batch, item>>

\* The form is filled from the estimate, and without one from the prices of the lines.
DocumentableDirect(o) == order[o] # "ABSENT" /\ flow[o].priced
Documentable(o) == order[o] # "ABSENT" /\ (HasStage(o, "ESTIMATE") \/ flow[o].priced)
GenerateDocument(o) ==
    /\ Quiet("document")
    /\ Documentable(o)
    /\ flow' = [flow EXCEPT ![o].document = TRUE]
    /\ UNCHANGED <<vars, payment, instruction, batch, item>>

Requestable(o) == Editable(o) /\ flow[o].document
\* A request that is there is answered again, which changes nothing.
NoRequestYet(o) == PaymentsOf(o) = {}
CreatePaymentRequest(p, o, amount) ==
    /\ Quiet("request")
    /\ Requestable(o) /\ NoRequestYet(o)
    /\ payment[p].status = "ABSENT"
    /\ payment' = [payment EXCEPT ![p] = [status |-> "SUBMITTED", order |-> o, amount |-> amount]]
    /\ UNCHANGED <<vars, flow, instruction, batch, item>>

Further(p, status) ==
    LET at(x) == CHOOSE i \in 1 .. 4 : InstructionStatus[i] = x
    IN IF at(status) > at(instruction[p]) THEN status ELSE instruction[p]

\* An instruction created as CANCELLED is as if it were not there.
CreateBankInstruction(p, status) ==
    /\ Quiet("instruct")
    /\ payment[p].status # "ABSENT" /\ Editable(payment[p].order)
    /\ instruction' = [instruction EXCEPT ![p] = Further(p, status)]
    /\ UNCHANGED <<vars, flow, payment, batch, item>>

MatchBankInstruction(p) ==
    /\ Quiet("match")
    /\ Instructed(p)
    /\ instruction' = [instruction EXCEPT ![p] = "MATCHED"]
    /\ UNCHANGED <<vars, flow, payment, batch, item>>

\* The amount may be given; otherwise the difference must not be zero.
CreateAdjustment(o) ==
    /\ Quiet("adjust")
    /\ Editable(o) /\ HasStage(o, "FINAL")
    /\ flow' = [flow EXCEPT ![o].adjusted = TRUE]
    /\ UNCHANGED <<vars, payment, instruction, batch, item>>

BatchableAny(p) == payment[p].status # "ABSENT"
Batchable(p) == payment[p].status = "SUBMITTED" /\ LiveItems(p) = {}
CreateBatch(b, ps) ==
    /\ Quiet("batch")
    /\ batch[b] = "ABSENT"
    /\ ps # {} /\ \A p \in ps : Batchable(p)
    /\ batch' = [batch EXCEPT ![b] = "DRAFT"]
    /\ item' = [item EXCEPT ![b] = [p \in PaymentRequests |->
                    IF p \in ps THEN [status |-> "PENDING", paid |-> 0] ELSE AbsentItem]]
    /\ payment' = [p \in PaymentRequests |->
                    IF p \in ps THEN [payment[p] EXCEPT !.status = "IN_BATCH"] ELSE payment[p]]
    /\ UNCHANGED <<vars, flow, instruction>>

\* Every request of the batch is marked, those already paid too.
MarkSent(b) ==
    /\ Quiet("batch")
    /\ batch[b] # "ABSENT"
    /\ batch' = [batch EXCEPT ![b] = "SENT_TO_BANK"]
    /\ item' = [item EXCEPT ![b] = [p \in PaymentRequests |->
                    IF @[p].status = "PENDING" THEN [@[p] EXCEPT !.status = "SENT"] ELSE @[p]]]
    /\ payment' = [p \in PaymentRequests |->
                    IF item[b][p].status # "ABSENT" THEN [payment[p] EXCEPT !.status = "SENT_TO_BANK"]
                    ELSE payment[p]]
    /\ UNCHANGED <<vars, flow, instruction>>

AllPaid(rows) == rows # {} /\ \A row \in rows : row.status = "PAID"
\* refreshBatchStatus, from the items as they have become.
RefreshedStatus(items) ==
    LET active == {row \in Range(items) : row.status \in LiveItemStatus}
    IN IF AllPaid(active) THEN "PAID"
       ELSE IF \E row \in active : row.paid > 0 \/ row.status = "PARTIALLY_PAID" THEN "PARTIALLY_PAID"
       ELSE IF \E row \in active : row.status = "SENT" THEN "SENT_TO_BANK"
       ELSE "DRAFT"

MatchStatus(p, paid, given) ==
    IF given # None THEN given
    ELSE IF paid >= payment[p].amount THEN "PAID" ELSE "PARTIALLY_PAID"

RequestStatusRaw(status) == status
RequestStatus(status) == IF status = "PAID" THEN "PAID" ELSE "PARTIALLY_PAID"

\* The amount paid and the status may be given by the caller.  What becomes of the bank
\* transaction is SettlementAllocation's MatchItem.
MatchItem(b, p, paid, given) ==
    /\ Quiet("batch")
    /\ item[b][p].status \notin {"ABSENT", "CANCELLED"}
    /\ item' = [item EXCEPT ![b][p] = [status |-> MatchStatus(p, paid, given), paid |-> paid]]
    /\ payment' = [payment EXCEPT ![p].status = RequestStatus(MatchStatus(p, paid, given))]
    /\ instruction' = [instruction EXCEPT ![p] = "MATCHED"]
    /\ batch' = [batch EXCEPT ![b] = RefreshedStatus(item'[b])]
    /\ UNCHANGED <<vars, flow>>

FlowInit ==
    /\ Init
    /\ \E new \in NewFlows : flow = [o \in Orders |-> new]
    /\ payment = [p \in PaymentRequests |-> AbsentPayment]
    /\ instruction = [p \in PaymentRequests |-> "ABSENT"]
    /\ batch = [b \in Batches |-> "ABSENT"]
    /\ item = [b \in Batches |-> [p \in PaymentRequests |-> AbsentItem]]

\* What becomes of an instruction matters to batches only.
DrawnAs == IF "batch" \in scenario.calls THEN {"DRAFT", "SENT", "MATCHED"} ELSE {"SENT"}
OrderFlowStep ==
    \E o \in Orders :
        \/ Create(o) \/ Update(o) \/ GenerateDocument(o) \/ CreateAdjustment(o)
        \/ \E p \in PaymentRequests, amount \in 1 .. MaxQty : CreatePaymentRequest(p, o, amount)
PaymentStep ==
    \/ \E p \in PaymentRequests :
        \/ \E status \in DrawnAs : CreateBankInstruction(p, status)
        \/ MatchBankInstruction(p)
    \/ \E b \in Batches :
        \/ \E ps \in SUBSET PaymentRequests : CreateBatch(b, ps)
        \/ MarkSent(b)
        \/ \E p \in PaymentRequests, paid \in 0 .. MaxQty, given \in ItemStatus \cup {None} :
                MatchItem(b, p, paid, given)
PricingStep ==
    /\ \/ \E x \in Receipts, o \in Orders : CreateReceipt(x, o)
       \/ \E r \in Users : OrderStep(r) \/ ReceiptStep(r) \/ StageStep(r) \/ ConsumeStep(r) \/ Abort(r)
    /\ UNCHANGED flowVars

FlowNext == OrderFlowStep \/ PaymentStep \/ PricingStep
FlowSpec == FlowInit /\ [][FlowNext]_allVars

(***************************************************************************)
(* Properties                                                              *)
(***************************************************************************)
\* The tables of the flow hold rows of their shapes.
FlowTypeOK ==
    /\ TypeOK
    /\ flow \in [Orders -> [contract : BOOLEAN, type : FlowTypes, priced : BOOLEAN, document : BOOLEAN, adjusted : BOOLEAN]]
    /\ payment \in [PaymentRequests -> [status : PaymentStatus, order : Orders \cup {None},
                                        amount : 0 .. MaxQty]]
    /\ instruction \in [PaymentRequests -> Range(InstructionStatus)]
    /\ batch \in [Batches -> BatchStatus]
    /\ item \in [Batches -> [PaymentRequests -> [status : ItemStatus \cup {"ABSENT"}, paid : 0 .. MaxQty]]]

\* Whether the handler behind a suggestion takes the call.
Accepted(o, action) ==
    [CALCULATE_TEMP_PRICE |-> ValidStage(o, "ESTIMATE"),
     CREATE_ORDER_DOCUMENT |-> Documentable(o),
     CREATE_PAYMENT_REQUEST |-> Requestable(o),
     CREATE_BANK_INSTRUCTION |-> Editable(o) /\ PaymentsOf(o) # {},
     CREATE_RECEIPT |-> order[o] \in {"APPROVED", "IN_PROGRESS"},
     CALCULATE_INVOICE_PRICE |-> ValidStage(o, "BILL_NORMALIZE"),
     CALCULATE_OFFICIAL_FX |-> ValidStage(o, "FINAL"),
     CREATE_SETTLEMENT_ADJUSTMENT |-> Editable(o) /\ HasStage(o, "FINAL") /\ PaymentDiffers(o),
     CREATE_BOSS_SHEET |-> ValidStage(o, "BOSS_SHEET"),
     COMPLETE_ORDER |-> Completable(o),
     VIEW_ONLY |-> TRUE][action]

\* A request waits in a batch that has not been sent: the bank step offers to match it.
InOpenBatch(o) == \E p \in PaymentsOf(o), b \in Batches : item[b][p].status = "PENDING"

\* An order is not stuck on its own advice: whatever documents, payments, pricings and voids came
\* before, the workflow shows as current the one step of what getNextAction answers, beside a
\* payment at the bank and a missing contract, and that step offers the answer, unless the
\* payment waits in a batch.  From the approval on the handler behind the answer takes the call;
\* an order approved without an estimate may be refused its form and the price of its bill.
NextActionIsAccepted ==
    \A o \in {p \in Orders : order[p] # "ABSENT"} :
        LET next == NextAction(o)
            workflow == Workflow(o, next)
            current == {step \in DOMAIN workflow : workflow[step] = "CURRENT"}
            atBank == SentToBank(o) /\ ~\E p \in PaymentsOf(o) : PaidByBank(p)
        IN /\ current = StepOf(next) \cup (IF atBank THEN {"BANK_TRANSACTION"} ELSE {})
                                    \cup (IF flow[o].contract THEN {} ELSE {"TERM_PROFILE"})
           /\ \A step \in StepOf(next) : StepAction(o)[step] = next \/ InOpenBatch(o)
           /\ /\ order[o] \in {"APPROVED", "IN_PROGRESS"}
              /\ next \in {"CREATE_ORDER_DOCUMENT", "CALCULATE_INVOICE_PRICE"} => HasStage(o, "ESTIMATE")
              => Accepted(o, next)

\* Payment requests, batches and their items tell one story (createBatch, markSent, matchItem): an
\* order has one request, a request is in a batch unless it is still SUBMITTED and never in two,
\* a paid request has a paid item, and a paid batch has no live item that is not.
PaymentsAgree ==
    /\ \A o \in Orders : Cardinality(PaymentsOf(o)) <= 1
    /\ \A p \in PaymentRequests :
        /\ Cardinality(ItemsOf(p)) = IF payment[p].status \in {"ABSENT", "SUBMITTED"} THEN 0 ELSE 1
        /\ payment[p].status = "PAID" => \E b \in Batches : item[b][p].status = "PAID"
    /\ \A b \in Batches, p \in PaymentRequests :
            batch[b] = "PAID" /\ item[b][p].status \in LiveItemStatus => item[b][p].status = "PAID"

\* The workflow of the order (toWorkflow) says that the DIRECT_ORDER flow skips the estimate and
\* goes straight on: an order of that flow whose next step is the receipt can be approved for it.
DirectOrderGoesOn ==
    \A o \in Orders :
        /\ flow[o].type = "DIRECT_ORDER" /\ order[o] = "DRAFT"
        /\ NextAction(o) = "CREATE_RECEIPT"
        => Approvable(o)
=============================================================================
