-------------------------- MODULE Registers_proofs --------------------------
(***************************************************************************)
(* Proofs about the registers that are built on Requests, each on its own: *)
(* price bulletins (PriceTimeline), customer codes (Catalogue), bank       *)
(* statements (BankStatements) and the papers of an order (TermPapers) for *)
(* any requests that run at once; addresses and taxes (Timelines),         *)
(* register entries (Catalogue), the tree of departments (Organization),   *)
(* the sessions (Access) and the shipments of costs (TermPapers) for calls *)
(* that come one after another, as their properties are promised.          *)
(***************************************************************************)
EXTENDS PriceTimeline, Timelines, Catalogue, Access, BankStatements, TermPapers, SumTheorems

\* What a step of the request r leaves of the others.
LEMMA GoesTo ==
  ASSUME NEW r \in Clients, DOMAIN request = Clients, NEW q, Goes(r, q)
  PROVE  /\ scenario' = scenario /\ DOMAIN request' = Clients /\ request'[r] = q
         /\ \A s \in Clients : s # r => request'[s] = request[s]
  BY DEF Goes

-----------------------------------------------------------------------------
(* Price bulletins: types, and what a request knows.                       *)

BulletinRow == [status : PriceBulletinStatus \cup {"ABSENT"}, from : 0 .. MaxTime, to : 0 .. Never,
                items : SUBSET Items, publishedAt : 0 .. MaxTime]
ImportBegun == [pc : {"importVoid", "importNext"}, from : Times, items : PriceLists,
                voided : SUBSET Bulletins]

PriceKnows(q) ==
    /\ q.pc = "updatePrice" =>
        /\ q.id \in Bulletins /\ q.from \in Times \cup {None}
        /\ q.to \in Times \cup {Never, None} /\ q.items \in PriceLists \cup {None}
    /\ q.pc \in {"publishPrice", "voidPrice"} => q.id \in Bulletins
    /\ q.pc \in {"importVoid", "importNext"} => q \in ImportBegun
    /\ q.pc \in {"importPrev", "importCommit"} =>
        /\ q.from \in Times /\ q.items \in PriceLists /\ q.voided \subseteq Bulletins
        /\ q.to \in Times \cup {Never} /\ q.from < q.to
    /\ q.pc = "importCommit" => q.prev \in Bulletins \cup {None}
\* A request under way is one of the scenario.
PriceCalled(r) ==
    /\ request[r].pc # "idle" => r \in scenario.clients
    /\ \A call \in {"updatePrice", "publishPrice"} : request[r].pc = call => call \in scenario.calls

PriceTypeInv ==
    /\ DOMAIN request = Clients
    /\ bulletin \in [Bulletins -> BulletinRow]
    /\ \A r \in Clients : PriceKnows(request[r]) /\ PriceCalled(r)

USE TimeAssumption

LEMMA PriceTypeInit == RequestsInit /\ BulletinInit => PriceTypeInv
  BY DEF RequestsInit, BulletinInit, PriceTypeInv, BulletinRow, AbsentBulletin, Never, PriceKnows,
         PriceCalled, Idle

\* A step of one request keeps what the others know.
LEMMA PriceRequestKept ==
  ASSUME PriceTypeInv, NEW r \in Clients, NEW q, Goes(r, q), PriceKnows(q),
         q.pc # "idle" => r \in scenario.clients,
         \A call \in {"updatePrice", "publishPrice"} : q.pc = call => call \in scenario.calls
  PROVE  /\ DOMAIN request' = Clients
         /\ \A s \in Clients : PriceKnows(request'[s]) /\ PriceCalled(s)'
<1>1. /\ scenario' = scenario /\ DOMAIN request' = Clients /\ request'[r] = q
      /\ \A s \in Clients : s # r => request'[s] = request[s]
  BY GoesTo DEF PriceTypeInv
<1>2. ASSUME NEW s \in Clients PROVE PriceKnows(request'[s]) /\ PriceCalled(s)'
  <2>1. CASE s = r
    BY <1>1, <2>1 DEF PriceCalled
  <2>2. CASE s # r
    BY <1>1, <2>2 DEF PriceCalled, PriceTypeInv
  <2> QED
    BY <2>1, <2>2
<1> QED
  BY <1>1, <1>2

LEMMA IdleKnows == PriceKnows(Idle) /\ Idle.pc = "idle"
  BY DEF PriceKnows, Idle

LEMMA PriceRequestEnds ==
  ASSUME PriceTypeInv, NEW r \in Clients, Ends(r)
  PROVE  /\ DOMAIN request' = Clients
         /\ \A s \in Clients : PriceKnows(request'[s]) /\ PriceCalled(s)'
  BY PriceRequestKept, IdleKnows DEF Ends

LEMMA PriceRequestsRest ==
  ASSUME PriceTypeInv, UNCHANGED requestVars
  PROVE  /\ DOMAIN request' = Clients
         /\ \A s \in Clients : PriceKnows(request'[s]) /\ PriceCalled(s)'
  BY DEF PriceTypeInv, requestVars, PriceCalled

LEMMA PriceTypeStep == PriceTypeInv /\ PriceStep => PriceTypeInv'
<1> SUFFICES ASSUME PriceTypeInv, PriceStep PROVE PriceTypeInv'
  OBVIOUS
<1> DEFINE Requests == /\ DOMAIN request' = Clients
                       /\ \A s \in Clients : PriceKnows(request'[s]) /\ PriceCalled(s)'
<1>a. \A r \in Clients : PriceKnows(request[r]) /\ PriceCalled(r)
  BY DEF PriceTypeInv
<1>b. bulletin \in [Bulletins -> BulletinRow]
  BY DEF PriceTypeInv
<1>c. \A b \in Bulletins, status \in PriceBulletinStatus :
        [bulletin EXCEPT ![b].status = status] \in [Bulletins -> BulletinRow]
  BY <1>b DEF BulletinRow
<1>1. ASSUME NEW b \in Bulletins, NEW status \in PriceBulletinStatus, NEW from \in Times,
             NEW to \in Times \cup {Never}, NEW items \in PriceLists, Create(b, status, from, to, items)
      PROVE  PriceTypeInv'
  <2>1. [status |-> status, from |-> from, to |-> to, items |-> items, publishedAt |-> from] \in BulletinRow
    BY DEF BulletinRow, Times, Never, PriceLists
  <2>2. bulletin' \in [Bulletins -> BulletinRow]
    BY <1>1, <1>b, <2>1 DEF Create
  <2> QED
    BY <1>1, <2>2, PriceRequestsRest DEF Create, AtOnce, PriceTypeInv
<1>2. ASSUME NEW r \in Clients, NEW b \in Bulletins, NEW from \in Times \cup {None},
             NEW to \in Times \cup {Never, None}, NEW items \in PriceLists \cup {None},
             UpdateRead(r, b, from, to, items)
      PROVE  PriceTypeInv'
  <2> DEFINE q == [pc |-> "updatePrice", id |-> b, from |-> from, to |-> to, items |-> items]
  <2>1. PriceKnows(q) /\ q.pc = "updatePrice"
    BY DEF PriceKnows
  <2>2. Goes(r, q) /\ r \in scenario.clients /\ "updatePrice" \in scenario.calls /\ bulletin' = bulletin
    BY <1>2 DEF UpdateRead, Starts
  <2> HIDE DEF q
  <2>3. Requests
    BY <2>1, <2>2, PriceRequestKept
  <2> QED
    BY <1>b, <2>2, <2>3 DEF PriceTypeInv
<1>3. ASSUME NEW r \in Clients, UpdateWrite(r) PROVE PriceTypeInv'
  <2>1. PICK q : q = request[r]
    OBVIOUS
  <2>2. q.id \in Bulletins /\ q.from \in Times \cup {None}
        /\ q.to \in Times \cup {Never, None} /\ q.items \in PriceLists \cup {None}
    BY <1>3, <1>a, <2>1 DEF UpdateWrite, PriceKnows
  <2>3. bulletin' = [bulletin EXCEPT ![q.id].from = Given(q.from, @), ![q.id].to = Given(q.to, @),
                                     ![q.id].items = Given(q.items, @)]
    BY <1>3, <2>1 DEF UpdateWrite
  <2>4. ASSUME NEW j \in BulletinRow
        PROVE  /\ [j EXCEPT !.from = Given(q.from, @)] \in BulletinRow
               /\ [j EXCEPT !.to = Given(q.to, @)] \in BulletinRow
               /\ [j EXCEPT !.items = Given(q.items, @)] \in BulletinRow
    BY <2>2 DEF BulletinRow, Given, Times, Never, PriceLists
  <2>5. bulletin' \in [Bulletins -> BulletinRow]
    <3>1. \A f \in [Bulletins -> BulletinRow] :
            /\ [f EXCEPT ![q.id].from = Given(q.from, @)] \in [Bulletins -> BulletinRow]
            /\ [f EXCEPT ![q.id].to = Given(q.to, @)] \in [Bulletins -> BulletinRow]
            /\ [f EXCEPT ![q.id].items = Given(q.items, @)] \in [Bulletins -> BulletinRow]
      BY <2>2, <2>4
    <3>2. PICK f : f = [bulletin EXCEPT ![q.id].from = Given(q.from, @)]
      OBVIOUS
    <3>3. PICK g : g = [f EXCEPT ![q.id].to = Given(q.to, @)]
      OBVIOUS
    <3>4. bulletin' = [g EXCEPT ![q.id].items = Given(q.items, @)]
      BY <2>3, <3>2, <3>3
    <3> QED
      BY <1>b, <3>1, <3>2, <3>3, <3>4
  <2> QED
    BY <1>3, <2>5, PriceRequestEnds DEF UpdateWrite, PriceTypeInv
<1>4. ASSUME NEW r \in Clients, NEW b \in Bulletins, PublishRead(r, b) \/ VoidRead(r, b)
      PROVE  PriceTypeInv'
  <2>1. PICK pc \in {"publishPrice", "voidPrice"} :
            /\ Goes(r, [pc |-> pc, id |-> b]) /\ r \in scenario.clients /\ pc \in scenario.calls
            /\ bulletin' = bulletin
    BY <1>4 DEF PublishRead, VoidRead, Starts
  <2> DEFINE q == [pc |-> pc, id |-> b]
  <2>2. PriceKnows(q) /\ q.pc = pc /\ Goes(r, q)
    BY <2>1 DEF PriceKnows
  <2> HIDE DEF q
  <2>3. Requests
    BY <2>1, <2>2, PriceRequestKept
  <2> QED
    BY <1>b, <2>1, <2>3 DEF PriceTypeInv
<1>5. ASSUME NEW r \in Clients, PublishWrite(r) \/ VoidWrite(r) PROVE PriceTypeInv'
  <2>1. PICK status \in PriceBulletinStatus : bulletin' = [bulletin EXCEPT ![request[r].id].status = status]
    BY <1>5 DEF PublishWrite, VoidWrite, SetStatus, PriceBulletinStatus
  <2>2. request[r].id \in Bulletins /\ Ends(r)
    BY <1>5, <1>a DEF PublishWrite, VoidWrite, SetStatus, At, PriceKnows
  <2> QED
    BY <1>c, <2>1, <2>2, PriceRequestEnds DEF PriceTypeInv
<1>6. ASSUME NEW r \in Clients, NEW from \in Times, NEW items \in PriceLists, NEW isOverride \in BOOLEAN,
             ImportReadSame(r, from, items, isOverride)
      PROVE  PriceTypeInv'
  <2>1. PICK pc \in {"importVoid", "importNext"} :
            /\ Goes(r, [pc |-> pc, from |-> from, items |-> items, voided |-> {}])
            /\ r \in scenario.clients /\ bulletin' = bulletin
    BY <1>6 DEF ImportReadSame, Starts
  <2> DEFINE q == [pc |-> pc, from |-> from, items |-> items, voided |-> {}]
  <2>2. PriceKnows(q) /\ q.pc = pc /\ Goes(r, q)
    BY <2>1 DEF PriceKnows, ImportBegun
  <2> HIDE DEF q
  <2>3. Requests
    BY <2>1, <2>2, PriceRequestKept
  <2> QED
    BY <1>b, <2>1, <2>3 DEF PriceTypeInv
<1>7. ASSUME NEW r \in Clients, ImportVoidSame(r) PROVE PriceTypeInv'
  <2>1. PICK same \in SUBSET Bulletins :
            Goes(r, [request[r] EXCEPT !.pc = "importNext", !.voided = same]) /\ bulletin' = bulletin
    BY <1>7 DEF ImportVoidSame, PublishedAt, Published
  <2>2. request[r] \in ImportBegun /\ r \in scenario.clients
    BY <1>7, <1>a DEF ImportVoidSame, At, PriceKnows, PriceCalled
  <2>3. PICK q : q = [request[r] EXCEPT !.pc = "importNext", !.voided = same]
    OBVIOUS
  <2>4. q \in ImportBegun /\ q.pc = "importNext"
    BY <2>2, <2>3 DEF ImportBegun
  <2>5. PriceKnows(q) /\ Goes(r, q)
    BY <2>1, <2>3, <2>4 DEF PriceKnows
  <2>6. Requests
    BY <2>2, <2>4, <2>5, PriceRequestKept
  <2> QED
    BY <1>b, <2>1, <2>6 DEF PriceTypeInv
<1>8. ASSUME NEW r \in Clients, ImportReadNext(r) PROVE PriceTypeInv'
  <2>1. request[r] \in ImportBegun /\ r \in scenario.clients /\ bulletin' = bulletin
    BY <1>8, <1>a DEF ImportReadNext, At, PriceKnows, PriceCalled
  <2>2. PICK to \in IF Later(request[r].from) = {} THEN {Never} ELSE {bulletin[b].from : b \in Later(request[r].from)} :
            Goes(r, [pc |-> "importPrev", from |-> request[r].from, to |-> to,
                     items |-> request[r].items, voided |-> request[r].voided])
    BY <1>8 DEF ImportReadNext
  <2>3. to \in Times \cup {Never} /\ request[r].from < to
    <3>1. CASE Later(request[r].from) = {}
      BY <2>1, <2>2, <3>1 DEF ImportBegun, Times, Never
    <3>2. CASE Later(request[r].from) # {}
      BY <1>b, <2>1, <2>2, <3>2 DEF ImportBegun, Times, Later, Published, BulletinRow
    <3> QED
      BY <3>1, <3>2
  <2> DEFINE q == [pc |-> "importPrev", from |-> request[r].from, to |-> to,
                   items |-> request[r].items, voided |-> request[r].voided]
  <2>4. PriceKnows(q) /\ q.pc = "importPrev" /\ Goes(r, q)
    BY <2>1, <2>2, <2>3 DEF PriceKnows, ImportBegun
  <2> HIDE DEF q
  <2>5. Requests
    BY <2>1, <2>4, PriceRequestKept
  <2> QED
    BY <1>b, <2>1, <2>5 DEF PriceTypeInv
<1>9. ASSUME NEW r \in Clients, ImportReadPrev(r) PROVE PriceTypeInv'
  <2>1. PICK prev \in Bulletins \cup {None} :
            Goes(r, [pc |-> "importCommit", from |-> request[r].from, to |-> request[r].to,
                     items |-> request[r].items, voided |-> request[r].voided, prev |-> prev])
    BY <1>9 DEF ImportReadPrev, Earlier, Published
  <2>2. PriceKnows(request[r]) /\ request[r].pc = "importPrev" /\ r \in scenario.clients /\ bulletin' = bulletin
    BY <1>9, <1>a DEF ImportReadPrev, At, PriceCalled
  <2> DEFINE q == [pc |-> "importCommit", from |-> request[r].from, to |-> request[r].to,
                   items |-> request[r].items, voided |-> request[r].voided, prev |-> prev]
  <2>3. PriceKnows(q) /\ q.pc = "importCommit" /\ Goes(r, q)
    BY <2>1, <2>2 DEF PriceKnows
  <2> HIDE DEF q
  <2>4. Requests
    BY <2>2, <2>3, PriceRequestKept
  <2> QED
    BY <1>b, <2>2, <2>4 DEF PriceTypeInv
<1>10. ASSUME NEW r \in Clients, NEW b \in Bulletins, ImportCommit(r, b) PROVE PriceTypeInv'
  <2>1. PriceKnows(request[r]) /\ request[r].pc = "importCommit" /\ Ends(r)
    BY <1>10, <1>a DEF ImportCommit
  <2>2. PICK q : q = request[r]
    OBVIOUS
  <2>3. /\ q.from \in Times /\ q.items \in PriceLists /\ q.to \in Times \cup {Never}
    BY <2>1, <2>2 DEF PriceKnows
  <2>4. bulletin' = [c \in Bulletins |->
            IF c = b THEN [status |-> "PUBLISHED", from |-> q.from, to |-> q.to,
                           items |-> q.items, publishedAt |-> 0]
            ELSE IF c \in q.voided THEN [bulletin[c] EXCEPT !.status = "VOID"]
            ELSE IF c = q.prev THEN [bulletin[c] EXCEPT !.to = q.from]
            ELSE bulletin[c]]
    BY <1>10, <2>2 DEF ImportCommit
  <2>5. [status |-> "PUBLISHED", from |-> q.from, to |-> q.to, items |-> q.items, publishedAt |-> 0] \in BulletinRow
    BY <2>3 DEF BulletinRow, PriceBulletinStatus, Times, Never, PriceLists
  <2>6. ASSUME NEW j \in BulletinRow
        PROVE  [j EXCEPT !.status = "VOID"] \in BulletinRow /\ [j EXCEPT !.to = q.from] \in BulletinRow
    BY <2>3 DEF BulletinRow, PriceBulletinStatus, Times, Never
  <2>7. bulletin' \in [Bulletins -> BulletinRow]
    BY <1>b, <2>4, <2>5, <2>6
  <2> QED
    BY <2>1, <2>7, PriceRequestEnds DEF PriceTypeInv
<1>11. ASSUME NEW r \in Clients, AbortPrice(r) PROVE PriceTypeInv'
  BY <1>b, <1>11, PriceRequestEnds DEF AbortPrice, Abort, PriceTypeInv
<1> QED
  BY <1>1, <1>2, <1>3, <1>4, <1>5, <1>6, <1>7, <1>8, <1>9, <1>10, <1>11 DEF PriceStep

-----------------------------------------------------------------------------
(* While clients only import and void: a bulletin ends after it starts.    *)

\* The neighbour an import has read was there and starts before; starts do not move.
PrevStarted(q) ==
    q.pc = "importCommit" /\ q.prev # None =>
        bulletin[q.prev].status # "ABSENT" /\ bulletin[q.prev].from < q.from

PriceLong ==
    ImportsOnly =>
        /\ \A b \in Published : bulletin[b].from \in Times /\ bulletin[b].from < bulletin[b].to
        /\ \A r \in Clients : PrevStarted(request[r])

\* Then only two writes change a bulletin.
LEMMA ImportsAndVoids ==
  ASSUME PriceTypeInv, ImportsOnly, PriceStep
  PROVE  /\ scenario' = scenario
         /\ \/ \E r \in Clients : VoidWrite(r)
            \/ \E r \in Clients, b \in Bulletins : ImportCommit(r, b)
            \/ bulletin' = bulletin /\ \E r \in Clients :
                   \/ \E b \in Bulletins : VoidRead(r, b)
                   \/ \E from \in Times, items \in PriceLists, isOverride \in BOOLEAN :
                          ImportReadSame(r, from, items, isOverride)
                   \/ ImportVoidSame(r) \/ ImportReadNext(r) \/ ImportReadPrev(r) \/ AbortPrice(r)
<1>1. \A call \in {"createPrice", "updatePrice", "publishPrice"} : call \notin scenario.calls
  BY DEF ImportsOnly
<1>2. \A r \in Clients : request[r].pc \notin {"updatePrice", "publishPrice"}
  BY <1>1 DEF PriceTypeInv, PriceCalled
<1>3. ~\E b \in Bulletins, status \in PriceBulletinStatus, from \in Times, to \in Times \cup {Never},
          items \in PriceLists : Create(b, status, from, to, items)
  BY <1>1 DEF Create, AtOnce, Starts
<1>4. ASSUME NEW r \in Clients
      PROVE  /\ ~UpdateWrite(r) /\ ~PublishWrite(r)
             /\ \A b \in Bulletins : ~PublishRead(r, b)
             /\ \A b \in Bulletins, from \in Times \cup {None}, to \in Times \cup {Never, None},
                   items \in PriceLists \cup {None} : ~UpdateRead(r, b, from, to, items)
  BY <1>1, <1>2 DEF UpdateWrite, PublishWrite, SetStatus, At, PublishRead, UpdateRead, Starts
<1>5. \/ \E r \in Clients : VoidWrite(r)
      \/ \E r \in Clients, b \in Bulletins : ImportCommit(r, b)
      \/ \E r \in Clients :
            \/ \E b \in Bulletins : VoidRead(r, b)
            \/ \E from \in Times, items \in PriceLists, isOverride \in BOOLEAN :
                   ImportReadSame(r, from, items, isOverride)
            \/ ImportVoidSame(r) \/ ImportReadNext(r) \/ ImportReadPrev(r) \/ AbortPrice(r)
  BY <1>3, <1>4, Zenon DEF PriceStep
<1>6. ASSUME NEW r \in Clients
      PROVE  /\ VoidWrite(r) => scenario' = scenario
             /\ \A b \in Bulletins : /\ ImportCommit(r, b) => scenario' = scenario
                                     /\ VoidRead(r, b) => scenario' = scenario /\ bulletin' = bulletin
             /\ \A from \in Times, items \in PriceLists, isOverride \in BOOLEAN :
                   ImportReadSame(r, from, items, isOverride) => scenario' = scenario /\ bulletin' = bulletin
             /\ ImportVoidSame(r) \/ ImportReadNext(r) \/ ImportReadPrev(r) \/ AbortPrice(r) =>
                   scenario' = scenario /\ bulletin' = bulletin
  BY DEF VoidRead, ImportReadSame, VoidWrite, SetStatus, ImportVoidSame, ImportReadNext, ImportReadPrev,
         ImportCommit, AbortPrice, Abort, Ends, Goes
<1> QED
  BY <1>5, <1>6, Zenon

\* What a void changes.
LEMMA VoidRows ==
  ASSUME PriceTypeInv, NEW r \in Clients, VoidWrite(r)
  PROVE  /\ request[r].id \in Bulletins /\ Ends(r)
         /\ Published' = Published \ {request[r].id}
         /\ \A c \in Bulletins :
                /\ bulletin'[c].from = bulletin[c].from
                /\ bulletin'[c].to = bulletin[c].to
                /\ bulletin[c].status # "ABSENT" => bulletin'[c].status # "ABSENT"
<1>1. PICK x : x = request[r].id
  OBVIOUS
<1>2. x \in Bulletins /\ Ends(r) /\ bulletin' = [bulletin EXCEPT ![x].status = "VOID"]
  BY <1>1 DEF VoidWrite, SetStatus, PriceTypeInv, PriceKnows, At
<1>3. bulletin \in [Bulletins -> BulletinRow]
  BY DEF PriceTypeInv
<1>4. ASSUME NEW c \in Bulletins
      PROVE  /\ bulletin'[c].from = bulletin[c].from
             /\ bulletin'[c].to = bulletin[c].to
             /\ bulletin'[c].status = IF c = x THEN "VOID" ELSE bulletin[c].status
  BY <1>2, <1>3 DEF BulletinRow
<1> QED
  BY <1>1, <1>2, <1>4 DEF Published

\* What the end of an import changes.
LEMMA CommitRows ==
  ASSUME PriceTypeInv, NEW r \in Clients, NEW b \in Bulletins, ImportCommit(r, b),
         NEW q, q = request[r]
  PROVE  /\ Ends(r) /\ q.pc = "importCommit" /\ PriceKnows(q)
         /\ bulletin[b].status = "ABSENT" /\ b \notin Published
         /\ b \in Published' /\ bulletin'[b].from = q.from /\ bulletin'[b].to = q.to
         /\ Published' = (Published \ q.voided) \cup {b}
         /\ \A c \in Bulletins : c # b =>
                /\ bulletin'[c].from = bulletin[c].from
                /\ bulletin[c].status # "ABSENT" => bulletin'[c].status # "ABSENT"
         /\ \A c \in Published \ q.voided : bulletin'[c].to = IF c = q.prev THEN q.from ELSE bulletin[c].to
<1>1. /\ Ends(r) /\ q.pc = "importCommit" /\ PriceKnows(q) /\ bulletin[b].status = "ABSENT"
      /\ bulletin' = [c \in Bulletins |->
            IF c = b THEN [status |-> "PUBLISHED", from |-> q.from, to |-> q.to,
                           items |-> q.items, publishedAt |-> 0]
            ELSE IF c \in q.voided THEN [bulletin[c] EXCEPT !.status = "VOID"]
            ELSE IF c = q.prev THEN [bulletin[c] EXCEPT !.to = q.from]
            ELSE bulletin[c]]
  BY DEF ImportCommit, Fresh, PriceTypeInv
<1>2. bulletin \in [Bulletins -> BulletinRow]
  BY DEF PriceTypeInv
<1>3. bulletin'[b] = [status |-> "PUBLISHED", from |-> q.from, to |-> q.to, items |-> q.items, publishedAt |-> 0]
  BY <1>1
<1>4. bulletin'[b].status = "PUBLISHED" /\ bulletin'[b].from = q.from /\ bulletin'[b].to = q.to
  BY <1>3
<1>5. ASSUME NEW c \in Bulletins, c # b
      PROVE  /\ bulletin'[c].from = bulletin[c].from
             /\ bulletin'[c].status = IF c \in q.voided THEN "VOID" ELSE bulletin[c].status
             /\ c \notin q.voided => bulletin'[c].to = IF c = q.prev THEN q.from ELSE bulletin[c].to
  <2>1. PICK j \in BulletinRow : j = bulletin[c]
    BY <1>2
  <2>2. bulletin'[c] = IF c \in q.voided THEN [j EXCEPT !.status = "VOID"]
                       ELSE IF c = q.prev THEN [j EXCEPT !.to = q.from] ELSE j
    BY <1>1, <1>5, <2>1
  <2> QED
    BY <2>1, <2>2 DEF BulletinRow
<1>6. b \notin Published /\ b \in Published'
  BY <1>1, <1>4 DEF Published
<1>7. Published' = (Published \ q.voided) \cup {b}
  BY <1>4, <1>5, <1>6 DEF Published
<1>8. \A c \in Published \ q.voided : c \in Bulletins /\ c # b
  BY <1>6 DEF Published
<1> QED
  BY <1>1, <1>4, <1>5, <1>6, <1>7, <1>8

LEMMA PriceLongInit == RequestsInit /\ BulletinInit => PriceLong
  BY DEF RequestsInit, BulletinInit, PriceLong, PrevStarted, Idle, Published, AbsentBulletin

LEMMA PriceLongStep == PriceTypeInv /\ PriceLong /\ PriceStep => PriceLong'
<1> SUFFICES ASSUME PriceTypeInv, PriceLong, PriceStep, ImportsOnly' PROVE PriceLong'
  BY DEF PriceLong
<1>0. scenario' = scenario
  BY DEF PriceStep, Create, AtOnce, requestVars, UpdateRead, UpdateWrite, PublishRead, VoidRead, PublishWrite,
         VoidWrite, SetStatus, ImportReadSame, ImportVoidSame, ImportReadNext, ImportReadPrev, ImportCommit,
         AbortPrice, Abort, Ends, Goes
<1> ImportsOnly
  BY <1>0 DEF ImportsOnly
<1> DEFINE Long(b) == bulletin[b].from \in Times /\ bulletin[b].from < bulletin[b].to
<1>a. /\ \A b \in Published : bulletin[b].from \in Times /\ bulletin[b].from < bulletin[b].to
      /\ \A r \in Clients : PrevStarted(request[r])
  BY DEF PriceLong
<1>b. bulletin \in [Bulletins -> BulletinRow] /\ DOMAIN request = Clients /\ \A r \in Clients : PriceKnows(request[r])
  BY DEF PriceTypeInv
<1>1. ASSUME NEW r \in Clients, NEW q, Goes(r, q), bulletin' = bulletin, PrevStarted(q) PROVE PriceLong'
  <2>1. \A s \in Clients : PrevStarted(request'[s])
    BY <1>a, <1>b, <1>1, GoesTo
  <2> QED
    BY <1>a, <1>1, <2>1 DEF PriceLong, Published, PrevStarted
<1>2. \A q : q.pc # "importCommit" => PrevStarted(q)
  BY DEF PrevStarted
<1>3. ASSUME NEW r \in Clients, VoidWrite(r) PROVE PriceLong'
  <2>0. \A c \in Bulletins :
            /\ bulletin'[c].from = bulletin[c].from
            /\ bulletin'[c].to = bulletin[c].to
            /\ bulletin[c].status # "ABSENT" => bulletin'[c].status # "ABSENT"
    BY <1>3, VoidRows
  <2>1. \A b \in Published' : b \in Bulletins /\ b \in Published
    BY <1>3, VoidRows DEF Published
  <2>2. \A b \in Published' : bulletin'[b].from \in Times /\ bulletin'[b].from < bulletin'[b].to
    BY <1>a, <2>0, <2>1
  <2>3. ASSUME NEW s \in Clients PROVE PrevStarted(request[s])'
    <3>1. request'[s] = Idle \/ request'[s] = request[s]
      BY <1>3, <1>b, VoidRows, GoesTo DEF Ends
    <3>2. CASE request'[s] = Idle
      BY <3>2 DEF PrevStarted, Idle
    <3>3. CASE request'[s] = request[s]
      <4>1. request[s].pc = "importCommit" /\ request[s].prev # None =>
              /\ request[s].prev \in Bulletins /\ bulletin[request[s].prev].status # "ABSENT"
              /\ bulletin[request[s].prev].from < request[s].from
        BY <1>a, <1>b DEF PrevStarted, PriceKnows
      <4> QED
        BY <2>0, <3>3, <4>1 DEF PrevStarted
    <3> QED
      BY <3>1, <3>2, <3>3
  <2> QED
    BY <2>2, <2>3 DEF PriceLong
<1>4. ASSUME NEW r \in Clients, NEW b \in Bulletins, ImportCommit(r, b) PROVE PriceLong'
  <2>1. PICK q : q = request[r]
    OBVIOUS
  <2>2. q.from \in Times /\ q.to \in Times \cup {Never} /\ q.from < q.to /\ PrevStarted(q)
        /\ q.prev \in Bulletins \cup {None}
    BY <1>4, <1>a, <2>1, CommitRows DEF PriceKnows
  <2>3. ASSUME NEW c \in Published' PROVE bulletin'[c].from \in Times /\ bulletin'[c].from < bulletin'[c].to
    <3>1. CASE c = b
      BY <1>4, <2>1, <2>2, <3>1, CommitRows
    <3>2. CASE c # b
      <4>1. c \in Published \ q.voided /\ c \in Bulletins
        BY <1>4, <2>1, <3>2, CommitRows DEF Published
      <4>2. /\ bulletin'[c].from = bulletin[c].from
            /\ bulletin'[c].to = IF c = q.prev THEN q.from ELSE bulletin[c].to
        BY <1>4, <2>1, <3>2, <4>1, CommitRows
      <4>3. c = q.prev => bulletin[c].from < q.from
        BY <1>4, <2>1, <2>2, <4>1, CommitRows, NoneAssumption DEF PrevStarted
      <4> QED
        BY <1>a, <4>1, <4>2, <4>3
    <3> QED
      BY <3>1, <3>2
  <2>4. ASSUME NEW s \in Clients PROVE PrevStarted(request[s])'
    <3>1. request'[s] = Idle \/ request'[s] = request[s]
      BY <1>4, <1>b, <2>1, CommitRows, GoesTo DEF Ends
    <3>2. CASE request'[s] = Idle
      BY <3>2 DEF PrevStarted, Idle
    <3>3. CASE request'[s] = request[s]
      <4>1. request[s].pc = "importCommit" /\ request[s].prev # None =>
              /\ request[s].prev \in Bulletins /\ bulletin[request[s].prev].status # "ABSENT"
              /\ bulletin[request[s].prev].from < request[s].from
        BY <1>a, <1>b DEF PrevStarted, PriceKnows
      <4>2. bulletin[b].status = "ABSENT" /\ \A c \in Bulletins : c # b =>
                /\ bulletin'[c].from = bulletin[c].from
                /\ bulletin[c].status # "ABSENT" => bulletin'[c].status # "ABSENT"
        BY <1>4, <2>1, CommitRows
      <4> QED
        BY <3>3, <4>1, <4>2 DEF PrevStarted
    <3> QED
      BY <3>1, <3>2, <3>3
  <2> QED
    BY <2>3, <2>4 DEF PriceLong
<1>5. ASSUME NEW r \in Clients, NEW b \in Bulletins, VoidRead(r, b) PROVE PriceLong'
  <2> DEFINE q == [pc |-> "voidPrice", id |-> b]
  <2>1. Goes(r, q) /\ bulletin' = bulletin /\ PrevStarted(q)
    BY <1>5 DEF VoidRead, PrevStarted
  <2> HIDE DEF q
  <2> QED
    BY <1>1, <2>1
<1>6. ASSUME NEW r \in Clients, NEW from \in Times, NEW items \in PriceLists, NEW isOverride \in BOOLEAN,
             ImportReadSame(r, from, items, isOverride)
      PROVE  PriceLong'
  <2>1. PICK pc \in {"importVoid", "importNext"} :
            Goes(r, [pc |-> pc, from |-> from, items |-> items, voided |-> {}]) /\ bulletin' = bulletin
    BY <1>6 DEF ImportReadSame
  <2> DEFINE q == [pc |-> pc, from |-> from, items |-> items, voided |-> {}]
  <2>2. Goes(r, q) /\ PrevStarted(q)
    BY <2>1 DEF PrevStarted
  <2> HIDE DEF q
  <2> QED
    BY <1>1, <2>1, <2>2
<1>7. ASSUME NEW r \in Clients, ImportVoidSame(r) PROVE PriceLong'
  <2>1. PICK q : q = [request[r] EXCEPT !.pc = "importNext", !.voided = PublishedAt(request[r].from)]
    OBVIOUS
  <2>2. request[r] \in ImportBegun
    BY <1>7, <1>b DEF ImportVoidSame, At, PriceKnows
  <2>3. q.pc = "importNext"
    BY <2>1, <2>2 DEF ImportBegun
  <2>4. Goes(r, q) /\ bulletin' = bulletin
    BY <1>7, <2>1 DEF ImportVoidSame
  <2> QED
    BY <1>1, <1>2, <2>3, <2>4
<1>8. ASSUME NEW r \in Clients, ImportReadNext(r) PROVE PriceLong'
  <2>1. PICK to : Goes(r, [pc |-> "importPrev", from |-> request[r].from, to |-> to,
                           items |-> request[r].items, voided |-> request[r].voided]) /\ bulletin' = bulletin
    BY <1>8 DEF ImportReadNext
  <2> DEFINE q == [pc |-> "importPrev", from |-> request[r].from, to |-> to,
                   items |-> request[r].items, voided |-> request[r].voided]
  <2>2. Goes(r, q) /\ PrevStarted(q)
    BY <2>1 DEF PrevStarted
  <2> HIDE DEF q
  <2> QED
    BY <1>1, <2>1, <2>2
<1>9. ASSUME NEW r \in Clients, ImportReadPrev(r) PROVE PriceLong'
  <2>1. PICK prev \in Earlier(request[r].from) \cup {None} :
            Goes(r, [pc |-> "importCommit", from |-> request[r].from, to |-> request[r].to,
                     items |-> request[r].items, voided |-> request[r].voided, prev |-> prev])
            /\ bulletin' = bulletin
    BY <1>9 DEF ImportReadPrev
  <2> DEFINE q == [pc |-> "importCommit", from |-> request[r].from, to |-> request[r].to,
                   items |-> request[r].items, voided |-> request[r].voided, prev |-> prev]
  <2>2. Goes(r, q) /\ PrevStarted(q)
    BY <2>1 DEF PrevStarted, Earlier, Published
  <2> HIDE DEF q
  <2> QED
    BY <1>1, <2>1, <2>2
<1>10. ASSUME NEW r \in Clients, AbortPrice(r), bulletin' = bulletin PROVE PriceLong'
  <2>1. PrevStarted(Idle)
    BY DEF PrevStarted, Idle
  <2> QED
    BY <1>1, <1>10, <2>1 DEF AbortPrice, Abort, Ends
<1> QED
  BY <1>3, <1>4, <1>5, <1>6, <1>7, <1>8, <1>9, <1>10, ImportsAndVoids

-----------------------------------------------------------------------------
(* One request at a time, what an import has read still holds when it      *)
(* writes, and bulletins do not overlap.                                   *)

Apart(b, c) ==
    b # c => /\ bulletin[b].from # bulletin[c].from
             /\ bulletin[b].from < bulletin[c].from => bulletin[b].to <= bulletin[c].from

\* "to" is where the next bulletin starts, "prev" the bulletin that started last.
NextStart(from, to) ==
    /\ \A c \in Later(from) : to <= bulletin[c].from
    /\ to = Never \/ \E c \in Later(from) : bulletin[c].from = to
LastStarted(from, prev) ==
    IF prev = None THEN \A c \in Published : ~(bulletin[c].from < from) ELSE prev \in Earlier(from)

ReadsHold(q) ==
    /\ q.pc \in {"importNext", "importPrev", "importCommit"} => q.voided = PublishedAt(q.from)
    /\ q.pc \in {"importPrev", "importCommit"} => NextStart(q.from, q.to)
    /\ q.pc = "importCommit" => LastStarted(q.from, q.prev)

PriceSerial ==
    ImportsOnly /\ Alone =>
        /\ \A b, c \in Published : Apart(b, c)
        /\ \A r \in Clients : ReadsHold(request[r])

LEMMA PriceSerialInit == RequestsInit /\ BulletinInit => PriceSerial
  BY DEF RequestsInit, BulletinInit, PriceSerial, ReadsHold, Idle, Published, AbsentBulletin

\* What ReadsHold says of the request that ends an import, in terms of starts.
LEMMA CommitReads ==
  ASSUME PriceTypeInv, PriceLong, ImportsOnly, NEW q, ReadsHold(q), PriceKnows(q), q.pc = "importCommit"
  PROVE  /\ q.from \in Times /\ q.to \in Times \cup {Never} /\ q.from < q.to
         /\ \A c \in Published :
                /\ c \in Bulletins /\ bulletin[c].from \in Times /\ bulletin[c].to \in 0 .. Never
                /\ bulletin[c].from < bulletin[c].to
                /\ c \in q.voided <=> bulletin[c].from = q.from
                /\ q.from < bulletin[c].from => q.to <= bulletin[c].from
         /\ q.to = Never \/ \E c \in Published : bulletin[c].from = q.to
         /\ q.prev = None => \A c \in Published : ~(bulletin[c].from < q.from)
         /\ q.prev # None =>
                /\ q.prev \in Published /\ bulletin[q.prev].from < q.from
                /\ \A c \in Published : bulletin[c].from < q.from => bulletin[c].from <= bulletin[q.prev].from
<1>1. bulletin \in [Bulletins -> BulletinRow]
  BY DEF PriceTypeInv
<1>2. /\ q.from \in Times /\ q.to \in Times \cup {Never} /\ q.from < q.to
      /\ q.voided = PublishedAt(q.from) /\ NextStart(q.from, q.to) /\ LastStarted(q.from, q.prev)
  BY DEF ReadsHold, PriceKnows
<1>3. \A c \in Published : /\ c \in Bulletins /\ bulletin[c].from \in Times /\ bulletin[c].to \in 0 .. Never
                           /\ bulletin[c].from < bulletin[c].to
  BY <1>1 DEF PriceLong, Published, BulletinRow
<1>4. \A c \in Published : /\ c \in q.voided <=> bulletin[c].from = q.from
                           /\ q.from < bulletin[c].from => q.to <= bulletin[c].from
  BY <1>2, <1>3 DEF PublishedAt, NextStart, Later
<1>5. q.to = Never \/ \E c \in Published : bulletin[c].from = q.to
  BY <1>2 DEF NextStart, Later
<1>6. /\ q.prev = None => \A c \in Published : ~(bulletin[c].from < q.from)
      /\ q.prev # None =>
                /\ q.prev \in Published /\ bulletin[q.prev].from < q.from
                /\ \A c \in Published : bulletin[c].from < q.from => bulletin[c].from <= bulletin[q.prev].from
  BY <1>2 DEF LastStarted, Earlier
<1> QED
  BY <1>2, <1>3, <1>4, <1>5, <1>6

\* Who works alone leaves nobody at work behind.
LEMMA PriceOthersIdle ==
  ASSUME PriceTypeInv, Alone, NEW r \in Clients, r \in scenario.clients, NEW s \in Clients, s # r
  PROVE  request[s].pc = "idle"
  BY DEF PriceTypeInv, PriceCalled, Alone

LEMMA IdleHolds == ASSUME NEW q, q.pc = "idle" PROVE ReadsHold(q) /\ ReadsHold(q)'
  BY DEF ReadsHold

LEMMA PriceSerialStep == PriceTypeInv /\ PriceLong /\ PriceSerial /\ PriceStep => PriceSerial'
<1> SUFFICES ASSUME PriceTypeInv, PriceLong, PriceSerial, PriceStep, ImportsOnly', Alone' PROVE PriceSerial'
  BY DEF PriceSerial
<1>0. scenario' = scenario
  BY DEF PriceStep, Create, AtOnce, requestVars, UpdateRead, UpdateWrite, PublishRead, VoidRead, PublishWrite,
         VoidWrite, SetStatus, ImportReadSame, ImportVoidSame, ImportReadNext, ImportReadPrev, ImportCommit,
         AbortPrice, Abort, Ends, Goes
<1> ImportsOnly /\ Alone
  BY <1>0 DEF ImportsOnly, Alone
<1>a. /\ \A b, c \in Published : Apart(b, c)
      /\ \A r \in Clients : ReadsHold(request[r])
  BY DEF PriceSerial
<1>b. /\ DOMAIN request = Clients
      /\ \A r \in Clients : PriceKnows(request[r]) /\ (request[r].pc # "idle" => r \in scenario.clients)
  BY DEF PriceTypeInv, PriceCalled
\* A read.
<1>1. ASSUME NEW r \in Clients, NEW q, Goes(r, q), bulletin' = bulletin, ReadsHold(q) PROVE PriceSerial'
  <2>1. \A s \in Clients : ReadsHold(request'[s])
    BY <1>a, <1>b, <1>1, GoesTo
  <2>2. \A s \in Clients : ReadsHold(request[s])'
    BY <1>1, <2>1 DEF ReadsHold, PublishedAt, Published, NextStart, LastStarted, Later, Earlier
  <2>3. \A b, c \in Published' : Apart(b, c)'
    BY <1>a, <1>1 DEF Published, Apart
  <2> QED
    BY <2>2, <2>3 DEF PriceSerial
\* A write ends the request, and nobody else is at work.
<1>2. ASSUME NEW r \in Clients, request[r].pc # "idle", Ends(r), \A b, c \in Published' : Apart(b, c)'
      PROVE  PriceSerial'
  <2>1. ASSUME NEW s \in Clients PROVE ReadsHold(request[s])'
    <3>1. request'[s].pc = "idle"
      <4>1. CASE s = r
        BY <1>b, <1>2, <4>1, GoesTo DEF Ends, Idle
      <4>2. CASE s # r
        BY <1>b, <1>2, <4>2, GoesTo, PriceOthersIdle DEF Ends
      <4> QED
        BY <4>1, <4>2
    <3> QED
      BY <3>1 DEF ReadsHold
  <2> QED
    BY <1>2, <2>1 DEF PriceSerial
<1>3. ASSUME NEW r \in Clients, VoidWrite(r) PROVE PriceSerial'
  <2>1. /\ Ends(r) /\ request[r].pc # "idle"
        /\ Published' \subseteq Published
        /\ \A c \in Bulletins : bulletin'[c].from = bulletin[c].from /\ bulletin'[c].to = bulletin[c].to
    BY <1>3, VoidRows DEF VoidWrite, SetStatus, At
  <2>2. Published \subseteq Bulletins
    BY DEF Published
  <2>3. \A b, c \in Published' : Apart(b, c)'
    BY <1>a, <2>1, <2>2 DEF Apart
  <2> QED
    BY <1>2, <2>1, <2>3
<1>4. ASSUME NEW r \in Clients, NEW b \in Bulletins, ImportCommit(r, b) PROVE PriceSerial'
  <2>1. PICK q : q = request[r]
    OBVIOUS
  <2>2. /\ Ends(r) /\ q.pc = "importCommit" /\ PriceKnows(q) /\ ReadsHold(q)
        /\ b \notin Published /\ bulletin'[b].from = q.from /\ bulletin'[b].to = q.to
        /\ Published' = (Published \ q.voided) \cup {b}
        /\ \A c \in Bulletins : c # b => bulletin'[c].from = bulletin[c].from
        /\ \A c \in Published \ q.voided : bulletin'[c].to = IF c = q.prev THEN q.from ELSE bulletin[c].to
    BY <1>4, <1>a, <2>1, CommitRows
  <2>3. /\ q.from \in Times /\ q.to \in Times \cup {Never} /\ q.from < q.to
        /\ \A c \in Published :
                /\ c \in Bulletins /\ bulletin[c].from \in Times /\ bulletin[c].to \in 0 .. Never
                /\ bulletin[c].from < bulletin[c].to
                /\ c \in q.voided <=> bulletin[c].from = q.from
                /\ q.from < bulletin[c].from => q.to <= bulletin[c].from
        /\ q.prev = None => \A c \in Published : ~(bulletin[c].from < q.from)
        /\ q.prev # None =>
                /\ q.prev \in Published /\ bulletin[q.prev].from < q.from
                /\ \A c \in Published : bulletin[c].from < q.from => bulletin[c].from <= bulletin[q.prev].from
    BY <2>2, CommitReads
  <2>4. ASSUME NEW c \in Published \ q.voided PROVE Apart(b, c)' /\ Apart(c, b)'
    <3>1. /\ c # b /\ bulletin'[c].from = bulletin[c].from /\ bulletin[c].from # q.from
          /\ bulletin[c].from \in Nat /\ bulletin[c].to \in Nat
          /\ bulletin'[c].to = IF c = q.prev THEN q.from ELSE bulletin[c].to
      BY <2>2, <2>3 DEF Times
    <3>2. q.from < bulletin[c].from => q.to <= bulletin[c].from
      BY <2>3
    <3>3. bulletin[c].from < q.from => bulletin'[c].to <= q.from
      <4>1. SUFFICES ASSUME bulletin[c].from < q.from, c # q.prev PROVE bulletin[c].to <= q.from
        BY <2>3, <3>1 DEF Times
      <4>2. /\ q.prev \in Published /\ bulletin[q.prev].from < q.from
            /\ bulletin[c].from <= bulletin[q.prev].from /\ bulletin[q.prev].from \in Nat
        BY <2>3, <4>1 DEF Times
      <4>3. Apart(c, q.prev)
        BY <1>a, <4>2
      <4> QED
        BY <2>3, <3>1, <4>1, <4>2, <4>3 DEF Apart, Times
    <3> QED
      BY <2>2, <3>1, <3>2, <3>3 DEF Apart
  <2>5. ASSUME NEW c \in Published \ q.voided, NEW d \in Published \ q.voided PROVE Apart(c, d)'
    <3>1. /\ c # b /\ bulletin'[c].from = bulletin[c].from /\ bulletin'[d].from = bulletin[d].from
          /\ bulletin[c].from # q.from /\ bulletin[d].from # q.from
          /\ bulletin[c].from \in Nat /\ bulletin[d].from \in Nat /\ q.from \in Nat
          /\ bulletin'[c].to = IF c = q.prev THEN q.from ELSE bulletin[c].to
      BY <2>2, <2>3 DEF Times
    <3>2. Apart(c, d)
      BY <1>a
    <3>3. c = q.prev /\ bulletin[c].from < bulletin[d].from => q.from <= bulletin[d].from
      <4>1. c = q.prev => c # None
        BY <2>3, NoneAssumption
      <4> QED
        BY <2>3, <3>1, <4>1
    <3> QED
      BY <3>1, <3>2, <3>3 DEF Apart
  <2>6. Apart(b, b)'
    BY DEF Apart
  <2>7. \A c, d \in Published' : Apart(c, d)'
    BY <2>2, <2>4, <2>5, <2>6
  <2> QED
    BY <1>2, <2>1, <2>2, <2>7
<1>5. ASSUME NEW r \in Clients, NEW b \in Bulletins, VoidRead(r, b) PROVE PriceSerial'
  <2> DEFINE q == [pc |-> "voidPrice", id |-> b]
  <2>1. Goes(r, q) /\ bulletin' = bulletin /\ ReadsHold(q)
    BY <1>5 DEF VoidRead, ReadsHold
  <2> HIDE DEF q
  <2> QED
    BY <1>1, <2>1
<1>6. ASSUME NEW r \in Clients, NEW from \in Times, NEW items \in PriceLists, NEW isOverride \in BOOLEAN,
             ImportReadSame(r, from, items, isOverride), bulletin' = bulletin
      PROVE  PriceSerial'
  <2> DEFINE q == [pc |-> IF PublishedAt(from) = {} THEN "importNext" ELSE "importVoid",
                   from |-> from, items |-> items, voided |-> {}]
  <2>1. Goes(r, q)
    BY <1>6 DEF ImportReadSame
  <2>2. ReadsHold(q)
    BY DEF ReadsHold
  <2> HIDE DEF q
  <2> QED
    BY <1>1, <1>6, <2>1, <2>2
<1>7. ASSUME NEW r \in Clients, ImportVoidSame(r) PROVE PriceSerial'
  <2>1. PICK q : q = [request[r] EXCEPT !.pc = "importNext", !.voided = PublishedAt(request[r].from)]
    OBVIOUS
  <2>2. request[r] \in ImportBegun
    BY <1>7, <1>b DEF ImportVoidSame, At, PriceKnows
  <2>3. q.pc = "importNext" /\ q.from = request[r].from /\ q.voided = PublishedAt(request[r].from)
    BY <2>1, <2>2 DEF ImportBegun
  <2>4. Goes(r, q) /\ bulletin' = bulletin /\ ReadsHold(q)
    BY <1>7, <2>1, <2>3 DEF ImportVoidSame, ReadsHold
  <2> QED
    BY <1>1, <2>4
<1>8. ASSUME NEW r \in Clients, ImportReadNext(r), bulletin' = bulletin PROVE PriceSerial'
  <2>1. PICK p : p = request[r]
    OBVIOUS
  <2>2. p.pc = "importNext" /\ p.voided = PublishedAt(p.from) /\ p.from \in Times
    BY <1>8, <1>a, <1>b, <2>1 DEF ImportReadNext, At, ReadsHold, PriceKnows, ImportBegun
  <2>3. PICK to \in IF Later(p.from) = {} THEN {Never}
                    ELSE {bulletin[b].from : b \in {d \in Later(p.from) :
                            \A c \in Later(p.from) : bulletin[d].from <= bulletin[c].from}} :
            Goes(r, [pc |-> "importPrev", from |-> p.from, to |-> to, items |-> p.items, voided |-> p.voided])
    BY <1>8, <2>1 DEF ImportReadNext
  <2>4. NextStart(p.from, to)
    <3>1. CASE Later(p.from) = {}
      BY <2>3, <3>1 DEF NextStart
    <3>2. CASE Later(p.from) # {}
      <4>1. PICK d \in Later(p.from) : /\ \A c \in Later(p.from) : bulletin[d].from <= bulletin[c].from
                                      /\ to = bulletin[d].from
        BY <2>3, <3>2
      <4> QED
        BY <4>1 DEF NextStart
    <3> QED
      BY <3>1, <3>2
  <2> DEFINE q == [pc |-> "importPrev", from |-> p.from, to |-> to, items |-> p.items, voided |-> p.voided]
  <2>5. Goes(r, q) /\ ReadsHold(q)
    BY <2>2, <2>3, <2>4 DEF ReadsHold
  <2> HIDE DEF q
  <2> QED
    BY <1>1, <1>8, <2>5
<1>9. ASSUME NEW r \in Clients, ImportReadPrev(r), bulletin' = bulletin PROVE PriceSerial'
  <2>1. PICK p : p = request[r]
    OBVIOUS
  <2>2. /\ p.pc = "importPrev" /\ p.voided = PublishedAt(p.from) /\ NextStart(p.from, p.to)
        /\ p.from \in Times
    BY <1>9, <1>a, <1>b, <2>1 DEF ImportReadPrev, At, ReadsHold, PriceKnows
  <2>3. PICK prev \in IF Earlier(p.from) = {} THEN {None} ELSE Earlier(p.from) :
            Goes(r, [pc |-> "importCommit", from |-> p.from, to |-> p.to,
                     items |-> p.items, voided |-> p.voided, prev |-> prev])
    BY <1>9, <2>1 DEF ImportReadPrev
  <2>4. LastStarted(p.from, prev)
    <3>1. CASE Earlier(p.from) # {}
      BY <2>3, <3>1, NoneAssumption DEF LastStarted, Earlier, Published
    <3>2. CASE Earlier(p.from) = {}
      <4> DEFINE S == {bulletin[c].from : c \in {d \in Published : bulletin[d].from < p.from}}
      <4>1. S \subseteq 0 .. MaxTime
        BY DEF PriceLong, Times
      <4>2. ASSUME S # {} PROVE FALSE
        <5>1. MaxTime \in Nat
          OBVIOUS
        <5> HIDE DEF S
        <5>2. PICK x \in S : \A y \in S : y <= x
          BY <4>1, <4>2, <5>1, Greatest
        <5> USE DEF S
        <5>3. PICK c \in Published : bulletin[c].from < p.from /\ x = bulletin[c].from
          OBVIOUS
        <5>4. c \in Earlier(p.from)
          BY <5>2, <5>3 DEF Earlier
        <5> QED
          BY <3>2, <5>4
      <4> QED
        BY <2>3, <3>2, <4>2 DEF LastStarted
    <3> QED
      BY <3>1, <3>2
  <2> DEFINE q == [pc |-> "importCommit", from |-> p.from, to |-> p.to,
                   items |-> p.items, voided |-> p.voided, prev |-> prev]
  <2>5. Goes(r, q) /\ ReadsHold(q)
    BY <2>2, <2>3, <2>4 DEF ReadsHold
  <2> HIDE DEF q
  <2> QED
    BY <1>1, <1>9, <2>5
<1>10. ASSUME NEW r \in Clients, AbortPrice(r), bulletin' = bulletin PROVE PriceSerial'
  <2>1. ReadsHold(Idle)
    BY DEF ReadsHold, Idle
  <2> QED
    BY <1>1, <1>10, <2>1 DEF AbortPrice, Abort, Ends
<1> QED
  BY <1>3, <1>4, <1>5, <1>6, <1>7, <1>8, <1>9, <1>10, ImportsAndVoids

PriceInv == PriceTypeInv /\ PriceLong /\ PriceSerial

LEMMA PriceInvHolds == PriceSpec => []PriceInv
<1>1. RequestsInit /\ BulletinInit => PriceInv
  BY PriceTypeInit, PriceLongInit, PriceSerialInit DEF PriceInv
<1>2. PriceInv /\ [PriceStep]_bulletinVars => PriceInv'
  <2>1. PriceInv /\ PriceStep => PriceInv'
    BY PriceTypeStep, PriceLongStep, PriceSerialStep DEF PriceInv
  <2>2. PriceInv /\ UNCHANGED bulletinVars => PriceInv'
    <3> SUFFICES ASSUME PriceInv, UNCHANGED bulletinVars PROVE PriceInv'
      OBVIOUS
    <3>1. request' = request /\ scenario' = scenario /\ bulletin' = bulletin
      BY DEF bulletinVars, requestVars
    <3>2. PriceTypeInv' /\ PriceLong'
      BY <3>1 DEF PriceInv, PriceTypeInv, PriceCalled, PriceLong, ImportsOnly, PrevStarted, Published
    <3>3. PriceSerial'
      BY <3>1 DEF PriceInv, PriceSerial, ImportsOnly, Alone, Apart, ReadsHold, PublishedAt, Published,
                  NextStart, LastStarted, Later, Earlier
    <3> QED
      BY <3>2, <3>3 DEF PriceInv
  <2> QED
    BY <2>1, <2>2
<1> QED
  BY <1>1, <1>2, PTL DEF PriceSpec

\* Bulletins that do not overlap: at most one is in force at a moment, which timeline shows.
InOrder ==
    /\ \A b \in Published : /\ b \in Bulletins /\ b # None /\ bulletin[b].from \in Times
                            /\ bulletin[b].to \in 0 .. Never /\ bulletin[b].from < bulletin[b].to
    /\ \A b, c \in Published : Apart(b, c)

LEMMA InOrderWhenAlone == PriceInv /\ ImportsOnly /\ Alone => InOrder
<1> SUFFICES ASSUME PriceInv, ImportsOnly, Alone PROVE InOrder
  OBVIOUS
<1>1. \A b \in Published : b \in Bulletins /\ bulletin[b].to \in 0 .. Never
  BY DEF PriceInv, PriceTypeInv, Published, BulletinRow
<1> QED
  BY <1>1, NoneAssumption DEF PriceInv, PriceLong, PriceSerial, InOrder

LEMMA OneInForce ==
  ASSUME InOrder, NEW t \in Times, NEW b \in InForce(t), NEW c \in InForce(t)
  PROVE  b = c
<1>1. /\ b \in Published /\ c \in Published /\ bulletin[b].from <= t /\ bulletin[c].from <= t
      /\ t < bulletin[b].to /\ t < bulletin[c].to
  BY DEF InForce
<1>2. /\ t \in Nat /\ bulletin[b].from \in Nat /\ bulletin[c].from \in Nat
      /\ bulletin[b].to \in Nat /\ bulletin[c].to \in Nat
  BY <1>1 DEF InOrder, Times, Never
<1>3. Apart(b, c) /\ Apart(c, b)
  BY <1>1 DEF InOrder
<1> QED
  BY <1>1, <1>2, <1>3 DEF Apart

TimelineShows ==
    /\ timeline = [t \in Times |-> timeline[t]]
    /\ \A t \in Times, b \in Published : bulletin[b].from <= t /\ t < bulletin[b].to => timeline[t] = b
    /\ \A t \in Times : timeline[t] # None =>
            /\ timeline[t] \in Published
            /\ bulletin[timeline[t]].from <= t /\ t < bulletin[timeline[t]].to

LEMMA TimelineAt == InOrder => TimelineShows
<1> SUFFICES ASSUME InOrder PROVE TimelineShows
  OBVIOUS
<1>1. timeline = [t \in Times |-> timeline[t]]
  BY DEF timeline
<1>2. ASSUME NEW t \in Times PROVE timeline[t] = IF InForce(t) = {} THEN None ELSE CHOOSE b \in InForce(t) : TRUE
  BY DEF timeline
<1>3. ASSUME NEW t \in Times, NEW b \in InForce(t) PROVE timeline[t] = b
  <2>1. (CHOOSE c \in InForce(t) : TRUE) \in InForce(t)
    OBVIOUS
  <2>2. (CHOOSE c \in InForce(t) : TRUE) = b
    BY <2>1, OneInForce
  <2> QED
    BY <1>2, <2>2
<1>4. \A t \in Times, b \in Published :
        bulletin[b].from <= t /\ t < bulletin[b].to => b \in InForce(t)
  BY DEF InForce
<1>5. ASSUME NEW t \in Times, timeline[t] # None
      PROVE  /\ timeline[t] \in Published
             /\ bulletin[timeline[t]].from <= t /\ t < bulletin[timeline[t]].to
  <2>1. PICK b \in InForce(t) : TRUE
    BY <1>2, <1>5
  <2> QED
    BY <1>3, <2>1 DEF InForce
<1> QED
  BY <1>1, <1>3, <1>4, <1>5 DEF TimelineShows

\* The same after a step.
LEMMA TimelineNext == InOrder' => TimelineShows'
  BY TimelineAt, PTL

\* A bulletin in force is for some time, a moment has one, and the one quoted is listed that day.
THEOREM OnePriceCorrect == PriceSpec => []OnePriceAtATime
<1>1. PriceInv => OnePriceAtATime
  <2> SUFFICES ASSUME PriceInv PROVE OnePriceAtATime
    OBVIOUS
  <2>1. ASSUME NEW t \in Times, NEW item \in Items PROVE Quoted(t, item) \subseteq Listed(DayOf(t))
    <3>1. t \in MomentsOf(DayOf(t))
      BY DEF MomentsOf, Times, Never
    <3>2. ASSUME NEW b \in Quoted(t, item) PROVE b \in Listed(DayOf(t))
      <4>1. b \in Published /\ bulletin[b].from <= t /\ t < bulletin[b].to
        BY DEF Quoted, Pricing, InForce
      <4>2. bulletin[b].to \in Nat /\ t \in Nat
        BY <4>1 DEF PriceInv, PriceTypeInv, BulletinRow, Published, Times, Never
      <4>3. bulletin[b].to >= t
        BY <4>1, <4>2
      <4> QED
        BY <3>1, <4>1, <4>3 DEF Listed
    <3> QED
      BY <3>2
  <2>2. ImportsOnly => \A b \in Published : bulletin[b].from < bulletin[b].to
    BY DEF PriceInv, PriceLong
  <2>3. ASSUME ImportsOnly, Alone, NEW t \in Times PROVE Cardinality(InForce(t)) <= 1
    <3>1. CASE InForce(t) = {}
      BY <3>1, FS_EmptySet
    <3>2. CASE InForce(t) # {}
      <4>1. PICK b \in InForce(t) : InForce(t) = {b}
        BY <2>3, <3>2, InOrderWhenAlone, OneInForce
      <4>2. Cardinality({b}) = 1
        BY FS_Singleton
      <4> QED
        BY <4>1, <4>2
    <3> QED
      BY <3>1, <3>2
  <2> QED
    BY <2>1, <2>2, <2>3 DEF OnePriceAtATime
<1> QED
  BY <1>1, PriceInvHolds, PTL

-----------------------------------------------------------------------------
(* Imports and voids implement the schedule.                               *)

StartsIn(s, v) == s[v] # None /\ (v = 1 \/ s[v - 1] # s[v])

\* A bulletin b comes in at "from", up to "to", where the next starts; prev, which started last,
\* is made to end there.  P are the bulletins published before, from their starts f to their ends e,
\* s is their schedule; Q, f2, e2 and s2 are those after.
ScheduleOf(P, f, e, s) ==
    /\ \A t \in Times, c \in P : f[c] <= t /\ t < e[c] => s[t] = c
    /\ \A t \in Times : s[t] # None => s[t] \in P /\ f[s[t]] <= t /\ t < e[s[t]]
InsertsAt(P, f, e, Q, f2, e2, b, from, to, prev, voided) ==
    /\ from \in Times /\ to \in Times \cup {Never} /\ from < to
    /\ None \notin P /\ None \notin Q /\ b \notin P
    /\ \A c \in P : f[c] \in Times /\ e[c] \in 0 .. Never /\ f[c] < e[c]
    /\ \A c, d \in P : c # d /\ f[c] < f[d] => e[c] <= f[d]
    /\ \A c, d \in P : c # d => f[c] # f[d]
    /\ \A c \in P : c \in voided <=> f[c] = from
    /\ \A c \in P : from < f[c] => to <= f[c]
    /\ to = Never \/ \E c \in P : f[c] = to
    /\ prev = None => \A c \in P : ~(f[c] < from)
    /\ prev # None => /\ prev \in P /\ f[prev] < from
                      /\ \A c \in P : f[c] < from => f[c] <= f[prev]
    /\ Q = (P \ voided) \cup {b} /\ f2[b] = from /\ e2[b] = to
    /\ \A c \in P \ voided : f2[c] = f[c] /\ e2[c] = IF c = prev THEN from ELSE e[c]

LEMMA InsertedSchedule ==
  ASSUME NEW P, NEW f, NEW e, NEW s, NEW Q, NEW f2, NEW e2, NEW s2,
         NEW b, NEW from, NEW to, NEW prev, NEW voided,
         InsertsAt(P, f, e, Q, f2, e2, b, from, to, prev, voided),
         ScheduleOf(P, f, e, s), ScheduleOf(Q, f2, e2, s2),
         NEW u \in Times
  PROVE  s2[u] =
            IF u >= from /\ \A v \in from + 1 .. u : ~StartsIn(s, v) THEN b
            ELSE IF u < from /\ s[u] = None /\ (\E v \in 1 .. u : s[v] # None)
                             /\ \A v \in u .. from - 1 : s[v] = None
            THEN s[CHOOSE v \in 1 .. u : s[v] # None /\ \A w \in v + 1 .. u : s[w] = None]
            ELSE s[u]
<1>a. /\ from \in Times /\ to \in Times \cup {Never} /\ from < to
      /\ None \notin P /\ None \notin Q /\ b \notin P
      /\ \A c \in P : f[c] \in Times /\ e[c] \in 0 .. Never /\ f[c] < e[c]
      /\ \A c, d \in P : c # d /\ f[c] < f[d] => e[c] <= f[d]
      /\ \A c, d \in P : c # d => f[c] # f[d]
      /\ \A c \in P : c \in voided <=> f[c] = from
      /\ \A c \in P : from < f[c] => to <= f[c]
      /\ to = Never \/ \E c \in P : f[c] = to
      /\ prev = None => \A c \in P : ~(f[c] < from)
      /\ prev # None => /\ prev \in P /\ f[prev] < from
                        /\ \A c \in P : f[c] < from => f[c] <= f[prev]
      /\ Q = (P \ voided) \cup {b} /\ f2[b] = from /\ e2[b] = to
      /\ \A c \in P \ voided : f2[c] = f[c] /\ e2[c] = IF c = prev THEN from ELSE e[c]
  BY DEF InsertsAt
<1>b. /\ \A t \in Times, c \in P : f[c] <= t /\ t < e[c] => s[t] = c
      /\ \A t \in Times : s[t] # None => s[t] \in P /\ f[s[t]] <= t /\ t < e[s[t]]
      /\ \A t \in Times, c \in Q : f2[c] <= t /\ t < e2[c] => s2[t] = c
      /\ \A t \in Times : s2[t] # None => s2[t] \in Q /\ f2[s2[t]] <= t /\ t < e2[s2[t]]
  BY DEF ScheduleOf
<1> USE <1>a, <1>b
<1>0. /\ from \in Nat /\ from >= 1 /\ from <= MaxTime /\ to \in Nat /\ u \in Nat /\ u >= 1 /\ u <= MaxTime
      /\ to <= Never /\ Never = MaxTime + 1 /\ MaxTime \in Nat
      /\ \A c \in P : f[c] \in Nat /\ e[c] \in Nat /\ f[c] >= 1 /\ f[c] <= MaxTime /\ f[c] < e[c]
  BY DEF Times, Never
<1>1. ASSUME NEW c \in P, f[c] > 1 PROVE s[f[c]] = c /\ s[f[c] - 1] # c /\ StartsIn(s, f[c])
  <2>1. s[f[c]] = c
    BY <1>0
  <2>2. f[c] - 1 \in Times
    BY <1>0, <1>1 DEF Times
  <2>3. s[f[c] - 1] # c
    BY <1>0, <2>2
  <2> QED
    BY <2>1, <2>3 DEF StartsIn
<1>2. ASSUME NEW v \in Times, v > 1, StartsIn(s, v) PROVE \E c \in P : f[c] = v
  <2>1. s[v] \in P /\ f[s[v]] <= v /\ v < e[s[v]]
    BY <1>2 DEF StartsIn
  <2>2. v - 1 \in Times /\ s[v - 1] # s[v]
    BY <1>0, <1>2 DEF StartsIn, Times
  <2>3. ~(f[s[v]] <= v - 1)
    <3>1. v - 1 < e[s[v]]
      BY <1>0, <2>1, <2>2 DEF Times
    <3> QED
      BY <2>1, <2>2, <3>1
  <2>4. f[s[v]] = v
    BY <1>0, <2>1, <2>3 DEF Times
  <2> QED
    BY <2>1, <2>4
\* A moment the import leaves alone.
<1>3. ASSUME u < from \/ u >= to, prev # None => ~(f[prev] <= u /\ u < from)
      PROVE  s2[u] = s[u]
  <2>1. ASSUME s[u] # None PROVE s2[u] = s[u]
    <3>1. PICK c : c = s[u]
      OBVIOUS
    <3>2. c \in P /\ f[c] <= u /\ u < e[c]
      BY <2>1, <3>1
    <3>3. c \notin voided /\ c # prev
      <4>1. CASE u < from
        <5>1. f[c] # from
          BY <1>0, <3>2, <4>1
        <5>2. c # prev
          BY <1>3, <3>2, <4>1
        <5> QED
          BY <3>2, <5>1, <5>2
      <4>2. CASE u >= to
        <5>1. PICK d \in P : f[d] = to
          BY <1>0, <4>2
        <5>2. e[c] <= to \/ c = d \/ ~(f[c] < to)
          BY <3>2, <5>1
        <5>3. ~(e[c] <= to)
          BY <1>0, <3>2, <4>2
        <5>4. ~(f[c] < to)
          BY <1>0, <3>2, <5>1, <5>2, <5>3
        <5>5. f[c] # from
          BY <1>0, <5>4
        <5>6. prev # None => f[prev] < to
          BY <1>0
        <5> QED
          BY <3>2, <5>4, <5>5, <5>6
      <4> QED
        BY <1>3, <4>1, <4>2
    <3>4. c \in Q /\ f2[c] <= u /\ u < e2[c]
      BY <3>2, <3>3
    <3> QED
      BY <3>1, <3>4
  <2>2. ASSUME s2[u] # None PROVE s2[u] = s[u]
    <3>1. PICK c : c = s2[u]
      OBVIOUS
    <3>2. c \in Q /\ f2[c] <= u /\ u < e2[c]
      BY <2>2, <3>1
    <3>3. c # b
      BY <1>0, <1>3, <3>2
    <3>4. c \in P \ voided /\ f[c] <= u
      BY <3>2, <3>3
    <3>5. c # prev
      BY <1>0, <1>3, <3>2, <3>4
    <3>6. u < e[c]
      BY <3>2, <3>4, <3>5
    <3> QED
      BY <3>1, <3>4, <3>6
  <2> QED
    BY <2>1, <2>2
<1>4. CASE u >= from /\ u < to
  <2>1. s2[u] = b
    BY <1>4
  <2>2. ASSUME NEW v \in from + 1 .. u, StartsIn(s, v) PROVE FALSE
    <3>1. v \in Times /\ v > 1 /\ from < v /\ v <= u
      BY <1>0 DEF Times
    <3>2. PICK c \in P : f[c] = v
      BY <1>2, <2>2, <3>1
    <3> QED
      BY <1>0, <1>4, <3>1, <3>2
  <2> QED
    BY <1>4, <2>1, <2>2
<1>5. CASE u >= to
  <2>1. PICK d \in P : f[d] = to
    BY <1>0, <1>5
  <2>2. to \in from + 1 .. u /\ StartsIn(s, to)
    BY <1>0, <1>1, <1>5, <2>1
  <2>3. s2[u] = s[u]
    BY <1>0, <1>3, <1>5
  <2>4. ~(u < from)
    BY <1>0, <1>5
  <2> QED
    BY <2>2, <2>3, <2>4
<1>6. CASE u < from /\ (prev # None => u < f[prev])
  <2>1. s2[u] = s[u]
    BY <1>0, <1>3, <1>6
  <2>2. ~(u >= from)
    BY <1>0, <1>6
  <2>3. CASE prev = None
    <3>1. ASSUME NEW v \in 1 .. u, s[v] # None PROVE FALSE
      <4>1. v \in Times /\ v < from
        BY <1>0, <1>6 DEF Times
      <4>2. s[v] \in P /\ f[s[v]] <= v
        BY <3>1, <4>1
      <4> QED
        BY <1>0, <2>3, <4>1, <4>2 DEF Times
    <3> QED
      BY <2>1, <2>2, <3>1
  <2>4. CASE prev # None
    <3>1. f[prev] \in u .. from - 1 /\ s[f[prev]] = prev
      <4>1. prev \in P /\ f[prev] < from /\ u < f[prev]
        BY <1>6, <2>4
      <4> QED
        BY <1>0, <4>1
    <3> QED
      BY <2>1, <2>2, <2>4, <3>1
  <2> QED
    BY <2>3, <2>4
<1>7. CASE u < from /\ prev # None /\ f[prev] <= u
  <2>1. /\ prev \in P /\ f[prev] < from /\ f[prev] \in Nat /\ e[prev] \in Nat /\ f[prev] < e[prev]
        /\ f[prev] >= 1 /\ prev \notin voided
    BY <1>0, <1>7
  <2>2. s2[u] = prev
    BY <1>7, <2>1
  <2>3. ~(u >= from)
    BY <1>0, <1>7
  <2>4. CASE u < e[prev]
    <3>1. s[u] = prev
      BY <1>7, <2>1, <2>4
    <3> QED
      BY <1>7, <2>2, <2>3, <3>1
  <2>5. CASE ~(u < e[prev])
    <3>1. ASSUME NEW w \in Times, e[prev] <= w, w < from PROVE s[w] = None
      <4>1. SUFFICES ASSUME s[w] # None PROVE FALSE
        OBVIOUS
      <4>2. PICK c : c = s[w] /\ c \in P /\ f[c] <= w /\ w < e[c]
        BY <4>1
      <4>3. f[c] < from
        BY <1>0, <3>1, <4>2 DEF Times
      <4>4. f[c] <= f[prev] /\ c # prev
        BY <1>0, <1>7, <3>1, <4>2, <4>3 DEF Times
      <4>5. f[c] < f[prev]
        BY <1>0, <2>1, <4>2, <4>4
      <4>6. e[c] <= f[prev]
        BY <2>1, <4>2, <4>4, <4>5
      <4> QED
        BY <1>0, <2>1, <3>1, <4>2, <4>6 DEF Times
    <3> DEFINE z == e[prev] - 1
    <3>2. /\ z \in Nat /\ z >= 1 /\ z <= u /\ z < e[prev] /\ f[prev] <= z /\ z \in Times /\ z + 1 = e[prev]
      BY <1>0, <2>1, <2>5 DEF Times
    <3> HIDE DEF z
    <3>3. s[z] = prev /\ s[z] # None
      BY <1>7, <2>1, <3>2
    <3>4. ASSUME NEW w \in z + 1 .. u PROVE s[w] = None
      BY <1>0, <1>7, <2>1, <3>1, <3>2 DEF Times
    <3>5. s[u] = None
      BY <1>0, <1>7, <2>1, <2>5, <3>1
    <3>6. ASSUME NEW v \in u .. from - 1 PROVE s[v] = None
      <4>1. v \in Times /\ e[prev] <= v /\ v < from
        BY <1>0, <2>1, <2>5 DEF Times
      <4> QED
        BY <3>1, <4>1
    <3>7. ASSUME NEW v \in 1 .. u, s[v] # None, \A w \in v + 1 .. u : s[w] = None PROVE v = z
      <4>1. ~(v > z)
        BY <1>0, <3>2, <3>4, <3>7
      <4>2. ~(v < z)
        BY <1>0, <3>2, <3>3, <3>7
      <4> QED
        BY <3>2, <4>1, <4>2
    <3>8. (CHOOSE v \in 1 .. u : s[v] # None /\ \A w \in v + 1 .. u : s[w] = None) = z
      <4>1. z \in 1 .. u
        BY <1>0, <3>2
      <4> QED
        BY <3>3, <3>4, <3>7, <4>1
    <3>9. \E v \in 1 .. u : s[v] # None
      BY <1>0, <3>2, <3>3
    <3>10. s[CHOOSE v \in 1 .. u : s[v] # None /\ \A w \in v + 1 .. u : s[w] = None] = prev
      BY <3>3, <3>8
    <3> QED
      BY <1>7, <2>2, <2>3, <3>5, <3>6, <3>9, <3>10, Zenon
  <2> QED
    BY <2>4, <2>5
<1> QED
  BY <1>0, <1>4, <1>5, <1>6, <1>7

LEMMA ScheduleKept ==
  ASSUME PriceInv, PriceInv', ImportsOnly, Alone, PriceStep
  PROVE  [Schedule!Next]_timeline
<1>1. InOrder /\ TimelineShows
  BY InOrderWhenAlone, TimelineAt
<1>2. InOrder' /\ TimelineShows'
  <2>1. scenario' = scenario
    BY ImportsAndVoids DEF PriceInv
  <2>2. ImportsOnly' /\ Alone'
    BY <2>1 DEF ImportsOnly, Alone
  <2>3. PriceInv' /\ ImportsOnly' /\ Alone' => InOrder'
    BY InOrderWhenAlone, PTL
  <2> QED
    BY <2>2, <2>3, TimelineNext
<1>3. ASSUME bulletin' = bulletin PROVE timeline' = timeline
  BY <1>3 DEF timeline, InForce, Published
<1>4. PICK s : s = timeline
  OBVIOUS
<1>5. PICK s2 : s2 = timeline'
  OBVIOUS
<1>6. /\ s = [t \in Times |-> s[t]]
      /\ \A t \in Times, c \in Published : bulletin[c].from <= t /\ t < bulletin[c].to => s[t] = c
      /\ \A t \in Times : s[t] # None =>
            s[t] \in Published /\ bulletin[s[t]].from <= t /\ t < bulletin[s[t]].to
  BY <1>1, <1>4 DEF TimelineShows
<1>7. /\ s2 = [t \in Times |-> s2[t]]
      /\ \A t \in Times, c \in Published' : bulletin'[c].from <= t /\ t < bulletin'[c].to => s2[t] = c
      /\ \A t \in Times : s2[t] # None =>
            s2[t] \in Published' /\ bulletin'[s2[t]].from <= t /\ t < bulletin'[s2[t]].to
  BY <1>2, <1>5 DEF TimelineShows
<1>8. ASSUME NEW r \in Clients, VoidWrite(r) PROVE Schedule!Next
  <2>1. PICK b \in Bulletins : /\ b = request[r].id /\ Published' = Published \ {b}
            /\ \A c \in Bulletins : bulletin'[c].from = bulletin[c].from /\ bulletin'[c].to = bulletin[c].to
    BY <1>8, VoidRows DEF PriceInv
  <2>2. \A c \in Published : c \in Bulletins /\ c # None
    BY <1>1 DEF InOrder
  <2>3. ASSUME NEW t \in Times PROVE s2[t] = IF s[t] = b THEN None ELSE s[t]
    <3>1. CASE s[t] = b
      <4>1. ASSUME s2[t] # None PROVE FALSE
        <5>1. s2[t] \in Published /\ s2[t] # b /\ s[t] = s2[t]
          BY <1>6, <1>7, <2>1, <2>2, <4>1
        <5> QED
          BY <3>1, <5>1
      <4> QED
        BY <3>1, <4>1
    <3>2. CASE s[t] # b
      <4>1. CASE s[t] = None
        <5>1. ASSUME s2[t] # None PROVE FALSE
          BY <1>6, <1>7, <2>1, <2>2, <4>1, <5>1
        <5> QED
          BY <3>2, <4>1, <5>1
      <4>2. CASE s[t] # None
        <5>1. s[t] \in Published' /\ bulletin'[s[t]].from <= t /\ t < bulletin'[s[t]].to
          BY <1>6, <2>1, <2>2, <3>2, <4>2
        <5> QED
          BY <1>7, <3>2, <5>1
      <4> QED
        BY <4>1, <4>2
    <3> QED
      BY <3>1, <3>2
  <2>4. s2 = [t \in 1 .. MaxTime |-> IF s[t] = b THEN None ELSE s[t]]
    BY <1>7, <2>3 DEF Times
  <2>5. Schedule!Withdraw(b)
    BY <1>4, <1>5, <2>4 DEF Schedule!Withdraw, Schedule!Times
  <2> QED
    BY <2>5 DEF Schedule!Next
<1>9. ASSUME NEW r \in Clients, NEW b \in Bulletins, ImportCommit(r, b) PROVE Schedule!Next
  <2>1. PICK q : q = request[r]
    OBVIOUS
  <2>2. /\ q.pc = "importCommit" /\ PriceKnows(q) /\ ReadsHold(q)
        /\ b \notin Published /\ b \in Published'
        /\ bulletin'[b].from = q.from /\ bulletin'[b].to = q.to
        /\ Published' = (Published \ q.voided) \cup {b}
        /\ \A c \in Bulletins : c # b => bulletin'[c].from = bulletin[c].from
        /\ \A c \in Published \ q.voided : bulletin'[c].to = IF c = q.prev THEN q.from ELSE bulletin[c].to
    BY <1>9, <2>1, CommitRows DEF PriceInv, PriceSerial
  <2>3. /\ q.from \in Times /\ q.to \in Times \cup {Never} /\ q.from < q.to
        /\ \A c \in Published :
                /\ c \in Bulletins /\ bulletin[c].from \in Times /\ bulletin[c].to \in 0 .. Never
                /\ bulletin[c].from < bulletin[c].to
                /\ c \in q.voided <=> bulletin[c].from = q.from
                /\ q.from < bulletin[c].from => q.to <= bulletin[c].from
        /\ q.to = Never \/ \E c \in Published : bulletin[c].from = q.to
        /\ q.prev = None => \A c \in Published : ~(bulletin[c].from < q.from)
        /\ q.prev # None =>
                /\ q.prev \in Published /\ bulletin[q.prev].from < q.from
                /\ \A c \in Published : bulletin[c].from < q.from => bulletin[c].from <= bulletin[q.prev].from
    BY <2>2, CommitReads DEF PriceInv
  <2>4. None \notin Published /\ None \notin Published'
    BY <1>1, <1>2 DEF InOrder
  <2>5. PICK f : f = [c \in Bulletins |-> bulletin[c].from]
    OBVIOUS
  <2>6. PICK e : e = [c \in Bulletins |-> bulletin[c].to]
    OBVIOUS
  <2>7. PICK f2 : f2 = [c \in Bulletins |-> bulletin'[c].from]
    OBVIOUS
  <2>8. PICK e2 : e2 = [c \in Bulletins |-> bulletin'[c].to]
    OBVIOUS
  <2>9. PICK P : P = Published
    OBVIOUS
  <2>10. PICK Q : Q = Published'
    OBVIOUS
  <2>11. P \subseteq Bulletins /\ Q \subseteq Bulletins
    BY <2>9, <2>10 DEF Published
  <2>12. /\ None \notin P /\ None \notin Q /\ b \notin P
         /\ \A c \in P : f[c] \in Times /\ e[c] \in 0 .. Never /\ f[c] < e[c]
         /\ \A c \in P : c \in q.voided <=> f[c] = q.from
         /\ \A c \in P : q.from < f[c] => q.to <= f[c]
         /\ q.to = Never \/ \E c \in P : f[c] = q.to
    BY <2>2, <2>3, <2>4, <2>5, <2>6, <2>9, <2>10, <2>11
  <2>13. /\ q.prev = None => \A c \in P : ~(f[c] < q.from)
         /\ q.prev # None => /\ q.prev \in P /\ f[q.prev] < q.from
                             /\ \A c \in P : f[c] < q.from => f[c] <= f[q.prev]
    BY <2>3, <2>5, <2>9, <2>11
  <2>14. /\ \A c, d \in P : c # d /\ f[c] < f[d] => e[c] <= f[d]
         /\ \A c, d \in P : c # d => f[c] # f[d]
    <3>1. \A c, d \in P : Apart(c, d)
      BY <1>1, <2>9 DEF InOrder
    <3> QED
      BY <2>5, <2>6, <2>11, <3>1 DEF Apart
  <2>15. ScheduleOf(P, f, e, s)
    BY <1>6, <2>5, <2>6, <2>9, <2>11 DEF ScheduleOf
  <2>16. ScheduleOf(Q, f2, e2, s2)
    BY <1>7, <2>7, <2>8, <2>10, <2>11 DEF ScheduleOf
  <2>17. /\ Q = (P \ q.voided) \cup {b} /\ f2[b] = q.from /\ e2[b] = q.to
         /\ \A c \in P \ q.voided : f2[c] = f[c] /\ e2[c] = IF c = q.prev THEN q.from ELSE e[c]
    BY <2>2, <2>5, <2>6, <2>7, <2>8, <2>9, <2>10, <2>11
  <2> DEFINE after(u) ==
            IF u >= q.from /\ \A v \in q.from + 1 .. u : ~StartsIn(s, v) THEN b
            ELSE IF u < q.from /\ s[u] = None /\ (\E v \in 1 .. u : s[v] # None)
                               /\ \A v \in u .. q.from - 1 : s[v] = None
            THEN s[CHOOSE v \in 1 .. u : s[v] # None /\ \A w \in v + 1 .. u : s[w] = None]
            ELSE s[u]
  <2>18. InsertsAt(P, f, e, Q, f2, e2, b, q.from, q.to, q.prev, q.voided)
    BY <2>3, <2>12, <2>13, <2>14, <2>17 DEF InsertsAt
  <2>20. ASSUME NEW u \in Times PROVE s2[u] = after(u)
    BY <2>15, <2>16, <2>18, InsertedSchedule
  <2>21. s2 = [u \in 1 .. MaxTime |-> after(u)]
    BY <1>7, <2>20 DEF Times
  <2>22. \A u \in 1 .. MaxTime : s[u] # b
    BY <1>6, <2>2, <2>4 DEF Times
  <2>23. Schedule!Insert(b, q.from)
    BY <1>4, <1>5, <2>21, <2>22 DEF Schedule!Insert, Schedule!Times, Schedule!Starts, StartsIn
  <2> QED
    BY <2>3, <2>23 DEF Schedule!Next, Schedule!Times, Times
<1> QED
  BY <1>3, <1>8, <1>9, ImportsAndVoids DEF PriceInv

\* One at a time, imports and voids are steps of the price schedule, or leave it as it is.
THEOREM KeepsScheduleCorrect == PriceSpec => KeepsSchedule
<1>1. PriceInv /\ PriceInv' /\ [PriceStep]_bulletinVars =>
        [ImportsOnly /\ Alone => [Schedule!Next]_timeline]_bulletinVars
  BY ScheduleKept
<1> QED
  BY <1>1, PriceInvHolds, PTL DEF PriceSpec, KeepsSchedule

-----------------------------------------------------------------------------
(* Requests that come one after another.                                   *)

\* A request under way is one of the scenario.
Busy == DOMAIN request = Clients /\ \A r \in Clients : request[r].pc # "idle" => r \in scenario.clients

LEMMA BusyInit == RequestsInit => Busy
  BY DEF RequestsInit, Busy, Idle

LEMMA BusyGoes ==
  ASSUME Busy, NEW r \in Clients, r \in scenario.clients, NEW q, Goes(r, q)
  PROVE  Busy'
  BY GoesTo DEF Busy

LEMMA BusyEnds ==
  ASSUME Busy, NEW r \in Clients, Ends(r)
  PROVE  Busy' /\ request'[r].pc = "idle" /\ scenario' = scenario
  BY GoesTo DEF Busy, Ends, Idle

\* Who works alone leaves nobody at work behind.
LEMMA OthersIdle ==
  ASSUME Busy, Alone, NEW r \in Clients, r \in scenario.clients, NEW s \in Clients, s # r
  PROVE  request[s].pc = "idle"
  BY DEF Busy, Alone

LEMMA EndsIdle ==
  ASSUME Busy, Alone, NEW r \in Clients, request[r].pc # "idle", Ends(r)
  PROVE  \A s \in Clients : request'[s].pc = "idle"
  BY GoesTo, OthersIdle DEF Ends, Idle, Busy

LEMMA AtOnceIdle ==
  ASSUME Busy, Alone, NEW call, AtOnce(call)
  PROVE  /\ scenario' = scenario /\ request' = request /\ Busy'
         /\ \A s \in Clients : request'[s].pc = "idle"
<1>1. scenario' = scenario /\ request' = request
  BY DEF AtOnce, requestVars
<1>2. PICK r \in Clients : r \in scenario.clients /\ request[r].pc = "idle"
  BY DEF AtOnce, Starts, Idle
<1> QED
  BY <1>1, <1>2, OthersIdle DEF Busy

-----------------------------------------------------------------------------
(* Addresses and taxes: a value a day.                                     *)
HIDE TimeAssumption
USE TimelinesAssumption

AddressRow == [from : Days, to : Nat \cup {None}]
\* The rows follow one another: no two start on a day, and each ends the day before the next one
\* begins; the last has no end.
EndsBefore(a) ==
    IF address[a].to = None THEN \A b \in Addressed : address[b].from <= address[a].from
    ELSE /\ \E b \in Addressed : address[b].from > address[a].from /\ address[b].from = address[a].to + 1
         /\ \A b \in Addressed : address[b].from > address[a].from => address[a].to < address[b].from
AddressesFollow ==
    /\ address \in [Addresses -> AddressRow \cup {None}]
    /\ \A a, b \in Addressed : a # b => address[a].from # address[b].from
    /\ \A a \in Addressed : EndsBefore(a)

Overlap(row, other) == row.active /\ other.active /\ other.from <= UpTo(row.to) /\ UpTo(other.to) >= row.from
TaxesApart ==
    /\ tax \in [Taxes -> TaxRows \cup {None}]
    /\ \A t, u \in Taxed : t # u => ~Overlap(tax[t], tax[u])

\* What a request has read still holds.
Rebuilds(starts, rows) ==
    /\ DOMAIN starts = rows
    /\ \A a \in rows : starts[a] \in Days
    /\ \A a, b \in rows : a # b => starts[a] # starts[b]
TimelineReads(q) ==
    /\ q.pc = "createAddress" =>
        /\ q.from \in Days
        /\ IF q.current = None THEN Addressed = {}
           ELSE q.current \in Open /\ address[q.current].from < q.from
    /\ q.pc = "updateAddress" => Rebuilds(q.starts, Addressed)
    /\ q.pc = "removeAddress" => q.address \in Addressed /\ Rebuilds(q.starts, Addressed \ {q.address})
    /\ q.pc = "createTax" => q.row \in TaxRows /\ AssertNoOverlap(q.row, None)
    /\ q.pc = "updateTax" => q.row \in TaxRows /\ q.tax \in Taxed /\ AssertNoOverlap(q.row, q.tax)

TimelineInv ==
    /\ Busy
    /\ Alone => AddressesFollow /\ TaxesApart /\ \A r \in Clients : TimelineReads(request[r])

LEMMA TimelineInit == RequestsInit /\ TimelineTablesInit => TimelineInv
<1> SUFFICES ASSUME RequestsInit, TimelineTablesInit PROVE TimelineInv
  OBVIOUS
<1>1. Addressed = {} /\ Taxed = {}
  BY DEF TimelineTablesInit, Addressed, Taxed
<1>2. AddressesFollow /\ TaxesApart
  BY <1>1 DEF AddressesFollow, TaxesApart, TimelineTablesInit
<1>3. \A r \in Clients : TimelineReads(request[r])
  BY DEF RequestsInit, TimelineReads, Idle
<1> QED
  BY <1>2, <1>3, BusyInit DEF TimelineInv

\* Of any addresses one starts last.
LEMMA LastAddress ==
  ASSUME AddressesFollow, NEW rows \in SUBSET Addressed, rows # {}
  PROVE  \E a \in rows : \A b \in rows : address[b].from <= address[a].from
<1> DEFINE S == {address[a].from : a \in rows}
<1>1. S \subseteq 0 .. MaxDay /\ S # {}
  BY DEF AddressesFollow, Addressed, AddressRow, Days
<1>2. PICK x \in S : \A y \in S : y <= x
  <2> HIDE DEF S
  <2> QED
    BY <1>1, Greatest
<1> QED
  BY <1>2

\* The rows of the last day: none before the first row, else one, without an end.
LEMMA OpenIsLast ==
  ASSUME AddressesFollow
  PROVE  /\ Addressed # {} => \E a \in Addressed : Open = {a}
         /\ \A a \in Open, b \in Addressed : address[b].from <= address[a].from
<1>1. \A a \in Open, b \in Addressed : address[b].from <= address[a].from
  BY DEF AddressesFollow, EndsBefore, Open
<1>2. ASSUME Addressed # {} PROVE \E a \in Addressed : Open = {a}
  <2>1. PICK a \in Addressed : \A b \in Addressed : address[b].from <= address[a].from
    BY <1>2, LastAddress
  <2>2. \A b \in Addressed : address[b].from \in Nat
    BY DEF AddressesFollow, Addressed, AddressRow, Days
  <2>3. address[a].to = None
    BY <2>1, <2>2 DEF AddressesFollow, EndsBefore
  <2>4. ASSUME NEW b \in Open PROVE b = a
    <3>1. b \in Addressed /\ address[a].from <= address[b].from
      BY <1>1, <2>4 DEF Open
    <3> QED
      BY <2>1, <2>2, <3>1 DEF AddressesFollow
  <2> QED
    BY <2>3, <2>4 DEF Open
<1> QED
  BY <1>1, <1>2

-----------------------------------------------------------------------------
(* The shapes of a step.                                                   *)

LEMMA TablesKept ==
  ASSUME address' = address, tax' = tax
  PROVE  /\ AddressesFollow => AddressesFollow'
         /\ TaxesApart => TaxesApart'
         /\ \A q : TimelineReads(q) => TimelineReads(q)'
<1>1. Addressed' = Addressed /\ Open' = Open /\ Taxed' = Taxed
  BY DEF Addressed, Open, Taxed
<1>2. AddressesFollow => AddressesFollow'
  BY <1>1 DEF AddressesFollow, EndsBefore
<1>3. TaxesApart => TaxesApart'
  BY <1>1 DEF TaxesApart
<1>4. ASSUME NEW q, TimelineReads(q) PROVE TimelineReads(q)'
  BY <1>1, <1>4 DEF TimelineReads, AssertNoOverlap
<1> QED
  BY <1>2, <1>3, <1>4

LEMMA IdleReads == \A q : q.pc = "idle" => TimelineReads(q)
  BY DEF TimelineReads
LEMMA IdleReadsNext == \A q : q.pc = "idle" => TimelineReads(q)'
  BY DEF TimelineReads

\* A call reads.
LEMMA ReadStep ==
  ASSUME TimelineInv, NEW r \in Clients, NEW call, Starts(r, call), NEW q, Goes(r, q),
         address' = address, tax' = tax, Alone => TimelineReads(q)
  PROVE  TimelineInv'
<1>1. Busy' /\ (Alone' <=> Alone)
  BY BusyGoes DEF TimelineInv, Starts, Goes, Alone
<1>2. ASSUME Alone, NEW s \in Clients PROVE TimelineReads(request[s])'
  <2>1. CASE s = r
    BY <1>2, <2>1, GoesTo, TablesKept DEF TimelineInv, Busy
  <2>2. ASSUME s # r PROVE TimelineReads(request[s])'
    <3>1. request'[s].pc = "idle"
      BY <1>2, <2>2, GoesTo, OthersIdle DEF TimelineInv, Busy, Starts
    <3> QED
      BY <3>1 DEF TimelineReads
  <2> QED
    BY <2>1, <2>2
<1>3. Alone => AddressesFollow' /\ TaxesApart'
  BY TablesKept DEF TimelineInv
<1> QED
  BY <1>1, <1>2, <1>3 DEF TimelineInv

\* A transaction commits, or fails.
LEMMA EndStep ==
  ASSUME TimelineInv, NEW r \in Clients, request[r].pc # "idle", Ends(r),
         Alone => AddressesFollow' /\ TaxesApart'
  PROVE  TimelineInv'
<1>1. Busy' /\ (Alone' <=> Alone)
  BY BusyEnds DEF TimelineInv, Alone
<1>2. ASSUME Alone, NEW s \in Clients PROVE TimelineReads(request[s])'
  BY <1>2, EndsIdle DEF TimelineInv, TimelineReads
<1> QED
  BY <1>1, <1>2 DEF TimelineInv

\* A call of one step.
LEMMA OnceStep ==
  ASSUME TimelineInv, NEW call, AtOnce(call), Alone => AddressesFollow' /\ TaxesApart'
  PROVE  TimelineInv'
<1>1. scenario' = scenario /\ request' = request
  BY DEF AtOnce, requestVars
<1>2. Busy' /\ (Alone' <=> Alone)
  BY <1>1 DEF TimelineInv, Alone, Busy
<1>3. ASSUME Alone, NEW s \in Clients PROVE TimelineReads(request[s])'
  <2>1. request'[s].pc = "idle"
    BY <1>3, AtOnceIdle DEF TimelineInv
  <2> QED
    BY <2>1 DEF TimelineReads
<1> QED
  BY <1>2, <1>3 DEF TimelineInv

-----------------------------------------------------------------------------
(* Addresses.                                                              *)

LEMMA CreateAddressReads ==
  ASSUME AddressesFollow, NEW from \in Days, Open # {} => from > address[LatestOf(Open)].from
  PROVE  TimelineReads([pc |-> "createAddress", from |-> from,
                        current |-> IF Open = {} THEN None ELSE LatestOf(Open)])
<1>1. CASE Open = {}
  BY <1>1, OpenIsLast DEF TimelineReads
<1>2. CASE Open # {}
  <2>1. PICK a \in Addressed : Open = {a}
    BY <1>2, OpenIsLast DEF Open
  <2>2. LatestOf(Open) \in Open
    <3>1. \A b \in Open : address[b].from <= address[a].from
      BY <2>1, OpenIsLast
    <3> QED
      BY <2>1, <3>1 DEF LatestOf
  <2>3. LatestOf(Open) # None
    BY <2>2 DEF Open, Addressed
  <2>4. address[LatestOf(Open)].from < from
    BY <1>2, <2>2 DEF AddressesFollow, Addressed, AddressRow, Days, Open
  <2> DEFINE l == LatestOf(Open)
  <2> HIDE DEF l
  <2>5. l \in Open /\ l # None /\ address[l].from < from
    BY <2>2, <2>3, <2>4 DEF l
  <2>6. TimelineReads([pc |-> "createAddress", from |-> from, current |-> l])
    BY <2>5 DEF TimelineReads
  <2> QED
    BY <1>2, <2>6 DEF l
<1> QED
  BY <1>1, <1>2

\* The rows with a new one behind the last.
Appended(a, c, from) ==
    address' = [b \in Addresses |->
        IF b = a THEN [from |-> from, to |-> None]
        ELSE IF b = c THEN [address[b] EXCEPT !.to = from - 1]
        ELSE address[b]]

LEMMA FirstAddress ==
  ASSUME AddressesFollow, Addressed = {}, NEW a \in Addresses, NEW from \in Days, Appended(a, None, from)
  PROVE  AddressesFollow'
<1>1. \A b \in Addresses : address'[b] = IF b = a THEN [from |-> from, to |-> None] ELSE None
  BY DEF Appended, Addressed
<1>2. [from |-> from, to |-> None] # None
  BY DEF Days
<1>3. Addressed' = {a}
  BY <1>1, <1>2 DEF Addressed
<1>4. address' \in [Addresses -> AddressRow \cup {None}]
  BY <1>1 DEF AddressRow, Appended
<1>5. EndsBefore(a)'
  BY <1>1, <1>3 DEF EndsBefore, Days
<1> QED
  BY <1>3, <1>4, <1>5 DEF AddressesFollow

LEMMA NextAddress ==
  ASSUME AddressesFollow, NEW a \in Addresses, a \notin Addressed, NEW c \in Open, NEW from \in Days,
         address[c].from < from, Appended(a, c, from)
  PROVE  AddressesFollow'
<1>1. /\ c \in Addressed /\ c # a /\ address[c] \in AddressRow /\ address[c].to = None
      /\ \A b \in Addressed : b \in Addresses /\ address[b] \in AddressRow
  BY DEF Open, Addressed, AddressesFollow
<1>2. /\ from \in Nat /\ from - 1 \in Nat /\ Days \subseteq Nat
      /\ \A b \in Addressed : address[b].from \in Nat /\ address[b].to \in Nat \cup {None}
  BY <1>1 DEF Days, AddressRow
<1>3. \A b \in Addressed : address[b].from <= address[c].from
  BY OpenIsLast
<1>4. address'[a] = [from |-> from, to |-> None]
  BY DEF Appended
<1>5. address'[c] = [from |-> address[c].from, to |-> from - 1]
  BY <1>1 DEF Appended, AddressRow
<1>6. \A b \in Addresses : b # a /\ b # c => address'[b] = address[b]
  BY DEF Appended
<1>7. address'[a] \in AddressRow /\ address'[c] \in AddressRow
  BY <1>1, <1>2, <1>4, <1>5 DEF AddressRow
<1>8. address'[a] # None /\ address'[c] # None
  BY <1>7 DEF AddressRow, Days
<1>9. Addressed' = Addressed \cup {a}
  BY <1>1, <1>6, <1>8 DEF Addressed
<1>10. address' \in [Addresses -> AddressRow \cup {None}]
  BY <1>6, <1>7 DEF AddressesFollow, Appended
<1>11. \A b \in Addressed : address'[b].from = address[b].from
  BY <1>1, <1>5, <1>6
<1>12. \A b, d \in Addressed' : b # d => address'[b].from # address'[d].from
  <2>1. \A b \in Addressed : address'[b].from < from /\ b # a
    BY <1>1, <1>2, <1>3, <1>11
  <2>2. \A b, d \in Addressed : b # d => address'[b].from # address'[d].from
    BY <1>11 DEF AddressesFollow
  <2> QED
    BY <1>2, <1>4, <1>9, <2>1, <2>2
<1>13. EndsBefore(a)'
  BY <1>1, <1>2, <1>3, <1>4, <1>9, <1>11 DEF EndsBefore
<1>14. EndsBefore(c)'
  <2>1. from - 1 # None
    BY <1>2
  <2> QED
    BY <1>1, <1>2, <1>3, <1>4, <1>5, <1>9, <1>11, <2>1 DEF EndsBefore
<1>15. ASSUME NEW b \in Addressed, b # c PROVE EndsBefore(b)'
  <2>1. address'[b] = address[b] /\ b # a
    BY <1>1, <1>6, <1>15
  <2>2. address[b].to # None
    <3>1. address[b].to = None => address[c].from <= address[b].from
      BY <1>1 DEF AddressesFollow, EndsBefore
    <3>2. address[b].from # address[c].from
      BY <1>1, <1>15 DEF AddressesFollow
    <3> QED
      BY <1>2, <1>3, <1>1, <3>1, <3>2
  <2>3. EndsBefore(b)
    BY DEF AddressesFollow
  <2>4. PICK d \in Addressed : address[d].from > address[b].from /\ address[d].from = address[b].to + 1
    BY <2>2, <2>3 DEF EndsBefore
  <2>5. address[b].to < address[c].from
    BY <1>2, <1>3, <2>2, <2>4, <1>1
  <2>6. \E e \in Addressed' : address'[e].from > address'[b].from /\ address'[e].from = address'[b].to + 1
    BY <1>9, <1>11, <2>1, <2>4
  <2>7. \A e \in Addressed : address'[e].from > address'[b].from => address'[b].to < address'[e].from
    BY <1>11, <2>1, <2>2, <2>3 DEF EndsBefore
  <2>8. address'[b].to < address'[a].from
    BY <1>1, <1>2, <1>4, <2>1, <2>2, <2>5
  <2> QED
    BY <1>9, <2>1, <2>2, <2>6, <2>7, <2>8 DEF EndsBefore
<1> QED
  BY <1>9, <1>10, <1>12, <1>13, <1>14, <1>15 DEF AddressesFollow

\* Each row ends the day before the next one begins.
LEMMA RebuiltAt ==
  ASSUME NEW rows, NEW starts, Rebuilds(starts, rows), NEW a \in rows
  PROVE  \/ /\ RebuildTimeline(starts)[a] = None
            /\ \A b \in rows : starts[b] <= starts[a]
         \/ \E b \in rows :
                /\ starts[b] > starts[a]
                /\ RebuildTimeline(starts)[a] = starts[b] - 1
                /\ \A d \in rows : starts[d] > starts[a] => starts[b] <= starts[d]
<1> DEFINE later == {starts[b] : b \in {c \in rows : starts[c] > starts[a]}}
<1>1. DOMAIN starts = rows /\ \A b \in rows : starts[b] \in Days
  BY DEF Rebuilds
<1>2. RebuildTimeline(starts)[a]
        = IF later = {} THEN None ELSE (CHOOSE d \in later : \A e \in later : d <= e) - 1
  BY <1>1 DEF RebuildTimeline
<1>3. later \subseteq 0 .. MaxDay
  BY <1>1 DEF Days
<1>4. CASE later = {}
  <2>1. \A b \in rows : ~(starts[b] > starts[a])
    BY <1>4
  <2>2. \A b \in rows : starts[b] <= starts[a]
    BY <1>1, <2>1 DEF Days
  <2>3. RebuildTimeline(starts)[a] = None
    BY <1>2, <1>4
  <2> QED
    BY <2>2, <2>3
<1>5. CASE later # {}
  <2>1. \E d \in later : \A e \in later : d <= e
    <3> HIDE DEF later
    <3> QED
      BY <1>3, <1>5, Smallest
  <2>2. PICK m \in later : /\ \A e \in later : m <= e
                           /\ RebuildTimeline(starts)[a] = m - 1
    <3> HIDE DEF later
    <3> QED
      BY <1>2, <1>5, <2>1
  <2>3. PICK b \in rows : starts[b] > starts[a] /\ m = starts[b]
    BY <2>2
  <2>4. \A d \in rows : starts[d] > starts[a] => starts[b] <= starts[d]
    BY <2>2, <2>3
  <2> QED
    BY <2>2, <2>3, <2>4
<1> QED
  BY <1>4, <1>5

LEMMA RebuiltFollow ==
  ASSUME NEW rows \in SUBSET Addresses, NEW starts, Rebuilds(starts, rows),
         address' = [a \in Addresses |->
             IF a \in rows THEN [from |-> starts[a], to |-> RebuildTimeline(starts)[a]] ELSE None]
  PROVE  AddressesFollow'
<1>1. \A a \in rows : starts[a] \in Days /\ starts[a] \in Nat /\ starts[a] - 1 \in Nat
  BY DEF Rebuilds, Days
<1>2. \A a \in rows : RebuildTimeline(starts)[a] \in Nat \cup {None}
  <2> SUFFICES ASSUME NEW a \in rows PROVE RebuildTimeline(starts)[a] \in Nat \cup {None}
    OBVIOUS
  <2> QED
    BY <1>1, RebuiltAt
<1>3. \A a \in rows : /\ address'[a].from = starts[a] /\ address'[a].to = RebuildTimeline(starts)[a]
                      /\ address'[a] \in AddressRow
  BY <1>1, <1>2 DEF AddressRow
<1>4. \A a \in rows : address'[a] # None
  BY <1>3 DEF AddressRow, Days
<1>5. Addressed' = rows
  BY <1>4 DEF Addressed
<1>6. address' \in [Addresses -> AddressRow \cup {None}]
  BY <1>3
<1>7. \A a, b \in Addressed' : a # b => address'[a].from # address'[b].from
  BY <1>3, <1>5 DEF Rebuilds
<1>8. ASSUME NEW a \in rows PROVE EndsBefore(a)'
  <2>1. CASE /\ RebuildTimeline(starts)[a] = None
             /\ \A b \in rows : starts[b] <= starts[a]
    BY <1>3, <1>5, <2>1 DEF EndsBefore
  <2>2. ASSUME NEW b \in rows,
               starts[b] > starts[a], RebuildTimeline(starts)[a] = starts[b] - 1,
               \A d \in rows : starts[d] > starts[a] => starts[b] <= starts[d]
        PROVE  EndsBefore(a)'
    <3>1. address'[a].to = starts[b] - 1 /\ address'[a].to # None /\ starts[b] = address'[a].to + 1
      BY <1>1, <1>3, <2>2
    <3>2. \E e \in rows : starts[e] > starts[a] /\ starts[e] = address'[a].to + 1
      BY <2>2, <3>1
    <3>3. \A e \in rows : starts[e] > starts[a] => address'[a].to < starts[e]
      BY <1>1, <2>2, <3>1
    <3> QED
      BY <1>3, <1>5, <3>1, <3>2, <3>3 DEF EndsBefore
  <2> QED
    BY <2>1, <2>2, RebuiltAt
<1> QED
  BY <1>5, <1>6, <1>7, <1>8 DEF AddressesFollow

LEMMA AddressStepKeeps == TimelineInv /\ AddressStep => TimelineInv'
<1> SUFFICES ASSUME TimelineInv, AddressStep PROVE TimelineInv'
  OBVIOUS
<1>a. ASSUME Alone PROVE AddressesFollow /\ TaxesApart /\ \A r \in Clients : TimelineReads(request[r])
  BY <1>a DEF TimelineInv
<1>1. ASSUME NEW r \in Clients, NEW from \in Days, CreateAddressRead(r, from) PROVE TimelineInv'
  <2> DEFINE l == IF Open = {} THEN None ELSE LatestOf(Open)
  <2>1. Alone => TimelineReads([pc |-> "createAddress", from |-> from, current |-> l])
    BY <1>1, <1>a, CreateAddressReads DEF CreateAddressRead
  <2>2. /\ Goes(r, [pc |-> "createAddress", from |-> from, current |-> l])
        /\ Starts(r, "address") /\ address' = address /\ tax' = tax
    BY <1>1 DEF CreateAddressRead, timelineTables
  <2> HIDE DEF l
  <2> QED
    BY <2>1, <2>2, ReadStep
<1>2. ASSUME NEW r \in Clients, NEW a \in Addresses, CreateAddressCommit(r, a) PROVE TimelineInv'
  <2>1. Ends(r) /\ request[r].pc = "createAddress" /\ tax' = tax /\ a \notin Addressed
        /\ Appended(a, request[r].current, request[r].from)
    BY <1>2 DEF CreateAddressCommit, At, Appended
  <2>2. ASSUME Alone PROVE AddressesFollow'
    <3>1. AddressesFollow /\ TimelineReads(request[r])
      BY <1>a, <2>2
    <3>2. CASE request[r].current = None
      BY <2>1, <3>1, <3>2, FirstAddress DEF TimelineReads
    <3>3. CASE request[r].current # None
      BY <2>1, <3>1, <3>3, NextAddress DEF TimelineReads
    <3> QED
      BY <3>2, <3>3
  <2>3. Alone => TaxesApart'
    BY <1>a, <2>1 DEF TaxesApart, Taxed
  <2> QED
    BY <2>1, <2>2, <2>3, EndStep
<1>3. ASSUME NEW r \in Clients, NEW a \in Addresses, RemoveAddressRead(r, a) PROVE TimelineInv'
  <2> DEFINE st == [b \in Addressed \ {a} |-> address[b].from]
             q == [pc |-> "removeAddress", address |-> a, starts |-> st]
  <2>1. Goes(r, q) /\ Starts(r, "address") /\ address' = address /\ tax' = tax /\ a \in Addressed
    BY <1>3 DEF RemoveAddressRead, timelineTables
  <2>2. ASSUME Alone PROVE TimelineReads(q)
    <3>1. Rebuilds(st, Addressed \ {a})
      BY <1>a, <2>2 DEF AddressesFollow, AddressRow, Addressed, Rebuilds
    <3> HIDE DEF st
    <3> QED
      BY <2>1, <3>1 DEF TimelineReads
  <2> HIDE DEF q
  <2> QED
    BY <2>1, <2>2, ReadStep
<1>4. ASSUME NEW r \in Clients, NEW a \in Addresses, NEW from \in Days \cup {None},
             UpdateAddressRead(r, a, from)
      PROVE  TimelineInv'
  <2> DEFINE st == IF from = None THEN Starting ELSE [Starting EXCEPT ![a] = from]
             q == [pc |-> "updateAddress", starts |-> st]
  <2>1. Goes(r, q) /\ Starts(r, "address") /\ address' = address /\ tax' = tax /\ a \in Addressed
    BY <1>4 DEF UpdateAddressRead, timelineTables
  <2>2. ASSUME Alone PROVE TimelineReads(q)
    <3>1. Rebuilds(Starting, Addressed)
      BY <1>a, <2>2 DEF AddressesFollow, AddressRow, Addressed, Rebuilds, Starting
    <3>2. from # None => Rebuilds([Starting EXCEPT ![a] = from], Addressed)
      BY <1>4, <3>1 DEF UpdateAddressRead, Rebuilds, Starting
    <3>3. Rebuilds(st, Addressed)
      BY <3>1, <3>2
    <3> HIDE DEF st
    <3> QED
      BY <2>1, <3>3 DEF TimelineReads
  <2> HIDE DEF q
  <2> QED
    BY <2>1, <2>2, ReadStep
<1>5. ASSUME NEW r \in Clients, UpdateAddressCommit(r) PROVE TimelineInv'
  <2>1. Ends(r) /\ request[r].pc = "updateAddress" /\ tax' = tax
    BY <1>5 DEF UpdateAddressCommit, WriteTimeline, At
  <2>2. ASSUME Alone PROVE AddressesFollow'
    <3> DEFINE st == request[r].starts
    <3>1. Rebuilds(st, Addressed) /\ DOMAIN st = Addressed
      BY <1>a, <2>1, <2>2 DEF TimelineReads, Rebuilds
    <3>2. address' = [a \in Addresses |->
              IF a \in Addressed THEN [from |-> st[a], to |-> RebuildTimeline(st)[a]] ELSE None]
      BY <1>5, <3>1 DEF UpdateAddressCommit, WriteTimeline, Addressed
    <3>3. PICK s0 : s0 = st
      OBVIOUS
    <3>4. PICK rows : rows = Addressed
      OBVIOUS
    <3>5. rows \in SUBSET Addresses
      BY <3>4 DEF Addressed
    <3>6. Rebuilds(s0, rows)
      BY <3>1, <3>3, <3>4
    <3>7. address' = [a \in Addresses |->
              IF a \in rows THEN [from |-> s0[a], to |-> RebuildTimeline(s0)[a]] ELSE None]
      BY <3>2, <3>3, <3>4
    <3> QED
      BY <3>5, <3>6, <3>7, RebuiltFollow
  <2>3. Alone => TaxesApart'
    BY <1>a, <2>1 DEF TaxesApart, Taxed
  <2> QED
    BY <2>1, <2>2, <2>3, EndStep
<1>6. ASSUME NEW r \in Clients, RemoveAddressCommit(r) PROVE TimelineInv'
  <2>1. Ends(r) /\ request[r].pc = "removeAddress" /\ tax' = tax
    BY <1>6 DEF RemoveAddressCommit, WriteTimeline, At
  <2>2. ASSUME Alone PROVE AddressesFollow'
    <3> DEFINE st == request[r].starts
               gone == request[r].address
    <3>1. Rebuilds(st, Addressed \ {gone}) /\ DOMAIN st = Addressed \ {gone}
      BY <1>a, <2>1, <2>2 DEF TimelineReads, Rebuilds
    <3>2. address' = [a \in Addresses |->
              IF a \in Addressed \ {gone} THEN [from |-> st[a], to |-> RebuildTimeline(st)[a]] ELSE None]
      BY <1>6, <3>1 DEF RemoveAddressCommit, WriteTimeline, Addressed
    <3>3. PICK s0 : s0 = st
      OBVIOUS
    <3>4. PICK rows : rows = Addressed \ {gone}
      OBVIOUS
    <3>5. rows \in SUBSET Addresses
      BY <3>4 DEF Addressed
    <3>6. Rebuilds(s0, rows)
      BY <3>1, <3>3, <3>4
    <3>7. address' = [a \in Addresses |->
              IF a \in rows THEN [from |-> s0[a], to |-> RebuildTimeline(s0)[a]] ELSE None]
      BY <3>2, <3>3, <3>4
    <3> QED
      BY <3>5, <3>6, <3>7, RebuiltFollow
  <2>3. Alone => TaxesApart'
    BY <1>a, <2>1 DEF TaxesApart, Taxed
  <2> QED
    BY <2>1, <2>2, <2>3, EndStep
<1> QED
  BY <1>1, <1>2, <1>3, <1>4, <1>5, <1>6 DEF AddressStep

-----------------------------------------------------------------------------
(* Taxes and rates.                                                        *)

LEMMA OverlapEither ==
  ASSUME NEW row \in TaxRows, NEW other \in TaxRows, Overlap(row, other)
  PROVE  Overlap(other, row)
<1>1. /\ row.from \in Nat /\ other.from \in Nat
      /\ UpTo(row.to) \in Nat /\ UpTo(other.to) \in Nat
  BY DEF TaxRows, UpTo, Days
<1> QED
  BY <1>1 DEF Overlap

\* A row that overlaps no other is written.
LEMMA TaxWritten ==
  ASSUME TaxesApart, NEW row \in TaxRows, NEW t \in Taxes, NEW self, self = t \/ self \notin Taxed,
         AssertNoOverlap(row, self), tax' = [tax EXCEPT ![t] = row]
  PROVE  TaxesApart'
<1>1. row # None
  BY DEF TaxRows, Days
<1>2. Taxed' = Taxed \cup {t}
  BY <1>1 DEF Taxed, TaxesApart
<1>3. tax' \in [Taxes -> TaxRows \cup {None}] /\ \A u \in Taxed : tax[u] \in TaxRows
  BY DEF TaxesApart, Taxed
<1>4. tax'[t] = row /\ \A u \in Taxed \ {t} : tax'[u] = tax[u]
  BY DEF TaxesApart, Taxed
<1>5. ASSUME NEW u \in Taxed, u # t PROVE ~Overlap(row, tax[u])
  <2>1. u # self \/ self \notin Taxed
    BY <1>5
  <2> QED
    BY <1>5 DEF AssertNoOverlap, Overlap
<1>6. ASSUME NEW u \in Taxed, u # t PROVE ~Overlap(tax[u], row)
  BY <1>3, <1>5, <1>6, OverlapEither
<1>7. ASSUME NEW u \in Taxed', NEW v \in Taxed', u # v PROVE ~Overlap(tax'[u], tax'[v])
  <2>1. CASE u # t /\ v # t
    BY <1>2, <1>4, <1>7, <2>1 DEF TaxesApart
  <2>2. CASE u = t
    BY <1>2, <1>4, <1>5, <1>7, <2>2
  <2>3. CASE v = t
    BY <1>2, <1>4, <1>6, <1>7, <2>3
  <2> QED
    BY <2>1, <2>2, <2>3
<1>8. \A u, v \in Taxed' : u # v => ~Overlap(tax[u], tax[v])'
  BY <1>7 DEF Overlap, UpTo
<1> QED
  BY <1>3, <1>8 DEF TaxesApart

LEMMA TaxStepKeeps == TimelineInv /\ TaxStep => TimelineInv'
<1> SUFFICES ASSUME TimelineInv, TaxStep PROVE TimelineInv'
  OBVIOUS
<1>a. ASSUME Alone PROVE AddressesFollow /\ TaxesApart /\ \A r \in Clients : TimelineReads(request[r])
  BY <1>a DEF TimelineInv
<1>b. ASSUME Alone, address' = address PROVE AddressesFollow'
  BY <1>a, <1>b DEF AddressesFollow, Addressed, EndsBefore
<1>1. ASSUME NEW t \in Taxes, DeleteTax(t) PROVE TimelineInv'
  <2>1. AtOnce("tax") /\ tax' = [tax EXCEPT ![t] = None] /\ address' = address
    BY <1>1 DEF DeleteTax
  <2>2. ASSUME Alone PROVE TaxesApart'
    <3>1. TaxesApart
      BY <1>a, <2>2
    <3>2. tax' \in [Taxes -> TaxRows \cup {None}] /\ \A u \in Taxed' : u \in Taxed /\ tax'[u] = tax[u]
      BY <2>1, <3>1 DEF TaxesApart, Taxed
    <3> QED
      BY <3>1, <3>2 DEF TaxesApart
  <2> QED
    BY <1>b, <2>1, <2>2, OnceStep
<1>2. ASSUME NEW r \in Clients, NEW row \in TaxRows, CreateTaxRead(r, row) PROVE TimelineInv'
  <2> DEFINE q == [pc |-> "createTax", row |-> row]
  <2>1. Goes(r, q) /\ Starts(r, "tax") /\ address' = address /\ tax' = tax /\ AssertNoOverlap(row, None)
    BY <1>2 DEF CreateTaxRead, timelineTables
  <2>2. TimelineReads(q)
    BY <2>1 DEF TimelineReads
  <2> HIDE DEF q
  <2> QED
    BY <2>1, <2>2, ReadStep
<1>3. ASSUME NEW r \in Clients, NEW row \in TaxRows, NEW t \in Taxes, UpdateTaxRead(r, t, row)
      PROVE  TimelineInv'
  <2> DEFINE q == [pc |-> "updateTax", tax |-> t, row |-> row]
  <2>1. Goes(r, q) /\ Starts(r, "tax") /\ address' = address /\ tax' = tax /\ t \in Taxed
        /\ AssertNoOverlap(row, t)
    BY <1>3 DEF UpdateTaxRead, timelineTables
  <2>2. TimelineReads(q)
    BY <2>1 DEF TimelineReads
  <2> HIDE DEF q
  <2> QED
    BY <2>1, <2>2, ReadStep
<1>4. ASSUME NEW r \in Clients, NEW t \in Taxes, CreateTaxCommit(r, t) PROVE TimelineInv'
  <2>1. Ends(r) /\ request[r].pc = "createTax" /\ address' = address /\ t \notin Taxed
        /\ tax' = [tax EXCEPT ![t] = request[r].row]
    BY <1>4 DEF CreateTaxCommit, At
  <2>2. ASSUME Alone PROVE TaxesApart'
    <3>1. TaxesApart /\ TimelineReads(request[r])
      BY <1>a, <2>2
    <3>2. request[r].row \in TaxRows /\ AssertNoOverlap(request[r].row, None) /\ None \notin Taxed
      BY <2>1, <3>1 DEF TimelineReads, Taxed
    <3> QED
      BY <2>1, <3>1, <3>2, TaxWritten
  <2> QED
    BY <1>b, <2>1, <2>2, EndStep
<1>5. ASSUME NEW r \in Clients, UpdateTaxCommit(r) PROVE TimelineInv'
  <2>1. Ends(r) /\ request[r].pc = "updateTax" /\ address' = address
        /\ tax' = [tax EXCEPT ![request[r].tax] = request[r].row]
    BY <1>5 DEF UpdateTaxCommit, At
  <2>2. ASSUME Alone PROVE TaxesApart'
    <3>1. TaxesApart /\ TimelineReads(request[r])
      BY <1>a, <2>2
    <3>2. /\ request[r].row \in TaxRows /\ request[r].tax \in Taxes
          /\ AssertNoOverlap(request[r].row, request[r].tax)
      BY <2>1, <3>1 DEF TimelineReads, Taxed
    <3> QED
      BY <2>1, <3>1, <3>2, TaxWritten
  <2> QED
    BY <1>b, <2>1, <2>2, EndStep
<1> QED
  BY <1>1, <1>2, <1>3, <1>4, <1>5 DEF TaxStep

LEMMA RateStepKeeps == TimelineInv /\ RateStep => TimelineInv'
<1> SUFFICES ASSUME TimelineInv, RateStep PROVE TimelineInv'
  OBVIOUS
<1>a. ASSUME Alone, address' = address, tax' = tax PROVE AddressesFollow' /\ TaxesApart'
  BY <1>a, TablesKept DEF TimelineInv
<1>1. ASSUME NEW day \in Days,
             UpsertManualRate(day) \/ DeleteRate(day) \/ UpsertQuote(day) \/ DeleteQuote(day)
      PROVE  TimelineInv'
  <2>1. AtOnce("rate") /\ address' = address /\ tax' = tax
    BY <1>1 DEF UpsertManualRate, DeleteRate, UpsertQuote, DeleteQuote, UpsertRate
  <2> QED
    BY <1>a, <2>1, OnceStep
<1>2. ASSUME NEW r \in Clients, FetchFromVcbStore(r) PROVE TimelineInv'
  <2>1. Ends(r) /\ request[r].pc = "fetchRate" /\ address' = address /\ tax' = tax
    BY <1>2 DEF FetchFromVcbStore, At, UpsertRate
  <2> QED
    BY <1>a, <2>1, EndStep
<1>3. ASSUME NEW r \in Clients, NEW day \in Days \cup {None}, FetchFromVcbCall(r, day) PROVE TimelineInv'
  <2> DEFINE q == [pc |-> "fetchRate", day |-> IF day = None THEN today ELSE day]
  <2>1. Goes(r, q) /\ Starts(r, "rate") /\ address' = address /\ tax' = tax
    BY <1>3 DEF FetchFromVcbCall, timelineTables
  <2>2. TimelineReads(q)
    BY DEF TimelineReads
  <2> HIDE DEF q
  <2> QED
    BY <2>1, <2>2, ReadStep
<1>4. ASSUME NextDay PROVE TimelineInv'
  <2>1. scenario' = scenario /\ request' = request /\ address' = address /\ tax' = tax
    BY <1>4 DEF NextDay, requestVars
  <2>2. Busy' /\ (Alone' <=> Alone)
    BY <2>1 DEF TimelineInv, Alone, Busy
  <2>3. ASSUME Alone, NEW s \in Clients PROVE TimelineReads(request[s])'
    BY <2>1, <2>3, TablesKept DEF TimelineInv
  <2> QED
    BY <1>a, <2>1, <2>2, <2>3 DEF TimelineInv
<1> QED
  BY <1>1, <1>2, <1>3, <1>4 DEF RateStep

LEMMA TimelineInvStep == TimelineInv /\ [TimelineStep]_<<requestVars, timelineTables>> => TimelineInv'
<1>1. ASSUME TimelineInv, NEW r \in Clients, AbortTimeline(r) PROVE TimelineInv'
  <2>1. Ends(r) /\ request[r].pc # "idle" /\ address' = address /\ tax' = tax
    BY <1>1 DEF AbortTimeline, Abort, TimelinePcs, timelineTables
  <2>2. Alone => AddressesFollow' /\ TaxesApart'
    BY <1>1, <2>1, TablesKept DEF TimelineInv
  <2> QED
    BY <1>1, <2>1, <2>2, EndStep
<1>2. ASSUME TimelineInv, UNCHANGED <<requestVars, timelineTables>> PROVE TimelineInv'
  <2>1. scenario' = scenario /\ request' = request /\ address' = address /\ tax' = tax
    BY <1>2 DEF requestVars, timelineTables
  <2>2. Busy' /\ (Alone' <=> Alone)
    BY <1>2, <2>1 DEF TimelineInv, Alone, Busy
  <2>3. ASSUME Alone, NEW s \in Clients PROVE TimelineReads(request[s])'
    BY <1>2, <2>1, <2>3, TablesKept DEF TimelineInv
  <2>4. Alone => AddressesFollow' /\ TaxesApart'
    BY <1>2, <2>1, TablesKept DEF TimelineInv
  <2> QED
    BY <2>2, <2>3, <2>4 DEF TimelineInv
<1> QED
  BY <1>1, <1>2, AddressStepKeeps, TaxStepKeeps, RateStepKeeps DEF TimelineStep

-----------------------------------------------------------------------------
(* What the invariant says of a day.                                       *)

LEMMA AtMostOne ==
  ASSUME NEW S, \A x, y \in S : x = y
  PROVE  Cardinality(S) <= 1
<1>1. CASE S = {}
  <2>1. Cardinality(S) = 0
    BY <1>1, FS_EmptySet
  <2> QED
    BY <2>1
<1>2. CASE S # {}
  <2>1. PICK x : S = {x}
    BY <1>2
  <2>2. Cardinality({x}) = 1
    BY FS_Singleton
  <2> QED
    BY <2>1, <2>2
<1> QED
  BY <1>1, <1>2

\* Of two addresses the earlier ends before the later begins.
LEMMA OneAddress ==
  ASSUME AddressesFollow, NEW day \in Days, NEW a \in Addressed, NEW b \in Addressed,
         Covers(address[a], day), Covers(address[b], day)
  PROVE  a = b
<1>1. /\ address[a].from \in Nat /\ address[b].from \in Nat /\ day \in Nat
      /\ address[a].to \in Nat \cup {None} /\ address[b].to \in Nat \cup {None}
  BY DEF AddressesFollow, AddressRow, Addressed, Days
<1>2. EndsBefore(a) /\ EndsBefore(b)
  BY DEF AddressesFollow
<1>3. ~(address[a].from < address[b].from)
  BY <1>1, <1>2 DEF EndsBefore, Covers, UpTo
<1>4. ~(address[b].from < address[a].from)
  BY <1>1, <1>2 DEF EndsBefore, Covers, UpTo
<1> QED
  BY <1>1, <1>3, <1>4 DEF AddressesFollow

\* From the first row on a day has an address.
LEMMA SomeAddress ==
  ASSUME AddressesFollow, NEW day \in Days, NEW c \in Addressed, address[c].from <= day
  PROVE  \E a \in Addressed : Covers(address[a], day)
<1>1. PICK a \in Addressed : /\ address[a].from <= day
                             /\ \A b \in Addressed : address[b].from <= day => address[b].from <= address[a].from
  <2> DEFINE rows == {a \in Addressed : address[a].from <= day}
  <2>1. rows \in SUBSET Addressed /\ rows # {}
    OBVIOUS
  <2>2. \E a \in rows : \A b \in rows : address[b].from <= address[a].from
    BY <2>1, LastAddress
  <2> QED
    BY <2>2
<1>2. /\ day \in Nat /\ day <= MaxDay /\ address[a].to \in Nat \cup {None}
      /\ \A b \in Addressed : address[b].from \in Nat
  BY DEF AddressesFollow, AddressRow, Addressed, Days
<1>3. EndsBefore(a)
  BY DEF AddressesFollow
<1>4. day <= UpTo(address[a].to)
  BY <1>1, <1>2, <1>3 DEF EndsBefore, UpTo
<1> QED
  BY <1>1, <1>4 DEF Covers

LEMMA OneTax ==
  ASSUME TaxesApart, NEW day \in Days, NEW t \in Taxed, NEW u \in Taxed,
         tax[t].active, Covers(tax[t], day), tax[u].active, Covers(tax[u], day)
  PROVE  t = u
<1>1. /\ tax[t].from \in Nat /\ tax[u].from \in Nat /\ day \in Nat
      /\ UpTo(tax[t].to) \in Nat /\ UpTo(tax[u].to) \in Nat
  BY DEF TaxesApart, TaxRows, Taxed, Days, UpTo
<1>2. tax[u].from <= UpTo(tax[t].to) /\ UpTo(tax[u].to) >= tax[t].from
  BY <1>1 DEF Covers
<1> QED
  BY <1>2 DEF TaxesApart, Overlap

LEMMA OneValueFromInv == TimelineInv => OneValueADay
<1> SUFFICES ASSUME AddressesFollow, TaxesApart PROVE
        /\ Cardinality(Open) = IF Addressed = {} THEN 0 ELSE 1
        /\ \A day \in Days :
            /\ Cardinality({a \in Addressed : Covers(address[a], day)}) <= 1
            /\ (\E a \in Addressed : address[a].from <= day)
                    => {a \in Addressed : Covers(address[a], day)} # {}
            /\ Cardinality({t \in Taxed : tax[t].active /\ Covers(tax[t], day)}) <= 1
  BY DEF TimelineInv, OneValueADay
<1>1. Cardinality(Open) = IF Addressed = {} THEN 0 ELSE 1
  <2>1. CASE Addressed = {}
    <3>1. Open = {}
      BY <2>1 DEF Open
    <3> QED
      BY <2>1, <3>1, FS_EmptySet
  <2>2. CASE Addressed # {}
    <3>1. PICK a \in Addressed : Open = {a}
      BY <2>2, OpenIsLast
    <3>2. Cardinality({a}) = 1
      BY FS_Singleton
    <3> QED
      BY <2>2, <3>1, <3>2
  <2> QED
    BY <2>1, <2>2
<1>2. ASSUME NEW day \in Days
      PROVE  /\ Cardinality({a \in Addressed : Covers(address[a], day)}) <= 1
             /\ (\E a \in Addressed : address[a].from <= day)
                    => {a \in Addressed : Covers(address[a], day)} # {}
             /\ Cardinality({t \in Taxed : tax[t].active /\ Covers(tax[t], day)}) <= 1
  <2>1. \A a, b \in {a \in Addressed : Covers(address[a], day)} : a = b
    BY OneAddress
  <2>2. \A t, u \in {t \in Taxed : tax[t].active /\ Covers(tax[t], day)} : t = u
    BY OneTax
  <2>3. Cardinality({a \in Addressed : Covers(address[a], day)}) <= 1
    BY <2>1, AtMostOne
  <2>4. Cardinality({t \in Taxed : tax[t].active /\ Covers(tax[t], day)}) <= 1
    BY <2>2, AtMostOne
  <2> QED
    BY <2>3, <2>4, SomeAddress
<1> QED
  BY <1>1, <1>2

\* Addresses follow one another without a gap, and one tax is in force a day, whatever the calls
\* create, move and remove, when they come one after another (OneValueADay).
THEOREM OneValueCorrect == TimelineSpec => []OneValueADay
<1>1. RequestsInit /\ TimelineTablesInit => TimelineInv
  BY TimelineInit
<1>2. TimelineInv /\ [TimelineStep]_<<requestVars, timelineTables>> => TimelineInv'
  BY TimelineInvStep
<1> QED
  BY <1>1, <1>2, OneValueFromInv, PTL DEF TimelineSpec

-----------------------------------------------------------------------------
(* Registers and the rows that refer to them.                              *)
HIDE TimelinesAssumption
USE CatalogueAssumption

\* What a live row was given is still there.
UseRow == [status : {"ABSENT", "LIVE", "DELETED"}, entry : Entries \cup {None}]
UsesHold ==
    /\ use \in [Uses -> UseRow]
    /\ \A u \in Uses : use[u].status = "LIVE" => use[u].entry # None
\* No live row refers to what is about to be deleted.
CatalogueKnows(q) == q.pc = "removeEntries" => NoLiveUse(q.entries)

CatalogueInv ==
    /\ Busy
    /\ Alone => UsesHold /\ \A r \in Clients : CatalogueKnows(request[r])

LEMMA CatalogueInit == RequestsInit /\ CatalogueTablesInit => CatalogueInv
<1> SUFFICES ASSUME RequestsInit, CatalogueTablesInit PROVE CatalogueInv
  OBVIOUS
<1>1. UsesHold
  BY DEF UsesHold, UseRow, CatalogueTablesInit, NoUse
<1>2. \A r \in Clients : CatalogueKnows(request[r])
  BY DEF RequestsInit, CatalogueKnows, Idle
<1> QED
  BY <1>1, <1>2, BusyInit DEF CatalogueInv

\* One request goes on.
LEMMA CatalogueGoes ==
  ASSUME CatalogueInv, NEW r \in Clients, r \in scenario.clients, NEW q, Goes(r, q),
         Alone => UsesHold' /\ CatalogueKnows(q)'
  PROVE  CatalogueInv'
<1>1. Busy' /\ (Alone' <=> Alone)
  BY BusyGoes DEF CatalogueInv, Goes, Alone
<1>2. ASSUME Alone, NEW s \in Clients PROVE CatalogueKnows(request[s])'
  <2>1. CASE s = r
    BY <1>2, <2>1, GoesTo DEF CatalogueInv, Busy
  <2>2. ASSUME s # r PROVE CatalogueKnows(request[s])'
    <3>1. request'[s].pc = "idle"
      BY <1>2, <2>2, GoesTo, OthersIdle DEF CatalogueInv, Busy
    <3> QED
      BY <3>1 DEF CatalogueKnows
  <2> QED
    BY <2>1, <2>2
<1> QED
  BY <1>1, <1>2 DEF CatalogueInv

\* A call of one step.
LEMMA CatalogueOnce ==
  ASSUME CatalogueInv, NEW call, AtOnce(call), Alone /\ UsesHold => UsesHold'
  PROVE  CatalogueInv'
<1>1. scenario' = scenario /\ request' = request
  BY DEF AtOnce, requestVars
<1>2. Busy' /\ (Alone' <=> Alone)
  BY <1>1 DEF CatalogueInv, Alone, Busy
<1>3. ASSUME Alone, NEW s \in Clients PROVE CatalogueKnows(request[s])'
  <2>1. request'[s].pc = "idle"
    BY <1>3, AtOnceIdle DEF CatalogueInv
  <2> QED
    BY <2>1 DEF CatalogueKnows
<1> QED
  BY <1>2, <1>3 DEF CatalogueInv

LEMMA UsesRest ==
  ASSUME use' = use
  PROVE  (UsesHold => UsesHold') /\ \A q : CatalogueKnows(q) => CatalogueKnows(q)'
  BY DEF UsesHold, CatalogueKnows, NoLiveUse, LiveUsesOf, UsesOf

LEMMA RemoveEntriesReads ==
  ASSUME CatalogueInv, NEW r \in Clients, NEW xs, NEW all, NoLiveUse(xs), RemoveEntriesRead(r, xs, all)
  PROVE  CatalogueInv'
<1> DEFINE q == [pc |-> "removeEntries", entries |-> xs, all |-> all]
<1>1. Goes(r, q) /\ r \in scenario.clients /\ use' = use
  BY DEF RemoveEntriesRead, Starts, catalogueTables
<1>2. CatalogueKnows(q)
  BY DEF CatalogueKnows
<1>3. Alone => UsesHold
  BY DEF CatalogueInv
<1> HIDE DEF q
<1> QED
  BY <1>1, <1>2, <1>3, UsesRest, CatalogueGoes

LEMMA IdleCatalogue == CatalogueKnows(Idle)'
  BY DEF CatalogueKnows, Idle

LEMMA CatalogueEnds ==
  ASSUME CatalogueInv, NEW r \in Clients, request[r].pc # "idle", Ends(r), Alone => UsesHold'
  PROVE  CatalogueInv'
<1>1. r \in scenario.clients
  BY DEF CatalogueInv, Busy
<1> QED
  BY <1>1, IdleCatalogue, CatalogueGoes DEF Ends

LEMMA RegisterStepKeeps == CatalogueInv /\ RegisterStep => CatalogueInv'
<1> SUFFICES ASSUME CatalogueInv, RegisterStep PROVE CatalogueInv'
  OBVIOUS
<1>1. ASSUME NEW kind, NEW x, NEW code, NEW system,
             CreateEntry(kind, x, code, system) \/ UpdateEntry(kind, x, code, system)
      PROVE  CatalogueInv'
  <2>1. AtOnce("register") /\ use' = use
    BY <1>1 DEF CreateEntry, UpdateEntry
  <2> QED
    BY <2>1, UsesRest, CatalogueOnce
<1>2. ASSUME NEW x \in Entries, NEW code \in Codes,
             \/ \E system \in BOOLEAN : CreatePurpose(x, code, system) \/ UpdatePurpose(x, code, system)
             \/ CreateContractType(x, code) \/ UpdateContractType(x, code)
             \/ CreateGroup(x, code) \/ UpdateGroup(x, code)
             \/ CreateTemplate(x, code) \/ UpdateTemplate(x, code)
             \/ CreateBankAccount(x, code) \/ UpdateBankAccount(x, code)
      PROVE  CatalogueInv'
  BY <1>1, <1>2 DEF CreatePurpose, UpdatePurpose, CreateContractType, UpdateContractType, CreateGroup,
     UpdateGroup, CreateTemplate, UpdateTemplate, CreateBankAccount, UpdateBankAccount
<1>3. ASSUME NEW r \in Clients, NEW x \in Entries,
             RemovePurpose(r, x) \/ RemoveContractType(r, x) \/ RemoveGroup(r, x)
      PROVE  CatalogueInv'
  <2>1. NoLiveUse({x})
    BY <1>3 DEF RemovePurpose, RemoveContractType, RemoveGroup, NoLiveUse, LiveUsesOf
  <2>2. \E all : RemoveEntriesRead(r, {x}, all)
    BY <1>3 DEF RemovePurpose, RemoveContractType, RemoveGroup
  <2> QED
    BY <2>1, <2>2, RemoveEntriesReads
<1>4. ASSUME NEW r \in Clients, NEW xs \in SUBSET Entries, RemoveContractTypes(r, xs) PROVE CatalogueInv'
  BY <1>4, RemoveEntriesReads DEF RemoveContractTypes
<1>5. ASSUME NEW r \in Clients, RemoveEntriesCommit(r) PROVE CatalogueInv'
  <2> DEFINE xs == request[r].entries
  <2>1. /\ request[r].pc = "removeEntries" /\ Ends(r)
        /\ use' = [u \in Uses |-> IF u \in UsesOf(xs) THEN [use[u] EXCEPT !.entry = None] ELSE use[u]]
    BY <1>5 DEF RemoveEntriesCommit, At
  <2>2. ASSUME Alone PROVE UsesHold'
    <3>1. UsesHold /\ LiveUsesOf(xs) = {}
      BY <2>1, <2>2 DEF CatalogueInv, CatalogueKnows, NoLiveUse
    <3>2. ASSUME NEW u \in Uses, use'[u].status = "LIVE" PROVE use'[u].entry # None
      <4>1. CASE u \in UsesOf(xs)
        <5>1. use[u].status # "LIVE" /\ use'[u] = [use[u] EXCEPT !.entry = None]
          BY <2>1, <3>1, <4>1 DEF LiveUsesOf
        <5>2. use'[u].status = use[u].status
          BY <5>1
        <5> QED
          BY <3>2, <5>1, <5>2
      <4>2. CASE u \notin UsesOf(xs)
        BY <2>1, <3>1, <3>2, <4>2 DEF UsesHold
      <4> QED
        BY <4>1, <4>2
    <3>3. use' \in [Uses -> UseRow]
      BY <2>1, <3>1 DEF UsesHold, UseRow
    <3> QED
      BY <3>2, <3>3 DEF UsesHold
  <2> QED
    BY <2>1, <2>2, CatalogueEnds
<1>6. ASSUME NEW u \in Uses, DeleteUse(u) PROVE CatalogueInv'
  <2>1. AtOnce("use") /\ use[u].status = "LIVE"
    BY <1>6 DEF DeleteUse
  <2>2. ASSUME UsesHold PROVE UsesHold'
    <3>1. PICK row \in UseRow : /\ row.status # "LIVE" /\ use' = [use EXCEPT ![u] = row]
      <4>1. [use[u] EXCEPT !.status = "DELETED"] \in UseRow /\ NoUse \in UseRow
        BY <2>2 DEF UsesHold, UseRow, NoUse
      <4>2. [use[u] EXCEPT !.status = "DELETED"].status = "DELETED"
        BY <2>2 DEF UsesHold, UseRow
      <4> QED
        BY <1>6, <2>2, <4>1, <4>2 DEF UsesHold, DeleteUse, NoUse
    <3> QED
      BY <2>2, <3>1 DEF UsesHold
  <2> QED
    BY <2>1, <2>2, CatalogueOnce
<1>7. ASSUME NEW u \in Uses, NEW x \in Entries, CreateUse(u, x) PROVE CatalogueInv'
  <2>1. AtOnce("use") /\ use[u] = NoUse
        /\ use' = [use EXCEPT ![u] = [status |-> "LIVE", entry |-> x]]
    BY <1>7 DEF CreateUse, NoUse
  <2>2. UsesHold => UsesHold'
    BY <2>1 DEF UsesHold, UseRow
  <2> QED
    BY <2>1, <2>2, CatalogueOnce
<1> QED
  BY <1>2, <1>3, <1>4, <1>5, <1>6, <1>7 DEF RegisterStep

LEMMA CustomersKeep == CatalogueInv /\ (CustomerStep \/ LocationStep) => CatalogueInv'
<1> SUFFICES ASSUME CatalogueInv, CustomerStep \/ LocationStep PROVE CatalogueInv'
  OBVIOUS
<1>1. ASSUME NEW call, AtOnce(call), use' = use PROVE CatalogueInv'
  BY <1>1, UsesRest, CatalogueOnce
<1>2. CASE LocationStep
  BY <1>1, <1>2 DEF LocationStep, CreateLocations, BatchUpdateLocations, DeactivateLocation,
     ActivateLocation, SetLocation
<1>3. ASSUME NEW c \in Customers, NEW form \in Forms,
             UpdateCustomer(c, form)
             \/ \E tail \in {None} \cup 1 .. MaxNumber \cup HandTails : CreateCustomer(c, tail, form)
      PROVE  CatalogueInv'
  BY <1>1, <1>3 DEF UpdateCustomer, CreateCustomer
<1>4. ASSUME NEW c \in Customers, RemoveCustomer(c) PROVE CatalogueInv'
  BY <1>1, <1>4 DEF RemoveCustomer
<1>5. ASSUME NEW r \in Clients, GenerateCode(r) PROVE CatalogueInv'
  <2>1. PICK n : Goes(r, [pc |-> "createCustomer", number |-> n])
    BY <1>5 DEF GenerateCode
  <2> DEFINE q == [pc |-> "createCustomer", number |-> n]
  <2>2. Goes(r, q) /\ r \in scenario.clients /\ use' = use /\ CatalogueKnows(q)
    BY <1>5, <2>1 DEF GenerateCode, Starts, catalogueTables, CatalogueKnows
  <2>3. Alone => UsesHold
    BY DEF CatalogueInv
  <2> HIDE DEF q
  <2> QED
    BY <2>2, <2>3, UsesRest, CatalogueGoes
<1>6. ASSUME NEW r \in Clients, NEW c \in Customers, CreateCustomerCommit(r, c) PROVE CatalogueInv'
  <2>1. request[r].pc = "createCustomer" /\ Ends(r) /\ use' = use
    BY <1>6 DEF CreateCustomerCommit, At
  <2>2. Alone => UsesHold
    BY DEF CatalogueInv
  <2> QED
    BY <2>1, <2>2, UsesRest, CatalogueEnds
<1>7. CASE CustomerStep
  BY <1>3, <1>4, <1>5, <1>6, <1>7 DEF CustomerStep
<1> QED
  BY <1>2, <1>7

\* Whatever register rows are deleted, a bank transaction keeps its purpose, a contract its type and
\* a customer its group, when the calls come one after another (UsedEntryStays).
THEOREM UsedEntryCorrect == CatalogueSpec => []UsedEntryStays
<1>1. RequestsInit /\ CatalogueTablesInit => CatalogueInv
  BY CatalogueInit
<1>2. CatalogueInv /\ [CatalogueStep]_<<requestVars, catalogueTables>> => CatalogueInv'
  <2>1. ASSUME CatalogueInv, NEW r \in Clients, AbortCatalogue(r) PROVE CatalogueInv'
    <3>1. request[r].pc # "idle" /\ Ends(r) /\ use' = use
      BY <2>1 DEF AbortCatalogue, Abort, catalogueTables
    <3>2. Alone => UsesHold
      BY <2>1 DEF CatalogueInv
    <3> QED
      BY <2>1, <3>1, <3>2, UsesRest, CatalogueEnds
  <2>2. ASSUME CatalogueInv, UNCHANGED <<requestVars, catalogueTables>> PROVE CatalogueInv'
    <3>1. scenario' = scenario /\ request' = request /\ use' = use
      BY <2>2 DEF requestVars, catalogueTables
    <3>2. Busy' /\ (Alone' <=> Alone)
      BY <2>2, <3>1 DEF CatalogueInv, Alone, Busy
    <3> QED
      BY <2>2, <3>1, <3>2, UsesRest DEF CatalogueInv
  <2> QED
    BY <2>1, <2>2, RegisterStepKeeps, CustomersKeep DEF CatalogueStep
<1>3. CatalogueInv => UsedEntryStays
  BY DEF CatalogueInv, UsedEntryStays, UsesHold
<1> QED
  BY <1>1, <1>2, <1>3, PTL DEF CatalogueSpec

-----------------------------------------------------------------------------
(* The codes of customers.                                                  *)

CustomerRow == [status : {"ABSENT", "LIVE", "DELETED"},
                tail : {None} \cup 1 .. MaxNumber \cup HandTails, roles : SUBSET Parties]
\* The numbers of the codes, in the table and in the requests that are about to insert one.
NumbersBounded ==
    /\ customer \in [Customers -> CustomerRow]
    /\ DOMAIN request = Clients
    /\ \A r \in Clients : request[r].pc = "createCustomer" => request[r].number \in 1 .. MaxNumber

\* Numbers with the digits they are padded to are in the order of their texts.
LEMMA Padded ==
  ASSUME NEW n \in Nat, n < Base ^ Pad
  PROVE  PaddedDigits(n) = Pad
<1> DEFINE D(k) == n < Base ^ k /\ \A j \in Pad .. k - 1 : Base ^ j <= n
<1>1. Pad \in Pad .. Pad + n /\ D(Pad)
  OBVIOUS
<1>2. ASSUME NEW k \in Pad .. Pad + n, D(k) PROVE k = Pad
  <2>1. Pad \in Pad .. k - 1 => Base ^ Pad <= n
    BY <1>2
  <2> QED
    BY <2>1
<1> QED
  BY <1>1, <1>2 DEF PaddedDigits

LEMMA NextIsFree == NumbersBounded => GeneratedCodeIsFree
<1> SUFFICES ASSUME NumbersBounded, \A n \in Numbers \cup {After[h] : h \in LastHands} : n < Base ^ Pad,
                    \A h \in LastHands : Parsed[h] # None /\ Parsed[h] >= After[h]
             PROVE  NextNumbers \cap Numbers = {}
  BY DEF GeneratedCodeIsFree
<1>1. Numbers \in SUBSET (0 .. MaxNumber) /\ \A n \in Numbers : n \in Nat
  BY DEF NumbersBounded, CustomerRow, Numbers, Tails
<1>a. ASSUME LastHands # {} PROVE NextNumbers \cap Numbers = {}
  <2>1. ASSUME NEW h \in LastHands, NEW n \in Numbers PROVE n < NumberAfter(h)
    <3>1. h \in HandTails /\ SortsAfter(h, n)
      BY DEF LastHands
    <3>2. After[h] \in Nat /\ After[h] < Base ^ Pad /\ Parsed[h] \in Nat /\ Parsed[h] >= After[h]
      BY <3>1
    <3>3. PaddedDigits(n) = Pad /\ PaddedDigits(After[h]) = Pad
      BY <1>1, <3>2, Padded
    <3>4. n <= After[h]
      BY <1>1, <3>1, <3>2, <3>3 DEF SortsAfter, TextBefore
    <3>5. NumberAfter(h) = Parsed[h] + 1
      BY <3>2 DEF NumberAfter
    <3> QED
      BY <1>1, <3>2, <3>4, <3>5
  <2>2. ASSUME NEW h \in LastHands PROVE NumberAfter(h) \notin Numbers
    <3> SUFFICES ASSUME NEW n \in Numbers, n = NumberAfter(h) PROVE FALSE
      OBVIOUS
    <3>1. n < n /\ n \in Nat
      BY <1>1, <2>1
    <3> QED
      BY <3>1
  <2>3. NextNumbers = {NumberAfter(h) : h \in LastHands}
    BY <1>a DEF NextNumbers
  <2> QED
    BY <2>2, <2>3
<1>2. CASE Numbers = {}
  BY <1>2
<1>3. CASE LastHands = {} /\ Numbers # {}
  <2>1. PICK top \in Numbers : \A n \in Numbers : n <= top
    BY <1>1, <1>3, Greatest
  <2>2. ASSUME NEW m \in Numbers, NEW n \in Numbers PROVE TextBefore(n, m) <=> n < m
    <3>1. PaddedDigits(m) = Pad /\ PaddedDigits(n) = Pad
      BY <1>1, Padded
    <3> QED
      BY <3>1 DEF TextBefore
  <2>3. \A n \in Numbers \ {top} : TextBefore(n, top)
    BY <1>1, <2>1, <2>2
  <2>4. LastCode \in Numbers /\ \A n \in Numbers \ {LastCode} : TextBefore(n, LastCode)
    BY <2>1, <2>3 DEF LastCode
  <2>5. LastCode = top
    <3>1. LastCode # top => top < LastCode
      BY <2>1, <2>2, <2>4
    <3> QED
      BY <1>1, <2>1, <2>4, <3>1
  <2>6. NextNumbers = {top + 1}
    BY <1>3, <2>5 DEF NextNumbers
  <2> QED
    BY <1>1, <2>1, <2>6
<1> QED
  BY <1>a, <1>2, <1>3

\* A customer without a code is given one that is free, however the calls overlap, while the numbers
\* have the digits they are padded to and the last code is no hand-typed one that reads as a number
\* too small or as none (GeneratedCodeIsFree).
THEOREM GeneratedCodeCorrect == CatalogueSpec => []GeneratedCodeIsFree
<1>1. RequestsInit /\ CatalogueTablesInit => NumbersBounded
  BY DEF RequestsInit, Idle, CatalogueTablesInit, NoCustomer, CustomerRow, NumbersBounded
<1>2. NumbersBounded /\ [CatalogueStep]_<<requestVars, catalogueTables>> => NumbersBounded'
  <2> SUFFICES ASSUME NumbersBounded, [CatalogueStep]_<<requestVars, catalogueTables>>
               PROVE  NumbersBounded'
    OBVIOUS
  <2>1. ASSUME request' = request, NEW c \in Customers, NEW row,
               customer' = [customer EXCEPT ![c] = row], row \in CustomerRow
        PROVE  NumbersBounded'
    BY <2>1 DEF NumbersBounded
  <2>2. ASSUME customer' = customer, NEW r \in Clients, NEW q, Goes(r, q),
               q.pc = "createCustomer" => q.number \in 1 .. MaxNumber
        PROVE  NumbersBounded'
    BY <2>2 DEF NumbersBounded, Goes
  <2>3. ASSUME customer' = customer, request' = request PROVE NumbersBounded'
    BY <2>3 DEF NumbersBounded
  <2>4. CASE RegisterStep
    <3>1. ASSUME NEW kind, NEW x, NEW code, NEW system,
                 CreateEntry(kind, x, code, system) \/ UpdateEntry(kind, x, code, system)
          PROVE  NumbersBounded'
      BY <2>3, <3>1 DEF CreateEntry, UpdateEntry, AtOnce, requestVars
    <3>2. ASSUME NEW r \in Clients, NEW xs, NEW all, RemoveEntriesRead(r, xs, all) PROVE NumbersBounded'
      BY <2>2, <3>2 DEF RemoveEntriesRead, catalogueTables
    <3>3. ASSUME NEW r \in Clients, RemoveEntriesCommit(r) PROVE NumbersBounded'
      BY <2>2, <3>3 DEF RemoveEntriesCommit, Ends, Idle
    <3>4. ASSUME NEW u \in Uses, DeleteUse(u) \/ \E x \in Entries : CreateUse(u, x) PROVE NumbersBounded'
      BY <2>3, <3>4 DEF DeleteUse, CreateUse, AtOnce, requestVars
    <3>5. ASSUME NEW x \in Entries, NEW code \in Codes,
                 \/ \E system \in BOOLEAN : CreatePurpose(x, code, system) \/ UpdatePurpose(x, code, system)
                 \/ CreateContractType(x, code) \/ UpdateContractType(x, code)
                 \/ CreateGroup(x, code) \/ UpdateGroup(x, code)
                 \/ CreateTemplate(x, code) \/ UpdateTemplate(x, code)
                 \/ CreateBankAccount(x, code) \/ UpdateBankAccount(x, code)
          PROVE  NumbersBounded'
      BY <3>1, <3>5 DEF CreatePurpose, UpdatePurpose, CreateContractType, UpdateContractType, CreateGroup,
         UpdateGroup, CreateTemplate, UpdateTemplate, CreateBankAccount, UpdateBankAccount
    <3>6. ASSUME NEW r \in Clients, NEW x \in Entries,
                 RemovePurpose(r, x) \/ RemoveContractType(r, x) \/ RemoveGroup(r, x)
          PROVE  NumbersBounded'
      BY <3>2, <3>6 DEF RemovePurpose, RemoveContractType, RemoveGroup
    <3>7. ASSUME NEW r \in Clients, NEW xs \in SUBSET Entries, RemoveContractTypes(r, xs)
          PROVE  NumbersBounded'
      BY <3>2, <3>7 DEF RemoveContractTypes
    <3> QED
      BY <2>4, <3>3, <3>4, <3>5, <3>6, <3>7 DEF RegisterStep
  <2>5. CASE CustomerStep
    <3>1. ASSUME NEW c \in Customers, NEW form \in Forms, UpdateCustomer(c, form) PROVE NumbersBounded'
      <4>1. [customer[c] EXCEPT !.roles = RolesGiven(form, @)] \in CustomerRow
        BY DEF NumbersBounded, CustomerRow, RolesGiven
      <4> QED
        BY <2>1, <3>1, <4>1 DEF UpdateCustomer, AtOnce, requestVars, NumbersBounded
    <3>2. ASSUME NEW c \in Customers, NEW form \in Forms,
                 NEW tail \in {None} \cup 1 .. MaxNumber \cup HandTails, CreateCustomer(c, tail, form)
          PROVE  NumbersBounded'
      <4>1. \A given : [status |-> "LIVE", tail |-> tail, roles |-> RolesGiven(given, {})] \in CustomerRow
        BY DEF CustomerRow, RolesGiven
      <4> QED
        BY <2>1, <3>2, <4>1 DEF CreateCustomer, AtOnce, requestVars
    <3>3. ASSUME NEW c \in Customers, RemoveCustomer(c) PROVE NumbersBounded'
      <4>1. [customer[c] EXCEPT !.status = "DELETED"] \in CustomerRow
        BY DEF NumbersBounded, CustomerRow
      <4> QED
        BY <2>1, <3>3, <4>1 DEF RemoveCustomer, AtOnce, requestVars
    <3>4. ASSUME NEW r \in Clients, GenerateCode(r) PROVE NumbersBounded'
      BY <2>2, <3>4 DEF GenerateCode, catalogueTables
    <3>5. ASSUME NEW r \in Clients, NEW c \in Customers, CreateCustomerCommit(r, c) PROVE NumbersBounded'
      <4>1. /\ request' = [request EXCEPT ![r] = Idle]
            /\ request[r].number \in 1 .. MaxNumber
            /\ customer' = [customer EXCEPT ![c] =
                    [status |-> "LIVE", tail |-> request[r].number, roles |-> {"CUSTOMER"}]]
        BY <3>5 DEF CreateCustomerCommit, At, Ends, Goes, NumbersBounded
      <4> QED
        BY <4>1 DEF NumbersBounded, CustomerRow, Parties, Idle
    <3> QED
      BY <2>5, <3>1, <3>2, <3>3, <3>4, <3>5 DEF CustomerStep
  <2>6. CASE LocationStep
    BY <2>3, <2>6 DEF LocationStep, CreateLocations, BatchUpdateLocations, DeactivateLocation,
       ActivateLocation, SetLocation, AtOnce, requestVars
  <2>7. ASSUME NEW r \in Clients, AbortCatalogue(r) PROVE NumbersBounded'
    BY <2>2, <2>7 DEF AbortCatalogue, Abort, Ends, Idle, catalogueTables
  <2>8. CASE UNCHANGED <<requestVars, catalogueTables>>
    BY <2>3, <2>8 DEF requestVars, catalogueTables
  <2> QED
    BY <2>4, <2>5, <2>6, <2>7, <2>8 DEF CatalogueStep
<1>3. NumbersBounded => GeneratedCodeIsFree
  BY NextIsFree
<1> QED
  BY <1>1, <1>2, <1>3, PTL DEF CatalogueSpec

-----------------------------------------------------------------------------
(* Departments: the walk upwards, and the levels of the tree.              *)
HIDE CatalogueAssumption
USE OrganizationAssumption

N == Cardinality(Departments)
Place == Departments \cup {None}
DepartmentRow == [status : {"ABSENT", "LIVE", "DELETED"}, type : DepartmentTypes, parent : Place]
Typed == department \in [Departments -> DepartmentRow]
LiveOnes == {d \in Departments : Live(d)}

LEMMA HowMany == N \in Nat
  BY FS_CardinalityType DEF N

\* A function can be iterated from any start.
Iterated(g, D, f, a, n) == g \in [0 .. n -> D] /\ g[0] = a /\ \A k \in 1 .. n : g[k] = f[g[k - 1]]
LEMMA Iterates ==
  ASSUME NEW D, NEW f \in [D -> D], NEW a \in D, NEW n \in Nat
  PROVE  \E g : Iterated(g, D, f, a, n)
<1> USE DEF Iterated
<1> DEFINE Iterate(m) == \E g \in [0 .. m -> D] : g[0] = a /\ \A k \in 1 .. m : g[k] = f[g[k - 1]]
           T == {m \in 0 .. n : ~Iterate(m)}
<1> SUFFICES ASSUME T # {} PROVE FALSE
  OBVIOUS
<1>1. PICK m \in T : \A k \in T : m <= k
  <2>1. T \subseteq 0 .. n
    OBVIOUS
  <2> HIDE DEF T
  <2> QED
    BY <2>1, Smallest
<1>2. m # 0
  <2>1. Iterate(0)
    <3> DEFINE g == [k \in 0 .. 0 |-> a]
    <3>1. g \in [0 .. 0 -> D] /\ g[0] = a /\ \A k \in 1 .. 0 : g[k] = f[g[k - 1]]
      OBVIOUS
    <3> HIDE DEF g
    <3> QED
      BY <3>1
  <2> HIDE DEF Iterate
  <2> QED
    BY <2>1
<1>3. Iterate(m - 1)
  <2>1. m - 1 \in 0 .. n /\ ~(m <= m - 1)
    BY <1>2
  <2>2. m - 1 \notin T
    BY <1>1, <2>1
  <2> HIDE DEF Iterate
  <2> QED
    BY <2>1, <2>2
<1>4. PICK g \in [0 .. m - 1 -> D] : g[0] = a /\ \A k \in 1 .. m - 1 : g[k] = f[g[k - 1]]
  BY <1>3
<1>5. m \in Nat \ {0} /\ m - 1 \in 0 .. m - 1
  BY <1>2
<1>6. g[m - 1] \in D
  BY <1>4, <1>5
<1> DEFINE h == [k \in 0 .. m |-> IF k = m THEN f[g[m - 1]] ELSE g[k]]
<1>7. h \in [0 .. m -> D]
  BY <1>4, <1>5, <1>6
<1>8. \A k \in 0 .. m - 1 : h[k] = g[k]
  BY <1>5
<1>9. h[m] = f[g[m - 1]] /\ h[0] = a
  BY <1>4, <1>5
<1>10. ASSUME NEW k \in 1 .. m PROVE h[k] = f[h[k - 1]]
  <2> HIDE DEF h
  <2>1. CASE k = m
    BY <1>5, <1>8, <1>9, <2>1
  <2>2. CASE k # m
    <3>1. k \in 1 .. m - 1 /\ k \in 0 .. m - 1 /\ k - 1 \in 0 .. m - 1
      BY <1>5, <2>2
    <3> QED
      BY <1>4, <1>8, <3>1
  <2> QED
    BY <2>1, <2>2
<1>11. Iterate(m)
  <2> HIDE DEF h
  <2> QED
    BY <1>7, <1>9, <1>10
<1> HIDE DEF Iterate
<1> QED
  BY <1>11

\* The places above one, from it to the root; None is above the roots and itself.
Climbs(g, d) == g \in [0 .. N -> Place] /\ g[0] = d /\ \A k \in 1 .. N : g[k] = Up(g[k - 1])

LEMMA ClimbExists ==
  ASSUME Typed, NEW d \in Place
  PROVE  \E g : Climbs(g, d)
<1> DEFINE f == [x \in Place |-> Up(x)]
<1>1. \A x \in Place : Up(x) \in Place
  BY DEF Up, Typed, DepartmentRow, Place
<1>2. f \in [Place -> Place]
  BY <1>1
<1>3. PICK g : Iterated(g, Place, f, d, N)
  <2> HIDE DEF f
  <2> QED
    BY <1>2, HowMany, Iterates
<1>4. \A k \in 1 .. N : g[k - 1] \in Place
  BY <1>3, HowMany DEF Iterated
<1> QED
  BY <1>3, <1>4 DEF Climbs, Iterated

LEMMA WalkIs ==
  ASSUME Typed, NEW d \in Place
  PROVE  \E g : Climbs(g, d) /\ Walk(d) = {g[n] : n \in 0 .. N} \ {None}
<1> DEFINE Steps(h) == h = [n \in 0 .. N |-> IF n = 0 THEN d ELSE Up(h[n - 1])]
<1>1. PICK g : Climbs(g, d)
  BY ClimbExists
<1>2. g = [n \in 0 .. N |-> IF n = 0 THEN d ELSE g[n]]
  BY <1>1, HowMany DEF Climbs
<1>3. \A n \in 0 .. N : n # 0 => n \in 1 .. N
  BY HowMany
<1>4. \A n \in 0 .. N : n # 0 => g[n] = Up(g[n - 1])
  BY <1>1, <1>3 DEF Climbs
<1>5. Steps(g)
  BY <1>2, <1>4
<1> DEFINE h == CHOOSE h : Steps(h)
<1>6. Steps(h)
  BY <1>5
<1>7. Walk(d) = {h[n] : n \in 0 .. N} \ {None}
  BY DEF Walk, N
<1> HIDE DEF h
<1>8. \A n \in 0 .. N : h[n] = IF n = 0 THEN d ELSE Up(h[n - 1])
  BY <1>6
<1> HIDE DEF Steps
<1> DEFINE T == {n \in 0 .. N : h[n] # g[n]}
<1>9. T = {}
  <2> SUFFICES ASSUME T # {} PROVE FALSE
    OBVIOUS
  <2>1. PICK m \in T : \A k \in T : m <= k
    <3>1. T \subseteq 0 .. N
      OBVIOUS
    <3> HIDE DEF T
    <3> QED
      BY <3>1, HowMany, Smallest
  <2>2. m # 0
    BY <1>1, <1>8, HowMany DEF Climbs
  <2>3. m - 1 \in 0 .. N /\ ~(m <= m - 1)
    BY <2>2, HowMany
  <2>4. h[m - 1] = g[m - 1]
    BY <2>1, <2>3
  <2> QED
    BY <1>4, <1>8, <2>2, <2>4
<1>10. \A n \in 0 .. N : h[n] = g[n]
  BY <1>9
<1> QED
  BY <1>1, <1>7, <1>10

\* In any live departments there is one whose parent is not among them: no circle.
Grounded == \A S \in SUBSET LiveOnes : S # {} => \E d \in S : department[d].parent \notin S

\* There are not enough departments to climb N times and still be at one.
LEMMA NoLongClimb ==
  ASSUME Typed, Grounded, NEW d, NEW g, Climbs(g, d), \A n \in 0 .. N : g[n] \in LiveOnes
  PROVE  FALSE
<1>1. g \in [0 .. N -> Departments]
  BY DEF Climbs, LiveOnes
<1>2. PICK i \in 0 .. N, j \in 0 .. N : i # j /\ g[i] = g[j]
  <2>1. IsFiniteSet(0 .. N) /\ Cardinality(0 .. N) = N + 1
    BY HowMany, FS_Interval
  <2>2. Cardinality(Departments) < Cardinality(0 .. N)
    BY <2>1, HowMany DEF N
  <2> QED
    BY <1>1, <2>1, <2>2, FS_PigeonHole
<1>3. PICK low \in 0 .. N, high \in 0 .. N : low < high /\ g[low] = g[high]
  BY <1>2, HowMany
<1> DEFINE S == {g[k] : k \in low .. high - 1}
<1>4. low .. high - 1 \subseteq 0 .. N /\ low \in low .. high - 1
  BY <1>3, HowMany
<1>5. S \in SUBSET LiveOnes /\ S # {}
  BY <1>4
<1>6. ASSUME NEW k \in low .. high - 1 PROVE department[g[k]].parent \in S
  <2>1. k + 1 \in 1 .. N /\ k \in 0 .. N /\ (k + 1) - 1 = k
    BY <1>3, HowMany
  <2>2. g[k + 1] = Up(g[k])
    BY <2>1 DEF Climbs
  <2>3. g[k] # None
    BY <1>1, <2>1
  <2>4. department[g[k]].parent = g[k + 1]
    BY <2>2, <2>3 DEF Up
  <2>5. CASE k + 1 = high
    <3>1. department[g[k]].parent = g[low]
      BY <1>3, <2>4, <2>5
    <3> QED
      BY <1>4, <3>1
  <2>6. CASE k + 1 # high
    <3>1. k + 1 \in low .. high - 1
      BY <1>3, <2>6
    <3> QED
      BY <2>4, <3>1
  <2> QED
    BY <2>5, <2>6
<1>7. \A d1 \in S : department[d1].parent \in S
  BY <1>6
<1> HIDE DEF S
<1> QED
  BY <1>5, <1>7 DEF Grounded

\* Who hangs under a department that it is not above closes no circle.
ClosesNone(parent, self) ==
    \A S \in SUBSET LiveOnes :
        parent \in S /\ self \in S => \E d \in S : d # self /\ department[d].parent \notin S

LEMMA WalkSees ==
  ASSUME Typed, Grounded, NEW parent \in Place, NEW self \in Departments, ~WouldCreateCycle(parent, self)
  PROVE  ClosesNone(parent, self)
<1> SUFFICES ASSUME NEW S \in SUBSET LiveOnes, parent \in S, self \in S,
                    \A d \in S : d # self => department[d].parent \in S
             PROVE  FALSE
  BY DEF ClosesNone
<1>1. PICK g : Climbs(g, parent) /\ Walk(parent) = {g[n] : n \in 0 .. N} \ {None}
  BY WalkIs
<1>2. \A n \in 0 .. N : g[n] # self
  BY <1>1 DEF WouldCreateCycle
<1> DEFINE T == {n \in 0 .. N : g[n] \notin S}
<1>3. T = {}
  <2> SUFFICES ASSUME T # {} PROVE FALSE
    OBVIOUS
  <2>1. PICK m \in T : \A k \in T : m <= k
    <3>1. T \subseteq 0 .. N
      OBVIOUS
    <3> HIDE DEF T
    <3> QED
      BY <3>1, HowMany, Smallest
  <2>2. m # 0
    BY <1>1 DEF Climbs
  <2>3. m - 1 \in 0 .. N /\ ~(m <= m - 1) /\ m \in 1 .. N
    BY <2>2, HowMany
  <2>4. g[m - 1] \in S
    BY <2>1, <2>3
  <2>5. g[m] = Up(g[m - 1]) /\ g[m - 1] # None /\ g[m - 1] # self
    BY <1>1, <1>2, <2>3, <2>4 DEF Climbs, LiveOnes
  <2>6. g[m] \in S
    BY <2>4, <2>5 DEF Up
  <2> QED
    BY <2>6
<1>4. \A n \in 0 .. N : g[n] \in LiveOnes
  BY <1>3
<1> QED
  BY <1>1, <1>4, NoLongClimb

-----------------------------------------------------------------------------
(* The organization: no circles, and no live department under a removed one. *)

OrgKnows(q) ==
    /\ q.pc = "move" => /\ q.department \in LiveOnes /\ q.parent \in LiveOnes \cup {None}
                        /\ ClosesNone(q.parent, q.department)
    /\ q.pc = "remove" => q.department \in LiveOnes /\ LiveChildren(q.department) = {}
Hangs == \A d \in LiveOnes : department[d].parent \in LiveOnes \cup {None}
Forest == Typed /\ Hangs /\ Grounded

\* The calls for which the promise is given.
ByHand == Alone /\ "anyParent" \notin scenario.calls
OrgInv ==
    /\ Busy
    /\ ByHand => Forest /\ \A r \in Clients : OrgKnows(request[r])

LEMMA OrgInvInit == OrgInit => OrgInv
<1> SUFFICES ASSUME OrgInit PROVE OrgInv
  OBVIOUS
<1>1. LiveOnes = {}
  BY DEF OrgInit, OrgTablesInit, LiveOnes, Live, NoDepartment
<1>2. Typed
  BY DEF OrgInit, OrgTablesInit, NoDepartment, Typed, DepartmentRow, Place, DepartmentTypes, Rank
<1>3. Hangs /\ Grounded
  BY <1>1 DEF Hangs, Grounded
<1>4. \A r \in Clients : OrgKnows(request[r])
  BY DEF OrgInit, RequestsInit, OrgKnows, Idle
<1> QED
  BY <1>2, <1>3, <1>4, BusyInit DEF OrgInv, OrgInit, Forest

LEMMA ForestKept ==
  ASSUME department' = department
  PROVE  (Forest => Forest') /\ \A q : OrgKnows(q) => OrgKnows(q)'
<1>1. LiveOnes' = LiveOnes /\ \A d : LiveChildren(d)' = LiveChildren(d)
  BY DEF LiveOnes, Live, LiveChildren
<1>2. Forest => Forest'
  BY <1>1 DEF Forest, Typed, Hangs, Grounded
<1>3. \A p, d : ClosesNone(p, d)' = ClosesNone(p, d)
  BY <1>1 DEF ClosesNone
<1>4. ASSUME NEW q, OrgKnows(q) PROVE OrgKnows(q)'
  BY <1>1, <1>3, <1>4 DEF OrgKnows
<1> QED
  BY <1>2, <1>4

\* One request goes on.
LEMMA OrgGoes ==
  ASSUME OrgInv, NEW r \in Clients, r \in scenario.clients, NEW q, Goes(r, q),
         ByHand => Forest' /\ OrgKnows(q)'
  PROVE  OrgInv'
<1>1. Busy' /\ (ByHand' <=> ByHand)
  BY BusyGoes DEF OrgInv, Goes, ByHand, Alone
<1>2. ASSUME ByHand, NEW s \in Clients PROVE OrgKnows(request[s])'
  <2>1. CASE s = r
    BY <1>2, <2>1, GoesTo DEF OrgInv, Busy
  <2>2. ASSUME s # r PROVE OrgKnows(request[s])'
    <3>1. request'[s].pc = "idle"
      BY <1>2, <2>2, GoesTo, OthersIdle DEF OrgInv, Busy, ByHand
    <3> QED
      BY <3>1 DEF OrgKnows
  <2> QED
    BY <2>1, <2>2
<1> QED
  BY <1>1, <1>2 DEF OrgInv

LEMMA IdleOrg == OrgKnows(Idle)'
  BY DEF OrgKnows, Idle

LEMMA OrgEnds ==
  ASSUME OrgInv, NEW r \in Clients, request[r].pc # "idle", Ends(r), ByHand => Forest'
  PROVE  OrgInv'
<1>1. r \in scenario.clients
  BY DEF OrgInv, Busy
<1> QED
  BY <1>1, IdleOrg, OrgGoes DEF Ends

\* A call of one step.
LEMMA OrgOnce ==
  ASSUME OrgInv, NEW call, AtOnce(call), ByHand /\ Forest => Forest'
  PROVE  OrgInv'
<1>1. scenario' = scenario /\ request' = request
  BY DEF AtOnce, requestVars
<1>2. Busy' /\ (ByHand' <=> ByHand)
  BY <1>1 DEF OrgInv, ByHand, Alone, Busy
<1>3. ASSUME ByHand, NEW s \in Clients PROVE OrgKnows(request[s])'
  <2>1. request'[s].pc = "idle"
    BY <1>3, AtOnceIdle DEF OrgInv, ByHand
  <2> QED
    BY <2>1 DEF OrgKnows
<1> QED
  BY <1>2, <1>3 DEF OrgInv

LEMMA CreateDepartmentKeeps ==
  ASSUME Forest, "anyParent" \notin scenario.calls, NEW d \in Departments, NEW type \in DepartmentTypes,
         NEW p \in Place, CreateDepartment(d, type, p)
  PROVE  Forest'
<1>1. /\ department' = [department EXCEPT ![d] = [status |-> "LIVE", type |-> type, parent |-> p]]
      /\ d \notin LiveOnes /\ p \in LiveOnes \cup {None}
  BY DEF CreateDepartment, Offered, Stored, LiveOnes, Live
<1>2. Typed'
  BY <1>1 DEF Forest, Typed, DepartmentRow, Place
<1>3. /\ department'[d] = [status |-> "LIVE", type |-> type, parent |-> p]
      /\ \A c \in Departments : c # d => department'[c] = department[c]
  BY <1>1 DEF Forest, Typed
<1>4. LiveOnes' = LiveOnes \cup {d}
  BY <1>3 DEF LiveOnes, Live
<1>5. \A c \in LiveOnes : c # d /\ c \in Departments /\ department'[c] = department[c]
  BY <1>1, <1>3 DEF LiveOnes
<1>6. Hangs'
  BY <1>1, <1>3, <1>4, <1>5 DEF Hangs, Forest
<1>7. ASSUME NEW S \in SUBSET LiveOnes', S # {} PROVE \E c \in S : department'[c].parent \notin S
  <2>1. CASE S = {d}
    BY <1>1, <1>3, <2>1 DEF LiveOnes
  <2>2. CASE S # {d}
    <3>1. S \ {d} \in SUBSET LiveOnes /\ S \ {d} # {}
      BY <1>4, <1>7, <2>2
    <3>2. PICK c \in S \ {d} : department[c].parent \notin S \ {d}
      BY <3>1 DEF Forest, Grounded
    <3>3. department'[c] = department[c] /\ department[c].parent # d
      BY <1>1, <1>5, <3>1, <3>2 DEF Forest, Hangs
    <3> QED
      BY <3>2, <3>3
  <2> QED
    BY <2>1, <2>2
<1>8. Grounded'
  BY <1>7 DEF Grounded
<1> QED
  BY <1>2, <1>6, <1>8 DEF Forest

LEMMA RetypeKeeps ==
  ASSUME Forest, NEW d \in Departments, NEW type \in DepartmentTypes, RetypeDepartment(d, type)
  PROVE  Forest'
<1>1. department' = [department EXCEPT ![d].type = type]
  BY DEF RetypeDepartment
<1>2. Typed'
  BY <1>1 DEF Forest, Typed, DepartmentRow
<1>3. \A c \in Departments : /\ department'[c].status = department[c].status
                             /\ department'[c].parent = department[c].parent
  BY <1>1 DEF Forest, Typed, DepartmentRow
<1>4. LiveOnes' = LiveOnes
  BY <1>3 DEF LiveOnes, Live
<1>5. Hangs' /\ Grounded'
  BY <1>3, <1>4 DEF Forest, Hangs, Grounded, LiveOnes
<1> QED
  BY <1>2, <1>5 DEF Forest

LEMMA MoveKeeps ==
  ASSUME Forest, NEW r \in Clients, OrgKnows(request[r]), MoveDepartmentWrite(r)
  PROVE  Forest'
<1>1. PICK d, p : d = request[r].department /\ p = request[r].parent
  OBVIOUS
<1>2. /\ department' = [department EXCEPT ![d].parent = p]
      /\ d \in LiveOnes /\ p \in LiveOnes \cup {None} /\ ClosesNone(p, d)
  BY <1>1 DEF MoveDepartmentWrite, OrgKnows, At
<1>3. Typed'
  BY <1>2 DEF Forest, Typed, DepartmentRow, Place, LiveOnes
<1>4. /\ department'[d].parent = p
      /\ \A c \in Departments : /\ department'[c].status = department[c].status
                                /\ c # d => department'[c].parent = department[c].parent
  BY <1>2 DEF Forest, Typed, DepartmentRow, LiveOnes
<1>5. LiveOnes' = LiveOnes
  BY <1>4 DEF LiveOnes, Live
<1>6. Hangs'
  BY <1>2, <1>4, <1>5 DEF Forest, Hangs, LiveOnes
<1>7. ASSUME NEW S \in SUBSET LiveOnes, S # {} PROVE \E c \in S : department'[c].parent \notin S
  <2>1. CASE d \notin S
    BY <1>4, <1>7, <2>1 DEF Forest, Grounded, LiveOnes
  <2>2. CASE p \notin S /\ d \in S
    BY <1>4, <2>2
  <2>3. CASE p \in S /\ d \in S
    BY <1>2, <1>4, <2>3 DEF ClosesNone, LiveOnes
  <2> QED
    BY <2>1, <2>2, <2>3
<1>8. Grounded'
  BY <1>5, <1>7 DEF Grounded
<1> QED
  BY <1>3, <1>6, <1>8 DEF Forest

LEMMA RemoveKeeps ==
  ASSUME Forest, NEW r \in Clients, OrgKnows(request[r]), RemoveDepartmentWrite(r)
  PROVE  Forest'
<1>1. PICK d : d = request[r].department
  OBVIOUS
<1>2. /\ department' = [department EXCEPT ![d].status = "DELETED"]
      /\ d \in LiveOnes /\ LiveChildren(d) = {}
  BY <1>1 DEF RemoveDepartmentWrite, OrgKnows, At
<1>3. Typed'
  BY <1>2 DEF Forest, Typed, DepartmentRow
<1>4. /\ department'[d].status = "DELETED"
      /\ \A c \in Departments : /\ department'[c].parent = department[c].parent
                                /\ c # d => department'[c].status = department[c].status
  BY <1>2 DEF Forest, Typed, DepartmentRow, LiveOnes
<1>5. LiveOnes' = LiveOnes \ {d}
  BY <1>4 DEF LiveOnes, Live
<1>6. \A c \in LiveOnes : department[c].parent # d
  BY <1>2 DEF LiveOnes, LiveChildren
<1>7. Hangs'
  BY <1>4, <1>5, <1>6 DEF Forest, Hangs, LiveOnes
<1>8. Grounded'
  BY <1>4, <1>5 DEF Forest, Grounded, LiveOnes
<1> QED
  BY <1>3, <1>7, <1>8 DEF Forest

LEMMA DepartmentStepKeeps == OrgInv /\ DepartmentStep => OrgInv'
<1> SUFFICES ASSUME OrgInv, DepartmentStep PROVE OrgInv'
  OBVIOUS
<1>a. ByHand => Forest /\ \A r \in Clients : OrgKnows(request[r])
  BY DEF OrgInv
<1>1. ASSUME NEW d \in Departments, NEW type \in DepartmentTypes, NEW p \in Departments \cup {None},
             CreateDepartment(d, type, p)
      PROVE  OrgInv'
  <2>1. AtOnce("department") /\ p \in Place
    BY <1>1 DEF CreateDepartment, Place
  <2>2. ByHand /\ Forest => Forest'
    BY <1>1, <2>1, CreateDepartmentKeeps DEF ByHand
  <2> QED
    BY <2>1, <2>2, OrgOnce
<1>2. ASSUME NEW d \in Departments, NEW type \in DepartmentTypes, RetypeDepartment(d, type) PROVE OrgInv'
  <2>1. AtOnce("department")
    BY <1>2 DEF RetypeDepartment
  <2> QED
    BY <1>2, <2>1, RetypeKeeps, OrgOnce
<1>3. ASSUME NEW r \in Clients, NEW d \in Departments, NEW p \in Departments \cup {None},
             MoveDepartmentRead(r, d, p)
      PROVE  OrgInv'
  <2> DEFINE q == [pc |-> "move", department |-> d, parent |-> p]
  <2>1. Goes(r, q) /\ r \in scenario.clients /\ department' = department
        /\ Live(d) /\ p \in Offered /\ ~WouldCreateCycle(p, d) /\ p \in Place
    BY <1>3 DEF MoveDepartmentRead, Starts, orgTables, Place
  <2>2. ASSUME ByHand PROVE OrgKnows(q)
    <3>1. ClosesNone(p, d)
      BY <1>a, <2>1, <2>2, WalkSees DEF Forest
    <3>2. d \in LiveOnes /\ p \in LiveOnes \cup {None}
      BY <2>1, <2>2 DEF LiveOnes, Offered, ByHand
    <3> QED
      BY <3>1, <3>2 DEF OrgKnows
  <2> HIDE DEF q
  <2> QED
    BY <1>a, <2>1, <2>2, ForestKept, OrgGoes
<1>4. ASSUME NEW r \in Clients, NEW d \in Departments, RemoveDepartmentRead(r, d) PROVE OrgInv'
  <2> DEFINE q == [pc |-> "remove", department |-> d]
  <2>1. Goes(r, q) /\ r \in scenario.clients /\ department' = department /\ Live(d) /\ LiveChildren(d) = {}
    BY <1>4 DEF RemoveDepartmentRead, Starts, orgTables
  <2>2. OrgKnows(q)
    BY <2>1 DEF OrgKnows, LiveOnes
  <2> HIDE DEF q
  <2> QED
    BY <1>a, <2>1, <2>2, ForestKept, OrgGoes
<1>5. ASSUME NEW r \in Clients, MoveDepartmentWrite(r) PROVE OrgInv'
  <2>1. request[r].pc # "idle" /\ Ends(r)
    BY <1>5 DEF MoveDepartmentWrite, At
  <2> QED
    BY <1>a, <1>5, <2>1, MoveKeeps, OrgEnds
<1>6. ASSUME NEW r \in Clients, RemoveDepartmentWrite(r) PROVE OrgInv'
  <2>1. request[r].pc # "idle" /\ Ends(r)
    BY <1>6 DEF RemoveDepartmentWrite, At
  <2> QED
    BY <1>a, <1>6, <2>1, RemoveKeeps, OrgEnds
<1>7. ASSUME NEW r \in Clients, AbortOrg(r) PROVE OrgInv'
  <2>1. request[r].pc # "idle" /\ Ends(r) /\ department' = department
    BY <1>7 DEF AbortOrg, Abort, orgTables
  <2> QED
    BY <1>a, <2>1, ForestKept, OrgEnds
<1> QED
  BY <1>1, <1>2, <1>3, <1>4, <1>5, <1>6, <1>7 DEF DepartmentStep

LEMMA OrgInvStep == OrgInv /\ [OrgNext]_orgVars => OrgInv'
<1>1. ASSUME OrgInv, EmployeeStep PROVE OrgInv'
  <2>1. AtOnce("employee") /\ department' = department
    BY <1>1 DEF EmployeeStep, CreateEmployee, UpdateEmployee, DeleteEmployees
  <2> QED
    BY <1>1, <2>1, ForestKept, OrgOnce
<1>2. ASSUME OrgInv, UNCHANGED orgVars PROVE OrgInv'
  <2>1. scenario' = scenario /\ request' = request /\ department' = department
    BY <1>2 DEF orgVars, requestVars, orgTables
  <2>2. Busy' /\ (ByHand' <=> ByHand)
    BY <1>2, <2>1 DEF OrgInv, ByHand, Alone, Busy
  <2>3. ByHand => Forest' /\ \A r \in Clients : OrgKnows(request[r])'
    BY <1>2, <2>1, ForestKept DEF OrgInv
  <2> QED
    BY <2>2, <2>3 DEF OrgInv
<1> QED
  BY <1>1, <1>2, DepartmentStepKeeps DEF OrgNext

\* The levels of the tree, from the departments without a parent down.
Levels(g) ==
    /\ g \in [0 .. N -> SUBSET LiveOnes]
    /\ g[0] = LiveChildren(None)
    /\ \A k \in 1 .. N : g[k] = UNION {LiveChildren(d) : d \in g[k - 1]}

LEMMA LevelsExist == \E g : Levels(g)
<1> DEFINE D == SUBSET LiveOnes
           f == [S \in D |-> UNION {LiveChildren(d) : d \in S}]
<1>1. \A d : LiveChildren(d) \in D
  BY DEF LiveChildren, LiveOnes
<1>2. \A S \in D : UNION {LiveChildren(d) : d \in S} \in D
  BY <1>1
<1>3. f \in [D -> D]
  BY <1>2
<1>4. PICK g : Iterated(g, D, f, LiveChildren(None), N)
  <2>1. PICK top \in D : top = LiveChildren(None)
    BY <1>1
  <2> HIDE DEF f, D
  <2> QED
    BY <1>3, <2>1, HowMany, Iterates
<1>5. \A k \in 1 .. N : g[k - 1] \in D
  BY <1>4, HowMany DEF Iterated
<1> QED
  BY <1>4, <1>5 DEF Levels, Iterated

LEMMA ShownIs == \E g : Levels(g) /\ Shown = UNION {g[n] : n \in 0 .. N}
<1> DEFINE Steps(h) == h = [n \in 0 .. N |-> IF n = 0 THEN LiveChildren(None)
                                             ELSE UNION {LiveChildren(d) : d \in h[n - 1]}]
<1>1. PICK g : Levels(g)
  BY LevelsExist
<1>2. g = [n \in 0 .. N |-> IF n = 0 THEN LiveChildren(None) ELSE g[n]]
  BY <1>1, HowMany DEF Levels
<1>3. \A n \in 0 .. N : n # 0 => n \in 1 .. N
  BY HowMany
<1>4. \A n \in 0 .. N : n # 0 => g[n] = UNION {LiveChildren(d) : d \in g[n - 1]}
  BY <1>1, <1>3 DEF Levels
<1>5. Steps(g)
  BY <1>2, <1>4
<1> DEFINE h == CHOOSE h : Steps(h)
<1>6. Steps(h)
  BY <1>5
<1>7. Shown = UNION {h[n] : n \in 0 .. N}
  BY DEF Shown, N
<1> HIDE DEF h
<1>8. \A n \in 0 .. N : h[n] = IF n = 0 THEN LiveChildren(None)
                               ELSE UNION {LiveChildren(d) : d \in h[n - 1]}
  BY <1>6
<1> HIDE DEF Steps
<1> DEFINE T == {n \in 0 .. N : h[n] # g[n]}
<1>9. T = {}
  <2> SUFFICES ASSUME T # {} PROVE FALSE
    OBVIOUS
  <2>1. PICK m \in T : \A k \in T : m <= k
    <3>1. T \subseteq 0 .. N
      OBVIOUS
    <3> HIDE DEF T
    <3> QED
      BY <3>1, HowMany, Smallest
  <2>2. m # 0
    BY <1>1, <1>8, HowMany DEF Levels
  <2>3. m - 1 \in 0 .. N /\ ~(m <= m - 1)
    BY <2>2, HowMany
  <2>4. h[m - 1] = g[m - 1]
    BY <2>1, <2>3
  <2> QED
    BY <1>4, <1>8, <2>2, <2>4
<1>10. \A n \in 0 .. N : h[n] = g[n]
  BY <1>9
<1> QED
  BY <1>1, <1>7, <1>10

\* The last level is empty: from a department of it one could climb too long.
LEMMA LastLevelEmpty ==
  ASSUME Forest, NEW g, Levels(g)
  PROVE  g[N] = {}
<1> SUFFICES ASSUME NEW d \in g[N] PROVE FALSE
  OBVIOUS
<1>1. d \in Place
  BY HowMany DEF Levels, LiveOnes, Place
<1>2. PICK up : Climbs(up, d)
  BY <1>1, ClimbExists DEF Forest
<1> DEFINE T == {n \in 0 .. N : up[n] \notin g[N - n]}
<1>3. T = {}
  <2> SUFFICES ASSUME T # {} PROVE FALSE
    OBVIOUS
  <2>1. PICK m \in T : \A k \in T : m <= k
    <3>1. T \subseteq 0 .. N
      OBVIOUS
    <3> HIDE DEF T
    <3> QED
      BY <3>1, HowMany, Smallest
  <2>2. m # 0
    BY <1>2, HowMany DEF Climbs
  <2>3. /\ m - 1 \in 0 .. N /\ ~(m <= m - 1) /\ m \in 1 .. N
        /\ N - (m - 1) \in 1 .. N /\ (N - (m - 1)) - 1 = N - m /\ N - m \in 0 .. N
    BY <2>2, HowMany
  <2>4. up[m - 1] \in g[N - (m - 1)]
    BY <2>1, <2>3
  <2>5. PICK p \in g[N - m] : up[m - 1] \in LiveChildren(p)
    BY <2>3, <2>4 DEF Levels
  <2>6. up[m] = Up(up[m - 1])
    BY <1>2, <2>3 DEF Climbs
  <2>7. up[m] = p
    BY <2>5, <2>6 DEF Up, LiveChildren
  <2> QED
    BY <2>5, <2>7
<1>4. ASSUME NEW n \in 0 .. N PROVE up[n] \in LiveOnes
  <2>1. up[n] \in g[N - n] /\ N - n \in 0 .. N
    BY <1>3, HowMany
  <2> QED
    BY <2>1 DEF Levels
<1> QED
  BY <1>2, <1>4, NoLongClimb DEF Forest

LEMMA ForestShown == Forest => Shown = {d \in Departments : Live(d)}
<1> SUFFICES ASSUME Forest PROVE Shown = LiveOnes
  BY DEF LiveOnes
<1>1. PICK g : Levels(g) /\ Shown = UNION {g[n] : n \in 0 .. N}
  BY ShownIs
<1>2. Shown \subseteq LiveOnes
  BY <1>1 DEF Levels
<1>3. ASSUME LiveOnes \ Shown # {} PROVE FALSE
  <2>1. PICK d \in LiveOnes \ Shown : department[d].parent \notin LiveOnes \ Shown
    BY <1>3 DEF Forest, Grounded
  <2>2. CASE department[d].parent = None
    <3>1. d \in g[0] /\ 0 \in 0 .. N
      BY <1>1, <2>1, <2>2, HowMany DEF Levels, LiveChildren, LiveOnes
    <3> QED
      BY <1>1, <2>1, <3>1
  <2>3. CASE department[d].parent # None
    <3>1. PICK n \in 0 .. N : department[d].parent \in g[n]
      BY <1>1, <2>1, <2>3 DEF Forest, Hangs
    <3>2. n # N
      BY <1>1, <3>1, LastLevelEmpty
    <3>3. n + 1 \in 1 .. N /\ (n + 1) - 1 = n /\ n + 1 \in 0 .. N
      BY <3>2, HowMany
    <3>4. d \in LiveChildren(department[d].parent)
      BY <2>1 DEF LiveChildren, LiveOnes
    <3>5. d \in g[n + 1]
      BY <1>1, <3>1, <3>3, <3>4 DEF Levels
    <3> QED
      BY <1>1, <2>1, <3>3, <3>5
  <2> QED
    BY <2>2, <2>3
<1> QED
  BY <1>2, <1>3

\* The tree of the organization shows every live department, however they are created, moved, given
\* another type and removed by calls that come one after another (TreeShowsAll).
THEOREM TreeCorrect == OrgSpec => []TreeShowsAll
<1>1. OrgInit => OrgInv
  BY OrgInvInit
<1>2. OrgInv /\ [OrgNext]_orgVars => OrgInv'
  BY OrgInvStep
<1>3. OrgInv => TreeShowsAll
  BY ForestShown DEF OrgInv, ByHand, TreeShowsAll
<1> QED
  BY <1>1, <1>2, <1>3, PTL DEF OrgSpec

-----------------------------------------------------------------------------
(* Accounts and sessions.                                                  *)
HIDE OrganizationAssumption
USE AccessAssumption

\* The calls for which the promise is given.
OneByOne == Alone /\ scenario.calls \cap {"assign", "crash"} = {}

Accounts ==
    /\ account \in [Users -> {"ABSENT", "ACTIVE", "INACTIVE", "REMOVED"}]
    /\ role \in [Roles -> (SUBSET Permissions) \cup {None}]
    /\ binding \subseteq Users \X Roles
    /\ \A u \in Users, g \in Roles : <<u, g>> \in binding => RoleExists(g)
    /\ DOMAIN session = Sessions

\* A session that has been built carries what its user is granted.
Follows(s) == session[s].auth # None =>
    /\ session[s].user \in Users
    /\ account[session[s].user] # "ABSENT"
    /\ AccountExists(session[s].user) => session[s].auth = Granted(session[s].user)
AllFollow == \A s \in Sessions : Follows(s)

AccessKnows(q) ==
    /\ q.pc # "assign"
    /\ q.pc = "sessions" => \A s \in Sessions : Follows(s) \/ session[s].user \in q.users
    /\ q.pc = "permissions" => q.role \in Roles /\ q.perms \in SUBSET Permissions /\ q.users = UsersOf(q.role)
    /\ q.pc = "deleteRole" => q.role \in Roles /\ UsersOf(q.role) = {}
    /\ q.pc = "build" => q.session \in Sessions /\ q.user \in Users
    /\ q.pc = "save" => /\ q.session \in Sessions /\ q.user \in Users /\ account[q.user] # "ABSENT"
                        /\ q.perms = Granted(q.user)

AccessInv ==
    /\ Busy
    /\ OneByOne => /\ Accounts
                   /\ \A r \in Clients : AccessKnows(request[r])
                   /\ (\A r \in Clients : request[r].pc # "sessions") => AllFollow

LEMMA AccessInvInit == AccessInit => AccessInv
<1> SUFFICES ASSUME AccessInit PROVE AccessInv
  OBVIOUS
<1>1. Busy /\ \A r \in Clients : request[r] = Idle
  BY BusyInit DEF AccessInit, OrgInit, RequestsInit
<1>2. Accounts
  BY DEF AccessInit, AccessTablesInit, Accounts
<1>3. \A r \in Clients : AccessKnows(request[r])
  BY <1>1 DEF AccessKnows, Idle
<1>4. AllFollow
  BY DEF AccessInit, AccessTablesInit, AllFollow, Follows, NoSession
<1> QED
  BY <1>1, <1>2, <1>3, <1>4 DEF AccessInv

LEMMA AccountsKept ==
  ASSUME UNCHANGED accessTables
  PROVE  /\ Accounts => Accounts'
         /\ AllFollow => AllFollow'
         /\ \A q : AccessKnows(q) => AccessKnows(q)'
<1>1. account' = account /\ role' = role /\ binding' = binding /\ session' = session
  BY DEF accessTables
<1>2. Accounts => Accounts'
  BY <1>1 DEF Accounts, RoleExists
<1>3. /\ \A u : Granted(u)' = Granted(u) /\ AccountExists(u)' = AccountExists(u)
      /\ \A g : UsersOf(g)' = UsersOf(g)
  BY <1>1 DEF Granted, RolesOf, UsersOf, AccountExists
<1>4. \A s : Follows(s)' = Follows(s)
  BY <1>1, <1>3 DEF Follows
<1>5. AllFollow => AllFollow'
  BY <1>4 DEF AllFollow
<1>6. ASSUME NEW q, AccessKnows(q) PROVE AccessKnows(q)'
  BY <1>1, <1>3, <1>4, <1>6 DEF AccessKnows
<1> QED
  BY <1>2, <1>5, <1>6

\* What holds while the request r is the only one under way.
LEMMA AccessNow ==
  ASSUME AccessInv, OneByOne, NEW r \in Clients, r \in scenario.clients
  PROVE  Accounts /\ AccessKnows(request[r]) /\ (request[r].pc # "sessions" => AllFollow)
<1>1. \A s \in Clients : s # r => request[s].pc = "idle"
  BY OthersIdle DEF AccessInv, OneByOne
<1> QED
  BY <1>1 DEF AccessInv

\* One request goes on.
LEMMA AccessGoes ==
  ASSUME AccessInv, NEW r \in Clients, r \in scenario.clients, NEW q, Goes(r, q),
         OneByOne => Accounts' /\ AccessKnows(q)' /\ (q.pc # "sessions" => AllFollow')
  PROVE  AccessInv'
<1>1. Busy' /\ (OneByOne' <=> OneByOne)
  BY BusyGoes DEF AccessInv, Goes, OneByOne, Alone
<1>2. ASSUME OneByOne, NEW s \in Clients PROVE AccessKnows(request[s])'
  <2>1. CASE s = r
    BY <1>2, <2>1, GoesTo DEF AccessInv, Busy
  <2>2. ASSUME s # r PROVE AccessKnows(request[s])'
    <3>1. request'[s].pc = "idle"
      BY <1>2, <2>2, GoesTo, OthersIdle DEF AccessInv, Busy, OneByOne
    <3> QED
      BY <3>1 DEF AccessKnows
  <2> QED
    BY <2>1, <2>2
<1>3. request'[r] = q
  BY GoesTo DEF AccessInv, Busy
<1> QED
  BY <1>1, <1>2, <1>3 DEF AccessInv

\* A call of one step.
LEMMA AccessOnce ==
  ASSUME AccessInv, NEW call, AtOnce(call), OneByOne /\ Accounts /\ AllFollow => Accounts' /\ AllFollow'
  PROVE  AccessInv'
<1>1. scenario' = scenario /\ request' = request
  BY DEF AtOnce, requestVars
<1>2. Busy' /\ (OneByOne' <=> OneByOne)
  BY <1>1 DEF AccessInv, OneByOne, Alone, Busy
<1>3. ASSUME OneByOne PROVE \A s \in Clients : request'[s].pc = "idle"
  BY <1>3, AtOnceIdle DEF AccessInv, OneByOne
<1>4. OneByOne => Accounts /\ AllFollow
  BY <1>1, <1>3 DEF AccessInv
<1>5. ASSUME OneByOne, NEW s \in Clients PROVE AccessKnows(request[s])'
  <2>1. request'[s].pc = "idle"
    BY <1>3, <1>5
  <2> QED
    BY <2>1 DEF AccessKnows
<1> QED
  BY <1>2, <1>4, <1>5 DEF AccessInv

\* What a user is granted depends on the user's own bindings and on their roles.
LEMMA GrantedKept ==
  ASSUME NEW u \in Users, \A g \in Roles : (<<u, g>> \in binding) <=> (<<u, g>> \in binding'),
         \A g \in Roles : <<u, g>> \in binding => role'[g] = role[g]
  PROVE  Granted(u)' = Granted(u)
<1>1. RolesOf(u)' = RolesOf(u) /\ \A g \in RolesOf(u) : role'[g] = role[g]
  BY DEF RolesOf
<1> QED
  BY <1>1 DEF Granted

LEMMA CreateUserKeeps ==
  ASSUME Accounts, AllFollow, NEW u \in Users, NEW gs \in SUBSET Roles, NEW e,
         NEW status \in {"ACTIVE", "INACTIVE"}, CreateUser(u, gs, e, status)
  PROVE  Accounts' /\ AllFollow'
<1>1. /\ account' = [account EXCEPT ![u] = status] /\ binding' = binding \cup ({u} \X gs)
      /\ role' = role /\ session' = session /\ account[u] = "ABSENT"
      /\ \A g \in gs : RoleExists(g)
  BY DEF CreateUser
<1>2. \A v \in Users, g \in Roles : (<<v, g>> \in binding') <=> (<<v, g>> \in binding \/ (v = u /\ g \in gs))
  BY <1>1
<1>3. binding' \subseteq Users \X Roles
  BY <1>1 DEF Accounts
<1>4. \A v \in Users, g \in Roles : <<v, g>> \in binding' => RoleExists(g)'
  BY <1>1, <1>2 DEF Accounts, RoleExists
<1>5. account' \in [Users -> {"ABSENT", "ACTIVE", "INACTIVE", "REMOVED"}]
  BY <1>1 DEF Accounts
<1>6. Accounts'
  BY <1>1, <1>3, <1>4, <1>5 DEF Accounts
<1>7. ASSUME NEW v \in Users, v # u PROVE Granted(v)' = Granted(v)
  BY <1>1, <1>2, <1>7, GrantedKept
<1>8. ASSUME NEW s \in Sessions PROVE Follows(s)'
  <2>1. Follows(s)
    BY DEF AllFollow
  <2>2. session[s].auth # None => session[s].user \in Users /\ session[s].user # u
    BY <1>1, <2>1 DEF Follows
  <2>3. ASSUME session[s].auth # None
        PROVE  /\ account'[session[s].user] = account[session[s].user]
               /\ Granted(session[s].user)' = Granted(session[s].user)
    BY <1>1, <1>7, <2>2, <2>3 DEF Accounts
  <2> QED
    BY <1>1, <2>1, <2>3 DEF Follows, AccountExists
<1> QED
  BY <1>6, <1>8 DEF AllFollow

LEMMA FollowKept ==
  ASSUME NEW s, Follows(s), session'[s] = session[s],
         \A v \in Users : account[v] # "ABSENT" =>
            /\ account'[v] # "ABSENT"
            /\ AccountExists(v)' => AccountExists(v) /\ Granted(v)' = Granted(v)
  PROVE  Follows(s)'
  BY DEF Follows

LEMMA UpdateUserKeeps ==
  ASSUME Accounts, AllFollow, NEW u \in Users, NEW e, NEW status \in {"ACTIVE", "INACTIVE"},
         UpdateUser(u, e, status)
  PROVE  Accounts' /\ AllFollow'
<1>1. /\ account' = [account EXCEPT ![u] = status] /\ binding' = binding
      /\ role' = role /\ session' = session /\ AccountExists(u)
  BY DEF UpdateUser
<1>2. Accounts'
  BY <1>1 DEF Accounts, RoleExists
<1>3. \A v : Granted(v)' = Granted(v)
  BY <1>1 DEF Granted, RolesOf
<1>4. \A v \in Users : /\ AccountExists(v)' => AccountExists(v)
                       /\ account[v] # "ABSENT" => account'[v] # "ABSENT"
  BY <1>1 DEF Accounts, AccountExists
<1> QED
  BY <1>1, <1>2, <1>3, <1>4, FollowKept DEF AllFollow

LEMMA RemoveUserKeeps ==
  ASSUME Accounts, AllFollow, NEW u \in Users, RemoveUser(u)
  PROVE  Accounts' /\ AllFollow'
<1>1. /\ account' = [account EXCEPT ![u] = "REMOVED"] /\ binding' = binding \ ({u} \X Roles)
      /\ role' = role /\ session' = session
  BY DEF RemoveUser
<1>2. \A v \in Users, g \in Roles : (<<v, g>> \in binding') <=> (<<v, g>> \in binding /\ v # u)
  BY <1>1
<1>3. binding' \subseteq Users \X Roles
  BY <1>1 DEF Accounts
<1>4. Accounts'
  BY <1>1, <1>2, <1>3 DEF Accounts, RoleExists
<1>5. \A v \in Users : /\ AccountExists(v)' => v # u /\ AccountExists(v)
                       /\ account[v] # "ABSENT" => account'[v] # "ABSENT"
  BY <1>1 DEF Accounts, AccountExists
<1>6. ASSUME NEW v \in Users, v # u PROVE Granted(v)' = Granted(v)
  BY <1>1, <1>2, <1>6, GrantedKept
<1>7. ASSUME NEW s \in Sessions PROVE Follows(s)'
  BY <1>1, <1>5, <1>6, FollowKept DEF AllFollow
<1> QED
  BY <1>4, <1>7 DEF AllFollow

LEMMA CreateRoleKeeps ==
  ASSUME Accounts, AllFollow, NEW g \in Roles, CreateRole(g)
  PROVE  Accounts' /\ AllFollow'
<1>1. /\ account' = account /\ binding' = binding /\ session' = session
      /\ role' = [role EXCEPT ![g] = {}] /\ ~RoleExists(g)
  BY DEF CreateRole
<1>2. \A h \in Roles : RoleExists(h) => RoleExists(h)' /\ role'[h] = role[h]
  BY <1>1 DEF Accounts, RoleExists
<1>3. {} \in SUBSET Permissions
  OBVIOUS
<1>4. role' \in [Roles -> (SUBSET Permissions) \cup {None}]
  BY <1>1, <1>3 DEF Accounts
<1>5. Accounts'
  BY <1>1, <1>2, <1>4 DEF Accounts
<1>6. ASSUME NEW v \in Users PROVE Granted(v)' = Granted(v)
  BY <1>1, <1>2, GrantedKept DEF Accounts
<1>7. ASSUME NEW s \in Sessions PROVE Follows(s)'
  BY <1>1, <1>6, FollowKept DEF AllFollow, AccountExists
<1> QED
  BY <1>5, <1>7 DEF AllFollow

LEMMA DeleteRoleKeeps ==
  ASSUME Accounts, AllFollow, NEW r \in Clients, AccessKnows(request[r]), DeleteRoleCommit(r)
  PROVE  Accounts' /\ AllFollow'
<1> DEFINE g == request[r].role
<1>1. /\ account' = account /\ session' = session
      /\ role' = [role EXCEPT ![g] = None] /\ binding' = binding \ (Users \X {g})
      /\ g \in Roles /\ UsersOf(g) = {}
  BY DEF DeleteRoleCommit, AccessKnows, At
<1> HIDE DEF g
<1>2. \A v \in Users : <<v, g>> \notin binding
  BY <1>1 DEF UsersOf
<1>3. binding' = binding
  BY <1>1, <1>2 DEF Accounts
<1>4. \A v \in Users, h \in Roles : <<v, h>> \in binding => RoleExists(h)' /\ role'[h] = role[h]
  BY <1>1, <1>2 DEF Accounts, RoleExists
<1>5. role' \in [Roles -> (SUBSET Permissions) \cup {None}]
  BY <1>1 DEF Accounts
<1>6. Accounts'
  BY <1>1, <1>3, <1>4, <1>5 DEF Accounts
<1>7. ASSUME NEW v \in Users PROVE Granted(v)' = Granted(v)
  BY <1>3, <1>4, GrantedKept
<1>8. ASSUME NEW s \in Sessions PROVE Follows(s)'
  BY <1>1, <1>7, FollowKept DEF AllFollow, AccountExists
<1> QED
  BY <1>6, <1>8 DEF AllFollow

\* The sessions that may carry old permissions are those of the users that were read.
LEMMA UpdatePermissionsKeeps ==
  ASSUME Accounts, AllFollow, NEW r \in Clients, AccessKnows(request[r]), UpdatePermissionsCommit(r)
  PROVE  Accounts' /\ \A s \in Sessions : Follows(s)' \/ session'[s].user \in request[r].users
<1> DEFINE g == request[r].role
           ps == request[r].perms
           us == request[r].users
<1>1. /\ account' = account /\ session' = session /\ binding' = binding
      /\ role' = [role EXCEPT ![g] = ps]
      /\ g \in Roles /\ ps \in SUBSET Permissions /\ us = UsersOf(g)
  BY DEF UpdatePermissionsCommit, AccessKnows, At
<1> HIDE DEF g, ps, us
<1>2. ps # None
  BY <1>1
<1>3. \A h \in Roles : RoleExists(h) => RoleExists(h)'
  BY <1>1, <1>2 DEF Accounts, RoleExists
<1>4. role' \in [Roles -> (SUBSET Permissions) \cup {None}]
  BY <1>1 DEF Accounts
<1>5. Accounts'
  BY <1>1, <1>3, <1>4 DEF Accounts
<1>6. ASSUME NEW v \in Users, v \notin us PROVE Granted(v)' = Granted(v)
  <2>1. \A h \in Roles : <<v, h>> \in binding => h # g
    BY <1>1, <1>6 DEF UsersOf
  <2>2. \A h \in Roles : <<v, h>> \in binding => role'[h] = role[h]
    BY <1>1, <2>1 DEF Accounts
  <2> QED
    BY <1>1, <2>2, GrantedKept
<1>7. ASSUME NEW s \in Sessions, session[s].user \notin us PROVE Follows(s)'
  <2>1. Follows(s)
    BY DEF AllFollow
  <2> QED
    BY <1>1, <1>6, <1>7, <2>1 DEF Follows, AccountExists
<1> QED
  BY <1>1, <1>5, <1>7 DEF us

LEMMA IdleAccess == AccessKnows(Idle)' /\ Idle.pc = "idle"
  BY DEF AccessKnows, Idle

LEMMA AccountStepKeeps == AccessInv /\ AccountStep => AccessInv'
<1> SUFFICES ASSUME AccessInv, AccountStep PROVE AccessInv'
  OBVIOUS
<1>1. ASSUME NEW u \in Users, NEW gs \in SUBSET Roles, NEW e, NEW status \in {"ACTIVE", "INACTIVE"},
             CreateUser(u, gs, e, status)
      PROVE  AccessInv'
  <2>1. AtOnce("account")
    BY <1>1 DEF CreateUser
  <2> QED
    BY <1>1, <2>1, CreateUserKeeps, AccessOnce
<1>2. ASSUME NEW u \in Users, NEW e, NEW status \in {"ACTIVE", "INACTIVE"}, UpdateUser(u, e, status)
      PROVE  AccessInv'
  <2>1. AtOnce("account")
    BY <1>2 DEF UpdateUser
  <2> QED
    BY <1>2, <2>1, UpdateUserKeeps, AccessOnce
<1>3. ASSUME NEW u \in Users, ClearEmployee(u) PROVE AccessInv'
  <2>1. AtOnce("link") /\ UNCHANGED accessTables
    BY <1>3 DEF ClearEmployee
  <2> QED
    BY <2>1, AccountsKept, AccessOnce
<1>4. ASSUME NEW u \in Users, RemoveUser(u) PROVE AccessInv'
  <2>1. AtOnce("account")
    BY <1>4 DEF RemoveUser
  <2> QED
    BY <1>4, <2>1, RemoveUserKeeps, AccessOnce
<1>5. ASSUME NEW r \in Clients, NEW u \in Users, NEW gs \in SUBSET Roles, AssignRolesRead(r, u, gs)
      PROVE  AccessInv'
  <2> DEFINE q == [pc |-> "assign", user |-> u, roles |-> gs, old |-> RolesOf(u)]
  <2>1. Goes(r, q) /\ r \in scenario.clients /\ "assign" \in scenario.calls
    BY <1>5 DEF AssignRolesRead, Starts
  <2>2. ~OneByOne
    BY <2>1 DEF OneByOne
  <2> HIDE DEF q
  <2> QED
    BY <2>1, <2>2, AccessGoes
<1>6. ASSUME NEW r \in Clients, NEW u \in Users, NEW e \in Employees, SetEmployeeRead(r, u, e)
      PROVE  AccessInv'
  <2> DEFINE q == [pc |-> "link", user |-> u, employee |-> e]
  <2>1. Goes(r, q) /\ r \in scenario.clients /\ request[r].pc # "sessions" /\ UNCHANGED accessTables
    BY <1>6 DEF SetEmployeeRead, Starts, Idle
  <2>2. AccessKnows(q)'
    BY DEF AccessKnows
  <2> HIDE DEF q
  <2> QED
    BY <2>1, <2>2, AccessNow, AccountsKept, AccessGoes
<1>7. ASSUME NEW r \in Clients, AssignRolesCommit(r) PROVE AccessInv'
  <2>1. Ends(r) /\ request[r].pc = "assign"
    BY <1>7 DEF AssignRolesCommit, At
  <2>2. r \in scenario.clients
    BY <2>1 DEF AccessInv, Busy
  <2>3. ~OneByOne
    BY <2>1 DEF AccessInv, AccessKnows
  <2> QED
    BY <2>1, <2>2, <2>3, AccessGoes DEF Ends
<1>8. ASSUME NEW r \in Clients, SetEmployeeCommit(r) PROVE AccessInv'
  <2>1. Ends(r) /\ request[r].pc = "link" /\ UNCHANGED accessTables
    BY <1>8 DEF SetEmployeeCommit, At
  <2>2. r \in scenario.clients
    BY <2>1 DEF AccessInv, Busy
  <2>3. OneByOne => Accounts' /\ AllFollow'
    BY <2>1, <2>2, AccessNow, AccountsKept
  <2> QED
    BY <2>1, <2>2, <2>3, IdleAccess, AccessGoes DEF Ends
<1> QED
  BY <1>1, <1>2, <1>3, <1>4, <1>5, <1>6, <1>7, <1>8 DEF AccountStep

LEMMA RoleStepKeeps == AccessInv /\ RoleStep => AccessInv'
<1> SUFFICES ASSUME AccessInv, RoleStep PROVE AccessInv'
  OBVIOUS
<1>1. ASSUME NEW g \in Roles, CreateRole(g) PROVE AccessInv'
  <2>1. AtOnce("role")
    BY <1>1 DEF CreateRole
  <2> QED
    BY <1>1, <2>1, CreateRoleKeeps, AccessOnce
<1>2. ASSUME NEW r \in Clients, NEW g \in Roles, DeleteRoleRead(r, g) PROVE AccessInv'
  <2> DEFINE q == [pc |-> "deleteRole", role |-> g]
  <2>1. /\ Goes(r, q) /\ r \in scenario.clients /\ request[r].pc # "sessions"
        /\ UNCHANGED accessTables /\ UsersOf(g) = {}
    BY <1>2 DEF DeleteRoleRead, Starts, Idle
  <2>2. AccessKnows(q)
    BY <2>1 DEF AccessKnows
  <2> HIDE DEF q
  <2> QED
    BY <2>1, <2>2, AccessNow, AccountsKept, AccessGoes
<1>3. ASSUME NEW r \in Clients, NEW g \in Roles, NEW ps \in SUBSET Permissions,
             UpdatePermissionsRead(r, g, ps)
      PROVE  AccessInv'
  <2> DEFINE q == [pc |-> "permissions", role |-> g, perms |-> ps, users |-> Affected(g)]
  <2>1. /\ Goes(r, q) /\ r \in scenario.clients /\ request[r].pc # "sessions"
        /\ UNCHANGED accessTables
    BY <1>3 DEF UpdatePermissionsRead, Starts, Idle
  <2>2. AccessKnows(q)
    BY DEF AccessKnows, Affected
  <2> HIDE DEF q
  <2> QED
    BY <2>1, <2>2, AccessNow, AccountsKept, AccessGoes
<1>4. ASSUME NEW r \in Clients, DeleteRoleCommit(r) PROVE AccessInv'
  <2>1. Ends(r) /\ request[r].pc = "deleteRole"
    BY <1>4 DEF DeleteRoleCommit, At
  <2>2. r \in scenario.clients
    BY <2>1 DEF AccessInv, Busy
  <2>3. OneByOne => Accounts' /\ AllFollow'
    BY <1>4, <2>1, <2>2, AccessNow, DeleteRoleKeeps
  <2> QED
    BY <2>1, <2>2, <2>3, IdleAccess, AccessGoes DEF Ends
<1>5. ASSUME NEW r \in Clients, UpdatePermissionsCommit(r) PROVE AccessInv'
  <2> DEFINE q == [pc |-> "sessions", users |-> request[r].users]
  <2>1. Goes(r, q) /\ request[r].pc = "permissions"
    BY <1>5 DEF UpdatePermissionsCommit, At
  <2>2. r \in scenario.clients
    BY <2>1 DEF AccessInv, Busy
  <2>3. ASSUME OneByOne
        PROVE  Accounts' /\ \A s \in Sessions : Follows(s)' \/ session'[s].user \in request[r].users
    BY <1>5, <2>1, <2>2, <2>3, AccessNow, UpdatePermissionsKeeps
  <2>4. PICK us : us = request[r].users
    OBVIOUS
  <2>5. Goes(r, [pc |-> "sessions", users |-> us])
    BY <2>1, <2>4
  <2>6. OneByOne => AccessKnows([pc |-> "sessions", users |-> us])'
    BY <2>3, <2>4 DEF AccessKnows
  <2> QED
    BY <2>2, <2>3, <2>5, <2>6, AccessGoes
<1>6. ASSUME NEW r \in Clients, DeleteSessions(r) PROVE AccessInv'
  <2>1. /\ Ends(r) /\ request[r].pc = "sessions" /\ account' = account /\ role' = role /\ binding' = binding
        /\ session' = [s \in Sessions |->
                IF session[s].user \in request[r].users THEN NoSession ELSE session[s]]
    BY <1>6 DEF DeleteSessions, At
  <2>2. r \in scenario.clients
    BY <2>1 DEF AccessInv, Busy
  <2>3. ASSUME OneByOne PROVE Accounts' /\ AllFollow'
    <3>1. Accounts /\ AccessKnows(request[r])
      BY <2>2, <2>3, AccessNow
    <3>2. Accounts'
      BY <2>1, <3>1 DEF Accounts, RoleExists
    <3>3. ASSUME NEW s \in Sessions PROVE Follows(s)'
      <4>1. CASE session[s].user \in request[r].users
        BY <2>1, <4>1 DEF Follows, NoSession
      <4>2. CASE session[s].user \notin request[r].users
        <5>1. Follows(s) /\ session'[s] = session[s]
          BY <2>1, <3>1, <4>2 DEF AccessKnows
        <5> QED
          BY <2>1, <5>1, FollowKept DEF Granted, RolesOf, AccountExists
      <4> QED
        BY <4>1, <4>2
    <3> QED
      BY <3>2, <3>3 DEF AllFollow
  <2> QED
    BY <2>1, <2>2, <2>3, IdleAccess, AccessGoes DEF Ends
<1> QED
  BY <1>1, <1>2, <1>3, <1>4, <1>5, <1>6 DEF RoleStep

LEMMA SessionStepKeeps == AccessInv /\ SessionStep => AccessInv'
<1> SUFFICES ASSUME AccessInv, SessionStep PROVE AccessInv'
  OBVIOUS
<1>a. ASSUME Accounts, account' = account, role' = role, binding' = binding, DOMAIN session' = Sessions
      PROVE  Accounts'
  BY <1>a DEF Accounts, RoleExists
<1>b. ASSUME account' = account, role' = role, binding' = binding, NEW s, Follows(s),
             session'[s] = session[s] \/ session'[s].auth = None
      PROVE  Follows(s)'
  BY <1>b DEF Follows, Granted, RolesOf, AccountExists
<1>1. ASSUME NEW s \in Sessions, Logout(s) PROVE AccessInv'
  <2>1. /\ AtOnce("logout") /\ account' = account /\ role' = role /\ binding' = binding
        /\ session' = [session EXCEPT ![s] = NoSession]
    BY <1>1 DEF Logout
  <2>2. ASSUME OneByOne, Accounts, AllFollow PROVE Accounts' /\ AllFollow'
    <3>1. Accounts'
      BY <1>a, <2>1, <2>2 DEF Accounts
    <3>2. ASSUME NEW z \in Sessions PROVE Follows(z)'
      BY <1>b, <2>1, <2>2, <3>2 DEF Accounts, AllFollow, NoSession
    <3> QED
      BY <3>1, <3>2 DEF AllFollow
  <2> QED
    BY <2>1, <2>2, AccessOnce
<1>2. ASSUME NEW r \in Clients, NEW s \in Sessions, NEW u \in Users, Login(r, s, u) PROVE AccessInv'
  <2> DEFINE q == [pc |-> "build", session |-> s, user |-> u]
  <2>1. /\ Goes(r, q) /\ r \in scenario.clients /\ request[r].pc # "sessions"
        /\ account' = account /\ role' = role /\ binding' = binding
        /\ session[s] = NoSession /\ session' = [session EXCEPT ![s].user = u]
    BY <1>2 DEF Login, Starts, Idle
  <2>2. AccessKnows(q)' /\ q.pc # "sessions"
    BY DEF AccessKnows
  <2>3. ASSUME OneByOne PROVE Accounts' /\ AllFollow'
    <3>1. Accounts /\ AllFollow
      BY <2>1, <2>3, AccessNow
    <3>2. Accounts'
      BY <1>a, <2>1, <3>1 DEF Accounts
    <3>3. \A z \in Sessions : session'[z] = session[z] \/ session'[z].auth = None
      BY <2>1, <3>1 DEF Accounts, NoSession
    <3> QED
      BY <1>b, <2>1, <3>1, <3>2, <3>3 DEF AllFollow
  <2> HIDE DEF q
  <2> QED
    BY <2>1, <2>2, <2>3, AccessGoes
<1>3. ASSUME NEW r \in Clients, BuildAuthSession(r) PROVE AccessInv'
  <2>1. request[r].pc = "build" /\ UNCHANGED accessTables
    BY <1>3 DEF BuildAuthSession, At
  <2>2. r \in scenario.clients
    BY <2>1 DEF AccessInv, Busy
  <2>3. OneByOne => Accounts' /\ AllFollow' /\ Accounts /\ AccessKnows(request[r])
    BY <2>1, <2>2, AccessNow, AccountsKept
  <2>4. PICK u, s : u = request[r].user /\ s = request[r].session
    OBVIOUS
  <2>5. PICK ps : ps = Granted(u)
    OBVIOUS
  <2>6. ASSUME account[u] = "ACTIVE", Goes(r, [pc |-> "save", session |-> s, user |-> u, perms |-> ps])
        PROVE  AccessInv'
    <3> DEFINE q == [pc |-> "save", session |-> s, user |-> u, perms |-> ps]
    <3>1. OneByOne => AccessKnows(q)
      BY <2>1, <2>3, <2>4, <2>5, <2>6 DEF AccessKnows
    <3>2. Goes(r, q)
      BY <2>6
    <3> HIDE DEF q
    <3> QED
      BY <2>1, <2>2, <2>3, <3>1, <3>2, AccountsKept, AccessGoes
  <2>7. CASE Ends(r)
    BY <2>2, <2>3, <2>7, IdleAccess, AccessGoes DEF Ends
  <2> QED
    BY <1>3, <2>4, <2>5, <2>6, <2>7 DEF BuildAuthSession
<1>4. ASSUME NEW r \in Clients, SaveSession(r) PROVE AccessInv'
  <2>1. /\ Ends(r) /\ request[r].pc = "save" /\ account' = account /\ role' = role /\ binding' = binding
        /\ session' = [session EXCEPT ![request[r].session]
                                        = [user |-> request[r].user, auth |-> request[r].perms]]
    BY <1>4 DEF SaveSession, At
  <2>2. r \in scenario.clients
    BY <2>1 DEF AccessInv, Busy
  <2>3. ASSUME OneByOne PROVE Accounts' /\ AllFollow'
    <3>1. Accounts /\ AllFollow /\ AccessKnows(request[r])
      BY <2>1, <2>2, <2>3, AccessNow
    <3>2. Accounts'
      BY <1>a, <2>1, <3>1 DEF Accounts
    <3>3. \A v : Granted(v)' = Granted(v) /\ AccountExists(v)' = AccountExists(v)
      BY <2>1 DEF Granted, RolesOf, AccountExists
    <3>4. ASSUME NEW z \in Sessions PROVE Follows(z)'
      <4>1. CASE z = request[r].session
        BY <2>1, <3>1, <3>3, <4>1 DEF Accounts, AccessKnows, Follows
      <4>2. CASE z # request[r].session
        BY <1>b, <2>1, <3>1, <4>2 DEF AllFollow, Accounts
      <4> QED
        BY <4>1, <4>2
    <3> QED
      BY <3>2, <3>4 DEF AllFollow
  <2> QED
    BY <2>1, <2>2, <2>3, IdleAccess, AccessGoes DEF Ends
<1> QED
  BY <1>1, <1>2, <1>3, <1>4 DEF SessionStep

LEMMA AbortAccessKeeps == ASSUME AccessInv, NEW r \in Clients, AbortAccess(r) PROVE AccessInv'
<1>1. /\ Ends(r) /\ request[r].pc # "idle" /\ UNCHANGED accessTables
      /\ request[r].pc = "sessions" => ~OneByOne
  BY DEF AbortAccess, Abort, AccessPcs, At, OneByOne
<1>2. r \in scenario.clients
  BY <1>1 DEF AccessInv, Busy
<1>3. OneByOne => Accounts' /\ AllFollow'
  BY <1>1, <1>2, AccessNow, AccountsKept
<1> QED
  BY <1>1, <1>2, <1>3, IdleAccess, AccessGoes DEF Ends

\* Departments and employees are other tables.
LEMMA OrgKeepsAccess == AccessInv /\ OrgNext /\ UNCHANGED accessTables => AccessInv'
<1> SUFFICES ASSUME AccessInv, OrgNext, UNCHANGED accessTables PROVE AccessInv'
  OBVIOUS
<1>1. ASSUME NEW call, AtOnce(call) PROVE AccessInv'
  BY <1>1, AccountsKept, AccessOnce
<1>2. ASSUME NEW r \in Clients, NEW q, Starts(r, "department"), Goes(r, q), q.pc \in {"move", "remove"}
      PROVE  AccessInv'
  <2>1. r \in scenario.clients /\ request[r].pc # "sessions"
    BY <1>2 DEF Starts, Idle
  <2>2. AccessKnows(q)
    BY <1>2 DEF AccessKnows
  <2> QED
    BY <1>2, <2>1, <2>2, AccessNow, AccountsKept, AccessGoes
<1>3. ASSUME NEW r \in Clients, Ends(r), request[r].pc \in {"move", "remove"} PROVE AccessInv'
  <2>1. r \in scenario.clients
    BY <1>3 DEF AccessInv, Busy
  <2>2. OneByOne => Accounts' /\ AllFollow'
    BY <1>3, <2>1, AccessNow, AccountsKept
  <2> QED
    BY <1>3, <2>1, <2>2, IdleAccess, AccessGoes DEF Ends
<1>4. CASE EmployeeStep
  BY <1>1, <1>4 DEF EmployeeStep, CreateEmployee, UpdateEmployee, DeleteEmployees
<1>5. CASE DepartmentStep
  <2>1. ASSUME NEW d, NEW type, NEW p, CreateDepartment(d, type, p) PROVE AccessInv'
    BY <1>1, <2>1 DEF CreateDepartment
  <2>2. ASSUME NEW d, NEW type, RetypeDepartment(d, type) PROVE AccessInv'
    BY <1>1, <2>2 DEF RetypeDepartment
  <2>3. ASSUME NEW r \in Clients, NEW d, NEW p, MoveDepartmentRead(r, d, p) PROVE AccessInv'
    BY <1>2, <2>3 DEF MoveDepartmentRead
  <2>4. ASSUME NEW r \in Clients, NEW d, RemoveDepartmentRead(r, d) PROVE AccessInv'
    BY <1>2, <2>4 DEF RemoveDepartmentRead
  <2>5. ASSUME NEW r \in Clients, MoveDepartmentWrite(r) \/ RemoveDepartmentWrite(r) \/ AbortOrg(r)
        PROVE  AccessInv'
    BY <1>3, <2>5 DEF MoveDepartmentWrite, RemoveDepartmentWrite, AbortOrg, Abort, At
  <2> QED
    BY <1>5, <2>1, <2>2, <2>3, <2>4, <2>5 DEF DepartmentStep
<1> QED
  BY <1>4, <1>5 DEF OrgNext

\* A session of whoever is logged in carries what the roles grant now, whatever is done to accounts,
\* roles, permissions and sessions, when the calls come one after another (SessionsFollowRoles).
THEOREM SessionsFollowCorrect == AccessSpec => []SessionsFollowRoles
<1>1. AccessInit => AccessInv
  BY AccessInvInit
<1>2. AccessInv /\ [AccessNext]_accessVars => AccessInv'
  <2>1. ASSUME AccessInv, UNCHANGED accessVars PROVE AccessInv'
    <3>1. scenario' = scenario /\ request' = request /\ UNCHANGED accessTables
      BY <2>1 DEF accessVars, requestVars
    <3>2. Busy' /\ (OneByOne' <=> OneByOne)
      BY <2>1, <3>1 DEF AccessInv, OneByOne, Alone, Busy
    <3>3. OneByOne => Accounts' /\ \A r \in Clients : AccessKnows(request[r])'
      BY <2>1, <3>1, AccountsKept DEF AccessInv
    <3>4. OneByOne /\ (\A r \in Clients : request'[r].pc # "sessions") => AllFollow'
      BY <2>1, <3>1, AccountsKept DEF AccessInv
    <3> QED
      BY <3>2, <3>3, <3>4 DEF AccessInv
  <2> QED
    BY <2>1, AccountStepKeeps, RoleStepKeeps, SessionStepKeeps, AbortAccessKeeps, OrgKeepsAccess
       DEF AccessNext, AccessStep
<1>3. AccessInv => SessionsFollowRoles
  <2> SUFFICES ASSUME AccessInv, OneByOne, Quiet, NEW s \in Sessions, session[s].auth # None,
                      AccountExists(session[s].user)
               PROVE  session[s].auth = Granted(session[s].user)
    BY DEF SessionsFollowRoles, OneByOne
  <2>1. \A r \in Clients : request[r].pc # "sessions"
    BY DEF Quiet, Idle
  <2> QED
    BY <2>1 DEF AccessInv, AllFollow, Follows
<1> QED
  BY <1>1, <1>2, <1>3, PTL DEF AccessSpec

-----------------------------------------------------------------------------
(* Bank statements.                                                         *)
HIDE AccessAssumption
USE BankStatementsAssumption

NoRemovals == "removeTxn" \notin scenario.calls
ImportRow == [status : ImportStatus \cup {"ABSENT"}, imported : Nat, duplicated : Nat]
BatchRow(f) == [pc : {"importBatch"}, file : {f}, todo : SUBSET ReadableRows(f), imported : Nat, duplicated : Nat]
RowStored(f, i) == Taken(RowsOf[f][i], StoredRows)

\* An import has stored, or found stored, all rows but those it has still to insert, and counted them.
StatementKnows(q) ==
    /\ q.pc \in {"importCreate", "importRead", "importBatch", "processSync"} => q.file \in Files
    /\ q.pc = "importBatch" =>
        /\ q \in BatchRow(q.file)
        /\ q.imported + q.duplicated + Cardinality(q.todo) = Cardinality(ReadableRows(q.file))
        /\ \A i \in ReadableRows(q.file) \ q.todo : RowStored(q.file, i)
StatementTables ==
    /\ imports \in [Files -> ImportRow]
    /\ \A f \in Files : imports[f].status = "DONE" =>
        /\ imports[f].imported + imports[f].duplicated = Cardinality(ReadableRows(f))
        /\ \A i \in ReadableRows(f) : RowStored(f, i)
StatementInv ==
    /\ Busy
    /\ NoRemovals => StatementTables /\ \A r \in Clients : StatementKnows(request[r])

\* What a request alone knows beside: what came with its statement.
PostedOf(f) == {p \in posted : p[2] = f}
PostedCount(f, n) == IsFiniteSet(PostedOf(f)) /\ Cardinality(PostedOf(f)) = n
NoRepeats(f) == \A i, j \in ReadableRows(f) : Taken(RowsOf[f][i], {RowsOf[f][j]}) => i = j
CountKnows(q) ==
    /\ q.pc = "importRead" => imports[q.file].status = "PROCESSING" /\ PostedOf(q.file) = {}
    /\ q.pc = "importBatch" =>
        /\ imports[q.file].status = "PROCESSING"
        /\ NoRepeats(q.file) => PostedCount(q.file, q.imported) /\ \A i \in q.todo : ~RowStored(q.file, i)
CountTables ==
    \A f \in Files :
        /\ ~Known(f) => PostedOf(f) = {}
        /\ imports[f].status = "DONE" /\ NoRepeats(f) => PostedCount(f, imports[f].imported)
CountInv == Alone /\ NoRemovals => CountTables /\ \A r \in Clients : CountKnows(request[r])

-----------------------------------------------------------------------------
LEMMA TakenMore == ASSUME NEW row, NEW R, NEW S, R \subseteq S, Taken(row, R) PROVE Taken(row, S)
  BY DEF Taken

LEMMA TakenBy == ASSUME NEW row, NEW q, NEW S, Taken(row, {q}), Taken(q, S) PROVE Taken(row, S)
  BY DEF Taken

LEMMA TakenOne == ASSUME NEW row, NEW R, NEW S, Taken(row, R \cup S)
                  PROVE  Taken(row, R) \/ \E q \in S : Taken(row, {q})
  BY DEF Taken

LEMMA Places ==
  ASSUME NEW f \in Files
  PROVE  /\ \E n \in Nat : ReadableRows(f) \subseteq 0 .. n
         /\ IsFiniteSet(ReadableRows(f))
         /\ \A chunk \in SUBSET ReadableRows(f) :
                /\ IsFiniteSet(chunk) /\ Cardinality(chunk) \in Nat
                /\ Cardinality(chunk) <= Cardinality(ReadableRows(f))
<1>1. Len(RowsOf[f]) \in Nat /\ DOMAIN RowsOf[f] = 1 .. Len(RowsOf[f])
  OBVIOUS
<1>2. IsFiniteSet(1 .. Len(RowsOf[f]))
  BY <1>1, FS_Interval
<1>3. ReadableRows(f) \subseteq 1 .. Len(RowsOf[f])
  BY <1>1 DEF ReadableRows
<1>4. IsFiniteSet(ReadableRows(f))
  BY <1>2, <1>3, FS_Subset
<1> QED
  BY <1>3, <1>4, FS_Subset, FS_CardinalityType

\* Afterwards every row of the chunk is there, or one that it clashes with.
LEMMA InsertedAreTaken ==
  ASSUME NEW f \in Files, NEW chunk \in SUBSET ReadableRows(f), NEW i \in chunk
  PROVE  Taken(RowsOf[f][i], StoredRows \cup Inserted(f, chunk))
<1> DEFINE S == StoredRows \cup Inserted(f, chunk)
           T == {k \in chunk : ~Taken(RowsOf[f][k], S)}
<1> SUFFICES ASSUME T # {} PROVE FALSE
  OBVIOUS
<1>1. PICK n \in Nat : ReadableRows(f) \subseteq 0 .. n
  BY Places
<1>a. T \subseteq 0 .. n /\ T \subseteq Int
  BY <1>1
<1>2. PICK j \in T : \A k \in T : j <= k
  <2> HIDE DEF T
  <2> QED
    BY <1>a, Smallest
<1> DEFINE earlier == {RowsOf[f][k] : k \in {l \in chunk : l < j}}
<1>3. CASE Taken(RowsOf[f][j], StoredRows \cup earlier)
  <2>1. CASE Taken(RowsOf[f][j], StoredRows)
    BY <1>2, <2>1, TakenMore
  <2>2. ASSUME NEW k \in chunk, k < j, Taken(RowsOf[f][j], {RowsOf[f][k]}) PROVE FALSE
    <3>1. k \notin T
      <4> HIDE DEF T
      <4> SUFFICES ASSUME k \in T PROVE FALSE
        OBVIOUS
      <4>2. j \in Int /\ k \in Int /\ j <= k
        BY <1>a, <1>2
      <4> QED
        BY <2>2, <4>2
    <3>2. Taken(RowsOf[f][k], S) /\ ~Taken(RowsOf[f][j], S)
      BY <1>2, <3>1
    <3> HIDE DEF S, T
    <3> QED
      BY <2>2, <3>2 DEF Taken
  <2>3. ASSUME ~Taken(RowsOf[f][j], StoredRows) PROVE \E q \in earlier : Taken(RowsOf[f][j], {q})
    <3> HIDE DEF S, T, earlier
    <3> QED
      BY <1>3, <2>3, TakenOne
  <2> QED
    BY <2>1, <2>2, <2>3
<1>4. CASE ~Taken(RowsOf[f][j], StoredRows \cup earlier)
  <2>1. RowsOf[f][j] \in S
    BY <1>2, <1>4 DEF Inserted
  <2> QED
    BY <1>2, <2>1 DEF Taken
<1> QED
  BY <1>3, <1>4

\* Tables that only gain rows.
Gains == StoredRows \subseteq StoredRows'

LEMMA StoredStays ==
  ASSUME Gains, NEW f, NEW i, RowStored(f, i)
  PROVE  RowStored(f, i)'
  BY TakenMore DEF Gains, RowStored

LEMMA KnowsStays ==
  ASSUME Gains, NEW q, StatementKnows(q)
  PROVE  StatementKnows(q)'
  BY StoredStays DEF StatementKnows, BatchRow

LEMMA StatementGoes ==
  ASSUME StatementInv, NEW r \in Clients, r \in scenario.clients, NEW q, Goes(r, q),
         NoRemovals => StatementTables' /\ StatementKnows(q)' /\ Gains
  PROVE  StatementInv'
<1>1. Busy' /\ (NoRemovals' <=> NoRemovals)
  BY BusyGoes DEF StatementInv, Goes, NoRemovals
<1>2. ASSUME NoRemovals, NEW s \in Clients PROVE StatementKnows(request[s])'
  <2>1. CASE s = r
    BY <1>2, <2>1, GoesTo DEF StatementInv, Busy
  <2>2. CASE s # r
    <3>1. PICK p : p = request[s]
      OBVIOUS
    <3>2. StatementKnows(p)'
      BY <1>2, <3>1, KnowsStays DEF StatementInv
    <3>3. request'[s] = p
      BY <2>2, <3>1, GoesTo DEF StatementInv, Busy
    <3> QED
      BY <3>2, <3>3
  <2> QED
    BY <2>1, <2>2
<1> QED
  BY <1>1, <1>2 DEF StatementInv

LEMMA SameRows ==
  ASSUME posted' = posted
  PROVE  Gains /\ StoredRows' = StoredRows
  BY DEF Gains, StoredRows

\* A step that reads, or ends without a result.
LEMMA SameStatements ==
  ASSUME statementTables' = statementTables
  PROVE  Gains /\ (StatementTables => StatementTables')
<1>1. imports' = imports /\ posted' = posted
  BY DEF statementTables
<1> QED
  BY <1>1, SameRows DEF StatementTables, RowStored

LEMMA IdleStatement == StatementKnows(Idle)'
  BY DEF StatementKnows, Idle

\* One import is set to what is no promise.
LEMMA StatusSet ==
  ASSUME StatementTables, NEW f \in Files, NEW row \in ImportRow, row.status # "DONE",
         imports' = [imports EXCEPT ![f] = row], posted' = posted
  PROVE  StatementTables' /\ Gains
<1>1. \A g \in Files \ {f} : imports'[g] = imports[g]
  BY DEF StatementTables
<1>2. imports' \in [Files -> ImportRow] /\ imports'[f] = row
  BY DEF StatementTables
<1> QED
  BY <1>1, <1>2, SameRows DEF StatementTables, RowStored

LEMMA BatchRows ==
  ASSUME NEW f \in Files, NEW todo \in SUBSET ReadableRows(f)
  PROVE  /\ Chunk(todo) \in SUBSET ReadableRows(f) /\ Chunk(todo) \subseteq todo
         /\ Cardinality(todo \ Chunk(todo)) = Cardinality(todo) - Cardinality(Chunk(todo))
<1>1. Chunk(todo) \subseteq todo
  BY DEF Chunk
<1>2. IsFiniteSet(todo)
  BY Places
<1>3. Cardinality(todo \ Chunk(todo)) = Cardinality(todo) - Cardinality(todo \cap Chunk(todo))
  BY <1>2, FS_Difference
<1>4. todo \cap Chunk(todo) = Chunk(todo)
  BY <1>1
<1>5. Chunk(todo) \in SUBSET ReadableRows(f)
  BY <1>1
<1> HIDE DEF Chunk
<1> QED
  BY <1>1, <1>3, <1>4, <1>5

Edited(q, p, todo, n) == q = [p EXCEPT !.todo = todo, !.imported = n]
LEMMA BatchEdit ==
  ASSUME NEW f, NEW p \in BatchRow(f), NEW todo \in SUBSET ReadableRows(f), NEW n \in Nat,
         NEW q, Edited(q, p, todo, n)
  PROVE  /\ q \in BatchRow(f) /\ q.pc = "importBatch" /\ q.file = f /\ q.todo = todo
         /\ q.imported = n /\ q.duplicated = p.duplicated
  BY DEF BatchRow, Edited

LEMMA BatchStores ==
  ASSUME NEW f \in Files, NEW chunk \in SUBSET ReadableRows(f), posted' = posted \cup (Inserted(f, chunk) \X {f})
  PROVE  /\ StoredRows' = StoredRows \cup Inserted(f, chunk)
         /\ Gains /\ \A i \in chunk : RowStored(f, i)'
<1>1. StoredRows' = StoredRows \cup Inserted(f, chunk)
  <2>1. ASSUME NEW x \in Inserted(f, chunk) PROVE x \in StoredRows'
    <3>1. <<x, f>> \in posted' /\ <<x, f>>[1] = x
      BY <2>1
    <3> QED
      BY <3>1 DEF StoredRows
  <2>2. StoredRows \subseteq StoredRows'
    BY DEF StoredRows
  <2>3. \A p \in posted' : p \in posted \/ p[1] \in Inserted(f, chunk)
    OBVIOUS
  <2> QED
    BY <2>1, <2>2, <2>3 DEF StoredRows
<1> QED
  BY <1>1, InsertedAreTaken DEF Gains, RowStored

LEMMA StatementStepKeeps ==
  ASSUME StatementInv, StatementStep
  PROVE  StatementInv'
<1>1. ASSUME NEW r \in Clients, NEW q, Goes(r, q), statementTables' = statementTables, r \in scenario.clients,
             NoRemovals => StatementKnows(q)
      PROVE  StatementInv'
  BY <1>1, SameStatements, KnowsStays, StatementGoes DEF StatementInv
<1>2. ASSUME NEW r \in Clients, request[r].pc # "idle" PROVE r \in scenario.clients
  BY <1>2 DEF StatementInv, Busy
<1>3. ASSUME NEW row \in Rows, RemovePosted(row) PROVE StatementInv'
  BY <1>3 DEF RemovePosted, AtOnce, Starts, requestVars, StatementInv, NoRemovals, Busy
<1>4. ASSUME NEW r \in Clients, NEW f \in Files, ImportLookup(r, f) PROVE StatementInv'
  <2>1. Goes(r, [pc |-> "importCreate", file |-> f]) /\ r \in scenario.clients /\ statementTables' = statementTables
    BY <1>4 DEF ImportLookup, Starts
  <2>2. StatementKnows([pc |-> "importCreate", file |-> f])
    BY DEF StatementKnows
  <2> QED
    BY <1>1, <2>1, <2>2
<1>5. ASSUME NEW r \in Clients, AbortImport(r) PROVE StatementInv'
  <2>1. request[r].pc # "idle" /\ Goes(r, Idle) /\ statementTables' = statementTables
    BY <1>5 DEF AbortImport, Abort, Ends
  <2>2. StatementKnows(Idle)
    BY DEF StatementKnows, Idle
  <2> QED
    BY <1>1, <1>2, <2>1, <2>2
<1>6. ASSUME NEW r \in Clients, ImportCreate(r) PROVE StatementInv'
  <2>1. PICK f : f = request[r].file
    OBVIOUS
  <2> DEFINE q == [pc |-> "importRead", file |-> f]
             row == [status |-> "PROCESSING", imported |-> 0, duplicated |-> 0]
  <2>2. /\ request[r].pc = "importCreate" /\ Goes(r, q)
        /\ imports' = [imports EXCEPT ![f] = row] /\ posted' = posted
    BY <1>6, <2>1 DEF ImportCreate, At
  <2>3. ASSUME NoRemovals PROVE StatementTables' /\ Gains /\ StatementKnows(q)'
    <3>1. f \in Files /\ StatementTables
      BY <2>1, <2>2, <2>3 DEF StatementInv, StatementKnows
    <3>2. row \in ImportRow /\ row.status # "DONE"
      BY DEF ImportRow, ImportStatus
    <3>3. StatementKnows(q)'
      BY <3>1 DEF StatementKnows
    <3> HIDE DEF row, q
    <3> QED
      BY <2>2, <3>1, <3>2, <3>3, StatusSet
  <2> HIDE DEF q
  <2> QED
    BY <1>2, <2>2, <2>3, StatementGoes
<1>7. ASSUME NEW r \in Clients, ImportRead(r) PROVE StatementInv'
  <2>1. PICK f, todo : f = request[r].file /\ todo = ToInsert(f)
    OBVIOUS
  <2> DEFINE q == [pc |-> "importBatch", file |-> f, todo |-> todo, imported |-> 0,
                   duplicated |-> Cardinality(ReadableRows(f)) - Cardinality(todo)]
  <2>2. request[r].pc = "importRead" /\ Goes(r, q) /\ statementTables' = statementTables
    BY <1>7, <2>1 DEF ImportRead, At
  <2>3. ASSUME NoRemovals PROVE StatementKnows(q)
    <3>1. f \in Files
      BY <2>1, <2>2, <2>3 DEF StatementInv, StatementKnows
    <3>2. todo \in SUBSET ReadableRows(f) /\ \A i \in ReadableRows(f) \ todo : RowStored(f, i)
      BY <2>1 DEF ToInsert, IsDuplicate, RowStored
    <3>3. Cardinality(todo) \in Nat /\ Cardinality(ReadableRows(f)) \in Nat /\ Cardinality(todo) <= Cardinality(ReadableRows(f))
      BY <3>1, <3>2, Places
    <3>4. q \in BatchRow(f)
      BY <3>2, <3>3 DEF BatchRow
    <3> QED
      BY <3>1, <3>2, <3>3, <3>4 DEF StatementKnows
  <2> HIDE DEF q
  <2> QED
    BY <1>1, <1>2, <2>2, <2>3
<1>8. ASSUME NEW r \in Clients, ImportBatch(r) PROVE StatementInv'
  <2>1. PICK p, f, chunk : p = request[r] /\ f = p.file /\ chunk = Chunk(p.todo)
    OBVIOUS
  <2> DEFINE q == [p EXCEPT !.todo = @ \ chunk, !.imported = @ + Cardinality(chunk)]
  <2>2. /\ p.pc = "importBatch" /\ Goes(r, q) /\ imports' = imports
        /\ posted' = posted \cup (Inserted(f, chunk) \X {f})
    BY <1>8, <2>1 DEF ImportBatch, At
  <2>3. ASSUME NoRemovals PROVE StatementTables' /\ Gains /\ StatementKnows(q)'
    <3>1. f \in Files /\ StatementTables /\ StatementKnows(p) /\ p \in BatchRow(f)
      BY <2>1, <2>2, <2>3 DEF StatementInv, StatementKnows
    <3>2. chunk \in SUBSET ReadableRows(f) /\ chunk \subseteq p.todo
          /\ Cardinality(p.todo \ chunk) = Cardinality(p.todo) - Cardinality(chunk)
          /\ Cardinality(p.todo) \in Nat /\ Cardinality(chunk) \in Nat
      BY <2>1, <3>1, BatchRows, Places DEF BatchRow
    <3>3. Gains /\ \A i \in chunk : RowStored(f, i)'
      BY <2>2, <3>1, <3>2, BatchStores
    <3>4. StatementTables'
      BY <2>2, <3>1, <3>3, StoredStays DEF StatementTables
    <3>5. /\ q \in BatchRow(f) /\ q.pc = "importBatch" /\ q.file = f /\ q.todo = p.todo \ chunk
          /\ q.imported = p.imported + Cardinality(chunk) /\ q.duplicated = p.duplicated
      <4>1. p.todo \ chunk \in SUBSET ReadableRows(f) /\ p.imported + Cardinality(chunk) \in Nat
        BY <3>1, <3>2 DEF BatchRow
      <4>2. PICK todo, n : todo = p.todo \ chunk /\ n = p.imported + Cardinality(chunk)
        OBVIOUS
      <4>3. Edited(q, p, todo, n)
        BY <4>2 DEF Edited
      <4>4. p \in BatchRow(f) /\ todo \in SUBSET ReadableRows(f) /\ n \in Nat
        BY <3>1, <4>1, <4>2
      <4> HIDE DEF q
      <4>5. /\ q \in BatchRow(f) /\ q.pc = "importBatch" /\ q.file = f /\ q.todo = todo
            /\ q.imported = n /\ q.duplicated = p.duplicated
        BY <4>3, <4>4, BatchEdit
      <4> QED
        BY <4>2, <4>5
    <3> HIDE DEF q
    <3>6. q.imported + q.duplicated + Cardinality(q.todo) = Cardinality(ReadableRows(f))
      BY <2>1, <2>2, <3>1, <3>2, <3>5 DEF StatementKnows, BatchRow
    <3>7. \A i \in ReadableRows(f) \ q.todo : RowStored(f, i)'
      BY <2>1, <2>2, <3>1, <3>3, <3>5, StoredStays DEF StatementKnows
    <3>8. StatementKnows(q)'
      BY <3>1, <3>5, <3>6, <3>7 DEF StatementKnows, BatchRow
    <3> QED
      BY <3>3, <3>4, <3>8
  <2> HIDE DEF q
  <2> QED
    BY <1>2, <2>1, <2>2, <2>3, StatementGoes
<1>9. ASSUME NEW r \in Clients, ImportDone(r) PROVE StatementInv'
  <2>1. PICK p, f : p = request[r] /\ f = p.file
    OBVIOUS
  <2> DEFINE row == [status |-> "DONE", imported |-> p.imported, duplicated |-> p.duplicated]
  <2>2. /\ p.pc = "importBatch" /\ p.todo = {} /\ Ends(r)
        /\ imports' = [imports EXCEPT ![f] = row] /\ posted' = posted
    BY <1>9, <2>1 DEF ImportDone, At
  <2>3. ASSUME NoRemovals PROVE StatementTables'
    <3>1. f \in Files /\ StatementTables /\ StatementKnows(p) /\ p \in BatchRow(f)
      BY <2>1, <2>2, <2>3 DEF StatementInv, StatementKnows
    <3>2. row.imported + row.duplicated = Cardinality(ReadableRows(f)) /\ \A i \in ReadableRows(f) : RowStored(f, i)
      <4>1. Cardinality({}) = 0
        BY FS_EmptySet
      <4> QED
        BY <2>1, <2>2, <3>1, <4>1 DEF StatementKnows, BatchRow
    <3>3. row \in ImportRow
      BY <3>1 DEF ImportRow, ImportStatus, BatchRow
    <3> HIDE DEF row
    <3>4. imports' \in [Files -> ImportRow] /\ imports'[f] = row /\ \A g \in Files \ {f} : imports'[g] = imports[g]
      BY <2>2, <3>1, <3>3 DEF StatementTables
    <3> QED
      BY <2>2, <3>1, <3>2, <3>4, SameRows DEF StatementTables, RowStored
  <2> QED
    BY <1>2, <2>1, <2>2, <2>3, SameRows, IdleStatement, StatementGoes DEF Ends
<1>10. ASSUME NEW r \in Clients, ImportFailed(r) \/ ProcessSyncFails(r) PROVE StatementInv'
  <2>1. PICK f : f = request[r].file
    OBVIOUS
  <2>2. /\ request[r].pc \in {"importRead", "importBatch", "processSync"} /\ Ends(r)
        /\ imports' = [imports EXCEPT ![f].status = "FAILED"] /\ posted' = posted
    BY <1>10, <2>1 DEF ImportFailed, ProcessSyncFails, At
  <2>3. ASSUME NoRemovals PROVE StatementTables'
    <3>1. f \in Files /\ StatementTables
      BY <2>1, <2>2, <2>3 DEF StatementInv, StatementKnows
    <3>2. [imports[f] EXCEPT !.status = "FAILED"] \in ImportRow
          /\ [imports[f] EXCEPT !.status = "FAILED"].status = "FAILED"
      BY <3>1 DEF StatementTables, ImportRow, ImportStatus
    <3> QED
      BY <2>2, <3>1, <3>2, StatusSet
  <2> QED
    BY <1>2, <2>2, <2>3, SameRows, IdleStatement, StatementGoes DEF Ends
<1>11. ASSUME NEW r \in Clients, NEW f \in Files, ProcessSyncStart(r, f) PROVE StatementInv'
  <2> DEFINE q == [pc |-> "processSync", file |-> f]
  <2>1. /\ r \in scenario.clients /\ Goes(r, q)
        /\ imports' = [imports EXCEPT ![f].status = "PROCESSING"] /\ posted' = posted
    BY <1>11 DEF ProcessSyncStart, Starts
  <2>2. StatementKnows(q)'
    BY DEF StatementKnows
  <2>3. ASSUME StatementTables PROVE StatementTables'
    <3>1. [imports[f] EXCEPT !.status = "PROCESSING"] \in ImportRow
          /\ [imports[f] EXCEPT !.status = "PROCESSING"].status = "PROCESSING"
      BY <2>3 DEF StatementTables, ImportRow, ImportStatus
    <3> QED
      BY <2>1, <2>3, <3>1, StatusSet
  <2> HIDE DEF q
  <2> QED
    BY <2>1, <2>2, <2>3, SameRows, StatementGoes DEF StatementInv
<1> QED
  BY <1>3, <1>4, <1>5, <1>6, <1>7, <1>8, <1>9, <1>10, <1>11 DEF StatementStep

-----------------------------------------------------------------------------
\* The rows of a chunk that clash with nothing stored, of a statement that does not repeat itself,
\* are all inserted.
LEMMA AllInserted ==
  ASSUME NEW f \in Files, NEW todo \in SUBSET ReadableRows(f), NEW chunk \in SUBSET todo,
         NoRepeats(f), \A i \in todo : ~RowStored(f, i), NEW n, n \in Nat, PostedCount(f, n),
         posted' = posted \cup (Inserted(f, chunk) \X {f})
  PROVE  PostedCount(f, n + Cardinality(chunk))' /\ \A i \in todo \ chunk : ~RowStored(f, i)'
<1> DEFINE Row(i) == RowsOf[f][i]
           rows == {Row(i) : i \in chunk}
           new == {<<Row(i), f>> : i \in chunk}
<1>1. ASSUME NEW i \in todo, NEW R \in SUBSET rows, Taken(Row(i), StoredRows \cup R)
      PROVE  i \in chunk /\ Row(i) \in R
  <2>1. ~Taken(Row(i), StoredRows)
    BY DEF RowStored
  <2>2. PICK x \in R : Taken(Row(i), {x})
    <3> HIDE DEF rows
    <3> QED
      BY <1>1, <2>1, TakenOne
  <2>3. PICK k \in chunk : x = Row(k)
    OBVIOUS
  <2>4. i = k
    BY <2>2, <2>3 DEF NoRepeats
  <2> QED
    BY <2>3, <2>4
<1>2. Inserted(f, chunk) = rows
  <2>1. ASSUME NEW i \in chunk
        PROVE  ~Taken(Row(i), StoredRows \cup {Row(k) : k \in {l \in chunk : l < i}})
    <3> DEFINE R == {Row(k) : k \in {l \in chunk : l < i}}
    <3>1. R \in SUBSET rows
      OBVIOUS
    <3> SUFFICES ASSUME Taken(Row(i), StoredRows \cup R) PROVE FALSE
      OBVIOUS
    <3>2. Row(i) \in R
      <4> HIDE DEF R
      <4> QED
        BY <1>1, <3>1
    <3>3. PICK k \in chunk : k < i /\ Row(k) = Row(i)
      BY <3>2
    <3>4. Taken(Row(k), {Row(i)})
      BY <3>3 DEF Taken
    <3>5. k = i
      BY <3>4 DEF NoRepeats
    <3>6. i \in Nat
      BY Places
    <3> QED
      BY <3>3, <3>5, <3>6
  <2> QED
    BY <2>1 DEF Inserted
<1>3. StoredRows' = StoredRows \cup rows
  BY <1>2, BatchStores
<1>4. \A i \in todo \ chunk : ~RowStored(f, i)'
  <2> HIDE DEF rows
  <2> QED
    BY <1>1, <1>3 DEF RowStored
<1>5. PostedOf(f)' = PostedOf(f) \cup new
  <2>1. \A p \in new : p[2] = f
    OBVIOUS
  <2>2. rows \X {f} = new
    OBVIOUS
  <2> HIDE DEF new, rows
  <2> QED
    BY <1>2, <2>1, <2>2 DEF PostedOf
<1>6. PostedOf(f) \cap new = {}
  <2>1. ASSUME NEW i \in chunk, <<Row(i), f>> \in PostedOf(f) PROVE FALSE
    <3>1. Row(i) \in StoredRows
      <4>1. <<Row(i), f>> \in posted /\ <<Row(i), f>>[1] = Row(i)
        BY <2>1 DEF PostedOf
      <4> QED
        BY <4>1 DEF StoredRows
    <3> QED
      BY <3>1 DEF RowStored, Taken
  <2> QED
    BY <2>1
<1>7. IsFiniteSet(new) /\ Cardinality(new) = Cardinality(chunk)
  <2> DEFINE g == [i \in chunk |-> <<Row(i), f>>]
  <2>1. IsFiniteSet(chunk)
    BY Places
  <2>2. ASSUME NEW i \in chunk, NEW k \in chunk, <<Row(i), f>> = <<Row(k), f>> PROVE i = k
    <3>1. Taken(Row(i), {Row(k)})
      BY <2>2 DEF Taken
    <3> QED
      BY <3>1 DEF NoRepeats
  <2>3. g \in Bijection(chunk, new)
    <3>1. g \in [chunk -> new] /\ \A p \in new : \E i \in chunk : g[i] = p
      OBVIOUS
    <3>2. \A i, k \in chunk : g[i] = g[k] => i = k
      BY <2>2
    <3> HIDE DEF g, new
    <3> QED
      BY <3>1, <3>2 DEF Bijection, Injection, Surjection, IsInjective
  <2> HIDE DEF g, new
  <2> QED
    BY <2>1, <2>3, FS_Bijection DEF ExistsBijection
<1>8. Cardinality(PostedOf(f) \cup new) = n + Cardinality(chunk) /\ IsFiniteSet(PostedOf(f) \cup new)
  <2>1. IsFiniteSet(PostedOf(f)) /\ Cardinality(PostedOf(f)) = n
    BY DEF PostedCount
  <2>2. Cardinality(PostedOf(f) \cap new) = 0
    BY <1>6, FS_EmptySet
  <2>3. Cardinality(chunk) \in Nat
    BY Places
  <2> HIDE DEF new
  <2>4. /\ IsFiniteSet(PostedOf(f) \cup new)
        /\ Cardinality(PostedOf(f) \cup new) =
                Cardinality(PostedOf(f)) + Cardinality(new) - Cardinality(PostedOf(f) \cap new)
    BY <1>7, <2>1, FS_Union
  <2> QED
    BY <1>7, <2>1, <2>2, <2>3, <2>4
<1> QED
  BY <1>4, <1>5, <1>8 DEF PostedCount

LEMMA CountGoes ==
  ASSUME StatementInv, CountInv, NEW r \in Clients, r \in scenario.clients, NEW q, Goes(r, q),
         Alone /\ NoRemovals => CountTables' /\ CountKnows(q)'
  PROVE  CountInv'
<1>1. (Alone' <=> Alone) /\ (NoRemovals' <=> NoRemovals)
  BY DEF Goes, Alone, NoRemovals
<1>2. ASSUME Alone, NoRemovals, NEW s \in Clients PROVE CountKnows(request[s])'
  <2>1. CASE s = r
    BY <1>2, <2>1, GoesTo DEF StatementInv, Busy
  <2>2. CASE s # r
    <3>1. request'[s].pc = "idle"
      BY <1>2, <2>2, GoesTo, OthersIdle DEF StatementInv, Busy
    <3> QED
      BY <3>1 DEF CountKnows
  <2> QED
    BY <2>1, <2>2
<1> QED
  BY <1>1, <1>2 DEF CountInv

LEMMA SameCounts ==
  ASSUME imports' = imports, posted' = posted
  PROVE  (CountTables => CountTables') /\ \A q : CountKnows(q) => CountKnows(q)'
<1>1. \A f : PostedOf(f)' = PostedOf(f)
  BY DEF PostedOf
<1>2. \A f, n : PostedCount(f, n) => PostedCount(f, n)'
  BY <1>1 DEF PostedCount
<1>3. \A f, i : ~RowStored(f, i) => ~RowStored(f, i)'
  BY SameRows DEF RowStored
<1>4. CountTables => CountTables'
  BY <1>1, <1>2 DEF CountTables, Known
<1>5. ASSUME NEW q, CountKnows(q) PROVE CountKnows(q)'
  BY <1>1, <1>2, <1>3, <1>5 DEF CountKnows
<1> QED
  BY <1>4, <1>5

\* One import is set to what is no promise, and was known or has no rows.
LEMMA CountSet ==
  ASSUME StatementTables, CountTables, NEW f \in Files, NEW row \in ImportRow, row.status \notin {"DONE", "ABSENT"},
         imports' = [imports EXCEPT ![f] = row], posted' = posted
  PROVE  CountTables'
<1>1. \A g \in Files \ {f} : imports'[g] = imports[g]
  BY DEF StatementTables
<1>2. imports'[f] = row
  BY DEF StatementTables
<1>3. \A g : PostedOf(g)' = PostedOf(g)
  BY DEF PostedOf
<1>4. \A g, n : PostedCount(g, n) => PostedCount(g, n)'
  BY <1>3 DEF PostedCount
<1> QED
  BY <1>1, <1>2, <1>3, <1>4 DEF CountTables, Known

LEMMA CountStepKeeps ==
  ASSUME StatementInv, CountInv, StatementStep
  PROVE  CountInv'
<1>1. ASSUME NEW r \in Clients, NEW q, Goes(r, q), statementTables' = statementTables, r \in scenario.clients,
             Alone /\ NoRemovals => CountKnows(q)
      PROVE  CountInv'
  <2>1. imports' = imports /\ posted' = posted
    BY <1>1 DEF statementTables
  <2>2. ASSUME Alone, NoRemovals PROVE CountTables' /\ CountKnows(q)'
    BY <1>1, <2>1, <2>2, SameCounts DEF CountInv
  <2> QED
    BY <1>1, <2>2, CountGoes
<1>2. ASSUME NEW r \in Clients, request[r].pc # "idle" PROVE r \in scenario.clients
  BY <1>2 DEF StatementInv, Busy
<1>3. ASSUME NEW row \in Rows, RemovePosted(row) PROVE CountInv'
  BY <1>3 DEF RemovePosted, AtOnce, Starts, requestVars, CountInv, NoRemovals
<1>4. ASSUME NEW r \in Clients, NEW f \in Files, ImportLookup(r, f) PROVE CountInv'
  <2>1. Goes(r, [pc |-> "importCreate", file |-> f]) /\ r \in scenario.clients /\ statementTables' = statementTables
    BY <1>4 DEF ImportLookup, Starts
  <2>2. CountKnows([pc |-> "importCreate", file |-> f])
    BY DEF CountKnows
  <2> QED
    BY <1>1, <2>1, <2>2
<1>5. ASSUME NEW r \in Clients, AbortImport(r) PROVE CountInv'
  <2>1. request[r].pc # "idle" /\ Goes(r, Idle) /\ statementTables' = statementTables
    BY <1>5 DEF AbortImport, Abort, Ends
  <2>2. CountKnows(Idle)
    BY DEF CountKnows, Idle
  <2> QED
    BY <1>1, <1>2, <2>1, <2>2
<1>6. ASSUME NEW r \in Clients, ImportCreate(r) PROVE CountInv'
  <2>1. PICK f : f = request[r].file
    OBVIOUS
  <2> DEFINE q == [pc |-> "importRead", file |-> f]
             row == [status |-> "PROCESSING", imported |-> 0, duplicated |-> 0]
  <2>2. /\ request[r].pc = "importCreate" /\ Goes(r, q) /\ ~Known(f)
        /\ imports' = [imports EXCEPT ![f] = row] /\ posted' = posted
    BY <1>6, <2>1 DEF ImportCreate, At
  <2>3. ASSUME Alone, NoRemovals PROVE CountTables' /\ CountKnows(q)'
    <3>1. f \in Files /\ StatementTables /\ CountTables
      BY <2>1, <2>2, <2>3 DEF StatementInv, StatementKnows, CountInv
    <3>2. row \in ImportRow /\ row.status \notin {"DONE", "ABSENT"}
      BY DEF ImportRow, ImportStatus
    <3>3. imports'[f].status = "PROCESSING"
      BY <2>2, <3>1 DEF StatementTables
    <3>4. PostedOf(f)' = {}
      BY <2>2, <3>1 DEF CountTables, PostedOf
    <3>5. CountKnows(q)'
      BY <3>3, <3>4 DEF CountKnows
    <3> HIDE DEF row, q
    <3> QED
      BY <2>2, <3>1, <3>2, <3>5, CountSet
  <2> HIDE DEF q
  <2> QED
    BY <1>2, <2>2, <2>3, CountGoes
<1>7. ASSUME NEW r \in Clients, ImportRead(r) PROVE CountInv'
  <2>1. PICK f, todo : f = request[r].file /\ todo = ToInsert(f)
    OBVIOUS
  <2> DEFINE q == [pc |-> "importBatch", file |-> f, todo |-> todo, imported |-> 0,
                   duplicated |-> Cardinality(ReadableRows(f)) - Cardinality(todo)]
  <2>2. request[r].pc = "importRead" /\ Goes(r, q) /\ statementTables' = statementTables
    BY <1>7, <2>1 DEF ImportRead, At
  <2>3. ASSUME Alone, NoRemovals PROVE CountKnows(q)
    <3>1. imports[f].status = "PROCESSING" /\ PostedOf(f) = {}
      BY <2>1, <2>2, <2>3 DEF CountInv, CountKnows
    <3>2. PostedCount(f, 0)
      BY <3>1, FS_EmptySet DEF PostedCount
    <3>3. \A i \in todo : ~RowStored(f, i)
      BY <2>1 DEF ToInsert, IsDuplicate, RowStored
    <3> QED
      BY <3>1, <3>2, <3>3 DEF CountKnows
  <2> HIDE DEF q
  <2> QED
    BY <1>1, <1>2, <2>2, <2>3
<1>8. ASSUME NEW r \in Clients, ImportBatch(r) PROVE CountInv'
  <2>1. PICK p, f, chunk : p = request[r] /\ f = p.file /\ chunk = Chunk(p.todo)
    OBVIOUS
  <2> DEFINE q == [p EXCEPT !.todo = @ \ chunk, !.imported = @ + Cardinality(chunk)]
  <2>2. /\ p.pc = "importBatch" /\ Goes(r, q) /\ imports' = imports
        /\ posted' = posted \cup (Inserted(f, chunk) \X {f})
    BY <1>8, <2>1 DEF ImportBatch, At
  <2>3. ASSUME Alone, NoRemovals PROVE CountTables' /\ CountKnows(q)'
    <3>1. f \in Files /\ StatementTables /\ p \in BatchRow(f) /\ CountTables /\ CountKnows(p)
      BY <2>1, <2>2, <2>3 DEF StatementInv, StatementKnows, CountInv
    <3>2. /\ chunk \in SUBSET p.todo /\ p.todo \in SUBSET ReadableRows(f)
          /\ p.imported \in Nat /\ p.imported + Cardinality(chunk) \in Nat
      <4>1. p.todo \in SUBSET ReadableRows(f) /\ p.imported \in Nat
        BY <3>1 DEF BatchRow
      <4>2. chunk \in SUBSET ReadableRows(f) /\ chunk \subseteq p.todo
        <5>1. f \in Files
          BY <3>1
        <5> QED
          BY <2>1, <4>1, <5>1, BatchRows
      <4>3. Cardinality(chunk) \in Nat
        BY <3>1, <4>2, Places
      <4> QED
        BY <4>1, <4>2, <4>3
    <3>3. imports[f].status = "PROCESSING"
      BY <2>1, <2>2, <3>1 DEF CountKnows
    <3>4. ASSUME NEW g \in Files, g # f PROVE PostedOf(g)' = PostedOf(g)
      BY <2>2, <3>4 DEF PostedOf
    <3>5. \A g \in Files : \A n : g # f /\ PostedCount(g, n) => PostedCount(g, n)'
      BY <3>4 DEF PostedCount
    <3>6. CountTables'
      BY <2>2, <3>1, <3>3, <3>4, <3>5 DEF CountTables, Known
    <3>7. PICK todo, n : todo = p.todo \ chunk /\ n = p.imported + Cardinality(chunk)
      OBVIOUS
    <3>8. Edited(q, p, todo, n)
      BY <3>7 DEF Edited
    <3> HIDE DEF q
    <3>9. q.pc = "importBatch" /\ q.file = f /\ q.todo = todo /\ q.imported = n
      BY <3>1, <3>2, <3>7, <3>8, BatchEdit
    <3>10. ASSUME NoRepeats(f) PROVE PostedCount(f, n)' /\ \A i \in todo : ~RowStored(f, i)'
      <4>1. PostedCount(f, p.imported) /\ \A i \in p.todo : ~RowStored(f, i)
        BY <2>1, <2>2, <3>1, <3>10 DEF CountKnows
      <4> QED
        BY <2>2, <3>1, <3>2, <3>7, <3>10, <4>1, AllInserted
    <3>11. CountKnows(q)'
      BY <2>2, <3>3, <3>9, <3>10 DEF CountKnows, NoRepeats
    <3> QED
      BY <3>6, <3>11
  <2> HIDE DEF q
  <2> QED
    BY <1>2, <2>1, <2>2, <2>3, CountGoes
<1>9. ASSUME NEW r \in Clients, ImportDone(r) PROVE CountInv'
  <2>1. PICK p, f : p = request[r] /\ f = p.file
    OBVIOUS
  <2> DEFINE row == [status |-> "DONE", imported |-> p.imported, duplicated |-> p.duplicated]
  <2>2. /\ p.pc = "importBatch" /\ Goes(r, Idle)
        /\ imports' = [imports EXCEPT ![f] = row] /\ posted' = posted
    BY <1>9, <2>1 DEF ImportDone, At, Ends
  <2>3. ASSUME Alone, NoRemovals PROVE CountTables'
    <3>1. f \in Files /\ StatementTables /\ CountTables /\ CountKnows(p)
      BY <2>1, <2>2, <2>3 DEF StatementInv, StatementKnows, CountInv
    <3>2. row.imported = p.imported /\ row.status = "DONE" /\ (NoRepeats(f) => PostedCount(f, p.imported))
      BY <2>1, <2>2, <3>1 DEF CountKnows
    <3> HIDE DEF row
    <3>3. imports'[f] = row /\ \A g \in Files \ {f} : imports'[g] = imports[g]
      BY <2>2, <3>1 DEF StatementTables
    <3>4. \A g : PostedOf(g)' = PostedOf(g)
      BY <2>2 DEF PostedOf
    <3>5. \A g, n : PostedCount(g, n) => PostedCount(g, n)'
      BY <3>4 DEF PostedCount
    <3> QED
      BY <3>1, <3>2, <3>3, <3>4, <3>5 DEF CountTables, Known, NoRepeats
  <2>4. CountKnows(Idle)'
    BY DEF CountKnows, Idle
  <2> QED
    BY <1>2, <2>1, <2>2, <2>3, <2>4, CountGoes
<1>10. ASSUME NEW r \in Clients, ImportFailed(r) \/ ProcessSyncFails(r) PROVE CountInv'
  <2>1. PICK f : f = request[r].file
    OBVIOUS
  <2>2. /\ request[r].pc \in {"importRead", "importBatch", "processSync"} /\ Goes(r, Idle)
        /\ imports' = [imports EXCEPT ![f].status = "FAILED"] /\ posted' = posted
    BY <1>10, <2>1 DEF ImportFailed, ProcessSyncFails, At, Ends
  <2>3. ASSUME Alone, NoRemovals PROVE CountTables'
    <3>1. f \in Files /\ StatementTables /\ CountTables
      BY <2>1, <2>2, <2>3 DEF StatementInv, StatementKnows, CountInv
    <3>2. [imports[f] EXCEPT !.status = "FAILED"] \in ImportRow
          /\ [imports[f] EXCEPT !.status = "FAILED"].status = "FAILED"
      BY <3>1 DEF StatementTables, ImportRow, ImportStatus
    <3> QED
      BY <2>2, <3>1, <3>2, CountSet
  <2>4. CountKnows(Idle)'
    BY DEF CountKnows, Idle
  <2> QED
    BY <1>2, <2>2, <2>3, <2>4, CountGoes
<1>11. ASSUME NEW r \in Clients, NEW f \in Files, ProcessSyncStart(r, f) PROVE CountInv'
  <2> DEFINE q == [pc |-> "processSync", file |-> f]
  <2>1. /\ r \in scenario.clients /\ Goes(r, q)
        /\ imports' = [imports EXCEPT ![f].status = "PROCESSING"] /\ posted' = posted
    BY <1>11 DEF ProcessSyncStart, Starts
  <2>2. CountKnows(q)'
    BY DEF CountKnows
  <2>3. ASSUME Alone, NoRemovals PROVE CountTables'
    <3>1. StatementTables /\ CountTables
      BY <2>3 DEF StatementInv, CountInv
    <3>2. [imports[f] EXCEPT !.status = "PROCESSING"] \in ImportRow
          /\ [imports[f] EXCEPT !.status = "PROCESSING"].status = "PROCESSING"
      BY <3>1 DEF StatementTables, ImportRow, ImportStatus
    <3> QED
      BY <2>1, <3>1, <3>2, CountSet
  <2> HIDE DEF q
  <2> QED
    BY <2>1, <2>2, <2>3, CountGoes
<1> QED
  BY <1>3, <1>4, <1>5, <1>6, <1>7, <1>8, <1>9, <1>10, <1>11 DEF StatementStep

\* Of the rows that can be read an import that is DONE lost none, whatever else was imported
\* meanwhile, and counted all of them; served alone it counts the rows that it inserted (DoneIsStored).
THEOREM DoneIsStoredCorrect == StatementSpec => []DoneIsStored
<1> DEFINE Inv == StatementInv /\ CountInv
           sVars == <<requestVars, statementTables>>
<1>1. RequestsInit /\ StatementTablesInit => Inv
  <2> SUFFICES ASSUME RequestsInit, StatementTablesInit PROVE Inv
    OBVIOUS
  <2>1. \A r \in Clients : StatementKnows(request[r]) /\ CountKnows(request[r])
    BY DEF RequestsInit, StatementKnows, CountKnows, Idle
  <2>2. StatementTables
    BY DEF StatementTablesInit, StatementTables, ImportRow, NoImport
  <2>3. CountTables
    BY DEF StatementTablesInit, CountTables, PostedOf, NoImport
  <2> QED
    BY <2>1, <2>2, <2>3, BusyInit DEF StatementInv, CountInv
<1>2. Inv /\ [StatementStep]_sVars => Inv'
  <2>1. ASSUME Inv, StatementStep PROVE Inv'
    BY <2>1, StatementStepKeeps, CountStepKeeps
  <2>2. ASSUME Inv, UNCHANGED sVars PROVE Inv'
    <3>1. /\ scenario' = scenario /\ request' = request
          /\ imports' = imports /\ posted' = posted /\ statementTables' = statementTables
      BY <2>2 DEF requestVars, statementTables
    <3>2. Busy' /\ (Alone' <=> Alone) /\ (NoRemovals' <=> NoRemovals)
      BY <2>2, <3>1 DEF StatementInv, Alone, Busy, NoRemovals
    <3>3. StatementInv'
      <4>1. ASSUME NoRemovals, NEW r \in Clients PROVE StatementKnows(request[r])'
        <5>1. PICK p : p = request[r]
          OBVIOUS
        <5>2. StatementKnows(p)'
          BY <2>2, <3>1, <4>1, <5>1, SameStatements, KnowsStays DEF StatementInv
        <5> QED
          BY <3>1, <5>1, <5>2
      <4> QED
        BY <2>2, <3>1, <3>2, <4>1, SameStatements DEF StatementInv
    <3>4. CountInv'
      <4>1. ASSUME Alone, NoRemovals, NEW r \in Clients PROVE CountKnows(request[r])'
        <5>1. PICK p : p = request[r]
          OBVIOUS
        <5>2. CountKnows(p)'
          BY <2>2, <3>1, <4>1, <5>1, SameCounts DEF CountInv
        <5> QED
          BY <3>1, <5>1, <5>2
      <4> QED
        BY <2>2, <3>1, <3>2, <4>1, SameCounts DEF CountInv
    <3> QED
      BY <3>3, <3>4
  <2> QED
    BY <2>1, <2>2
<1>3. Inv => DoneIsStored
  <2> SUFFICES ASSUME StatementInv, CountInv, NoRemovals, NEW f \in Files, imports[f].status = "DONE"
               PROVE  /\ \A i \in ReadableRows(f) : Taken(RowsOf[f][i], StoredRows)
                      /\ imports[f].imported + imports[f].duplicated = Cardinality(ReadableRows(f))
                      /\ Alone /\ NoRepeats(f) => imports[f].imported = Cardinality(PostedOf(f))
    BY DEF DoneIsStored, NoRemovals, NoRepeats, PostedOf
  <2>1. /\ imports[f].imported + imports[f].duplicated = Cardinality(ReadableRows(f))
        /\ \A i \in ReadableRows(f) : Taken(RowsOf[f][i], StoredRows)
    BY DEF StatementInv, StatementTables, RowStored
  <2>2. Alone /\ NoRepeats(f) => Cardinality(PostedOf(f)) = imports[f].imported
    BY DEF CountInv, CountTables, PostedCount
  <2> QED
    BY <2>1, <2>2
<1> HIDE DEF Inv
<1> QED
  BY <1>1, <1>2, <1>3, PTL DEF StatementSpec

-----------------------------------------------------------------------------
(* The papers of an order: lines one after another.                        *)
HIDE BankStatementsAssumption
USE PapersAssumption

\* Lines put one after another are lines, and none when there were none.
LEMMA FlattenIs ==
  ASSUME NEW n \in Nat \ {0}, NEW S, NEW seqs \in [1 .. n -> Seq(S)]
  PROVE  /\ Seqs!FlattenSeq(seqs) \in Seq(S)
         /\ (\E k \in 1 .. n : seqs[k] # <<>>) => Seqs!FlattenSeq(seqs) # <<>>
<1> DEFINE Steps(h) == h = [i \in 1 .. n |-> IF i = 1 THEN seqs[i] ELSE h[i - 1] \o seqs[i]]
           Joins(g, m) == /\ g \in [1 .. m -> Seq(S)] /\ g[1] = seqs[1]
                          /\ \A i \in 2 .. m : g[i] = g[i - 1] \o seqs[i]
           T == {m \in 1 .. n : ~ \E g : Joins(g, m)}
<1>1. T = {}
  <2> SUFFICES ASSUME T # {} PROVE FALSE
    OBVIOUS
  <2>1. PICK m \in T : \A i \in T : m <= i
    <3>1. T \in SUBSET (0 .. n)
      <4> HIDE DEF Joins
      <4> QED
        OBVIOUS
    <3> HIDE DEF T
    <3> QED
      BY <3>1, Smallest
  <2>2. m # 1
    <3> DEFINE g == [i \in 1 .. 1 |-> seqs[1]]
    <3>1. Joins(g, 1)
      OBVIOUS
    <3> HIDE DEF Joins, g
    <3> QED
      BY <3>1
  <2>3. m - 1 \in 1 .. n /\ ~(m <= m - 1)
    BY <2>2
  <2>4. PICK g : Joins(g, m - 1)
    <3> HIDE DEF Joins
    <3> QED
      BY <2>1, <2>3
  <2> DEFINE h == [i \in 1 .. m |-> IF i = m THEN g[m - 1] \o seqs[m] ELSE g[i]]
  <2>5. g[m - 1] \in Seq(S) /\ m - 1 \in 1 .. m - 1 /\ 1 \in 1 .. m - 1
    BY <2>3, <2>4
  <2>6. h \in [1 .. m -> Seq(S)] /\ h[m] = g[m - 1] \o seqs[m] /\ h[m - 1] = g[m - 1] /\ h[1] = g[1]
    BY <2>3, <2>4, <2>5
  <2>7. ASSUME NEW i \in 2 .. m PROVE h[i] = h[i - 1] \o seqs[i]
    <3>1. CASE i = m
      BY <2>6, <3>1
    <3>2. CASE i # m
      <4>1. i \in 1 .. m /\ i - 1 \in 1 .. m /\ i - 1 # m /\ i \in 2 .. m - 1
        BY <2>3, <3>2
      <4>2. h[i] = g[i] /\ h[i - 1] = g[i - 1]
        BY <3>2, <4>1
      <4> QED
        BY <2>4, <4>1, <4>2
    <3> QED
      BY <3>1, <3>2
  <2>8. Joins(h, m)
    <3> HIDE DEF h
    <3> QED
      BY <2>4, <2>6, <2>7
  <2> HIDE DEF Joins, h
  <2> QED
    BY <2>8
<1>2. PICK g : Joins(g, n)
  <2>1. n \in 1 .. n
    OBVIOUS
  <2> HIDE DEF Joins
  <2> QED
    BY <1>1, <2>1
<1>3. Steps(g)
  <2>1. g = [i \in 1 .. n |-> g[i]]
    BY <1>2
  <2>2. ASSUME NEW i \in 1 .. n PROVE g[i] = IF i = 1 THEN seqs[i] ELSE g[i - 1] \o seqs[i]
    <3>1. i # 1 => i \in 2 .. n
      OBVIOUS
    <3> QED
      BY <1>2, <3>1
  <2> QED
    BY <2>1, <2>2
<1> DEFINE f == CHOOSE h : Steps(h)
<1>4. Steps(f)
  BY <1>3
<1>5. Len(seqs) = n
  OBVIOUS
<1>6. Seqs!FlattenSeq(seqs) = f[n]
  BY <1>5 DEF Seqs!FlattenSeq
<1> HIDE DEF f
<1>7. \A i \in 1 .. n : f[i] = IF i = 1 THEN seqs[i] ELSE f[i - 1] \o seqs[i]
  BY <1>4
<1> HIDE DEF Steps, T, Joins
<1> DEFINE Good(i) == f[i] \in Seq(S) /\ ((\E k \in 1 .. i : seqs[k] # <<>>) => f[i] # <<>>)
           U == {i \in 1 .. n : ~Good(i)}
<1>8. U = {}
  <2> SUFFICES ASSUME U # {} PROVE FALSE
    OBVIOUS
  <2>1. PICK m \in U : \A i \in U : m <= i
    <3>1. U \in SUBSET (0 .. n)
      OBVIOUS
    <3> HIDE DEF U
    <3> QED
      BY <3>1, Smallest
  <2>2. CASE m = 1
    <3>1. f[m] = seqs[m] /\ seqs[m] \in Seq(S)
      BY <1>7, <2>1, <2>2
    <3>2. \A k \in 1 .. m : k = m
      BY <2>2
    <3> QED
      BY <2>1, <3>1, <3>2
  <2>3. CASE m # 1
    <3>1. m - 1 \in 1 .. n /\ ~(m <= m - 1)
      BY <2>3
    <3>2. Good(m - 1)
      BY <2>1, <3>1
    <3>3. f[m] = f[m - 1] \o seqs[m] /\ seqs[m] \in Seq(S) /\ f[m - 1] \in Seq(S)
      BY <1>7, <2>3, <3>2
    <3>4. f[m] \in Seq(S) /\ Len(f[m]) = Len(f[m - 1]) + Len(seqs[m])
      BY <3>3
    <3>5. ASSUME NEW k \in 1 .. m, seqs[k] # <<>> PROVE Len(f[m]) > 0
      <4>1. k = m \/ k \in 1 .. m - 1
        OBVIOUS
      <4>2. Len(f[m - 1]) \in Nat /\ Len(seqs[m]) \in Nat
        BY <3>3
      <4>3. CASE k = m
        BY <3>3, <3>4, <3>5, <4>2, <4>3
      <4>4. CASE k \in 1 .. m - 1
        BY <3>2, <3>3, <3>4, <3>5, <4>2, <4>4
      <4> QED
        BY <4>1, <4>3, <4>4
    <3> QED
      BY <2>1, <3>4, <3>5
  <2> QED
    BY <2>2, <2>3
<1>9. Good(n)
  <2>1. n \in 1 .. n
    OBVIOUS
  <2> HIDE DEF Good
  <2> QED
    BY <1>8, <2>1
<1> QED
  BY <1>6, <1>9

-----------------------------------------------------------------------------
(* Logistics costs.                                                         *)
LineRow == [amount : Int, capitalized : BOOLEAN, vnd : Int]
CostRow == [status : {"ABSENT", "DRAFT", "CONFIRMED", "VOID"}, shipment : Shipments \cup {None},
            filed : BOOLEAN, rate : Int, total : Int, lines : [Insertions -> Seq(LineRow)]]

\* The total of a cost is that of lines it has.
Summed(c) == Kept(c) => \E i \in InsertedIn(c) : cost[c].total = Vnd(cost[c].lines[i])
CostTables == cost \in [Costs -> CostRow] /\ \A c \in Costs : Summed(c)

\* What an update is to write are lines.
LinesGiven(lines) ==
    \E n \in Nat \ {0} : /\ DOMAIN lines = 1 .. n
                         /\ \A i \in 1 .. n : lines[i].amount \in Int /\ lines[i].capitalized \in BOOLEAN
CostKnows(q) ==
    /\ q.pc \in {"costDelete", "costWrite"} =>
        /\ q.cost \in Costs /\ q.rate \in Int /\ q.named \in BOOLEAN
        /\ q.shipment \in Shipments \cup {None} /\ LinesGiven(q.lines)
    /\ q.pc = "costDecided" => q.cost \in Costs /\ q.to \in {"CONFIRMED", "VOID", "ABSENT"}

\* Alone, an update sees all lines there are, and a removal all costs.
OneInsertion(c) ==
    Kept(c) => (\E i \in Insertions : InsertedIn(c) = {i}) /\ (cost[c].filed => cost[c].shipment # None)
AllSeen(q) ==
    /\ q.pc = "costWrite" /\ Kept(q.cost) => q.seen = InsertedIn(q.cost)
    /\ q.pc = "shipmentRemove" /\ ~q.void => CostsOf(q.shipment) = {}

PapersInv ==
    /\ Busy
    /\ CostTables
    /\ \A r \in Clients : CostKnows(request[r])
    /\ Alone => /\ \A c \in Costs : OneInsertion(c)
                /\ \A r \in Clients : AllSeen(request[r])

LEMMA LineDataIs ==
  ASSUME NEW lines, LinesGiven(lines), NEW fx \in Int
  PROVE  LineData(lines, fx) \in Seq(LineRow) \ {<<>>}
<1>1. PICK n \in Nat \ {0} : /\ DOMAIN lines = 1 .. n
                             /\ \A i \in 1 .. n : lines[i].amount \in Int /\ lines[i].capitalized \in BOOLEAN
  BY DEF LinesGiven
<1> DEFINE data == [i \in 1 .. n |->
        [amount |-> lines[i].amount, capitalized |-> lines[i].capitalized, vnd |-> lines[i].amount * fx]]
<1>2. LineData(lines, fx) = data
  BY <1>1 DEF LineData
<1>3. data \in [1 .. n -> LineRow]
  BY <1>1 DEF LineRow
<1>4. data \in Seq(LineRow) /\ DOMAIN data = 1 .. n /\ 1 \in 1 .. n
  BY <1>3
<1>5. data # <<>>
  <2> HIDE DEF data
  <2>1. Len(data) = n /\ n # 0
    BY <1>4
  <2> QED
    BY <2>1
<1> QED
  BY <1>2, <1>4, <1>5

LEMMA RowsAreLines == ASSUME NEW lines \in Seq(LineRow) \ {<<>>} PROVE LinesGiven(lines)
<1>1. Len(lines) \in Nat \ {0} /\ DOMAIN lines = 1 .. Len(lines)
  OBVIOUS
<1>2. \A i \in 1 .. Len(lines) : lines[i] \in LineRow
  OBVIOUS
<1> QED
  BY <1>1, <1>2 DEF LinesGiven, LineRow

LEMMA FormsAreLines == ASSUME NEW lines \in Seq(CostLine) \ {<<>>} PROVE LinesGiven(lines)
<1>1. Len(lines) \in Nat \ {0} /\ DOMAIN lines = 1 .. Len(lines)
  OBVIOUS
<1>2. \A i \in 1 .. Len(lines) : lines[i] \in CostLine
  OBVIOUS
<1> QED
  BY <1>1, <1>2 DEF LinesGiven, CostLine

\* The sum of lines.
LEMMA VndIs == ASSUME NEW lines \in Seq(LineRow) PROVE Vnd(lines) \in Int
<1> DEFINE f == [i \in DOMAIN lines |-> lines[i].vnd]
<1>1. DOMAIN f = 1 .. Len(lines) /\ IsFiniteSet(1 .. Len(lines))
  BY FS_Interval
<1>2. \A i \in 1 .. Len(lines) : lines[i] \in LineRow
  OBVIOUS
<1>3. \A i \in DOMAIN f : f[i] \in Int
  BY <1>2 DEF LineRow
<1>4. Vnd(lines) = SumFunctionOnSet(f, DOMAIN f)
  BY DEF Vnd, Total, SumFunction, FoldFunction, SumFunctionOnSet
<1> HIDE DEF f
<1> QED
  BY <1>1, <1>3, <1>4, SumType

\* What a cost has been given.
LEMMA LinesOfIs ==
  ASSUME CostTables, NEW c \in Costs
  PROVE  /\ LinesOf(c) \in Seq(LineRow)
         /\ Kept(c) => LinesGiven(LinesOf(c))
<1>1. cost[c].lines \in [Insertions -> Seq(LineRow)]
  BY DEF CostTables, CostRow
<1>2. LinesOf(c) = Seqs!FlattenSeq(cost[c].lines)
  BY <1>1 DEF LinesOf
<1>3. MaxInsertions \in Nat \ {0} /\ Insertions = 1 .. MaxInsertions
  BY DEF Insertions
<1>4. LinesOf(c) \in Seq(LineRow)
  BY <1>1, <1>2, <1>3, FlattenIs
<1>5. ASSUME Kept(c) PROVE LinesGiven(LinesOf(c))
  <2>1. \E k \in 1 .. MaxInsertions : cost[c].lines[k] # <<>>
    BY <1>3, <1>5 DEF CostTables, Summed, InsertedIn
  <2>2. LinesOf(c) # <<>>
    BY <1>1, <1>2, <1>3, <2>1, FlattenIs
  <2> QED
    BY <1>4, <2>2, RowsAreLines
<1> QED
  BY <1>4, <1>5

LEMMA PapersInit == RequestsInit /\ PaperTablesInit => PapersInv
<1> SUFFICES ASSUME RequestsInit, PaperTablesInit PROVE PapersInv
  OBVIOUS
<1>1. NoCost \in CostRow /\ NoCost.status = "ABSENT"
  BY DEF NoCost, CostRow
<1>2. cost = [c \in Costs |-> NoCost]
  BY DEF PaperTablesInit
<1>3. \A c \in Costs : ~Kept(c)
  BY <1>1, <1>2 DEF Kept
<1>4. CostTables
  BY <1>1, <1>2, <1>3 DEF CostTables, Summed
<1>5. \A r \in Clients : CostKnows(request[r]) /\ AllSeen(request[r])
  BY DEF RequestsInit, Idle, CostKnows, AllSeen
<1> QED
  BY <1>3, <1>4, <1>5, BusyInit DEF PapersInv, OneInsertion

\* One request goes on.
LEMMA PapersGoes ==
  ASSUME PapersInv, NEW r \in Clients, r \in scenario.clients, NEW q, Goes(r, q), CostTables', CostKnows(q),
         Alone => (\A c \in Costs : OneInsertion(c)') /\ AllSeen(q)'
  PROVE  PapersInv'
<1>1. Busy' /\ (Alone' <=> Alone)
  BY BusyGoes DEF PapersInv, Goes, Alone
<1>2. ASSUME NEW s \in Clients PROVE CostKnows(request[s])'
  <2>1. request'[s] = IF s = r THEN q ELSE request[s]
    BY GoesTo DEF PapersInv, Busy
  <2> QED
    BY <2>1 DEF PapersInv, CostKnows, LinesGiven
<1>3. ASSUME Alone, NEW s \in Clients PROVE AllSeen(request[s])'
  <2>1. CASE s = r
    BY <1>3, <2>1, GoesTo DEF PapersInv, Busy
  <2>2. ASSUME s # r PROVE AllSeen(request[s])'
    <3>1. request'[s].pc = "idle"
      BY <1>3, <2>2, GoesTo, OthersIdle DEF PapersInv, Busy
    <3> QED
      BY <3>1 DEF AllSeen
  <2> QED
    BY <2>1, <2>2
<1> QED
  BY <1>1, <1>2, <1>3 DEF PapersInv

LEMMA PapersEnds ==
  ASSUME PapersInv, NEW r \in Clients, request[r].pc # "idle", Ends(r), CostTables',
         Alone => \A c \in Costs : OneInsertion(c)'
  PROVE  PapersInv'
<1>1. r \in scenario.clients
  BY DEF PapersInv, Busy
<1>2. CostKnows(Idle) /\ AllSeen(Idle)'
  BY DEF CostKnows, AllSeen, Idle
<1> QED
  BY <1>1, <1>2, PapersGoes DEF Ends

\* A call of one step.
LEMMA PapersOnce ==
  ASSUME PapersInv, NEW call, AtOnce(call), CostTables', Alone => \A c \in Costs : OneInsertion(c)'
  PROVE  PapersInv'
<1>1. scenario' = scenario /\ request' = request
  BY DEF AtOnce, requestVars
<1>2. Busy' /\ (Alone' <=> Alone)
  BY <1>1 DEF PapersInv, Alone, Busy
<1>3. \A s \in Clients : CostKnows(request[s])'
  BY <1>1 DEF PapersInv, CostKnows, LinesGiven
<1>4. ASSUME Alone, NEW s \in Clients PROVE AllSeen(request[s])'
  <2>1. request'[s].pc = "idle"
    BY <1>4, AtOnceIdle DEF PapersInv
  <2> QED
    BY <2>1 DEF AllSeen
<1> QED
  BY <1>2, <1>3, <1>4 DEF PapersInv

LEMMA CostsRest ==
  ASSUME PapersInv, cost' = cost
  PROVE  /\ CostTables' /\ (Alone => \A c \in Costs : OneInsertion(c)')
         /\ \A q : AllSeen(q) => AllSeen(q)'
<1>1. ASSUME NEW c \in Costs PROVE Summed(c)' /\ (Alone => OneInsertion(c)')
  BY DEF PapersInv, CostTables, Summed, OneInsertion, Kept, InsertedIn
<1>2. CostTables'
  BY <1>1 DEF PapersInv, CostTables
<1>3. ASSUME NEW q, AllSeen(q) PROVE AllSeen(q)'
  <2>1. Kept(q.cost)' = Kept(q.cost) /\ InsertedIn(q.cost)' = InsertedIn(q.cost)
    BY DEF Kept, InsertedIn
  <2>2. CostsOf(q.shipment)' = CostsOf(q.shipment)
    BY DEF CostsOf, Kept
  <2> QED
    BY <1>3, <2>1, <2>2 DEF AllSeen
<1> QED
  BY <1>1, <1>2, <1>3

\* One cost is written.
LEMMA CostWritten ==
  ASSUME PapersInv, NEW c \in Costs, NEW row \in CostRow, cost' = [cost EXCEPT ![c] = row],
         Summed(c)', Alone => OneInsertion(c)'
  PROVE  CostTables' /\ (Alone => \A d \in Costs : OneInsertion(d)')
<1>1. cost \in [Costs -> CostRow]
  BY DEF PapersInv, CostTables
<1>2. \A d \in Costs : d # c => cost'[d] = cost[d]
  BY <1>1
<1>3. cost' \in [Costs -> CostRow]
  BY <1>1
<1>4. ASSUME NEW d \in Costs PROVE Summed(d)' /\ (Alone => OneInsertion(d)')
  <2>1. CASE d = c
    BY <2>1
  <2>2. CASE d # c
    BY <1>2, <2>2 DEF PapersInv, CostTables, Summed, OneInsertion, Kept, InsertedIn
  <2> QED
    BY <2>1, <2>2
<1> QED
  BY <1>3, <1>4 DEF CostTables

LEMMA CreateKeeps ==
  ASSUME PapersInv, NEW c \in Costs, NEW form \in CostForms, NEW s \in Shipments \cup {None}, CreateCost(c, form, s)
  PROVE  PapersInv'
<1>1. form.rate \in Int /\ form.lines \in Seq(CostLine) \ {<<>>}
  BY DEF CreateCost, CostForm
<1>2. PICK data \in Seq(LineRow) \ {<<>>} : data = LineData(form.lines, form.rate)
  BY <1>1, FormsAreLines, LineDataIs
<1>3. PICK lines : lines = [NoCost.lines EXCEPT ![1] = data]
  OBVIOUS
<1>4. 1 \in Insertions
  BY DEF Insertions
<1>5. NoCost.lines = [i \in Insertions |-> <<>>]
  BY DEF NoCost
<1>6. /\ lines \in [Insertions -> Seq(LineRow)] /\ lines[1] = data
      /\ \A i \in Insertions : i # 1 => lines[i] = <<>>
  <2>1. <<>> \in Seq(LineRow)
    OBVIOUS
  <2>2. lines = [i \in Insertions |-> IF i = 1 THEN data ELSE <<>>]
    BY <1>3, <1>4, <1>5
  <2> QED
    BY <1>2, <1>4, <2>1, <2>2
<1>7. PICK row : row = [status |-> "DRAFT", shipment |-> s, filed |-> s # None, rate |-> form.rate,
                        total |-> Vnd(data), lines |-> lines]
  OBVIOUS
<1>8. row \in CostRow /\ row.total = Vnd(data) /\ row.lines = lines /\ (row.filed => row.shipment # None)
  BY <1>1, <1>2, <1>6, <1>7, VndIs DEF CostRow
<1>9. AtOnce("cost") /\ cost' = [cost EXCEPT ![c] = row]
  BY <1>2, <1>3, <1>7 DEF CreateCost
<1>10. cost'[c] = row
  BY <1>9 DEF PapersInv, CostTables
<1>11. InsertedIn(c)' = {1}
  BY <1>2, <1>4, <1>6, <1>8, <1>10 DEF InsertedIn
<1>12. Summed(c)' /\ OneInsertion(c)'
  BY <1>4, <1>6, <1>8, <1>10, <1>11 DEF Summed, OneInsertion, Kept
<1> QED
  BY <1>8, <1>9, <1>12, CostWritten, PapersOnce

LEMMA UpdateReads ==
  ASSUME PapersInv, NEW r \in Clients, NEW c \in Costs, NEW form \in CostForms, NEW named \in BOOLEAN,
         NEW s \in Shipments \cup {None}, UpdateCostRead(r, c, form, named, s)
  PROVE  PapersInv'
<1>1. PICK fx : fx = IF form.rate = None THEN cost[c].rate ELSE form.rate
  OBVIOUS
<1>2. PICK lines : lines = IF form.lines = None THEN LinesOf(c) ELSE form.lines
  OBVIOUS
<1>3. fx \in Int
  BY <1>1 DEF PapersInv, CostTables, CostRow, CostForm
<1>4. LinesGiven(lines)
  <2>1. CASE form.lines = None
    BY <1>2, <2>1, LinesOfIs DEF PapersInv, UpdateCostRead
  <2>2. CASE form.lines # None
    BY <1>2, <2>2, FormsAreLines DEF CostForm
  <2> QED
    BY <2>1, <2>2
<1>5. PICK q : q = [pc |-> "costDelete", cost |-> c, named |-> named, shipment |-> s,
                   rate |-> fx, lines |-> lines]
  OBVIOUS
<1>6. Goes(r, q) /\ r \in scenario.clients /\ cost' = cost
  BY <1>1, <1>2, <1>5 DEF UpdateCostRead, Starts, paperTables
<1>7. CostKnows(q) /\ AllSeen(q)'
  BY <1>3, <1>4, <1>5 DEF CostKnows, AllSeen
<1> QED
  BY <1>6, <1>7, CostsRest, PapersGoes

LEMMA UpdateDeletes ==
  ASSUME PapersInv, NEW r \in Clients, UpdateCostDelete(r)
  PROVE  PapersInv'
<1>1. request[r].pc = "costDelete" /\ r \in scenario.clients /\ cost' = cost
  BY DEF UpdateCostDelete, At, paperTables, PapersInv, Busy
<1>2. CostKnows(request[r])
  BY DEF PapersInv
<1>3. PICK q : q = [cost |-> request[r].cost, named |-> request[r].named,
                    shipment |-> request[r].shipment, rate |-> request[r].rate,
                    lines |-> request[r].lines, pc |-> "costWrite", seen |-> SeenLines(request[r].cost)]
  OBVIOUS
<1>4. Goes(r, q)
  BY <1>3 DEF UpdateCostDelete
<1>5. CostKnows(q)
  BY <1>1, <1>2, <1>3 DEF CostKnows
<1>6. AllSeen(q)'
  <2>1. q.pc = "costWrite" /\ q.seen = InsertedIn(q.cost)
    BY <1>3 DEF SeenLines
  <2> QED
    BY <1>1, <2>1 DEF AllSeen, InsertedIn
<1> QED
  BY <1>1, <1>4, <1>5, <1>6, CostsRest, PapersGoes

\* What an update makes of a row.
Updated(new, row, s, filed, fx, total, lines) ==
    new = [row EXCEPT !.shipment = s, !.filed = filed, !.rate = fx, !.total = total, !.lines = lines]
UpdatedOf(row, s, filed, fx, total, lines) ==
    /\ row \in CostRow /\ s \in Shipments \cup {None} /\ filed \in BOOLEAN /\ fx \in Int /\ total \in Int
    /\ lines \in [Insertions -> Seq(LineRow)]
UpdatedTo(new, row, s, filed, total, lines) ==
    /\ new \in CostRow /\ new.status = row.status /\ new.shipment = s /\ new.filed = filed
    /\ new.total = total /\ new.lines = lines
LEMMA UpdatedRow ==
  ASSUME NEW row, NEW s, NEW filed, NEW fx, NEW total, NEW lines, NEW new,
         UpdatedOf(row, s, filed, fx, total, lines), Updated(new, row, s, filed, fx, total, lines)
  PROVE  UpdatedTo(new, row, s, filed, total, lines)
  BY DEF CostRow, Updated, UpdatedOf, UpdatedTo

LEMMA UpdateWrites ==
  ASSUME PapersInv, NEW r \in Clients, UpdateCostWrite(r)
  PROVE  PapersInv'
<1>1. PICK q : q = request[r]
  OBVIOUS
<1>2. q.pc = "costWrite" /\ request[r].pc # "idle" /\ CostKnows(q)
  BY <1>1 DEF UpdateCostWrite, At, PapersInv
<1>3. PICK c \in Costs : c = q.cost
  BY <1>2 DEF CostKnows
<1>4. PICK data \in Seq(LineRow) \ {<<>>} : data = LineData(q.lines, q.rate)
  BY <1>2, LineDataIs DEF CostKnows
<1>5. PICK free : free = Insertions \ InUse(c)
  OBVIOUS
<1>6. PICK i : i = CHOOSE j \in free : \A k \in free : j <= k
  OBVIOUS
<1>7. free # {}
  BY <1>1, <1>3, <1>5 DEF UpdateCostWrite
<1>8. i \in free /\ i \in Insertions
  <2>1. free \in SUBSET (0 .. MaxInsertions) /\ MaxInsertions \in Nat
    BY <1>5 DEF Insertions
  <2>2. \E j \in free : \A k \in free : j <= k
    BY <1>7, <2>1, Smallest
  <2> QED
    BY <1>5, <1>6, <2>2
<1>9. PICK old \in CostRow : old = cost[c]
  BY DEF PapersInv, CostTables
<1>10. PICK lines : lines = [j \in Insertions |->
                        IF j = i THEN data ELSE IF j \in q.seen THEN <<>> ELSE old.lines[j]]
  OBVIOUS
<1>11. PICK s : s = IF q.named THEN q.shipment ELSE old.shipment
  OBVIOUS
<1>12. PICK filed : filed = IF q.named THEN q.shipment # None ELSE old.filed
  OBVIOUS
<1>13. PICK row : Updated(row, old, s, filed, q.rate, Vnd(data), lines)
  BY DEF Updated
<1>14. cost' = [cost EXCEPT ![c] = row]
  <2>1. cost' = [cost EXCEPT ![c] =
            [old EXCEPT !.shipment = s, !.filed = filed, !.rate = q.rate, !.total = Vnd(data), !.lines = lines]]
    BY <1>1, <1>3, <1>4, <1>5, <1>6, <1>9, <1>10, <1>11, <1>12 DEF UpdateCostWrite
  <2>2. row = [old EXCEPT !.shipment = s, !.filed = filed, !.rate = q.rate, !.total = Vnd(data), !.lines = lines]
    BY <1>13 DEF Updated
  <2> QED
    BY <2>1, <2>2
<1>15. /\ lines \in [Insertions -> Seq(LineRow)] /\ lines[i] = data
       /\ \A j \in Insertions : j # i => lines[j] = IF j \in q.seen THEN <<>> ELSE old.lines[j]
  <2>1. <<>> \in Seq(LineRow) /\ old.lines \in [Insertions -> Seq(LineRow)]
    BY DEF CostRow
  <2> QED
    BY <1>4, <1>8, <1>10, <2>1
<1>16. s \in Shipments \cup {None} /\ filed \in BOOLEAN /\ q.rate \in Int /\ Vnd(data) \in Int
  BY <1>2, <1>4, <1>11, <1>12, VndIs DEF CostKnows, CostRow
<1>17. /\ row \in CostRow /\ row.status = old.status /\ row.shipment = s /\ row.filed = filed
       /\ row.total = Vnd(data) /\ row.lines = lines
  <2>1. UpdatedOf(old, s, filed, q.rate, Vnd(data), lines)
    BY <1>15, <1>16 DEF UpdatedOf
  <2>2. UpdatedTo(row, old, s, filed, Vnd(data), lines)
    BY <1>13, <2>1, UpdatedRow
  <2> QED
    BY <2>2 DEF UpdatedTo
<1>18. cost'[c] = row
  BY <1>14 DEF PapersInv, CostTables
<1>19. Summed(c)'
  <2>1. i \in InsertedIn(c)' /\ cost'[c].total = Vnd(cost'[c].lines[i])
    BY <1>4, <1>8, <1>15, <1>17, <1>18 DEF InsertedIn
  <2> QED
    BY <2>1 DEF Summed
<1>20. ASSUME Alone PROVE OneInsertion(c)'
  <2>1. Kept(c) /\ q.seen = InsertedIn(c)
    BY <1>1, <1>2, <1>3, <1>20 DEF UpdateCostWrite, PapersInv, AllSeen
  <2>2. InsertedIn(c)' = {i}
    <3>1. \A j \in Insertions : j # i => lines[j] = <<>>
      BY <1>9, <1>15, <2>1 DEF InsertedIn
    <3>2. lines[i] # <<>>
      BY <1>4, <1>15
    <3> QED
      BY <1>8, <1>17, <1>18, <3>1, <3>2 DEF InsertedIn
  <2>3. filed => s # None
    <3>1. old.filed => old.shipment # None
      BY <1>9, <1>20, <2>1 DEF PapersInv, OneInsertion
    <3> QED
      BY <1>11, <1>12, <3>1
  <2> QED
    BY <1>8, <1>17, <1>18, <2>2, <2>3 DEF OneInsertion
<1>21. CostTables' /\ (Alone => \A d \in Costs : OneInsertion(d)')
  BY <1>14, <1>17, <1>19, <1>20, CostWritten
<1>22. Ends(r)
  BY DEF UpdateCostWrite
<1> QED
  BY <1>1, <1>2, <1>21, <1>22, PapersEnds

LEMMA DecidesAndWrites ==
  ASSUME PapersInv, NEW r \in Clients,
         \/ \E c \in Costs, to \in {"CONFIRMED", "VOID", "ABSENT"} : DecideCost(r, c, to)
         \/ WriteCost(r)
  PROVE  PapersInv'
<1>1. ASSUME NEW c \in Costs, NEW to \in {"CONFIRMED", "VOID", "ABSENT"}, DecideCost(r, c, to)
      PROVE  PapersInv'
  <2>1. PICK q : q = [pc |-> "costDecided", cost |-> c, to |-> to]
    OBVIOUS
  <2>2. Goes(r, q) /\ r \in scenario.clients /\ cost' = cost
    BY <1>1, <2>1 DEF DecideCost, Starts, paperTables
  <2>3. CostKnows(q) /\ AllSeen(q)'
    BY <2>1 DEF CostKnows, AllSeen
  <2> QED
    BY <2>2, <2>3, CostsRest, PapersGoes
<1>2. ASSUME WriteCost(r) PROVE PapersInv'
  <2>1. PICK c \in Costs, to \in {"CONFIRMED", "VOID", "ABSENT"} : c = request[r].cost /\ to = request[r].to
    BY <1>2 DEF WriteCost, At, PapersInv, CostKnows
  <2>2. PICK old \in CostRow : old = cost[c]
    BY DEF PapersInv, CostTables
  <2>3. PICK row : row = IF to = "ABSENT" THEN NoCost ELSE [old EXCEPT !.status = to]
    OBVIOUS
  <2>4. /\ cost' = [cost EXCEPT ![c] = row] /\ Kept(c) /\ Ends(r) /\ request[r].pc # "idle"
    BY <1>2, <2>1, <2>2, <2>3 DEF WriteCost, At
  <2>5. row \in CostRow
    <3>1. NoCost \in CostRow
      BY DEF NoCost, CostRow
    <3> QED
      BY <2>3, <3>1 DEF CostRow
  <2>6. cost'[c] = row
    BY <2>4 DEF PapersInv, CostTables
  <2>7. Summed(c)' /\ (Alone => OneInsertion(c)')
    <3>1. CASE to = "ABSENT"
      <4>1. cost'[c].status = "ABSENT"
        BY <2>3, <2>6, <3>1 DEF NoCost
      <4> QED
        BY <4>1 DEF Summed, OneInsertion, Kept
    <3>2. CASE to # "ABSENT"
      <4>1. row.lines = old.lines /\ row.total = old.total /\ row.shipment = old.shipment /\ row.filed = old.filed
        BY <2>3, <3>2 DEF CostRow
      <4>2. InsertedIn(c)' = InsertedIn(c)
        BY <2>2, <2>6, <4>1 DEF InsertedIn
      <4> QED
        BY <2>2, <2>4, <2>6, <4>1, <4>2 DEF Summed, OneInsertion, PapersInv, CostTables
    <3> QED
      BY <3>1, <3>2
  <2> QED
    BY <2>4, <2>5, <2>7, CostWritten, PapersEnds
<1> QED
  BY <1>1, <1>2

LEMMA RemovesShipment ==
  ASSUME PapersInv, NEW r \in Clients,
         (\E s \in Shipments : RemoveShipmentRead(r, s)) \/ RemoveShipmentWrite(r)
  PROVE  PapersInv'
<1>1. ASSUME NEW s \in Shipments, RemoveShipmentRead(r, s) PROVE PapersInv'
  <2>1. PICK q : q = [pc |-> "shipmentRemove", shipment |-> s, void |-> CostsOf(s) # {}]
    OBVIOUS
  <2>2. Goes(r, q) /\ r \in scenario.clients /\ cost' = cost
    BY <1>1, <2>1 DEF RemoveShipmentRead, Starts, paperTables
  <2>3. CostKnows(q)
    BY <2>1 DEF CostKnows
  <2>4. AllSeen(q)
    BY <2>1 DEF AllSeen
  <2> QED
    BY <2>2, <2>3, <2>4, CostsRest, PapersGoes
<1>2. ASSUME RemoveShipmentWrite(r) PROVE PapersInv'
  <2>1. PICK s, void : s = request[r].shipment /\ void = request[r].void
    OBVIOUS
  <2>2. /\ request[r].pc = "shipmentRemove" /\ Ends(r)
        /\ cost' = [c \in Costs |->
                IF ~void /\ c \in CostsOf(s) THEN [cost[c] EXCEPT !.shipment = None] ELSE cost[c]]
    BY <1>2, <2>1 DEF RemoveShipmentWrite, At
  <2>3. cost \in [Costs -> CostRow]
    BY DEF PapersInv, CostTables
  <2>4. ASSUME NEW c \in Costs
        PROVE  /\ cost'[c] \in CostRow /\ cost'[c].status = cost[c].status /\ cost'[c].total = cost[c].total
               /\ cost'[c].lines = cost[c].lines
    <3>1. [cost[c] EXCEPT !.shipment = None] \in CostRow
      BY <2>3 DEF CostRow
    <3>2. cost'[c] = cost[c] \/ cost'[c] = [cost[c] EXCEPT !.shipment = None]
      BY <2>2
    <3> QED
      BY <2>3, <3>1, <3>2 DEF CostRow
  <2>5. \A c \in Costs : InsertedIn(c)' = InsertedIn(c) /\ (Kept(c)' <=> Kept(c))
    BY <2>4 DEF InsertedIn, Kept
  <2>6. CostTables'
    <3>1. cost' \in [Costs -> CostRow]
      BY <2>2, <2>4
    <3>2. ASSUME NEW c \in Costs PROVE Summed(c)'
      BY <2>4, <2>5 DEF PapersInv, CostTables, Summed
    <3> QED
      BY <3>1, <3>2 DEF CostTables
  <2>7. ASSUME Alone, NEW c \in Costs PROVE OneInsertion(c)'
    <3>1. void \/ CostsOf(s) = {}
      BY <2>1, <2>2, <2>7 DEF PapersInv, AllSeen
    <3>2. cost'[c] = cost[c]
      BY <2>2, <3>1
    <3> QED
      BY <2>5, <2>7, <3>2 DEF PapersInv, OneInsertion
  <2> QED
    BY <2>2, <2>6, <2>7, PapersEnds
<1> QED
  BY <1>1, <1>2

LEMMA PapersStep == PapersInv /\ [PaperStep]_<<requestVars, paperTables>> => PapersInv'
<1> SUFFICES ASSUME PapersInv, [PaperStep]_<<requestVars, paperTables>> PROVE PapersInv'
  OBVIOUS
<1>1. ASSUME NEW call, AtOnce(call), cost' = cost PROVE PapersInv'
  BY <1>1, CostsRest, PapersOnce
<1>2. CASE UNCHANGED <<requestVars, paperTables>>
  <2>1. cost' = cost /\ request' = request /\ scenario' = scenario
    BY <1>2 DEF requestVars, paperTables
  <2> QED
    BY <2>1, CostsRest DEF PapersInv, Busy, Alone, CostKnows, LinesGiven
<1>3. ASSUME NEW c \in Costs, NEW form \in CostForms, NEW s \in Shipments \cup {None}, CreateCost(c, form, s)
      PROVE  PapersInv'
  BY <1>3, CreateKeeps
<1>4. ASSUME NEW s \in Shipments, NEW status \in ShipmentStatus, SetShipment(s, status) PROVE PapersInv'
  BY <1>1, <1>4 DEF SetShipment
<1>5. ASSUME NEW r \in Clients, NEW c \in Costs, NEW form \in CostForms, NEW named \in BOOLEAN,
             NEW s \in Shipments \cup {None}, UpdateCostRead(r, c, form, named, s)
      PROVE  PapersInv'
  BY <1>5, UpdateReads
<1>6. ASSUME NEW r \in Clients, AbortPapers(r) PROVE PapersInv'
  <2>1. request[r].pc # "idle" /\ Ends(r) /\ cost' = cost
    BY <1>6 DEF AbortPapers, Abort, paperTables
  <2> QED
    BY <2>1, CostsRest, PapersEnds
<1>7. ASSUME NEW type, NEW form, NEW lines, CreateSheet(type, form, lines) \/ GenerateForm(lines) \/ PrintForm(lines)
      PROVE  PapersInv'
  BY <1>1, <1>7 DEF CreateSheet, GenerateForm, PrintForm
<1> QED
  BY <1>2, <1>3, <1>4, <1>5, <1>6, <1>7, UpdateDeletes, UpdateWrites, DecidesAndWrites, RemovesShipment
  DEF PaperStep

LEMMA PapersInvariance == PaperSpec => []PapersInv
  BY PapersInit, PapersStep, PTL DEF PaperSpec

\* The total of a logistics cost is the sum of lines it has, however updates overlap; alone, of
\* all its lines, and a cost keeps the shipment it was filed under until a form names another or
\* null (CostsHold).
THEOREM CostsHoldCorrect == PaperSpec => []CostsHold
<1>1. PapersInv => CostsHold
  <2> SUFFICES ASSUME PapersInv, NEW c \in Costs, Kept(c)
               PROVE  /\ \E i \in InsertedIn(c) : cost[c].total = Vnd(cost[c].lines[i])
                      /\ Alone => Cardinality(InsertedIn(c)) = 1
                      /\ Alone /\ cost[c].filed => cost[c].shipment # None
    BY DEF CostsHold
  <2>1. \E i \in InsertedIn(c) : cost[c].total = Vnd(cost[c].lines[i])
    BY DEF PapersInv, CostTables, Summed
  <2>2. ASSUME Alone PROVE Cardinality(InsertedIn(c)) = 1 /\ (cost[c].filed => cost[c].shipment # None)
    <3>1. OneInsertion(c)
      BY <2>2 DEF PapersInv
    <3>2. PICK i : InsertedIn(c) = {i}
      BY <3>1 DEF OneInsertion
    <3> QED
      BY <3>1, <3>2, FS_Singleton DEF OneInsertion
  <2> QED
    BY <2>1, <2>2
<1> QED
  BY <1>1, PapersInvariance, PTL

-----------------------------------------------------------------------------
(* Price sheets and the order form.                                        *)
LEMMA TotalIs ==
  ASSUME NEW S, IsFiniteSet(S), NEW f, DOMAIN f = S, \A x \in S : f[x] \in Int
  PROVE  Total(f) = SumFunctionOnSet(f, S) /\ Total(f) \in Int
<1>1. Total(f) = SumFunctionOnSet(f, S)
  BY DEF Total, SumFunction, FoldFunction, SumFunctionOnSet
<1> QED
  BY <1>1, SumType

LEMMA AverageIs == ASSUME NEW form \in PriceForm PROVE Average(form) \in Int
<1>1. PICK days : days = PriceDays(form)
  OBVIOUS
<1>2. IsFiniteSet(DOMAIN days) /\ \A i \in DOMAIN days : days[i] \in Int
  <2>1. CASE form.days # <<>> \/ form.base = None
    <3>1. days = form.days /\ form.days \in Seq(Int)
      BY <1>1, <2>1 DEF PriceDays, PriceForm
    <3>2. DOMAIN days = 1 .. Len(days) /\ Len(days) \in Nat
      BY <3>1
    <3>3. IsFiniteSet(DOMAIN days)
      BY <3>2, FS_Interval
    <3> QED
      BY <3>1, <3>3
  <2>2. CASE ~(form.days # <<>> \/ form.base = None)
    <3>1. PICK S : S = {j \in DOMAIN Quotes : Quotes[j].day \in form.base - Window .. form.base + Window}
      OBVIOUS
    <3>2. days = [i \in S |-> Quotes[i].price]
      BY <1>1, <2>2, <3>1 DEF PriceDays
    <3>3. IsFiniteSet(1 .. Len(Quotes)) /\ DOMAIN Quotes = 1 .. Len(Quotes)
      BY FS_Interval
    <3>4. IsFiniteSet(S)
      BY <3>1, <3>3, FS_Subset
    <3>5. \A i \in DOMAIN Quotes : Quotes[i].price \in Int
      <4>1. PICK Quote : Quote = [day : Int, price : Int]
        OBVIOUS
      <4>2. Quotes \in Seq(Quote)
        BY <4>1
      <4>3. \A i \in DOMAIN Quotes : Quotes[i] \in Quote
        BY <4>2
      <4> QED
        BY <4>1, <4>3
    <3> QED
      BY <3>1, <3>2, <3>4, <3>5
  <2> QED
    BY <2>1, <2>2
<1>3. Total(days) \in Int
  BY <1>2, TotalIs
<1>4. form.mops \in Int
  BY DEF PriceForm
<1>5. DOMAIN days # {} => Cardinality(DOMAIN days) \in Nat \ {0}
  BY <1>2, FS_CardinalityType, FS_EmptySet
<1>6. \A a \in Int, b \in Nat \ {0} : a \div b \in Int
  OBVIOUS
<1>7. CASE DOMAIN days = {}
  BY <1>1, <1>4, <1>7 DEF Average
<1>8. CASE DOMAIN days # {}
  <2>1. Average(form) = Total(days) \div Cardinality(DOMAIN days)
    BY <1>1, <1>8 DEF Average
  <2> QED
    BY <1>3, <1>5, <1>6, <1>8, <2>1
<1> QED
  BY <1>7, <1>8

LEMMA LogisticsIs == ASSUME CostTables PROVE LogisticsCosts \in Int
<1>1. PICK f : f = [c \in Costs |-> Total([i \in CapitalizedLines(c) |-> LinesOf(c)[i].vnd])]
  OBVIOUS
<1>2. ASSUME NEW c \in Costs PROVE f[c] \in Int
  <2>1. PICK lines \in Seq(LineRow) : lines = LinesOf(c)
    BY LinesOfIs
  <2>2. PICK g : g = [i \in CapitalizedLines(c) |-> LinesOf(c)[i].vnd]
    OBVIOUS
  <2>3. DOMAIN g \subseteq 1 .. Len(lines) /\ IsFiniteSet(1 .. Len(lines))
    BY <2>1, <2>2, FS_Interval DEF CapitalizedLines
  <2>4. IsFiniteSet(DOMAIN g)
    BY <2>3, FS_Subset
  <2>5. \A i \in 1 .. Len(lines) : lines[i].vnd \in Int
    <3>1. \A i \in 1 .. Len(lines) : lines[i] \in LineRow
      OBVIOUS
    <3> QED
      BY <3>1 DEF LineRow
  <2>6. \A i \in DOMAIN g : g[i] \in Int
    BY <2>1, <2>2, <2>3, <2>5
  <2>7. f[c] = Total(g)
    BY <1>1, <2>2
  <2> QED
    BY <2>4, <2>6, <2>7, TotalIs
<1>3. PICK S : S = {c \in Costs : cost[c].status = "CONFIRMED"}
  OBVIOUS
<1>4. IsFiniteSet(S) /\ S \subseteq Costs
  BY <1>3, FS_Subset
<1>5. LogisticsCosts = SumFunctionOnSet(f, S)
  BY <1>1, <1>3 DEF LogisticsCosts
<1> QED
  BY <1>2, <1>4, <1>5, SumType

LEMMA StageCostsIs == ASSUME CostTables, NEW form \in PriceForm, NEW type PROVE StageCosts(type, form) \in Int
<1>1. form.costs \in Seq(Int)
  BY DEF PriceForm
<1>2. DOMAIN form.costs = 1 .. Len(form.costs) /\ Len(form.costs) \in Nat
  BY <1>1
<1>3. IsFiniteSet(DOMAIN form.costs)
  BY <1>2, FS_Interval
<1>4. Total(form.costs) \in Int
  BY <1>1, <1>3, TotalIs
<1> QED
  BY <1>4, LogisticsIs DEF StageCosts

\* A sheet is what its form and its costs make.
SheetOK(s) ==
    /\ s.form \in PriceForm /\ s.costs \in Int /\ s.computed = Recalculated(s.form, s.costs)
    /\ \E n \in Nat : /\ DOMAIN s.lines = 1 .. n
                      /\ \A i \in 1 .. n : /\ s.lines[i].qty \in Int
                                           /\ s.lines[i].amount = s.lines[i].qty * s.computed.selling
DocumentOK(d) == Total([i \in DOMAIN d.lines |-> d.lines[i].amount]) = d.total
SheetInv ==
    /\ DOMAIN sheet = {"ESTIMATE", "BOSS_SHEET"}
    /\ \A type \in DOMAIN sheet : sheet[type] # None => SheetOK(sheet[type])
    /\ document # None => DocumentOK(document)

LEMMA RecalculatedIs ==
  ASSUME NEW form \in PriceForm, NEW extra \in Int, NEW r, r = Recalculated(form, extra)
  PROVE  /\ r.usd \in Int /\ r.insurance \in Int /\ r.loss \in Int /\ r.bill \in Int /\ r.selling \in Int
         /\ r.temporary = r.selling * form.tank
         /\ r.bill = r.usd * form.fx + r.insurance + form.fees + r.loss + extra - form.deduction
         /\ form.tank > 0 => r.selling = (r.bill \div form.tank) + form.perLiter
<1>1. PICK average \in Int : average = Average(form)
  BY AverageIs
<1>2. /\ form.premium \in Int /\ form.barrels \in Int /\ form.fx \in Int /\ form.fees \in Int
      /\ form.insurance \in Int \cup {None} /\ form.insuranceRate \in Int /\ form.loss \in Int \cup {None}
      /\ form.lossRate \in Int /\ form.deduction \in Int /\ form.tank \in Int /\ form.perLiter \in Int
  BY DEF PriceForm
<1>3. PICK usd \in Int : usd = (average + form.premium) * form.barrels
  BY <1>2
<1>4. PICK goods \in Int : goods = usd * form.fx
  BY <1>2
<1>5. PICK insurance \in Int : insurance = IF form.insurance = None THEN goods * form.insuranceRate ELSE form.insurance
  BY <1>2
<1>6. PICK loss \in Int : loss = IF form.loss = None THEN goods * form.lossRate ELSE form.loss
  BY <1>2
<1>7. PICK bill \in Int : bill = goods + insurance + form.fees + loss + extra - form.deduction
  BY <1>2
<1>8. PICK selling \in Int : selling = (IF form.tank > 0 THEN bill \div form.tank ELSE 0) + form.perLiter
  BY <1>2
<1>9. r = [usd |-> usd, insurance |-> insurance, loss |-> loss, bill |-> bill,
           selling |-> selling, temporary |-> selling * form.tank]
  BY <1>1, <1>3, <1>4, <1>5, <1>6, <1>7, <1>8 DEF Recalculated
<1> QED
  BY <1>2, <1>4, <1>7, <1>8, <1>9

LEMMA PricedIs ==
  ASSUME CostTables, NEW type, NEW form \in PriceForms, NEW lines \in OrderLines,
         DOMAIN form.qtys \subseteq DOMAIN lines
  PROVE  SheetOK(Priced(type, form, lines))
<1>1. PICK extra \in Int : extra = StageCosts(type, form)
  BY StageCostsIs
<1>2. PICK computed : computed = Recalculated(form, extra)
  OBVIOUS
<1>3. PICK s : s = Priced(type, form, lines)
  OBVIOUS
<1>4. s = [form |-> form, computed |-> computed, costs |-> extra,
           lines |-> [i \in DOMAIN form.qtys |->
              [qty |-> StageQty(form.qtys[i], lines[i]),
               amount |-> StageQty(form.qtys[i], lines[i]) * computed.selling]]]
  BY <1>1, <1>2, <1>3 DEF Priced, Counted
<1>5. form.qtys \in Seq(Int \cup {None}) /\ lines \in Seq(OrderLine)
  BY DEF PriceForm
<1>6. Len(form.qtys) \in Nat /\ DOMAIN form.qtys = 1 .. Len(form.qtys)
  BY <1>5
<1>7. ASSUME NEW i \in DOMAIN form.qtys PROVE StageQty(form.qtys[i], lines[i]) \in Int
  <2>1. form.qtys[i] \in Int \cup {None}
    BY <1>5
  <2>2. lines[i] \in OrderLine
    BY <1>5
  <2> QED
    BY <2>1, <2>2 DEF StageQty, OrderLine
<1>8. DOMAIN s.lines = 1 .. Len(form.qtys)
  BY <1>4, <1>6
<1>9. ASSUME NEW i \in 1 .. Len(form.qtys)
      PROVE  s.lines[i].qty \in Int /\ s.lines[i].amount = s.lines[i].qty * s.computed.selling
  BY <1>4, <1>6, <1>7
<1>10. form \in PriceForm /\ s.form = form /\ s.costs = extra /\ s.computed = computed
  BY <1>4
<1> QED
  BY <1>2, <1>3, <1>6, <1>8, <1>9, <1>10 DEF SheetOK

\* The last line takes what the others leave.
LEMMA EstimateAddsUp ==
  ASSUME NEW s, SheetOK(s)
  PROVE  DocumentOK(FromEstimate(s))
<1>1. PICK n \in Nat : DOMAIN s.lines = 1 .. n /\ \A i \in 1 .. n : s.lines[i].qty \in Int
  BY DEF SheetOK
<1>2. PICK total \in Int : total = s.computed.temporary
  <2>1. PICK c : c = s.computed
    OBVIOUS
  <2>2. s.form \in PriceForm /\ s.costs \in Int /\ c = Recalculated(s.form, s.costs)
    BY <2>1 DEF SheetOK
  <2>3. c.selling \in Int /\ c.temporary = c.selling * s.form.tank
    BY <2>2, RecalculatedIs
  <2>4. s.form.tank \in Int
    BY <2>2 DEF PriceForm
  <2> QED
    BY <2>1, <2>3, <2>4
<1>3. Len(s.lines) = n
  BY <1>1
<1>4. PICK qty \in Int :
         qty = IF s.form.tank # 0 THEN s.form.tank ELSE Total([i \in DOMAIN s.lines |-> s.lines[i].qty])
  <2>1. PICK f : f = [i \in 1 .. n |-> s.lines[i].qty]
    OBVIOUS
  <2>2. IsFiniteSet(1 .. n)
    BY FS_Interval
  <2>3. Total(f) \in Int
    BY <1>1, <2>1, <2>2, TotalIs
  <2>4. s.form.tank \in Int
    BY DEF SheetOK, PriceForm
  <2> QED
    BY <1>1, <2>1, <2>3, <2>4
<1>5. PICK unit \in Int : unit = IF qty > 0 THEN total \div qty ELSE 0
  OBVIOUS
<1>6. PICK d : d = FromEstimate(s)
  OBVIOUS
<1>7. d = [total |-> total, lines |-> EstimateLines(s, qty, total)]
  BY <1>2, <1>4, <1>6 DEF FromEstimate
<1>8. PICK g : g = [i \in DOMAIN d.lines |-> d.lines[i].amount]
  OBVIOUS
<1>9. CASE n = 0
  <2>1. d.lines = <<[qty |-> qty, amount |-> total]>>
    BY <1>3, <1>7, <1>9 DEF EstimateLines
  <2>2. g = [i \in {1} |-> total]
    <3>1. DOMAIN d.lines = {1} /\ d.lines[1].amount = total
      BY <2>1
    <3> QED
      BY <1>8, <3>1
  <2>3. IsFiniteSet({1}) /\ {1} \ {1} = {}
    BY FS_Singleton
  <2>4. Total(g) = SumFunctionOnSet(g, {1})
    BY <2>2, <2>3, TotalIs
  <2>5. SumFunctionOnSet(g, {1}) = g[1] + SumFunctionOnSet(g, {1} \ {1})
    BY <2>2, <2>3, SumRemove
  <2>6. SumFunctionOnSet(g, {1} \ {1}) = 0
    BY <2>3, SumEmpty
  <2> QED
    BY <1>6, <1>7, <1>8, <2>2, <2>4, <2>5, <2>6 DEF DocumentOK
<1>10. CASE n # 0
  <2>1. PICK f : f = [j \in 1 .. n - 1 |-> s.lines[j].qty]
    OBVIOUS
  <2>2. d.lines = [i \in 1 .. n |->
                [qty |-> s.lines[i].qty,
                 amount |-> IF i < n THEN s.lines[i].qty * unit ELSE total - unit * Total(f)]]
    BY <1>3, <1>5, <1>7, <1>10, <2>1 DEF EstimateLines
  <2>3. g = [i \in 1 .. n |-> IF i < n THEN s.lines[i].qty * unit ELSE total - unit * Total(f)]
    <3>1. DOMAIN d.lines = 1 .. n
      BY <2>2
    <3>2. \A i \in 1 .. n : d.lines[i].amount = IF i < n THEN s.lines[i].qty * unit ELSE total - unit * Total(f)
      BY <2>2
    <3> QED
      BY <1>8, <3>1, <3>2
  <2>4. IsFiniteSet(1 .. n) /\ IsFiniteSet(1 .. n - 1) /\ n \in 1 .. n /\ (1 .. n) \ {n} = 1 .. n - 1
    <3>1. IsFiniteSet(1 .. n) /\ IsFiniteSet(1 .. n - 1)
      BY FS_Interval
    <3>2. n \in 1 .. n /\ (1 .. n) \ {n} = 1 .. n - 1
      BY <1>10
    <3> QED
      BY <3>1, <3>2
  <2>5. \A j \in 1 .. n - 1 : f[j] \in Int
    BY <1>1, <2>1
  <2>6. Total(f) = SumFunctionOnSet(f, 1 .. n - 1) /\ Total(f) \in Int
    BY <2>1, <2>4, <2>5, TotalIs
  <2>7. \A i \in 1 .. n : g[i] \in Int
    BY <1>1, <2>3, <2>6
  <2>8. \A j \in 1 .. n - 1 : g[j] = f[j] * unit
    BY <2>1, <2>3
  <2>9. SumFunctionOnSet(g, 1 .. n - 1) = SumFunctionOnSet(f, 1 .. n - 1) * unit
    BY <2>4, <2>5, <2>8, SumScale
  <2>10. SumFunctionOnSet(g, 1 .. n) = g[n] + SumFunctionOnSet(g, 1 .. n - 1)
    <3>1. SumFunctionOnSet(g, 1 .. n) = g[n] + SumFunctionOnSet(g, (1 .. n) \ {n})
      BY <2>4, <2>7, SumRemove
    <3> QED
      BY <2>4, <3>1
  <2>11. g[n] = total - unit * Total(f)
    BY <2>3, <2>4
  <2>12. SumFunctionOnSet(g, 1 .. n) = total
    <3>1. \A x, y \in Int : (total - y * x) + x * y = total
      OBVIOUS
    <3> QED
      BY <2>6, <2>9, <2>10, <2>11, <3>1
  <2>13. Total(g) = SumFunctionOnSet(g, 1 .. n)
    BY <2>3, <2>4, <2>7, TotalIs
  <2> QED
    BY <1>6, <1>7, <1>8, <2>12, <2>13 DEF DocumentOK
<1> QED
  BY <1>9, <1>10

LEMMA DirectAddsUp == ASSUME NEW lines PROVE DocumentOK(Direct(lines))
<1>1. PICK d : d = Direct(lines)
  OBVIOUS
<1>2. d.total = Total([i \in DOMAIN d.lines |-> d.lines[i].amount])
  BY <1>1 DEF Direct
<1> QED
  BY <1>1, <1>2 DEF DocumentOK

LEMMA SheetInit == PaperTablesInit => SheetInv
  BY DEF PaperTablesInit, SheetInv

LEMMA SheetStep == PapersInv /\ SheetInv /\ [PaperStep]_<<requestVars, paperTables>> => SheetInv'
<1> SUFFICES ASSUME PapersInv, SheetInv, [PaperStep]_<<requestVars, paperTables>> PROVE SheetInv'
  OBVIOUS
<1>1. ASSUME sheet' = sheet, document' = document PROVE SheetInv'
  BY <1>1 DEF SheetInv, SheetOK, DocumentOK
<1>2. ASSUME NEW lines \in OrderLines, NEW type \in {"ESTIMATE", "BOSS_SHEET"}, NEW form \in PriceForms,
             CreateSheet(type, form, lines)
      PROVE  SheetInv'
  <2>1. PICK s : s = Priced(type, form, lines)
    OBVIOUS
  <2>2. SheetOK(s)
    BY <1>2, <2>1, PricedIs DEF PapersInv, CreateSheet
  <2>3. sheet' = [sheet EXCEPT ![type] = s] /\ document' = document
    BY <1>2, <2>1 DEF CreateSheet
  <2>4. DOMAIN sheet' = DOMAIN sheet /\ \A t \in DOMAIN sheet : sheet'[t] = IF t = type THEN s ELSE sheet[t]
    BY <2>3
  <2>5. ASSUME NEW t \in DOMAIN sheet, sheet'[t] # None PROVE SheetOK(sheet'[t])
    BY <2>2, <2>4, <2>5 DEF SheetInv
  <2> QED
    BY <2>3, <2>4, <2>5 DEF SheetInv, SheetOK, DocumentOK
<1>3. ASSUME NEW lines, GenerateForm(lines) PROVE SheetInv'
  <2>1. sheet' = sheet
    BY <1>3 DEF GenerateForm
  <2>2. DocumentOK(document')
    <3>1. CASE sheet["ESTIMATE"] # None
      <4>1. SheetOK(sheet["ESTIMATE"])
        BY <3>1 DEF SheetInv
      <4>2. document' = FromEstimate(sheet["ESTIMATE"])
        BY <1>3, <3>1 DEF GenerateForm
      <4> QED
        BY <4>1, <4>2, EstimateAddsUp
    <3>2. CASE sheet["ESTIMATE"] = None
      BY <1>3, <3>2, DirectAddsUp DEF GenerateForm
    <3> QED
      BY <3>1, <3>2
  <2> QED
    BY <2>1, <2>2 DEF SheetInv, SheetOK, DocumentOK
<1>4. CASE UNCHANGED <<requestVars, paperTables>>
  BY <1>1, <1>4 DEF paperTables
<1>5. CASE PaperStep
  <2>1. ASSUME NEW c, NEW form, NEW s, CreateCost(c, form, s) PROVE SheetInv'
    BY <1>1, <2>1 DEF CreateCost
  <2>2. ASSUME NEW s, NEW status, SetShipment(s, status) PROVE SheetInv'
    BY <1>1, <2>2 DEF SetShipment
  <2>3. ASSUME NEW r, NEW c, NEW form, NEW named, NEW s, UpdateCostRead(r, c, form, named, s) PROVE SheetInv'
    BY <1>1, <2>3 DEF UpdateCostRead, paperTables
  <2>4. ASSUME NEW r, NEW c, NEW to, DecideCost(r, c, to) PROVE SheetInv'
    BY <1>1, <2>4 DEF DecideCost, paperTables
  <2>5. ASSUME NEW r, NEW s, RemoveShipmentRead(r, s) PROVE SheetInv'
    BY <1>1, <2>5 DEF RemoveShipmentRead, paperTables
  <2>6. ASSUME NEW r, UpdateCostDelete(r) \/ AbortPapers(r) PROVE SheetInv'
    BY <1>1, <2>6 DEF UpdateCostDelete, AbortPapers, paperTables
  <2>7. ASSUME NEW r, UpdateCostWrite(r) PROVE SheetInv'
    BY <1>1, <2>7 DEF UpdateCostWrite
  <2>8. ASSUME NEW r, WriteCost(r) \/ RemoveShipmentWrite(r) PROVE SheetInv'
    BY <1>1, <2>8 DEF WriteCost, RemoveShipmentWrite
  <2> QED
    BY <1>2, <1>3, <1>5, <2>1, <2>2, <2>3, <2>4, <2>5, <2>6, <2>7, <2>8 DEF PaperStep, PrintForm
<1> QED
  BY <1>4, <1>5

LEMMA DivMod == \A b \in Int, t \in Nat \ {0} : b = (b \div t) * t + (b % t)
  OBVIOUS

\* What a sheet shows its reader (the first conjunct of PapersAddUp, for one sheet).
LEMMA SheetAddsUp ==
  ASSUME NEW s, SheetOK(s), NEW row, row = SheetRows(s)
  PROVE  /\ row.BILL_TOTAL_VND - s.form.fees =
                row.PAYMENT_AMOUNT_USD * row.FX_RATE + row.INSURANCE + row.COST + row.TRANSPORT_LOSS
                - row.TRANSPORT_DEDUCTION
         /\ row.TANK_QTY = 0 => row.TEMP_AMOUNT = 0
         /\ row.TANK_QTY > 0 /\ row.BILL_TOTAL_VND % row.TANK_QTY = 0 =>
                row.TEMP_AMOUNT = row.BILL_TOTAL_VND + s.form.perLiter * row.TANK_QTY
         /\ Total([i \in DOMAIN s.lines |-> s.lines[i].qty]) = row.TANK_QTY =>
                Total([i \in DOMAIN s.lines |-> s.lines[i].amount]) = row.TEMP_AMOUNT
<1>1. PICK form \in PriceForm : form = s.form
  BY DEF SheetOK
<1>2. PICK extra \in Int : extra = s.costs
  BY DEF SheetOK
<1>3. PICK c : c = s.computed
  OBVIOUS
<1>4. /\ c.usd \in Int /\ c.insurance \in Int /\ c.loss \in Int /\ c.bill \in Int /\ c.selling \in Int
      /\ c.temporary = c.selling * form.tank
      /\ c.bill = c.usd * form.fx + c.insurance + form.fees + c.loss + extra - form.deduction
      /\ form.tank > 0 => c.selling = (c.bill \div form.tank) + form.perLiter
  BY <1>1, <1>2, <1>3, RecalculatedIs DEF SheetOK
<1>5. form.fx \in Int /\ form.fees \in Int /\ form.deduction \in Int /\ form.tank \in Int /\ form.perLiter \in Int
  BY DEF PriceForm
<1>6. /\ row.BILL_TOTAL_VND = c.bill /\ row.PAYMENT_AMOUNT_USD = c.usd /\ row.FX_RATE = form.fx
      /\ row.INSURANCE = c.insurance /\ row.COST = extra /\ row.TRANSPORT_LOSS = c.loss
      /\ row.TRANSPORT_DEDUCTION = form.deduction /\ row.TANK_QTY = form.tank /\ row.TEMP_AMOUNT = c.temporary
  BY <1>1, <1>2, <1>3 DEF SheetRows
<1>7. c.bill - form.fees = c.usd * form.fx + c.insurance + extra + c.loss - form.deduction
  <2>1. PICK goods \in Int : goods = c.usd * form.fx
    BY <1>4, <1>5
  <2>2. PICK i, f, l, d \in Int : i = c.insurance /\ f = form.fees /\ l = c.loss /\ d = form.deduction
    BY <1>4, <1>5
  <2>3. c.bill = goods + i + f + l + extra - d
    BY <1>4, <2>1, <2>2
  <2>4. c.bill - f = goods + i + extra + l - d
    BY <2>3
  <2> QED
    BY <2>1, <2>2, <2>4
<1>8. form.tank = 0 => c.temporary = 0
  BY <1>4, <1>5
<1>9. ASSUME form.tank > 0, c.bill % form.tank = 0 PROVE c.temporary = c.bill + form.perLiter * form.tank
  <2>1. PICK t \in Nat \ {0} : t = form.tank
    BY <1>5, <1>9
  <2>2. PICK bill \in Int : bill = c.bill
    BY <1>4
  <2>3. PICK k \in Int : k = bill \div t
    OBVIOUS
  <2>4. bill = k * t
    <3>1. bill = (bill \div t) * t + (bill % t)
      BY DivMod
    <3>2. bill % t = 0
      BY <1>9, <2>1, <2>2
    <3>3. k * t \in Int
      OBVIOUS
    <3> QED
      BY <2>3, <3>1, <3>2, <3>3
  <2>5. \A a \in Int : (k + a) * t = k * t + a * t
    OBVIOUS
  <2>6. c.temporary = (k + form.perLiter) * t
    BY <1>4, <1>9, <2>1, <2>2, <2>3
  <2> QED
    BY <1>5, <2>1, <2>2, <2>4, <2>5, <2>6
<1>10. ASSUME Total([i \in DOMAIN s.lines |-> s.lines[i].qty]) = form.tank
       PROVE  Total([i \in DOMAIN s.lines |-> s.lines[i].amount]) = c.temporary
  <2>1. PICK n \in Nat : /\ DOMAIN s.lines = 1 .. n
                         /\ \A i \in 1 .. n : /\ s.lines[i].qty \in Int
                                              /\ s.lines[i].amount = s.lines[i].qty * c.selling
    BY <1>3 DEF SheetOK
  <2>2. PICK f : f = [i \in 1 .. n |-> s.lines[i].qty]
    OBVIOUS
  <2>3. PICK g : g = [i \in 1 .. n |-> s.lines[i].amount]
    OBVIOUS
  <2>4. IsFiniteSet(1 .. n)
    BY FS_Interval
  <2>5. \A i \in 1 .. n : f[i] \in Int /\ g[i] = f[i] * c.selling /\ g[i] \in Int
    BY <1>4, <2>1, <2>2, <2>3
  <2>6. SumFunctionOnSet(g, 1 .. n) = SumFunctionOnSet(f, 1 .. n) * c.selling
    BY <1>4, <2>4, <2>5, SumScale
  <2>7. Total(f) = SumFunctionOnSet(f, 1 .. n) /\ Total(g) = SumFunctionOnSet(g, 1 .. n)
    BY <2>2, <2>3, <2>4, <2>5, TotalIs
  <2>8. Total(f) = form.tank
    BY <1>10, <2>1, <2>2
  <2>9. Total(g) = form.tank * c.selling
    BY <2>6, <2>7, <2>8
  <2> QED
    BY <1>4, <1>5, <2>1, <2>3, <2>9
<1> QED
  BY <1>1, <1>6, <1>7, <1>8, <1>9, <1>10

LEMMA SheetInvariance == PaperSpec => []SheetInv
  BY PapersInvariance, SheetInit, SheetStep, PTL DEF PaperSpec

\* Price sheets and order forms add up, whatever is entered and whichever costs were confirmed
\* (PapersAddUp).
THEOREM PapersAddUpCorrect == PaperSpec => []PapersAddUp
<1>1. SheetInv => PapersAddUp
  <2> SUFFICES ASSUME SheetInv PROVE PapersAddUp
    OBVIOUS
  <2>1. ASSUME NEW type \in {t \in DOMAIN sheet : sheet[t] # None} PROVE SheetOK(sheet[type])
    BY <2>1 DEF SheetInv
  <2>2. document # None => Total([i \in DOMAIN document.lines |-> document.lines[i].amount]) = document.total
    BY DEF SheetInv, DocumentOK
  <2> QED
    BY <2>1, <2>2, SheetAddsUp DEF PapersAddUp
<1> QED
  BY <1>1, SheetInvariance, PTL
=============================================================================
