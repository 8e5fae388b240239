---------------------------- MODULE PriceTimeline ----------------------------
(***************************************************************************)
(* Price bulletins (PriceBulletinsService): create, update, publish and    *)
(* void of a bulletin, importPdfCommit, which fits a new bulletin between  *)
(* its neighbours in time, and the prices quotePrice finds.                *)
(*                                                                         *)
(* Requests are cut at their reads.  importPdfCommit reads, may void the   *)
(* bulletins of the same moment (whose rows it then holds, "voided") and   *)
(* reads its neighbours before it writes.                                  *)
(*                                                                         *)
(* The operator before a definition is what it would be after a slip; no   *)
(* action uses it.                                                         *)
(***************************************************************************)
EXTENDS Requests

CONSTANTS
    Bulletins,     \* ids a PriceBulletin row may get
    Items,         \* (product, region) pairs a bulletin may price
    MaxTime,       \* bound: moments at which a bulletin may start or end
    MomentsADay    \* how many of them are on one day

ASSUME TimeAssumption == MaxTime \in Nat /\ MomentsADay \in Nat \ {0}
ASSUME NoneAssumption ==
    /\ None \notin Bulletins
    /\ None \notin Nat
    /\ \A items \in SUBSET Items : items # None

VARIABLES
    bulletin       \* the PriceBulletin table and its items

bulletinVars == <<requestVars, bulletin>>

Times == 1 .. MaxTime
Never == MaxTime + 1     \* effectiveTo = null
PriceBulletinStatus == {"DRAFT", "PUBLISHED", "VOID"}
PriceCalls == {"createPrice", "updatePrice", "publishPrice", "voidPrice", "importPrice"}

AbsentBulletin == [status |-> "ABSENT", from |-> 0, to |-> 0, items |-> {}, publishedAt |-> 0]

Published == {b \in Bulletins : bulletin[b].status = "PUBLISHED"}
PublishedAt(t) == {b \in Published : bulletin[b].from = t}

\* Where quotePrice looks: the end is exclusive.
InForce(t) == {b \in Published : bulletin[b].from <= t /\ t < bulletin[b].to}
Pricing(t, item) == {b \in InForce(t) : item \in bulletin[b].items}
Quoted(t, item) == {b \in Pricing(t, item) : \A c \in Pricing(t, item) : bulletin[c].from <= bulletin[b].from}

\* Where listPriceItems looks for the prices of a day (in UTC): the end is inclusive.
DayOf(t) == t \div MomentsADay
MomentsOf(day) == {t \in 0 .. Never : DayOf(t) = day}
Listed(day) ==
    {b \in Published : \E s, t \in MomentsOf(day) : bulletin[b].from <= s /\ bulletin[b].to >= t}

\* The rows an import has voided are held until it ends.
Importing(q) == request[q].pc \in {"importNext", "importPrev", "importCommit"}
Locked(b, r) == \E q \in Clients \ {r} : Importing(q) /\ b \in request[q].voided

\* A field the request leaves out keeps its value.
Given(new, old) == IF new = None THEN old ELSE new

BulletinInit == bulletin = [b \in Bulletins |-> AbsentBulletin]

\* The id of a row to be inserted; "rows" bounds how many are.
Fresh(b) ==
    /\ bulletin[b].status = "ABSENT"
    /\ Cardinality({c \in Bulletins : bulletin[c].status # "ABSENT"}) < scenario.rows

-----------------------------------------------------------------------------
\* create: publishedAt, which is unique, is the start the bulletin is given.
Create(b, status, from, to, items) ==
    /\ AtOnce("createPrice")
    /\ Fresh(b)
    /\ from <= to
    /\ \A c \in Bulletins : bulletin[c].publishedAt # from
    /\ bulletin' = [bulletin EXCEPT ![b] = [status |-> status, from |-> from, to |-> to,
                                            items |-> items, publishedAt |-> from]]

EditableUnlessVoid(b) == bulletin[b].status \in {"DRAFT", "PUBLISHED"}
Editable(b) == bulletin[b].status = "DRAFT"

\* update: what the request does not give keeps its value; the new interval
\* is not checked.
UpdateRead(r, b, from, to, items) ==
    /\ Starts(r, "updatePrice")
    /\ Editable(b)
    /\ Goes(r, [pc |-> "updatePrice", id |-> b, from |-> from, to |-> to, items |-> items])
    /\ UNCHANGED bulletin

UpdateWrite(r) ==
    LET q == request[r]
    IN  /\ q.pc = "updatePrice"
        /\ ~Locked(q.id, r)
        /\ bulletin' = [bulletin EXCEPT ![q.id].from = Given(q.from, @),
                                        ![q.id].to = Given(q.to, @),
                                        ![q.id].items = Given(q.items, @)]
        /\ Ends(r)

Publishable(b) == bulletin[b].status \notin {"ABSENT", "VOID"}

PublishRead(r, b) ==
    /\ Starts(r, "publishPrice")
    /\ Publishable(b)
    /\ Goes(r, [pc |-> "publishPrice", id |-> b])
    /\ UNCHANGED bulletin

\* void reads no more than that the bulletin is there.
VoidRead(r, b) ==
    /\ Starts(r, "voidPrice")
    /\ bulletin[b].status # "ABSENT"
    /\ Goes(r, [pc |-> "voidPrice", id |-> b])
    /\ UNCHANGED bulletin

SetStatus(r, pc, status) ==
    /\ At(r, pc)
    /\ ~Locked(request[r].id, r)
    /\ bulletin' = [bulletin EXCEPT ![request[r].id].status = status]
    /\ Ends(r)

PublishWrite(r) == SetStatus(r, "publishPrice", "PUBLISHED")
VoidWrite(r) == SetStatus(r, "voidPrice", "VOID")

-----------------------------------------------------------------------------
(* importPdfCommit, one transaction.                                        *)

ImportReadSame(r, from, items, isOverride) ==
    /\ Starts(r, "importPrice")
    /\ PublishedAt(from) # {} => isOverride
    /\ Goes(r, [pc |-> IF PublishedAt(from) = {} THEN "importNext" ELSE "importVoid",
                from |-> from, items |-> items, voided |-> {}])
    /\ UNCHANGED bulletin

\* updateMany waits for the rows it matches and then holds them.
ImportVoidSame(r) ==
    LET same == PublishedAt(request[r].from)
    IN  /\ At(r, "importVoid")
        /\ \A b \in same : ~Locked(b, r)
        /\ Goes(r, [request[r] EXCEPT !.pc = "importNext", !.voided = same])
        /\ UNCHANGED bulletin

LaterAny(t) == {b \in Bulletins : bulletin[b].status # "ABSENT" /\ bulletin[b].from > t}
Later(t) == {b \in Published : bulletin[b].from > t}

\* The published bulletin that starts next, of which only the start is used.
ImportReadNext(r) ==
    /\ At(r, "importNext")
    /\ LET later == Later(request[r].from) IN
       \E to \in IF later = {} THEN {Never}
                ELSE {bulletin[b].from : b \in {d \in later : \A c \in later : bulletin[d].from <= bulletin[c].from}} :
            Goes(r, [pc |-> "importPrev", from |-> request[r].from, to |-> to,
                     items |-> request[r].items, voided |-> request[r].voided])
    /\ UNCHANGED bulletin

EarlierFirst(t) == {b \in Published : /\ bulletin[b].from < t
                                      /\ \A c \in Published : bulletin[b].from <= bulletin[c].from}
Earlier(t) == {b \in Published : /\ bulletin[b].from < t
                                 /\ \A c \in Published :
                                        bulletin[c].from < t => bulletin[c].from <= bulletin[b].from}

ImportReadPrev(r) ==
    /\ At(r, "importPrev")
    /\ LET earlier == Earlier(request[r].from) IN
       \E prev \in IF earlier = {} THEN {None} ELSE earlier :
            Goes(r, [pc |-> "importCommit", from |-> request[r].from, to |-> request[r].to,
                     items |-> request[r].items, voided |-> request[r].voided, prev |-> prev])
    /\ UNCHANGED bulletin

\* The neighbour before now ends where the new bulletin starts.
ImportCommit(r, b) ==
    LET q == request[r]
    IN  /\ q.pc = "importCommit"
        /\ Fresh(b)
        /\ q.prev # None => ~Locked(q.prev, r)
        /\ bulletin' =
               [c \in Bulletins |->
                   IF c = b
                   THEN [status |-> "PUBLISHED", from |-> q.from, to |-> q.to,
                         items |-> q.items, publishedAt |-> 0]
                   ELSE IF c \in q.voided THEN [bulletin[c] EXCEPT !.status = "VOID"]
                   ELSE IF c = q.prev THEN [bulletin[c] EXCEPT !.to = q.from]
                   ELSE bulletin[c]]
        /\ Ends(r)

-----------------------------------------------------------------------------
\* A check fails, a deadlock or the timeout rolls back, or the process dies.
AbortPrice(r) ==
    /\ Importing(r) \/ request[r].pc \in {"updatePrice", "publishPrice", "voidPrice", "importVoid"}
    /\ Abort(r)
    /\ UNCHANGED bulletin

PriceLists == (SUBSET Items) \ {{}}

PriceStep ==
    \/ \E b \in Bulletins, status \in PriceBulletinStatus, from \in Times,
          to \in Times \cup {Never}, items \in PriceLists : Create(b, status, from, to, items)
    \/ \E r \in Clients :
        \/ \E b \in Bulletins, from \in Times \cup {None}, to \in Times \cup {Never, None},
              items \in PriceLists \cup {None} : UpdateRead(r, b, from, to, items)
        \/ UpdateWrite(r)
        \/ \E b \in Bulletins : PublishRead(r, b) \/ VoidRead(r, b)
        \/ PublishWrite(r)
        \/ VoidWrite(r)
        \/ \E from \in Times, items \in PriceLists, isOverride \in BOOLEAN :
               ImportReadSame(r, from, items, isOverride)
        \/ ImportVoidSame(r)
        \/ ImportReadNext(r)
        \/ ImportReadPrev(r)
        \/ \E b \in Bulletins : ImportCommit(r, b)
        \/ AbortPrice(r)

PriceSpec == RequestsInit /\ BulletinInit /\ [][PriceStep]_bulletinVars

-----------------------------------------------------------------------------
(* Properties                                                              *)

ImportsOnly == scenario.calls \subseteq {"importPrice", "voidPrice"}

\* However imports and voids interleave, a bulletin in force is in force for
\* some time: its end, computed from neighbours read earlier and later moved by
\* other imports, stays after its start.  Where imports come one at a time, a
\* moment has one price: quotePrice has nothing to choose from.  Whatever is
\* done to bulletins, the one quoted is in the price list of that day.
OnePriceAtATime ==
    /\ \A t \in Times, item \in Items : Quoted(t, item) \subseteq Listed(DayOf(t))
    /\ ImportsOnly =>
        /\ \A b \in Published : bulletin[b].from < bulletin[b].to
        /\ Alone => \A t \in Times : Cardinality(InForce(t)) <= 1

\* The bulletin in force at each moment.
timeline == [t \in Times |-> IF InForce(t) = {} THEN None ELSE CHOOSE b \in InForce(t) : TRUE]

Schedule == INSTANCE PriceSchedule WITH schedule <- timeline

\* One at a time, imports and voids implement the schedule: an import gives no
\* earlier moment another price, and a void only takes one away.
KeepsSchedule == [][ImportsOnly /\ Alone => [Schedule!Next]_timeline]_bulletinVars
=============================================================================
