--------------------------- MODULE BankStatements ---------------------------
(***************************************************************************)
(* importStatement: the rows of a bank statement become bank transactions, *)
(* those the bank account has already are left out.  A statement is known  *)
(* by its checksum, a transaction by its reference and by its fingerprint  *)
(* (day, direction, amount, texts, reference); all three are unique in the *)
(* account.  processSync, an older way in, works on the same imports.      *)
(***************************************************************************)
EXTENDS Requests, Sequences

CONSTANTS
    Rows,          \* what rows of statements say: equal rows have equal fingerprints
    Ref,           \* of each row: its external reference, or None
    Files,         \* statements, by checksum
    RowsOf,        \* the sequence of rows of each
    Readable,      \* the rows with a day, an amount and a description that the parser can read
    BatchSize      \* rows inserted at a time, 200

ASSUME BankStatementsAssumption ==
    /\ Files \subseteq DOMAIN RowsOf /\ \A f \in Files : RowsOf[f] \in Seq(Rows)
    /\ Rows \subseteq DOMAIN Ref /\ Readable \subseteq Rows /\ BatchSize \in Nat \ {0}

VARIABLES
    imports,       \* the BankStatementImport row of each statement
    posted         \* bank transactions: pairs <<row, statement it came with>>

statementTables == <<imports, posted>>

ImportStatus == {"PROCESSING", "DONE", "FAILED"}
NoImport == [status |-> "ABSENT", imported |-> 0, duplicated |-> 0]
Known(f) == imports[f].status # "ABSENT"
StoredRows == {p[1] : p \in posted}
\* What the unique keys of BankTransaction refuse.
Taken(row, rows) == \E q \in rows : q = row \/ (Ref[row] # None /\ Ref[q] = Ref[row])

ImportLookup(r, f) ==
    /\ Starts(r, "import")
    /\ ~Known(f)
    /\ Goes(r, [pc |-> "importCreate", file |-> f])
    /\ UNCHANGED statementTables

\* The key on the checksum stops the second of two.
ImportCreate(r) ==
    LET f == request[r].file IN
    /\ At(r, "importCreate")
    /\ ~Known(f)
    /\ imports' = [imports EXCEPT ![f] = [status |-> "PROCESSING", imported |-> 0, duplicated |-> 0]]
    /\ Goes(r, [pc |-> "importRead", file |-> f])
    /\ UNCHANGED posted

IsDuplicateByRef(row) == \E q \in StoredRows : Ref[q] = Ref[row]
IsDuplicate(row) == Taken(row, StoredRows)
\* The rows of a statement, by their places in it; the parser returns from the others, and no
\* counter counts them.
ReadableRows(f) == {i \in DOMAIN RowsOf[f] : RowsOf[f][i] \in Readable}
ToInsert(f) == {i \in ReadableRows(f) : ~IsDuplicate(RowsOf[f][i])}
\* Without a valid row, or with no template or one that does not fit, the import fails (ImportFailed).
ImportRead(r) ==
    LET f == request[r].file toInsert == ToInsert(f) IN
    /\ At(r, "importRead") /\ ReadableRows(f) # {}
    /\ Goes(r, [pc |-> "importBatch", file |-> f, todo |-> toInsert, imported |-> 0,
                duplicated |-> Cardinality(ReadableRows(f)) - Cardinality(toInsert)])
    /\ UNCHANGED statementTables

\* The next rows, BatchSize of them at most.
Chunk(todo) == {i \in todo : Cardinality({j \in todo : j <= i}) <= BatchSize}
\* createMany with skipDuplicates: a row that clashes with a stored one, or with one before it in
\* the chunk, is passed over, and counted all the same.
Inserted(f, chunk) ==
    {RowsOf[f][i] : i \in {j \in chunk :
        ~Taken(RowsOf[f][j], StoredRows \cup {RowsOf[f][k] : k \in {l \in chunk : l < j}})}}
ImportBatch(r) ==
    LET q == request[r] chunk == Chunk(q.todo) IN
    /\ At(r, "importBatch") /\ q.todo # {}
    /\ posted' = posted \cup (Inserted(q.file, chunk) \X {q.file})
    /\ Goes(r, [q EXCEPT !.todo = @ \ chunk, !.imported = @ + Cardinality(chunk)])
    /\ UNCHANGED imports
ImportDone(r) ==
    /\ At(r, "importBatch") /\ request[r].todo = {}
    /\ imports' = [imports EXCEPT ![request[r].file] =
            [status |-> "DONE", imported |-> request[r].imported, duplicated |-> request[r].duplicated]]
    /\ Ends(r) /\ UNCHANGED posted

\* An error on the way: the batches before it stay.
ImportFailed(r) ==
    /\ request[r].pc \in {"importRead", "importBatch"}
    /\ imports' = [imports EXCEPT ![request[r].file].status = "FAILED"]
    /\ Ends(r) /\ UNCHANGED posted

\* processSync looks for a file of the name the statement was uploaded with, where there is none.
ProcessSyncStart(r, f) ==
    /\ Starts(r, "processSync")
    /\ Known(f)
    /\ imports' = [imports EXCEPT ![f].status = "PROCESSING"]
    /\ Goes(r, [pc |-> "processSync", file |-> f])
    /\ UNCHANGED posted
ProcessSyncFails(r) ==
    /\ At(r, "processSync")
    /\ imports' = [imports EXCEPT ![request[r].file].status = "FAILED"]
    /\ Ends(r) /\ UNCHANGED posted

\* BankingService.remove of transactions nothing has matched.
RemovePosted(row) ==
    /\ AtOnce("removeTxn")
    /\ row \in StoredRows
    /\ posted' = {p \in posted : p[1] # row}
    /\ UNCHANGED imports

\* A process that dies leaves the import PROCESSING.
AbortImport(r) ==
    /\ request[r].pc \in {"importCreate", "importRead", "importBatch", "processSync"}
    /\ Abort(r) /\ UNCHANGED statementTables

StatementTablesInit == imports = [f \in Files |-> NoImport] /\ posted = {}
StatementStep ==
    \/ \E row \in Rows : RemovePosted(row)
    \/ \E r \in Clients :
        \/ \E f \in Files : ImportLookup(r, f) \/ ProcessSyncStart(r, f)
        \/ ImportCreate(r) \/ ImportRead(r) \/ ImportBatch(r) \/ ImportDone(r) \/ ImportFailed(r)
        \/ ProcessSyncFails(r) \/ AbortImport(r)
StatementSpec == RequestsInit /\ StatementTablesInit /\ [][StatementStep]_<<requestVars, statementTables>>

(***************************************************************************)
(* Properties                                                              *)
(***************************************************************************)
\* Of the rows the parser can read an import that is DONE lost none, whatever else was imported
\* meanwhile, whatever was left out as known and whatever failed imports left behind: each of them, or
\* one of the same reference, is a bank transaction, and the counters count each of them.  Served
\* alone, they count what was stored, for a statement that does not repeat itself.  (The rows the
\* parser cannot read are nowhere: neither stored nor counted, also not as failed.)
DoneIsStored ==
    "removeTxn" \notin scenario.calls =>
        \A f \in Files : imports[f].status = "DONE" =>
            LET read == ReadableRows(f) IN
            /\ \A i \in read : Taken(RowsOf[f][i], StoredRows)
            /\ imports[f].imported + imports[f].duplicated = Cardinality(read)
            /\ Alone /\ (\A i, j \in read : Taken(RowsOf[f][i], {RowsOf[f][j]}) => i = j) =>
                  imports[f].imported = Cardinality({p \in posted : p[2] = f})
=============================================================================
