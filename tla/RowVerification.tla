--------------------------- MODULE RowVerification ---------------------------
(***************************************************************************)
(* What `certified' means, row by row. VectorCompressionEngine groups the  *)
(* rows of a sheet by the shape of their formulas; for the code generated  *)
(* for one partition VerifyPartitionRowsAsync fills a dictionary of inputs *)
(* anew from each row, on top of what the row before left in it, and       *)
(* CompileAndVerifyAsync compares the result with the sheet. Orchestrator  *)
(* treats this as one step that succeeds or fails.                         *)
(*                                                                         *)
(* A key <<col, off>> stands for inputs["col[off]"], <<col, 0>> for        *)
(* inputs["col"]. Numbers are whole, so the tolerance of 0.00001 is        *)
(* equality. A missing key reads as 0 (SafeDictionary), so a dictionary is *)
(* total. What the generated unit makes of the keys it reads is external.  *)
(***************************************************************************)
EXTENDS Integers, FiniteSetsExt, SequencesExt

CONSTANTS
    Columns,      \* the column letters with a header, in order
    Named,        \* those whose header says Total, Net, Reserve or Balance
    Sheets,       \* the extracted sheets
    Codes,        \* what the generated code reads: sets of keys
    Calculation(_, _) \* what a code makes of the values of its keys

ASSUME RowsAssumption ==
    /\ \A s \in Sheets : DOMAIN s \subseteq Int
    /\ \A code \in Codes : code \subseteq Range(Columns) \X Int

\* A sheet maps the numbers of its non-empty rows to their cells and whether they
\* have no disruptive node. A cell has a number, <<n>>, or something that does not
\* parse, <<>>, and the references of its formula in A1 notation.
VARIABLES
    sheet,        \* the sheet
    unread,       \* the rows that CompressTopology has not come to
    partitions,   \* CompressedVectorBlock.Partitions
    task          \* the verification of one partition
rowVars == <<sheet, unread, partitions, task>>

ColumnSet == Range(Columns)
Rows == DOMAIN sheet
Number(r, c) == IF r \in Rows THEN sheet[r].cells[c].value ELSE <<>>

RowsInit ==
    /\ sheet \in Sheets /\ unread = Rows /\ partitions = <<>>
    /\ task = [verdict |-> "none", of |-> 0, code |-> {}, left |-> {}, row |-> 0,
               inputs |-> <<>>]

-----------------------------------------------------------------------------
(* VectorCompressionEngine. *)

\* AbstractFormula: a reference relative to its row, unless the row is absolute.
Abstract(r, c) ==
    {IF ref.abs THEN <<ref.col, "$", ref.row>> ELSE <<ref.col, ref.row - r>>
        : ref \in sheet[r].cells[c].refs}
Signature(r) == [c \in ColumnSet |-> Abstract(r, c)]
Lookbacks(signature, c) == {t[2] : t \in {u \in signature[c] : Len(u) = 2 /\ u[2] # 0}}

\* Faulty variant of Extend: the partition ends where it started.
ExtendNot(parts, r) ==
    IF parts # <<>> /\ Last(parts).signature = Signature(r) THEN parts
    ELSE Append(parts, [start |-> r, end |-> r, signature |-> Signature(r)])

Extend(parts, r) ==
    IF parts # <<>> /\ Last(parts).signature = Signature(r)
    THEN [parts EXCEPT ![Len(parts)].end = r]
    ELSE Append(parts, [start |-> r, end |-> r, signature |-> Signature(r)])

\* One turn of its loop: the rows come from the first to the last.
CompressRow(r) ==
    /\ r \in unread /\ \A q \in unread : r <= q
    /\ unread' = unread \ {r}
    /\ partitions' = Extend(partitions, r)
    /\ UNCHANGED <<sheet, task>>

-----------------------------------------------------------------------------
(* Verification. *)

\* DetermineTargetColumn.
Target ==
    LET named == {i \in DOMAIN Columns : Columns[i] \in Named} IN
    IF named = {} THEN Last(Columns) ELSE Columns[Min(named)]

CleanRows(p) == {r \in Rows : p.start <= r /\ r <= p.end /\ sheet[r].clean}
Keys == ColumnSet \X UNION {{0} \cup {t[2] : t \in code} : code \in Codes}

\* An attempt starts with an empty dictionary.
BeginVerification(i, code) ==
    /\ unread = {} /\ task.verdict # "running" /\ CleanRows(partitions[i]) # {}
    /\ task' = [verdict |-> "running", of |-> i, code |-> code,
                left |-> CleanRows(partitions[i]), row |-> 0,
                inputs |-> [k \in Keys |-> 0]]
    /\ UNCHANGED <<sheet, unread, partitions>>

\* Faulty variant of SafeDefaults: lookbacks of the row before stay.
SafeDefaultsKept(inputs, signature) == inputs

\* Step 1: the lookbacks that the formula of a column has, at that column.
SafeDefaults(inputs, signature) ==
    [k \in Keys |-> IF k[2] \in Lookbacks(signature, k[1]) THEN 0 ELSE inputs[k]]

\* Step 2: each number of the rows that lie a required offset away.
Required(signature) == UNION {Lookbacks(signature, c) : c \in ColumnSet}
Neighbours(inputs, signature, r) ==
    [k \in Keys |-> IF k[2] \in Required(signature) /\ Number(r + k[2], k[1]) # <<>>
                    THEN Number(r + k[2], k[1])[1] ELSE inputs[k]]

\* Step 3: the numbers of the row itself, but the target's.
OwnCells(inputs, r) ==
    [k \in Keys |-> IF k[2] = 0 /\ k[1] # Target /\ Number(r, k[1]) # <<>>
                    THEN Number(r, k[1])[1] ELSE inputs[k]]
ExpectedResult(r) == IF Number(r, Target) = <<>> THEN 0 ELSE Number(r, Target)[1]

InputsOf(r) ==
    LET signature == partitions[task.of].signature IN
    OwnCells(Neighbours(SafeDefaults(task.inputs, signature), signature, r), r)

\* ExecuteCalculationRow.
Result(code, inputs) == Calculation(code, [k \in code |-> inputs[k]])

\* The rows are taken from the first to the last; the ground truth goes into the
\* dictionary before the next one.
VerifyRow(r) ==
    /\ task.verdict = "running"
    /\ r \in task.left /\ \A q \in task.left : r <= q
    /\ task' = [verdict |-> IF Result(task.code, InputsOf(r)) = ExpectedResult(r)
                            THEN "running" ELSE "refused",
                of |-> task.of, code |-> task.code, left |-> task.left \ {r}, row |-> r,
                inputs |-> [InputsOf(r) EXCEPT ![<<Target, 0>>] = ExpectedResult(r)]]
    /\ UNCHANGED <<sheet, unread, partitions>>

\* A row that does not compile or takes five seconds, or a cancellation.
RowFails ==
    /\ task.verdict = "running" /\ task.left # {}
    /\ task' = [task EXCEPT !.verdict = "refused"] /\ UNCHANGED <<sheet, unread, partitions>>

Certify ==
    /\ task.verdict = "running" /\ task.left = {}
    /\ task' = [task EXCEPT !.verdict = "certified"] /\ UNCHANGED <<sheet, unread, partitions>>

RowsNext ==
    \/ \E r \in Rows : CompressRow(r)
    \/ \E i \in DOMAIN partitions, code \in Codes : BeginVerification(i, code)
    \/ \E r \in Rows : VerifyRow(r)
    \/ RowFails \/ Certify

RowsSpec == RowsInit /\ [][RowsNext]_rowVars

-----------------------------------------------------------------------------
(* Properties. *)

\* The partitions are the sheet, as far as it was read: every row lies in exactly
\* one of them, also behind an empty row, and all rows of one have formulas of the
\* same shape, which those of the next do not have.
PartitionsTile ==
    /\ \A r \in Rows \ unread : \E i \in DOMAIN partitions :
          /\ partitions[i].signature = Signature(r)
          /\ {j \in DOMAIN partitions :
                partitions[j].start <= r /\ r <= partitions[j].end} = {i}
    /\ \A i \in DOMAIN partitions \ {1} :
          partitions[i].signature # partitions[i - 1].signature

\* What the sheet says of a key at a row: of the target itself, the row before.
Before(r) == {q \in CleanRows(partitions[task.of]) : q < r}
Said(r, k) ==
    IF k = <<Target, 0>> THEN IF Before(r) = {} THEN 0 ELSE ExpectedResult(Max(Before(r)))
    ELSE IF Number(r + k[2], k[1]) = <<>> THEN 0 ELSE Number(r + k[2], k[1])[1]

\* A key whose input is taken from the row anew, or reset when it is not there.
Fresh(k) ==
    LET p == partitions[task.of]
        parsed == \A r \in CleanRows(p) : Number(r + k[2], k[1]) # <<>>
    IN \/ k = <<Target, 0>> \/ k[2] \in Lookbacks(p.signature, k[1])
       \/ (parsed /\ k[2] \in Required(p.signature) \cup {0})

\* Certified code reproduces the sheet: at every clean row of the partition, what it
\* makes of the numbers in the sheet is the number there, none counting as 0; as
\* long as the keys it reads are fresh in every row.
CertifiedReproduces ==
    (task.verdict = "certified" /\ \A k \in task.code : Fresh(k)) =>
        \A r \in CleanRows(partitions[task.of]) :
            Calculation(task.code, [k \in task.code |-> Said(r, k)]) = ExpectedResult(r)

\* "Inject safe defaults for all structural columns for all required offsets": an
\* input that neither the row nor the one at its offset gives is 0.
DefaultsCoverOffsets ==
    task.row # 0 =>
        \A k \in Keys :
            (k[2] \in Required(partitions[task.of].signature)
                /\ Number(task.row + k[2], k[1]) = <<>>) => task.inputs[k] = 0

=============================================================================
