------------------------ MODULE RowVerificationProofs ------------------------
(***************************************************************************)
(* What a certificate is worth, for any sheet, any partition into shapes   *)
(* of formulas, and whatever the generated code makes of what it reads;    *)
(* and what ProcessVbaModulesAsync returns, for any number of VBA modules  *)
(* and attempts and whatever the language model replies.                   *)
(***************************************************************************)
EXTENDS RowVerification, VbaTranslation, FiniteSetTheorems,
        SequenceTheorems, TLAPS

Part == partitions[task.of]
CleanHere == CleanRows(Part)
Done == CleanHere \ task.left

\* While the rows pass one by one, those done lie before those left, the dictionary
\* holds the ground truth of the last one, and the code has reproduced them all.
RowsInv ==
    /\ sheet \in Sheets
    /\ task.verdict # "none" =>
          /\ unread = {} /\ partitions # <<>> /\ task.code \in Codes /\ task.left \subseteq CleanHere
          /\ task.inputs = [k \in Keys |-> task.inputs[k]]
    /\ task.verdict \in {"running", "certified"} =>
          /\ \A q \in Done, r \in task.left : q < r
          /\ <<Target, 0>> \in Keys =>
                task.inputs[<<Target, 0>>] =
                    IF Done = {} THEN 0 ELSE ExpectedResult(Max(Done))
          /\ (\A k \in task.code : Fresh(k)) =>
                \A r \in Done :
                    Calculation(task.code, [k \in task.code |-> Said(r, k)]) = ExpectedResult(r)
    /\ task.verdict = "certified" => task.left = {}

LEMMA RowsInit0 == RowsInit => RowsInv
BY DEF RowsInit, RowsInv

LEMMA CleanTyped ==
    ASSUME RowsInv
    PROVE  CleanHere \subseteq Rows /\ CleanHere \subseteq Int
BY RowsAssumption DEF RowsInv, CleanHere, CleanRows, Rows

LEMMA CodeTyped ==
    ASSUME NEW code \in Codes, NEW k \in code
    PROVE  k \in Keys /\ k[1] \in ColumnSet /\ k[2] \in Int /\ k = <<k[1], k[2]>>
<1>1. k[1] \in ColumnSet /\ k[2] \in Int /\ k = <<k[1], k[2]>>
  BY RowsAssumption DEF ColumnSet
<1> QED BY <1>1 DEF Keys

LEMMA LastIsMax ==
    ASSUME NEW S \in SUBSET Int, NEW r \in S, \A q \in S : q <= r
    PROVE  Max(S) = r
<1>1. \A y \in S : r >= y
  OBVIOUS
<1>2. ASSUME NEW x \in S, \A y \in S : x >= y PROVE x = r
  BY <1>2
<1>3. Max(S) \in S /\ \A y \in S : Max(S) >= y
  BY <1>1, Zenon DEF Max
<1> QED BY <1>2, <1>3

\* A fresh key gets what the sheet says of it.
LEMMA FreshIsSaid ==
    ASSUME RowsInv, task.verdict = "running", NEW r \in task.left, \A q \in task.left : r <= q,
           NEW k \in task.code, Fresh(k)
    PROVE  InputsOf(r)[k] = Said(r, k)
<1> DEFINE signature == Part.signature
           first == SafeDefaults(task.inputs, signature)
           second == Neighbours(first, signature, r)
<1>1. k \in Keys /\ k[1] \in ColumnSet /\ k[2] \in Int /\ k = <<k[1], k[2]>>
  BY CodeTyped DEF RowsInv
<1>2. /\ InputsOf(r)[k] = IF k[2] = 0 /\ k[1] # Target /\ Number(r, k[1]) # <<>>
                          THEN Number(r, k[1])[1] ELSE second[k]
      /\ second[k] = IF k[2] \in Required(signature) /\ Number(r + k[2], k[1]) # <<>>
                     THEN Number(r + k[2], k[1])[1] ELSE first[k]
      /\ first[k] = IF k[2] \in Lookbacks(signature, k[1]) THEN 0 ELSE task.inputs[k]
  BY <1>1 DEF InputsOf, OwnCells, Neighbours, SafeDefaults, Part
<1>3. /\ 0 \notin Required(signature) /\ \A c \in ColumnSet : 0 \notin Lookbacks(signature, c)
      /\ k[2] \in Lookbacks(signature, k[1]) => k[2] \in Required(signature)
  BY <1>1 DEF Required, Lookbacks
<1>4. r \in CleanHere /\ r \in Int
  BY CleanTyped DEF RowsInv
<1> HIDE DEF signature, first, second
<1>5. CASE k = <<Target, 0>>
  <2>1. k[1] = Target /\ k[2] = 0
    BY <1>5
  <2>2. InputsOf(r)[k] = task.inputs[k]
    BY <1>1, <1>2, <1>3, <2>1
  <2>3. Done = Before(r)
    <3>1. \A q \in CleanHere : q \in Done <=> q < r
      BY <1>4, CleanTyped DEF RowsInv, Done
    <3> QED BY <3>1 DEF Before, Done, CleanHere, Part
  <2> QED BY <1>1, <1>5, <2>2, <2>3 DEF RowsInv, Said
<1>6. CASE k # <<Target, 0>> /\ k[2] \in Lookbacks(signature, k[1])
  BY <1>1, <1>2, <1>3, <1>6 DEF Said
<1>7. CASE /\ k # <<Target, 0>>
           /\ \A q \in CleanHere : Number(q + k[2], k[1]) # <<>>
           /\ k[2] \in Required(signature) \cup {0}
  <2>1. Number(r + k[2], k[1]) # <<>>
    BY <1>4, <1>7
  <2>2. CASE k[2] = 0
    BY <1>1, <1>2, <1>3, <1>4, <1>7, <2>1, <2>2 DEF Said
  <2>3. CASE k[2] # 0
    BY <1>2, <1>7, <2>1, <2>3 DEF Said
  <2> QED BY <2>2, <2>3
<1> QED BY <1>5, <1>6, <1>7 DEF Fresh, CleanHere, Part, signature

LEMMA RowsVerify == ASSUME RowsInv, NEW r, VerifyRow(r) PROVE RowsInv'
<1>1. /\ task.verdict = "running" /\ r \in task.left /\ \A q \in task.left : r <= q
      /\ task'.verdict = IF Result(task.code, InputsOf(r)) = ExpectedResult(r)
                         THEN "running" ELSE "refused"
      /\ task'.of = task.of /\ task'.code = task.code /\ task'.left = task.left \ {r}
      /\ task'.inputs = [InputsOf(r) EXCEPT ![<<Target, 0>>] = ExpectedResult(r)]
      /\ UNCHANGED <<sheet, unread, partitions>>
  BY DEF VerifyRow
<1>2. /\ Part' = Part /\ CleanHere' = CleanHere /\ Target' = Target /\ Keys' = Keys
      /\ \A q : ExpectedResult(q)' = ExpectedResult(q)
      /\ \A q, k : Said(q, k)' = Said(q, k)
      /\ \A k : Fresh(k)' <=> Fresh(k)
  BY <1>1 DEF Part, CleanHere, CleanRows, Target, Keys, ExpectedResult, Said, Before, Fresh, Number,
              Rows
<1>3. /\ r \in CleanHere /\ CleanHere \subseteq Int /\ Done' = Done \cup {r}
      /\ \A q \in Done : q < r
  BY <1>1, <1>2, CleanTyped DEF RowsInv, Done
<1>4. InputsOf(r) = [k \in Keys |-> InputsOf(r)[k]]
  BY DEF InputsOf, OwnCells
<1>5. /\ task'.inputs = [k \in Keys |-> task'.inputs[k]]
      /\ <<Target, 0>> \in Keys => task'.inputs[<<Target, 0>>] = ExpectedResult(r)
  <2> DEFINE now == InputsOf(r)
  <2>1. now = [k \in Keys |-> now[k]] /\ task'.inputs = [now EXCEPT ![<<Target, 0>>] = ExpectedResult(r)]
    BY <1>1, <1>4
  <2> HIDE DEF now
  <2> QED BY <2>1
<1>6. Done' # {} /\ Max(Done') = r
  <2>0. Done \subseteq Int
    BY <1>3 DEF Done
  <2>1. Done' \in SUBSET Int /\ r \in Done' /\ \A q \in Done' : q <= r
    <3> HIDE DEF Done, CleanHere
    <3> QED BY <1>3, <2>0
  <2> QED BY <2>1, LastIsMax
<1>7. ASSUME task'.verdict = "running", \A k \in task.code : Fresh(k), NEW q \in Done'
      PROVE  Calculation(task.code, [k \in task.code |-> Said(q, k)]) = ExpectedResult(q)
  <2>1. CASE q \in Done
    BY <1>1, <1>7, <2>1 DEF RowsInv
  <2>2. CASE q = r
    <3>1. Calculation(task.code, [k \in task.code |-> InputsOf(r)[k]]) = ExpectedResult(r)
      BY <1>1, <1>7 DEF Result
    <3>2. [k \in task.code |-> InputsOf(r)[k]] = [k \in task.code |-> Said(r, k)]
      <4>1. \A k \in task.code : InputsOf(r)[k] = Said(r, k)
        BY <1>1, <1>7, FreshIsSaid
      <4> QED BY <4>1
    <3> QED BY <2>2, <3>1, <3>2
  <2> QED BY <1>3, <2>1, <2>2
<1>8. \A p \in Done', q \in task'.left : p < q
  <2>1. task.left \subseteq Int
    BY <1>1, <1>3 DEF RowsInv
  <2>2. ASSUME NEW p \in Done', NEW q \in task'.left PROVE p < q
    <3>1. q \in task.left /\ q # r /\ r <= q /\ q \in Int /\ r \in Int
      BY <1>1, <1>3, <2>1, <2>2
    <3>2. CASE p \in Done
      BY <1>1, <3>1, <3>2 DEF RowsInv
    <3>3. CASE p = r
      BY <3>1, <3>3
    <3> QED BY <1>3, <2>2, <3>2, <3>3
  <2> QED BY <2>2
<1>9. /\ sheet \in Sheets /\ unread = {} /\ partitions # <<>> /\ task.code \in Codes
      /\ task.left \subseteq CleanHere
  BY <1>1 DEF RowsInv
<1>10. task'.verdict # "certified"
  BY <1>1
<1> HIDE DEF Done, CleanHere
<1> QED BY <1>1, <1>2, <1>5, <1>6, <1>7, <1>8, <1>9, <1>10 DEF RowsInv

LEMMA RowsStep == RowsInv /\ [RowsNext]_rowVars => RowsInv'
<1> SUFFICES ASSUME RowsInv, [RowsNext]_rowVars PROVE RowsInv'
  OBVIOUS
<1>1. ASSUME NEW r \in Rows, CompressRow(r) PROVE RowsInv'
  BY <1>1 DEF CompressRow, RowsInv
<1>2. ASSUME NEW i \in DOMAIN partitions, NEW code \in Codes, BeginVerification(i, code)
      PROVE  RowsInv'
  <2>1. /\ task'.verdict = "running" /\ task'.of = i /\ task'.code = code
        /\ task'.left = CleanRows(partitions[i])
        /\ task'.inputs = [k \in Keys |-> 0]
        /\ UNCHANGED <<sheet, unread, partitions>>
    BY <1>2 DEF BeginVerification
  <2>2. /\ unread = {} /\ partitions # <<>> /\ sheet \in Sheets
        /\ Keys' = Keys /\ Target' = Target
    BY <1>2, <2>1 DEF BeginVerification, RowsInv, Keys, Target
  <2>3. CleanHere' = task'.left
    BY <2>1 DEF CleanHere, Part, CleanRows, Rows
  <2>4. Done' = {}
    BY <2>3 DEF Done
  <2> HIDE DEF Done, CleanHere
  <2> QED BY <2>1, <2>2, <2>3, <2>4 DEF RowsInv
<1>3. ASSUME NEW r \in Rows, VerifyRow(r) PROVE RowsInv'
  BY <1>3, RowsVerify
<1>4. ASSUME UNCHANGED <<sheet, unread, partitions>>, task' = [task EXCEPT !.verdict = "refused"],
             task.verdict = "running"
      PROVE  RowsInv'
  <2>1. /\ task'.verdict = "refused" /\ task'.of = task.of /\ task'.code = task.code
        /\ task'.left = task.left /\ task'.inputs = task.inputs
    BY <1>4
  <2>2. CleanHere' = CleanHere /\ Keys' = Keys
    BY <1>4, <2>1 DEF CleanHere, Part, CleanRows, Rows, Keys
  <2> HIDE DEF CleanHere
  <2> QED BY <1>4, <2>1, <2>2 DEF RowsInv
<1>5. CASE RowFails
  BY <1>4, <1>5 DEF RowFails
<1>6. CASE Certify
  <2>1. /\ task'.verdict = "certified" /\ task'.of = task.of /\ task'.code = task.code
        /\ task'.left = task.left /\ task'.inputs = task.inputs /\ task.left = {}
        /\ task.verdict = "running" /\ UNCHANGED <<sheet, unread, partitions>>
    BY <1>6 DEF Certify
  <2>2. /\ CleanHere' = CleanHere /\ Done' = Done /\ Keys' = Keys /\ Target' = Target
        /\ \A q : ExpectedResult(q)' = ExpectedResult(q)
        /\ \A q, k : Said(q, k)' = Said(q, k)
        /\ \A k : Fresh(k)' <=> Fresh(k)
    BY <2>1 DEF Part, CleanHere, Done, CleanRows, Target, Keys, ExpectedResult, Said, Before, Fresh,
                Number, Rows
  <2> HIDE DEF CleanHere, Done
  <2> QED BY <2>1, <2>2 DEF RowsInv
<1>7. CASE UNCHANGED rowVars
  <2>1. UNCHANGED <<sheet, unread, partitions, task>>
    BY <1>7 DEF rowVars
  <2>2. /\ CleanHere' = CleanHere /\ Done' = Done /\ Keys' = Keys /\ Target' = Target
        /\ \A q : ExpectedResult(q)' = ExpectedResult(q)
        /\ \A q, k : Said(q, k)' = Said(q, k)
        /\ \A k : Fresh(k)' <=> Fresh(k)
    BY <2>1 DEF Part, CleanHere, Done, CleanRows, Target, Keys, ExpectedResult, Said, Before, Fresh,
                Number, Rows
  <2> HIDE DEF CleanHere, Done
  <2> QED BY <2>1, <2>2 DEF RowsInv
<1> QED BY <1>1, <1>2, <1>3, <1>5, <1>6, <1>7 DEF RowsNext

\* Code that is certified reproduces the sheet at every clean row of its partition, for
\* any sheet and any code, as long as what it reads is fresh in every row.
THEOREM CertificateIsSound == RowsSpec => []CertifiedReproduces
<1>1. RowsSpec => []RowsInv
  BY RowsInit0, RowsStep, PTL DEF RowsSpec
<1>2. RowsInv => CertifiedReproduces
  <2> SUFFICES ASSUME RowsInv, task.verdict = "certified" PROVE CertifiedReproduces
    BY DEF CertifiedReproduces
  <2>1. Done = CleanRows(partitions[task.of])
    BY DEF RowsInv, Done, CleanHere, Part
  <2> QED BY <2>1 DEF RowsInv, CertifiedReproduces
<1> QED BY <1>1, <1>2, PTL

-----------------------------------------------------------------------------
(* The partitions. *)

BlockTypes == [start : Int, end : Int, signature : {Signature(r) : r \in Rows}]

\* The partitions lie one after the other, before the rows to come; those read are
\* in one of them, which has their shape and not that of the next.
TileInv ==
    /\ sheet \in Sheets /\ unread \subseteq Rows /\ Rows \subseteq Int
    /\ partitions \in Seq(BlockTypes)
    /\ \A i \in DOMAIN partitions :
          /\ partitions[i].start <= partitions[i].end
          /\ \A r \in unread : partitions[i].end < r
    /\ \A i, j \in DOMAIN partitions : i < j => partitions[i].end < partitions[j].start
    /\ \A r \in Rows \ unread : \E i \in DOMAIN partitions :
          /\ partitions[i].signature = Signature(r)
          /\ partitions[i].start <= r /\ r <= partitions[i].end
    /\ \A i \in DOMAIN partitions \ {1} :
          partitions[i].signature # partitions[i - 1].signature

LEMMA BlocksTyped ==
    ASSUME NEW parts \in Seq(BlockTypes), NEW i \in DOMAIN parts
    PROVE  i \in Int /\ parts[i] \in BlockTypes
OBVIOUS

LEMMA TileStart == RowsInit => TileInv
BY RowsAssumption DEF RowsInit, TileInv, Rows

\* What the loop makes of a row that comes behind all partitions.
LEMMA RowExtends ==
    ASSUME TileInv, NEW r \in unread, \A q \in unread : r <= q,
           NEW n, n = Len(partitions),
           partitions # <<>>, partitions[n].signature = Signature(r)
    PROVE  /\ Extend(partitions, r) \in Seq(BlockTypes)
           /\ DOMAIN Extend(partitions, r) = DOMAIN partitions
           /\ Extend(partitions, r)[n] =
                 [start |-> partitions[n].start, end |-> r, signature |-> Signature(r)]
           /\ \A i \in DOMAIN partitions \ {n} : Extend(partitions, r)[i] = partitions[i]
           /\ n \in DOMAIN partitions /\ \A i \in DOMAIN partitions : i <= n
<1>1. n \in Nat \ {0} /\ DOMAIN partitions = 1..n /\ partitions[n] \in BlockTypes
  BY DEF TileInv
<1>2. Last(partitions) = partitions[n]
  BY DEF Last
<1>3. Extend(partitions, r) = [partitions EXCEPT ![n].end = r]
  BY <1>2 DEF Extend
<1>4. [partitions[n] EXCEPT !.end = r] =
        [start |-> partitions[n].start, end |-> r, signature |-> Signature(r)]
  BY <1>1 DEF BlockTypes
<1>5. r \in Int
  BY DEF TileInv
<1> QED
  BY <1>1, <1>3, <1>4, <1>5 DEF TileInv, BlockTypes

LEMMA RowAppends ==
    ASSUME TileInv, NEW r \in unread,
           NEW n, n = Len(partitions),
           partitions = <<>> \/ partitions[n].signature # Signature(r)
    PROVE  /\ Extend(partitions, r) \in Seq(BlockTypes)
           /\ n \in Nat /\ DOMAIN partitions = 1..n
           /\ DOMAIN Extend(partitions, r) = 1..(n + 1)
           /\ Extend(partitions, r)[n + 1] =
                 [start |-> r, end |-> r, signature |-> Signature(r)]
           /\ \A i \in DOMAIN partitions : Extend(partitions, r)[i] = partitions[i]
<1> DEFINE block == [start |-> r, end |-> r, signature |-> Signature(r)]
<1>1. block \in BlockTypes
  BY DEF TileInv, BlockTypes
<1>2. Extend(partitions, r) = Append(partitions, block)
  BY DEF Extend, Last
<1> HIDE DEF block
<1>3. partitions \in Seq(BlockTypes)
  BY DEF TileInv
<1> QED
  BY <1>1, <1>2, <1>3 DEF block

LEMMA CompressKeepsTiling ==
    ASSUME TileInv, NEW r, CompressRow(r)
    PROVE  TileInv'
<1> DEFINE n == Len(partitions)
<1>1. /\ r \in unread /\ \A q \in unread : r <= q
      /\ unread' = unread \ {r} /\ partitions' = Extend(partitions, r) /\ sheet' = sheet
      /\ r \in Int /\ r \in Rows
  BY DEF CompressRow, TileInv
<1>2. /\ Rows' = Rows /\ BlockTypes' = BlockTypes /\ \A q : Signature(q)' = Signature(q)
  BY <1>1 DEF Rows, BlockTypes, Signature, Abstract
<1>3. \A q \in unread' : r < q /\ q \in Int
  <2>1. unread \subseteq Int
    BY DEF TileInv
  <2> QED BY <1>1, <2>1
<1>4. \A i \in DOMAIN partitions :
         i \in Int /\ partitions[i] \in BlockTypes /\ partitions[i].end < r
  BY <1>1, BlocksTyped DEF TileInv
<1> HIDE DEF n
<1>5. CASE partitions # <<>> /\ partitions[n].signature = Signature(r)
  <2>1. /\ partitions' \in Seq(BlockTypes) /\ DOMAIN partitions' = DOMAIN partitions
        /\ partitions'[n] = [start |-> partitions[n].start, end |-> r,
                             signature |-> partitions[n].signature]
        /\ \A i \in DOMAIN partitions \ {n} : partitions'[i] = partitions[i]
        /\ n \in DOMAIN partitions /\ \A i \in DOMAIN partitions : i <= n
    BY <1>1, <1>5, RowExtends DEF n
  <2>2. \A i \in DOMAIN partitions' :
            /\ partitions'[i].start = partitions[i].start
            /\ partitions'[i].signature = partitions[i].signature
            /\ partitions[i].end <= partitions'[i].end
            /\ i # n => partitions'[i].end = partitions[i].end
            /\ partitions'[i].end <= r
    BY <1>1, <1>4, <2>1 DEF BlockTypes
  <2>3. \A i, j \in DOMAIN partitions' : i < j => partitions'[i].end < partitions'[j].start
    BY <1>4, <2>1, <2>2 DEF TileInv
  <2>4. \A q \in Rows \ unread' : \E i \in DOMAIN partitions' :
           /\ partitions'[i].signature = Signature(q)
           /\ partitions'[i].start <= q /\ q <= partitions'[i].end
    <3> SUFFICES ASSUME NEW q \in Rows \ unread'
                 PROVE  \E i \in DOMAIN partitions' :
                           /\ partitions'[i].signature = Signature(q)
                           /\ partitions'[i].start <= q /\ q <= partitions'[i].end
      OBVIOUS
    <3>1. CASE q = r
      <4>1. partitions[n].start <= r
        BY <1>1, <1>4, <2>1 DEF TileInv, BlockTypes
      <4>2. /\ partitions'[n].start <= r /\ r <= partitions'[n].end
            /\ partitions'[n].signature = Signature(r) /\ n \in DOMAIN partitions'
        BY <1>1, <1>5, <2>1, <4>1
      <4> QED BY <3>1, <4>2
    <3>2. CASE q # r
      <4>1. PICK i \in DOMAIN partitions :
               /\ partitions[i].signature = Signature(q)
               /\ partitions[i].start <= q /\ q <= partitions[i].end
        BY <1>1, <3>2 DEF TileInv
      <4>2. q \in Int /\ partitions[i].end \in Int /\ partitions'[i].end \in Int
        <5>1. q \in Int
          BY DEF TileInv
        <5>2. partitions[i] \in BlockTypes /\ partitions'[i] \in BlockTypes
          BY <1>4, <2>1, BlocksTyped
        <5> QED BY <5>1, <5>2 DEF BlockTypes
      <4> QED BY <2>1, <2>2, <4>1, <4>2
    <3> QED BY <3>1, <3>2
  <2>5. \A i \in DOMAIN partitions' :
           /\ partitions'[i].start <= partitions'[i].end
           /\ \A q \in unread' : partitions'[i].end < q
    <3> SUFFICES ASSUME NEW i \in DOMAIN partitions
                 PROVE  /\ partitions'[i].start <= partitions'[i].end
                        /\ \A q \in unread' : partitions'[i].end < q
      BY <2>1
    <3>1. CASE i = n
      BY <1>1, <1>3, <1>4, <2>1, <3>1 DEF TileInv, BlockTypes
    <3>2. CASE i # n
      BY <1>1, <2>1, <3>2 DEF TileInv
    <3> QED BY <3>1, <3>2
  <2>6. \A i \in DOMAIN partitions' \ {1} :
           partitions'[i].signature # partitions'[i - 1].signature
    <3> SUFFICES ASSUME NEW i \in DOMAIN partitions \ {1}
                 PROVE  partitions'[i].signature # partitions'[i - 1].signature
      BY <2>1
    <3>1. i - 1 \in DOMAIN partitions
      BY DEF TileInv
    <3> QED BY <2>1, <2>2, <3>1 DEF TileInv
  <2> QED BY <1>1, <1>2, <2>1, <2>3, <2>4, <2>5, <2>6 DEF TileInv
<1>6. CASE partitions = <<>> \/ partitions[n].signature # Signature(r)
  <2>1. /\ partitions' \in Seq(BlockTypes)
        /\ n \in Nat /\ DOMAIN partitions = 1..n /\ DOMAIN partitions' = 1..(n + 1)
        /\ partitions'[n + 1] = [start |-> r, end |-> r, signature |-> Signature(r)]
        /\ \A i \in DOMAIN partitions : partitions'[i] = partitions[i]
    BY <1>1, <1>6, RowAppends DEF n
  <2>2. \A i \in DOMAIN partitions' : i = n + 1 \/ i \in DOMAIN partitions
    BY <2>1
  <2>3. \A i, j \in DOMAIN partitions' : i < j => partitions'[i].end < partitions'[j].start
    <3> SUFFICES ASSUME NEW i \in DOMAIN partitions', NEW j \in DOMAIN partitions', i < j
                 PROVE  partitions'[i].end < partitions'[j].start
      OBVIOUS
    <3>1. i \in DOMAIN partitions
      BY <2>1, <2>2
    <3> QED BY <1>4, <2>1, <2>2, <3>1 DEF TileInv
  <2>4. \A q \in Rows \ unread' : \E i \in DOMAIN partitions' :
           /\ partitions'[i].signature = Signature(q)
           /\ partitions'[i].start <= q /\ q <= partitions'[i].end
    <3> SUFFICES ASSUME NEW q \in Rows \ unread'
                 PROVE  \E i \in DOMAIN partitions' :
                           /\ partitions'[i].signature = Signature(q)
                           /\ partitions'[i].start <= q /\ q <= partitions'[i].end
      OBVIOUS
    <3>1. CASE q = r
      BY <1>1, <2>1, <3>1
    <3>2. CASE q # r
      <4>1. PICK i \in DOMAIN partitions :
               /\ partitions[i].signature = Signature(q)
               /\ partitions[i].start <= q /\ q <= partitions[i].end
        BY <1>1, <3>2 DEF TileInv
      <4> QED BY <2>1, <4>1
    <3> QED BY <3>1, <3>2
  <2>5. \A i \in DOMAIN partitions' :
           /\ partitions'[i].start <= partitions'[i].end
           /\ \A q \in unread' : partitions'[i].end < q
    BY <1>1, <1>3, <2>1, <2>2 DEF TileInv
  <2>6. \A i \in DOMAIN partitions' \ {1} :
           partitions'[i].signature # partitions'[i - 1].signature
    <3> SUFFICES ASSUME NEW i \in DOMAIN partitions' \ {1}
                 PROVE  partitions'[i].signature # partitions'[i - 1].signature
      OBVIOUS
    <3>1. i - 1 \in DOMAIN partitions
      BY <2>1
    <3>2. CASE i = n + 1
      <4>1. partitions[n].signature # Signature(r) /\ i - 1 = n
        BY <1>6, <2>1, <3>1, <3>2
      <4> QED BY <2>1, <3>1, <3>2, <4>1
    <3>3. CASE i \in DOMAIN partitions
      BY <2>1, <3>1, <3>3 DEF TileInv
    <3> QED BY <2>2, <3>2, <3>3
  <2> QED BY <1>1, <1>2, <2>1, <2>3, <2>4, <2>5, <2>6 DEF TileInv
<1> QED BY <1>5, <1>6

LEMMA TileStep == TileInv /\ [RowsNext]_rowVars => TileInv'
<1> SUFFICES ASSUME TileInv, [RowsNext]_rowVars PROVE TileInv'
  OBVIOUS
<1>1. CASE \E r \in Rows : CompressRow(r)
  BY <1>1, CompressKeepsTiling
<1>2. CASE UNCHANGED <<sheet, unread, partitions>>
  <2>1. Rows' = Rows /\ BlockTypes' = BlockTypes /\ \A q : Signature(q)' = Signature(q)
    BY <1>2 DEF Rows, BlockTypes, Signature, Abstract
  <2> QED BY <1>2, <2>1 DEF TileInv
<1> QED
  BY <1>1, <1>2 DEF RowsNext, BeginVerification, VerifyRow, RowFails, Certify, rowVars

\* However the rows of a sheet are numbered and whatever their formulas, every row
\* that was read lies in exactly one partition, of rows of its shape.
THEOREM PartitionsAreTheSheet == RowsSpec => []PartitionsTile
<1>1. TileInv => PartitionsTile
  <2> SUFFICES ASSUME TileInv, NEW r \in Rows \ unread
               PROVE  \E i \in DOMAIN partitions :
                         /\ partitions[i].signature = Signature(r)
                         /\ {j \in DOMAIN partitions :
                               partitions[j].start <= r /\ r <= partitions[j].end} = {i}
    BY DEF TileInv, PartitionsTile
  <2>1. PICK i \in DOMAIN partitions :
           /\ partitions[i].signature = Signature(r)
           /\ partitions[i].start <= r /\ r <= partitions[i].end
    BY DEF TileInv
  <2>2. ASSUME NEW j \in DOMAIN partitions,
               partitions[j].start <= r, r <= partitions[j].end
        PROVE  j = i
    <3>1. /\ i \in Int /\ j \in Int /\ r \in Int
          /\ partitions[i] \in BlockTypes /\ partitions[j] \in BlockTypes
      BY BlocksTyped DEF TileInv
    <3>2. ~(i < j) /\ ~(j < i)
      BY <2>1, <2>2, <3>1 DEF TileInv, BlockTypes
    <3> QED BY <3>1, <3>2
  <2> QED BY <2>1, <2>2
<1> QED BY <1>1, TileStart, TileStep, PTL DEF RowsSpec

-----------------------------------------------------------------------------
(* VBA modules. *)

\* The modules before the one in hand were compiled; those that were kept stand in
\* order among them.
VbaInv ==
    /\ macroAt \in {"idle", "loop", "asking", "verifying"} \cup VbaEnds
    /\ macro \in 1..(MacroCount + 1) /\ tries \in 1..MaxTries
    /\ translated \in Seq(1..MacroCount)
    /\ compiled = 1..(macro - 1)
    /\ macroAt \in {"asking", "verifying"} => macro \in 1..MacroCount
    /\ macroAt = "returned" => macro = MacroCount + 1
    /\ \A i \in DOMAIN translated : translated[i] < macro
    /\ \A i, j \in DOMAIN translated : i < j => translated[i] < translated[j]

LEMMA VbaInit0 == VbaInit => VbaInv
BY VbaAssumption DEF VbaInit, VbaInv

LEMMA RunsKeepOrder ==
    ASSUME VbaInv, MacroRuns
    PROVE  VbaInv'
<1>1. /\ macroAt = "verifying" /\ macro \in 1..MacroCount /\ MacroCount \in Nat
      /\ macroAt' = "loop" /\ macro' = macro + 1 /\ tries' = tries
      /\ compiled' = compiled \cup {macro}
  BY VbaAssumption DEF VbaInv, MacroRuns
<1>2. compiled' = 1..(macro' - 1) /\ macro' \in 1..(MacroCount + 1)
  BY <1>1 DEF VbaInv
<1>3. translated' = Append(translated, macro) \/ translated' = translated
  BY DEF MacroRuns
<1>4. CASE translated' = translated
  BY <1>1, <1>2, <1>4 DEF VbaInv
<1>5. CASE translated' = Append(translated, macro)
  <2>1. /\ translated' \in Seq(1..MacroCount) /\ Len(translated) \in Nat
        /\ DOMAIN translated = 1..Len(translated)
        /\ DOMAIN translated' = 1..(Len(translated) + 1)
        /\ translated'[Len(translated) + 1] = macro
        /\ \A i \in DOMAIN translated :
              translated'[i] = translated[i] /\ translated[i] \in 1..MacroCount
    BY <1>1, <1>5 DEF VbaInv
  <2>2. \A i \in DOMAIN translated' :
           (i \in DOMAIN translated /\ translated'[i] < macro) \/ i = Len(translated) + 1
    BY <2>1 DEF VbaInv
  <2>3. \A i \in DOMAIN translated' : translated'[i] < macro'
    BY <1>1, <2>1, <2>2
  <2>4. \A i, j \in DOMAIN translated' : i < j => translated'[i] < translated'[j]
    BY <2>1, <2>2 DEF VbaInv
  <2> QED BY <1>1, <1>2, <2>1, <2>3, <2>4 DEF VbaInv
<1> QED BY <1>3, <1>4, <1>5

LEMMA VbaStep == VbaInv /\ [VbaNext]_vbaVars => VbaInv'
<1> SUFFICES ASSUME VbaInv, [VbaNext]_vbaVars PROVE VbaInv'
  OBVIOUS
<1> USE VbaAssumption DEF VbaInv, VbaEnds
<1>1. CASE VbaBegins
  BY <1>1 DEF VbaBegins
<1>2. CASE VbaCancel
  BY <1>2 DEF VbaCancel
<1>3. CASE TakeMacro
  <2>1. /\ UNCHANGED <<macro, translated, compiled>> /\ tries' \in 1..MaxTries
        /\ macroAt' \in {"returned", "threw", "asking"}
        /\ macroAt' = "returned" => macro = MacroCount + 1
        /\ macroAt' = "asking" => macro \in 1..MacroCount
    BY <1>3 DEF TakeMacro
  <2> QED BY <2>1
<1>4. ASSUME NEW reply \in Replies, BridgeAnswers(reply) PROVE VbaInv'
  <2>1. /\ UNCHANGED <<macro, tries, translated, compiled>> /\ macroAt = "asking"
        /\ macroAt' \in {"unparsed", "verifying"}
    BY <1>4 DEF BridgeAnswers
  <2> QED BY <2>1
<1>5. CASE BridgeFails
  BY <1>5 DEF BridgeFails
<1>6. CASE MacroRefused
  <2>1. /\ UNCHANGED <<macro, translated, compiled>> /\ macroAt = "verifying"
        /\ macroAt' \in {"threw", "asking"} /\ tries' \in 1..MaxTries
    BY <1>6 DEF MacroRefused
  <2> QED BY <2>1
<1>7. CASE MacroRuns
  BY <1>7, RunsKeepOrder
<1>8. CASE MacroThrows
  BY <1>8 DEF MacroThrows
<1>9. CASE UNCHANGED vbaVars
  BY <1>9 DEF vbaVars
<1> QED BY <1>1, <1>2, <1>3, <1>4, <1>5, <1>6, <1>7, <1>8, <1>9 DEF VbaNext

\* No module is missing from what ProcessVbaModulesAsync worked on when it returns,
\* for any number of modules and attempts and any replies.
THEOREM NoMacroIsSkipped == VbaSpec => []ReturnedIsCompiled
<1>1. VbaSpec => []VbaInv
  BY VbaInit0, VbaStep, PTL DEF VbaSpec
<1>2. VbaInv => ReturnedIsCompiled
  BY VbaAssumption DEF VbaInv, ReturnedIsCompiled
<1> QED BY <1>1, <1>2, PTL

\* What is verified is a reply with code in it.
ReplyInv ==
    /\ VbaInv /\ raw \in Seq(Tokens) /\ vbaCancelled \in BOOLEAN
    /\ macroAt = "verifying" => Mirror # NoCode

LEMMA ReplyStart == VbaInit => ReplyInv
<1>1. <<>> \in Seq(Tokens)
  BY EmptySeq
<1> QED BY <1>1, VbaInit0 DEF VbaInit, ReplyInv

LEMMA ReplyStep == ReplyInv /\ [VbaNext]_vbaVars => ReplyInv'
<1> SUFFICES ASSUME ReplyInv, [VbaNext]_vbaVars PROVE ReplyInv'
  OBVIOUS
<1>1. VbaInv'
  BY VbaStep DEF ReplyInv
<1> USE DEF ReplyInv
<1>2. CASE VbaBegins \/ VbaCancel \/ BridgeFails \/ UNCHANGED vbaVars
  <2>1. raw' = raw /\ vbaCancelled' \in BOOLEAN
    BY <1>2 DEF VbaBegins, VbaCancel, BridgeFails, vbaVars
  <2>2. macroAt' = "verifying" => macroAt = "verifying"
    BY <1>2 DEF VbaBegins, VbaCancel, BridgeFails, vbaVars
  <2> QED BY <1>1, <2>1, <2>2 DEF Mirror
<1>3. ASSUME NEW reply \in Replies, BridgeAnswers(reply) PROVE ReplyInv'
  <2>1. raw' = reply /\ vbaCancelled' = vbaCancelled
    BY <1>3 DEF BridgeAnswers
  <2>2. macroAt' = "verifying" => ParseLlmOutput(reply) # NoCode
    BY <1>3 DEF BridgeAnswers
  <2> QED BY <1>1, <2>1, <2>2, VbaAssumption DEF Mirror
<1>4. CASE TakeMacro \/ MacroRefused \/ MacroRuns \/ MacroThrows
  <2>1. (raw' = raw \/ raw' = <<>>) /\ vbaCancelled' = vbaCancelled
    BY <1>4 DEF TakeMacro, MacroRefused, MacroRuns, MacroThrows
  <2>2. macroAt' # "verifying"
    BY <1>4 DEF TakeMacro, MacroRefused, MacroRuns, MacroThrows
  <2>3. raw' \in Seq(Tokens)
    BY <2>1, EmptySeq
  <2> QED BY <1>1, <2>1, <2>2, <2>3
<1> QED BY <1>2, <1>3, <1>4 DEF VbaNext

LEMMA ReplyInvariant == VbaSpec => []ReplyInv
BY ReplyStart, ReplyStep, PTL DEF VbaSpec

\* The state of the call is typed, for any number of modules and attempts.
THEOREM VbaTypeCorrect == VbaSpec => []VbaTypeOK
<1>1. ReplyInv => VbaTypeOK
  BY VbaAssumption DEF ReplyInv, VbaInv, VbaTypeOK
<1> QED BY <1>1, ReplyInvariant, PTL

\* The only member of a set is its least.
LEMMA LeastOfOne == ASSUME NEW x \in Nat PROVE Min({x}) = x
BY DEF Min

\* A part of one token is that token.
LEMMA PartOfOne ==
    ASSUME NEW code \in Seq(Tokens), NEW k \in 1..Len(code)
    PROVE  SubSeq(code, k, k) = <<code[k]>>
<1> DEFINE part == SubSeq(code, k, k)
<1>1. part \in Seq(Tokens) /\ Len(part) = 1 /\ part[1] = code[k]
  OBVIOUS
<1> DEFINE one == <<code[k]>>
<1>2. one \in Seq(Tokens) /\ Len(one) = 1 /\ one[1] = code[k]
  OBVIOUS
<1> HIDE DEF part, one
<1>3. part = one
  BY <1>1, <1>2, SeqEqual
<1> QED BY <1>3 DEF part, one

\* Two things are two.
LEMMA PairSize ==
    ASSUME NEW x, NEW y, x # y
    PROVE  IsFiniteSet({x, y}) /\ Cardinality({x, y}) = 2
<1>1. IsFiniteSet({x}) /\ Cardinality({x}) = 1
  BY FS_Singleton
<1>2. {x, y} = {x} \cup {y} /\ y \notin {x}
  OBVIOUS
<1>3. IsFiniteSet({x} \cup {y}) /\ Cardinality({x} \cup {y}) = 1 + 1
  BY <1>1, <1>2, FS_AddElement
<1> QED BY <1>2, <1>3

\* A class between the only two fences is what is extracted.
LEMMA BlockExtracted ==
    ASSUME NEW code \in Seq(Tokens), NEW i \in 1..(Len(code) - 2),
           SubSeq(code, i, i + 2) = <<"fence", "class", "fence">>,
           Cardinality(Where("fence", code)) = 2
    PROVE  Extracted(code) = <<"class">>
<1> DEFINE fences == Where("fence", code)
<1>1. code[i] = "fence" /\ code[i + 1] = "class" /\ code[i + 2] = "fence"
  <2> DEFINE part == SubSeq(code, i, i + 2)
  <2>1. part[1] = code[i] /\ part[2] = code[i + 1] /\ part[3] = code[i + 2]
    OBVIOUS
  <2>2. part = <<"fence", "class", "fence">>
    OBVIOUS
  <2> HIDE DEF part
  <2>3. part[1] = "fence" /\ part[2] = "class" /\ part[3] = "fence"
    BY <2>2
  <2> QED BY <2>1, <2>3
<1>2. i \in fences /\ i + 2 \in fences /\ i # i + 2 /\ fences \subseteq Nat
  BY <1>1 DEF Where
<1>3. IsFiniteSet(fences)
  BY FS_Interval, FS_Subset DEF Where
<1> HIDE DEF fences
<1>4. fences = {i, i + 2}
  <2>1. IsFiniteSet({i, i + 2}) /\ Cardinality({i, i + 2}) = 2
    BY <1>2, PairSize, Zenon
  <2> QED BY <1>2, <1>3, <2>1, FS_Subset DEF fences
<1>5. Min(fences) = i
  BY <1>4 DEF Min
<1>6. Min(fences \ {i}) = i + 2
  <2>1. fences \ {i} = {i + 2}
    BY <1>4
  <2> QED BY <2>1, LeastOfOne
<1>7. Extracted(code) = SubSeq(code, i + 1, i + 1)
  <2>1. Cardinality(fences) > 1
    BY DEF fences
  <2>2. Extracted(code) = FirstBlock(code)
    BY <2>1, Zenon DEF Extracted, fences
  <2>3. FirstBlock(code) = SubSeq(code, i + 1, (i + 2) - 1)
    BY <1>5, <1>6, Zenon DEF FirstBlock, fences
  <2>4. (i + 2) - 1 = i + 1
    OBVIOUS
  <2> QED BY <2>2, <2>3, <2>4
<1>8. i + 1 \in 1..Len(code)
  OBVIOUS
<1> QED BY <1>1, <1>7, <1>8, PartOfOne

\* So is a class at the end, when there is no fence and no other class.
LEMMA LastClassExtracted ==
    ASSUME NEW code \in Seq(Tokens), Where("fence", code) = {},
           Where("class", code) = {Len(code)}
    PROVE  Extracted(code) = <<"class">>
<1>1. Len(code) \in DOMAIN code /\ code[Len(code)] = "class"
  BY DEF Where
<1>2. Extracted(code) = Anchored(code)
  <2>1. ~ (Cardinality(Where("fence", code)) > 1)
    <3>1. Cardinality(Where("fence", code)) = 0
      BY FS_EmptySet
    <3> QED BY <3>1
  <2> QED BY <2>1, Zenon DEF Extracted
<1>3. Anchored(code) = SubSeq(code, Len(code), Len(code))
  BY LeastOfOne DEF Anchored, From
<1> QED BY <1>1, <1>2, <1>3, PartOfOne

LEMMA FormatHolds == ReplyInv => FormatGivesClass
<1> SUFFICES ASSUME ReplyInv, macroAt = "verifying" PROVE FormatGivesClass
  BY DEF FormatGivesClass
<1>1. CASE ~DelimiterFound(raw)
  <2>1. Where("class", Mirror) # {}
    BY <1>1 DEF ReplyInv, Mirror, ParseLlmOutput
  <2>2. "class" \in Range(Mirror)
    BY <2>1 DEF Where, Range
  <2> QED BY <1>1, <2>2 DEF FormatGivesClass
<1>2. CASE DelimiterFound(raw)
  <2> DEFINE code == AfterMirror(raw)
  <2>1. code \in Seq(Tokens)
    <3>1. IsFiniteSet(Where("mirror", raw))
      BY FS_Interval, FS_Subset DEF Where, ReplyInv
    <3>2. PICK at : Where("mirror", raw) = {at}
      BY <1>2, <3>1, FS_Singleton DEF DelimiterFound
    <3>3. at \in Nat
      BY <3>2 DEF Where, ReplyInv
    <3>4. Min(Where("mirror", raw)) = at
      BY <3>2, <3>3, LeastOfOne
    <3> QED BY <3>3, <3>4 DEF AfterMirror, From, ReplyInv
  <2>2. Mirror = Extracted(code)
    BY <1>2 DEF Mirror, ParseLlmOutput
  <2> HIDE DEF code
  <2>3. ASSUME NEW i \in 1..(Len(code) - 2),
               SubSeq(code, i, i + 2) = <<"fence", "class", "fence">>,
               Cardinality(Where("fence", code)) = 2
        PROVE  Mirror = <<"class">>
    BY <2>1, <2>2, <2>3, BlockExtracted
  <2>4. ASSUME Where("fence", code) = {}, Where("class", code) = {Len(code)}
        PROVE  Mirror = <<"class">>
    BY <2>1, <2>2, <2>4, LastClassExtracted
  <2> QED BY <1>2, <2>3, <2>4 DEF FormatGivesClass, code
<1> QED BY <1>1, <1>2

\* What is verified is the class of a reply that keeps to the format, and has a
\* class otherwise, for any replies.
THEOREM FormatIsRead == VbaSpec => []FormatGivesClass
BY ReplyInvariant, FormatHolds, PTL

=============================================================================
