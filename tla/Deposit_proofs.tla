--------------------------- MODULE Deposit_proofs ---------------------------
(***************************************************************************)
(* Theorems about Deposit for any set of keys, calls and batches and any   *)
(* bound on the faults.                                                    *)
(***************************************************************************)
EXTENDS Deposit, TLAPS

Results == {"stored", "duplicate", "invalid"}
Open(r) == pc[r] \in {"checking", "inserting", "answered"}
Row(r, n) == [key |-> batch[r][n], file |-> FileName(r, n)]

(* Where a call may be in its batch, and what it inserts: a key it has not *)
(* inserted yet, with its file written.                                    *)
Placed(r) ==
  /\ pc[r] \in {"checking", "inserting"} => Pos(r) \in DOMAIN batch[r]
  /\ DOMAIN told[r] \subseteq DOMAIN batch[r]
  /\ pc[r] = "inserting" =>
       Doc(r) \in Keys /\ Doc(r) \notin KeysOf(mine[r]) /\ FileName(r, Pos(r)) \in disk

Place == \A r \in Requests : Placed(r)

(* The rows of an open transaction name files of documents already dealt   *)
(* with; those of the table, files of finished calls.  So no row names the *)
(* file a call may still delete.                                           *)
Ownership ==
  /\ \A r \in Requests : \A row \in mine[r] :
       Open(r) /\ \E n \in DOMAIN told[r] : row.file = FileName(r, n)
  /\ \A row \in rows : \E r \in Requests, n \in Nat :
       pc[r] = "done" /\ row.file = FileName(r, n)

(* One row for each key, among the committed rows and those of all open    *)
(* transactions.                                                           *)
Unique ==
  /\ \A r \in Requests : \A x, y \in rows \cup mine[r] : x.key = y.key => x = y
  /\ \A r, q \in Requests : r # q => KeysOf(mine[r]) \cap KeysOf(mine[q]) = {}

(* What a call that met no fault has answered so far is true of the        *)
(* committed rows and its own.                                             *)
Told(r, n) ==
  /\ told[r][n] = "stored"    => Row(r, n) \in rows \cup mine[r]
  /\ told[r][n] = "duplicate" => batch[r][n] \in KeysOf(rows \cup mine[r])

Answers ==
  \A r \in Requests \ upset : pc[r] # "failed" => \A n \in DOMAIN told[r] : Told(r, n)

DepositInv ==
  TypeOK /\ Place /\ Ownership /\ Unique /\ Answers /\ RowHasFile /\ OrphansExplained

-----------------------------------------------------------------------------
LEMMA KeysOfRows ==
  ASSUME NEW S, NEW T, NEW k
  PROVE  /\ k \in KeysOf(S) <=> \E row \in S : row.key = k
         /\ KeysOf(S \cup T) = KeysOf(S) \cup KeysOf(T)
         /\ KeysOf({}) = {}
BY DEF KeysOf

LEMMA KeysOfSubset ==
  ASSUME NEW S, NEW T, S \subseteq T
  PROVE  KeysOf(S) \subseteq KeysOf(T)
BY DEF KeysOf

(* Transactions that only lose rows keep the keys unique.                  *)
LEMMA UniqueOfFewer ==
  ASSUME Unique, rows' = rows, \A q \in Requests : mine'[q] \subseteq mine[q]
  PROVE  Unique'
<1>1. \A q \in Requests : KeysOf(mine'[q]) \subseteq KeysOf(mine[q])
  BY KeysOfSubset
<1>2. \A r, q \in Requests : r # q => KeysOf(mine'[r]) \cap KeysOf(mine'[q]) = {}
  BY <1>1 DEF Unique
<1>3. \A r \in Requests : \A x, y \in rows \cup mine'[r] : x.key = y.key => x = y
  BY DEF Unique
<1> QED
  BY <1>2, <1>3 DEF Unique

LEMMA FileNames ==
  \A r, q, n, m : FileName(r, n) = FileName(q, m) <=> r = q /\ n = m
BY DEF FileName

LEMMA BatchTypes ==
  ASSUME TypeOK, NEW r \in Requests
  PROVE  /\ batch[r] \in Seq(Keys \cup {Illegible})
         /\ told[r] \in Seq(Results)
         /\ DOMAIN batch[r] = 1..Len(batch[r]) /\ DOMAIN told[r] = 1..Len(told[r])
         /\ Len(batch[r]) \in Nat /\ Len(told[r]) \in Nat
         /\ Pos(r) \in Nat /\ Pos(r) \notin DOMAIN told[r]
<1>1. batch[r] \in Seq(Keys \cup {Illegible}) /\ told[r] \in Seq(Results)
  BY DepositAssumption DEF TypeOK, Results
<1> QED
  BY <1>1 DEF Pos

(* A result told: one more result, the earlier ones unchanged, and a place *)
(* in the batch again.                                                     *)
LEMMA TellEffect ==
  ASSUME TypeOK, Place, NEW r \in Requests, pc[r] \in {"checking", "inserting"},
         NEW result \in Results, Tell(r, result), batch' = batch
  PROVE  /\ told' \in [Requests -> Seq(Results)]
         /\ pc' \in [Requests -> {"checking", "inserting", "answered", "done", "failed"}]
         /\ pc'[r] \in {"checking", "answered"}
         /\ DOMAIN told'[r] = DOMAIN told[r] \cup {Pos(r)}
         /\ told'[r][Pos(r)] = result
         /\ \A n \in DOMAIN told[r] : told'[r][n] = told[r][n]
         /\ \A q \in Requests \ {r} : told'[q] = told[q] /\ pc'[q] = pc[q]
         /\ pc'[r] = "checking" => Pos(r)' \in DOMAIN batch[r]
         /\ DOMAIN told'[r] \subseteq DOMAIN batch[r]
<1>1. told' = [told EXCEPT ![r] = Append(@, result)] /\ told \in [Requests -> Seq(Results)]
  BY DEF Tell, TypeOK, Results
<1>2. pc' = [pc EXCEPT ![r] = IF Pos(r) = Len(batch[r]) THEN "answered" ELSE "checking"]
  BY DEF Tell, Goto
<1>3. told[r] \in Seq(Results) /\ told'[r] = Append(told[r], result)
  BY <1>1
<1>4. Len(told'[r]) = Pos(r)
  BY <1>3 DEF Pos
<1>5. told'[r] \in Seq(Results) /\ DOMAIN told'[r] = 1..Pos(r)
  BY <1>3, <1>4
<1>6. DOMAIN told'[r] = DOMAIN told[r] \cup {Pos(r)}
  BY <1>5, BatchTypes DEF Pos
<1>7. told'[r][Pos(r)] = result /\ \A n \in DOMAIN told[r] : told'[r][n] = told[r][n]
  BY <1>3 DEF Pos
<1>8. Pos(r) \in 1..Len(batch[r]) /\ Len(batch[r]) \in Nat
  BY BatchTypes DEF Place, Placed
<1>9. DOMAIN told'[r] \subseteq DOMAIN batch[r]
  BY <1>5, <1>8, BatchTypes
<1>10. pc'[r] = "checking" => Pos(r)' \in DOMAIN batch[r]
  <2> SUFFICES ASSUME pc'[r] = "checking" PROVE Pos(r)' \in DOMAIN batch[r]
    OBVIOUS
  <2>1. Pos(r) # Len(batch[r])
    BY <1>2 DEF TypeOK
  <2>2. Pos(r)' = Pos(r) + 1
    BY <1>4 DEF Pos
  <2> QED
    BY <2>1, <2>2, <1>8, BatchTypes
<1> QED
  BY <1>1, <1>2, <1>5, <1>6, <1>7, <1>9, <1>10 DEF TypeOK

LEMMA InitDepositInv == Init => DepositInv
<1> SUFFICES ASSUME Init PROVE DepositInv
  OBVIOUS
<1>1. \A r \in Requests : told[r] = <<>> /\ mine[r] = {} /\ pc[r] = "checking" /\ batch[r] \in Batches
  BY DEF Init
<1>2. TypeOK
  BY DepositAssumption DEF Init, TypeOK
<1>3. Place
  BY <1>1, DepositAssumption DEF Place, Placed, Pos
<1>4. Ownership /\ Unique
  BY <1>1 DEF Init, Ownership, Unique, KeysOf
<1>5. Answers
  BY <1>1 DEF Answers
<1>6. RowHasFile /\ OrphansExplained
  BY <1>1 DEF Init, RowHasFile, OrphansExplained
<1> QED
  BY <1>2, <1>3, <1>4, <1>5, <1>6 DEF DepositInv

(* A document is refused: only what r has told grows.                      *)
LEMMA RefusePreserves ==
  ASSUME DepositInv, NEW r \in Requests, Check(r),
         Doc(r) = Illegible \/ Doc(r) \in KeysOf(rows \cup mine[r])
  PROVE  DepositInv'
<1> USE DEF DepositInv
<1> DEFINE result == IF Doc(r) = Illegible THEN "invalid" ELSE "duplicate"
<1>1. Tell(r, result) /\ pc[r] = "checking" /\ result \in Results
  BY DEF Check, Results
<1>2. UNCHANGED <<rows, disk, batch, mine, used, upset>>
  BY DEF Check
<1> HIDE DEF result
<1>3. /\ told' \in [Requests -> Seq(Results)]
      /\ pc' \in [Requests -> {"checking", "inserting", "answered", "done", "failed"}]
      /\ pc'[r] \in {"checking", "answered"}
      /\ DOMAIN told'[r] = DOMAIN told[r] \cup {Pos(r)}
      /\ told'[r][Pos(r)] = result
      /\ \A n \in DOMAIN told[r] : told'[r][n] = told[r][n]
      /\ \A q \in Requests \ {r} : told'[q] = told[q] /\ pc'[q] = pc[q]
      /\ pc'[r] = "checking" => Pos(r)' \in DOMAIN batch[r]
      /\ DOMAIN told'[r] \subseteq DOMAIN batch[r]
  BY <1>1, <1>2, TellEffect
<1>4. TypeOK'
  BY <1>2, <1>3 DEF TypeOK, Results
<1>5. Place'
  <2>1. \A q \in Requests \ {r} : Pos(q)' = Pos(q) /\ Doc(q)' = Doc(q) /\ FileName(q, Pos(q))' = FileName(q, Pos(q))
    BY <1>2, <1>3 DEF Pos, Doc, FileName
  <2>2. Placed(r)'
    BY <1>2, <1>3 DEF Placed
  <2>3. ASSUME NEW q \in Requests \ {r} PROVE Placed(q)'
    BY <1>2, <1>3, <2>1 DEF Place, Placed
  <2> QED
    BY <2>2, <2>3 DEF Place
<1>6. Ownership'
  <2>1. \A q \in Requests : Open(q) => Open(q)'
    BY <1>1, <1>3 DEF Open
  <2>2. \A q \in Requests : DOMAIN told[q] \subseteq DOMAIN told'[q]
    BY <1>3
  <2>3. \A q \in Requests : pc[q] = "done" => pc'[q] = "done"
    BY <1>1, <1>3
  <2> QED
    BY <1>2, <2>1, <2>2, <2>3 DEF Ownership, FileName
<1>7. Unique' /\ RowHasFile'
  BY <1>2 DEF Unique, RowHasFile
<1>8. Answers'
  <2> SUFFICES ASSUME NEW q \in Requests \ upset, pc'[q] # "failed", NEW n \in DOMAIN told'[q]
               PROVE  Told(q, n)'
    BY <1>2 DEF Answers
  <2>1. CASE q # r
    BY <1>2, <1>3, <2>1 DEF Answers, Told, Row, FileName
  <2>2. CASE q = r /\ n \in DOMAIN told[r]
    BY <1>1, <1>2, <1>3, <2>2 DEF Answers, Told, Row, FileName
  <2>3. CASE q = r /\ n = Pos(r)
    <3>1. result = "duplicate" => batch[r][n] \in KeysOf(rows \cup mine[r])
      BY <2>3 DEF result, Doc
    <3>2. result # "stored"
      BY DEF result
    <3> QED
      BY <1>2, <1>3, <2>3, <3>1, <3>2 DEF Told
  <2> QED
    BY <1>3, <2>1, <2>2, <2>3
<1>9. OrphansExplained'
  BY <1>1, <1>2, <1>3 DEF OrphansExplained, FileName, Pos
<1> QED
  BY <1>4, <1>5, <1>6, <1>7, <1>8, <1>9

(* A document is accepted: its file, which did not exist, is written.      *)
LEMMA WritePreserves ==
  ASSUME DepositInv, NEW r \in Requests, Check(r),
         ~(Doc(r) = Illegible \/ Doc(r) \in KeysOf(rows \cup mine[r]))
  PROVE  DepositInv'
<1> USE DEF DepositInv
<1>1. /\ pc[r] = "checking" /\ pc' = [pc EXCEPT ![r] = "inserting"]
      /\ disk' = disk \cup {FileName(r, Pos(r))}
      /\ UNCHANGED <<rows, batch, told, mine, used, upset>>
  BY DEF Check, Goto, File
<1>2. TypeOK'
  <2>1. FileName(r, Pos(r)) \in Requests \X Nat
    BY BatchTypes DEF FileName
  <2> QED
    BY <1>1, <2>1 DEF TypeOK
<1>3. Place'
  <2>1. \A q \in Requests : Pos(q)' = Pos(q) /\ Doc(q)' = Doc(q) /\ FileName(q, Pos(q))' = FileName(q, Pos(q))
    BY <1>1 DEF Pos, Doc, FileName
  <2>2. Doc(r) \in Keys /\ Doc(r) \notin KeysOf(mine[r])
    <3>1. Doc(r) \in Keys \cup {Illegible}
      BY <1>1, BatchTypes DEF Place, Placed, Doc
    <3> QED
      BY <3>1, KeysOfRows
  <2> QED
    BY <1>1, <2>1, <2>2 DEF Place, Placed, TypeOK
<1>4. Ownership' /\ Unique' /\ RowHasFile'
  <2>1. \A q \in Requests : Open(q) => Open(q)'
    BY <1>1 DEF Open, TypeOK
  <2>2. \A q \in Requests : pc[q] = "done" => pc'[q] = "done"
    BY <1>1 DEF TypeOK
  <2>3. Ownership'
    BY <1>1, <2>1, <2>2 DEF Ownership, FileName
  <2> QED
    BY <1>1, <2>3 DEF Unique, RowHasFile
<1>5. Answers'
  BY <1>1 DEF Answers, Told, Row, FileName, TypeOK
<1>6. OrphansExplained'
  <2> SUFFICES ASSUME NEW q \in Requests, NEW n \in DOMAIN batch[q],
                      FileName(q, n) \in disk',
                      \A row \in rows \cup mine[q] : row.file # FileName(q, n),
                      ~(pc'[q] = "inserting" /\ n = Pos(q))
               PROVE  q \in upset
    BY <1>1 DEF OrphansExplained, FileName, Pos
  <2>1. FileName(q, n) \in disk
    BY <1>1, FileNames DEF TypeOK
  <2> QED
    BY <1>1, <2>1 DEF OrphansExplained, TypeOK
<1> QED
  BY <1>2, <1>3, <1>4, <1>5, <1>6

(* An INSERT that meets a committed row of its key: r is upset, its rows   *)
(* are lost and the file of the document is left.                          *)
LEMMA ConflictPreserves ==
  ASSUME DepositInv, NEW r \in Requests, Insert(r), Doc(r) \in KeysOf(rows)
  PROVE  DepositInv'
<1> USE DEF DepositInv
<1>1. /\ pc[r] = "inserting" /\ Tell(r, "duplicate")
      /\ mine' = [mine EXCEPT ![r] = {}] /\ upset' = upset \cup {r}
      /\ UNCHANGED <<rows, disk, batch, used>>
  BY DEF Insert
<1>2. /\ told' \in [Requests -> Seq(Results)]
      /\ pc' \in [Requests -> {"checking", "inserting", "answered", "done", "failed"}]
      /\ pc'[r] \in {"checking", "answered"}
      /\ \A q \in Requests \ {r} : told'[q] = told[q] /\ pc'[q] = pc[q]
      /\ pc'[r] = "checking" => Pos(r)' \in DOMAIN batch[r]
      /\ DOMAIN told'[r] \subseteq DOMAIN batch[r]
  BY <1>1, TellEffect DEF Results
<1>3. mine'[r] = {} /\ \A q \in Requests \ {r} : mine'[q] = mine[q]
  BY <1>1 DEF TypeOK
<1>4. TypeOK'
  BY <1>1, <1>2 DEF TypeOK, Results
<1>5. Place'
  <2>1. \A q \in Requests \ {r} : Pos(q)' = Pos(q) /\ Doc(q)' = Doc(q) /\ FileName(q, Pos(q))' = FileName(q, Pos(q))
    BY <1>1, <1>2 DEF Pos, Doc, FileName
  <2>2. Placed(r)'
    BY <1>1, <1>2 DEF Placed
  <2>3. ASSUME NEW q \in Requests \ {r} PROVE Placed(q)'
    BY <1>1, <1>2, <1>3, <2>1 DEF Place, Placed
  <2> QED
    BY <2>2, <2>3 DEF Place
<1>6. Ownership'
  <2>1. ASSUME NEW q \in Requests, NEW row \in mine'[q]
        PROVE  Open(q)' /\ \E n \in DOMAIN told'[q] : row.file = FileName(q, n)
    <3>1. q # r /\ row \in mine[q]
      BY <1>3, <2>1
    <3>2. pc'[q] = pc[q] /\ told'[q] = told[q]
      BY <1>2, <3>1
    <3> QED
      BY <3>1, <3>2 DEF Ownership, Open
  <2>2. \A q \in Requests : pc[q] = "done" => pc'[q] = "done"
    BY <1>1, <1>2
  <2> QED
    BY <1>1, <2>1, <2>2 DEF Ownership, FileName
<1>7. Unique' /\ RowHasFile'
  <2>1. \A q \in Requests : mine'[q] \subseteq mine[q]
    BY <1>3
  <2> QED
    BY <1>1, <2>1, UniqueOfFewer DEF RowHasFile
<1>8. Answers'
  BY <1>1, <1>2, <1>3 DEF Answers, Told, Row, FileName
<1>9. OrphansExplained'
  BY <1>1, <1>2, <1>3 DEF OrphansExplained, FileName, Pos
<1> QED
  BY <1>4, <1>5, <1>6, <1>7, <1>8, <1>9

(* An INSERT that succeeds: no committed row and no open transaction has   *)
(* its key, so the row is the only one.                                    *)
LEMMA StorePreserves ==
  ASSUME DepositInv, NEW r \in Requests, Insert(r), Doc(r) \notin KeysOf(rows)
  PROVE  DepositInv'
<1> USE DEF DepositInv
<1> DEFINE new == [key |-> Doc(r), file |-> FileName(r, Pos(r))]
<1>1. /\ pc[r] = "inserting" /\ Tell(r, "stored")
      /\ mine' = [mine EXCEPT ![r] = @ \cup {new}]
      /\ UNCHANGED <<rows, disk, batch, used, upset>>
  BY DEF Insert, File
<1>2. \A q \in Requests \ {r} : Doc(r) \notin KeysOf(mine[q])
  BY <1>1 DEF Insert, WaitsFor
<1>3. Doc(r) \in Keys /\ Doc(r) \notin KeysOf(mine[r])
  BY <1>1 DEF Place, Placed
<1>4. new \in [key : Keys, file : Requests \X Nat] /\ new.key = Doc(r) /\ new.file = FileName(r, Pos(r))
  BY <1>3, BatchTypes DEF FileName
<1> HIDE DEF new
<1>5. mine'[r] = mine[r] \cup {new} /\ \A q \in Requests \ {r} : mine'[q] = mine[q]
  BY <1>1 DEF TypeOK
<1>6. /\ told' \in [Requests -> Seq(Results)]
      /\ pc' \in [Requests -> {"checking", "inserting", "answered", "done", "failed"}]
      /\ pc'[r] \in {"checking", "answered"}
      /\ DOMAIN told'[r] = DOMAIN told[r] \cup {Pos(r)}
      /\ told'[r][Pos(r)] = "stored"
      /\ \A n \in DOMAIN told[r] : told'[r][n] = told[r][n]
      /\ \A q \in Requests \ {r} : told'[q] = told[q] /\ pc'[q] = pc[q]
      /\ pc'[r] = "checking" => Pos(r)' \in DOMAIN batch[r]
      /\ DOMAIN told'[r] \subseteq DOMAIN batch[r]
  BY <1>1, TellEffect DEF Results
<1>7. FileName(r, Pos(r)) \in disk
  BY <1>1 DEF Place, Placed
<1>8. TypeOK'
  <2>1. mine' \in [Requests -> SUBSET [key : Keys, file : Requests \X Nat]]
    BY <1>1, <1>4 DEF TypeOK
  <2> QED
    BY <1>1, <1>6, <2>1 DEF TypeOK, Results
<1>9. Place'
  <2>1. \A q \in Requests \ {r} : Pos(q)' = Pos(q) /\ Doc(q)' = Doc(q) /\ FileName(q, Pos(q))' = FileName(q, Pos(q))
    BY <1>1, <1>6 DEF Pos, Doc, FileName
  <2>2. Placed(r)'
    BY <1>1, <1>6 DEF Placed
  <2>3. ASSUME NEW q \in Requests \ {r} PROVE Placed(q)'
    BY <1>1, <1>5, <1>6, <2>1 DEF Place, Placed
  <2> QED
    BY <2>2, <2>3 DEF Place
<1>10. Ownership'
  <2>1. \A q \in Requests : Open(q) => Open(q)'
    BY <1>1, <1>6 DEF Open
  <2>2. \A q \in Requests : pc[q] = "done" => pc'[q] = "done"
    BY <1>1, <1>6
  <2>3. ASSUME NEW q \in Requests, NEW row \in mine'[q]
        PROVE  Open(q)' /\ \E n \in DOMAIN told'[q] : row.file = FileName(q, n)
    <3>1. CASE row \in mine[q]
      BY <1>6, <2>1, <3>1 DEF Ownership
    <3>2. CASE q = r /\ row = new
      BY <1>4, <1>6, <3>2 DEF Open
    <3> QED
      BY <1>5, <3>1, <3>2
  <2> QED
    BY <1>1, <2>2, <2>3 DEF Ownership, FileName
<1>11. Unique'
  <2>1. \A q \in Requests : KeysOf(mine'[q]) = IF q = r THEN KeysOf(mine[q]) \cup {Doc(r)} ELSE KeysOf(mine[q])
    BY <1>4, <1>5 DEF KeysOf
  <2>2. \A q, w \in Requests : q # w => KeysOf(mine'[q]) \cap KeysOf(mine'[w]) = {}
    <3>1. \A q \in Requests \ {r} : KeysOf(mine[r]) \cap KeysOf(mine[q]) = {}
      BY DEF Unique
    <3>2. \A q \in Requests \ {r} : KeysOf(mine'[r]) \cap KeysOf(mine'[q]) = {}
      BY <1>2, <2>1, <3>1
    <3> QED
      BY <2>1, <3>2 DEF Unique
  <2>3. ASSUME NEW q \in Requests, NEW x \in rows \cup mine'[q], NEW y \in rows \cup mine'[q], x.key = y.key
        PROVE  x = y
    <3>1. CASE x \in rows \cup mine[q] /\ y \in rows \cup mine[q]
      BY <2>3, <3>1 DEF Unique
    <3>2. \A z \in rows \cup mine[r] : z.key # Doc(r)
      BY <1>3 DEF KeysOf
    <3>3. CASE q = r /\ (x = new \/ y = new)
      BY <1>4, <1>5, <2>3, <3>2, <3>3
    <3> QED
      BY <1>5, <3>1, <3>3
  <2> QED
    BY <1>1, <2>2, <2>3 DEF Unique
<1>12. RowHasFile'
  BY <1>1, <1>4, <1>5, <1>7 DEF RowHasFile
<1>13. Answers'
  <2> SUFFICES ASSUME NEW q \in Requests \ upset, pc'[q] # "failed", NEW n \in DOMAIN told'[q]
               PROVE  Told(q, n)'
    BY <1>1 DEF Answers
  <2>1. CASE q # r
    BY <1>1, <1>5, <1>6, <2>1 DEF Answers, Told, Row, FileName
  <2>2. CASE q = r /\ n \in DOMAIN told[r]
    <3>1. Told(r, n)
      BY <1>1, <2>2 DEF Answers
    <3>2. KeysOf(rows \cup mine[r]) \subseteq KeysOf(rows \cup mine'[r])
      BY <1>5 DEF KeysOf
    <3> QED
      BY <1>1, <1>5, <1>6, <2>2, <3>1, <3>2 DEF Told, Row, FileName
  <2>3. CASE q = r /\ n = Pos(r)
    <3>1. Row(r, n)' = new
      BY <1>1, <2>3 DEF Row, FileName, Doc, new
    <3> QED
      BY <1>1, <1>5, <1>6, <2>3, <3>1 DEF Told
  <2> QED
    BY <1>6, <2>1, <2>2, <2>3
<1>14. OrphansExplained'
  <2> SUFFICES ASSUME NEW q \in Requests, NEW n \in DOMAIN batch[q],
                      FileName(q, n) \in disk,
                      \A row \in rows \cup mine'[q] : row.file # FileName(q, n),
                      ~(pc'[q] = "inserting" /\ n = Pos(q)')
               PROVE  q \in upset
    BY <1>1 DEF OrphansExplained, FileName
  <2>1. \A row \in rows \cup mine[q] : row.file # FileName(q, n)
    BY <1>5
  <2>2. ~(pc[q] = "inserting" /\ n = Pos(q))
    BY <1>4, <1>5, <1>6 DEF Pos
  <2> QED
    BY <2>1, <2>2 DEF OrphansExplained
<1> QED
  BY <1>8, <1>9, <1>10, <1>11, <1>12, <1>13, <1>14

(* A failed INSERT: the file that goes is the one of no row, since the     *)
(* rows of r are of documents before it.                                   *)
LEMMA AbandonPreserves ==
  ASSUME DepositInv, NEW r \in Requests, Abandon(r), used' \in 0..MaxFaults
  PROVE  DepositInv'
<1> USE DEF DepositInv
<1>1. /\ pc[r] = "inserting" /\ pc' = [pc EXCEPT ![r] = "failed"]
      /\ disk' = disk \ {FileName(r, Pos(r))}
      /\ mine' = [mine EXCEPT ![r] = {}]
      /\ upset' = IF told[r] = <<>> THEN upset ELSE upset \cup {r}
      /\ UNCHANGED <<rows, batch, told>>
  BY DEF Abandon, Goto, File
<1>2. /\ pc'[r] = "failed" /\ mine'[r] = {}
      /\ \A q \in Requests \ {r} : pc'[q] = pc[q] /\ mine'[q] = mine[q]
  BY <1>1 DEF TypeOK
<1>3. TypeOK'
  BY <1>1 DEF TypeOK
<1>4. \A q \in Requests \ {r} : FileName(q, Pos(q)) \in disk => FileName(q, Pos(q)) \in disk'
  BY <1>1, FileNames
<1>5. Place'
  <2>1. \A q \in Requests : Pos(q)' = Pos(q) /\ Doc(q)' = Doc(q) /\ FileName(q, Pos(q))' = FileName(q, Pos(q))
    BY <1>1 DEF Pos, Doc, FileName
  <2> QED
    BY <1>1, <1>2, <1>4, <2>1 DEF Place, Placed
<1>6. Ownership'
  BY <1>1, <1>2 DEF Ownership, Open, FileName
<1>7. Unique'
  <2>1. \A q \in Requests : mine'[q] \subseteq mine[q]
    BY <1>2
  <2> QED
    BY <1>1, <2>1, UniqueOfFewer
<1>8. RowHasFile'
  <2>1. ASSUME NEW row \in rows PROVE row.file \in disk'
    <3>1. PICK q \in Requests, n \in Nat : pc[q] = "done" /\ row.file = FileName(q, n)
      BY DEF Ownership
    <3> QED
      BY <1>1, <3>1, FileNames DEF RowHasFile
  <2>2. ASSUME NEW q \in Requests, NEW row \in mine'[q] PROVE row.file \in disk'
    <3>1. q # r /\ row \in mine[q]
      BY <1>2
    <3>2. PICK n \in DOMAIN told[q] : row.file = FileName(q, n)
      BY <3>1 DEF Ownership
    <3> QED
      BY <1>1, <3>1, <3>2, FileNames DEF RowHasFile
  <2> QED
    BY <1>1, <2>1, <2>2 DEF RowHasFile
<1>9. Answers'
  BY <1>1, <1>2 DEF Answers, Told, Row, FileName
<1>10. OrphansExplained'
  <2> SUFFICES ASSUME NEW q \in Requests, NEW n \in DOMAIN batch[q],
                      FileName(q, n) \in disk',
                      \A row \in rows \cup mine'[q] : row.file # FileName(q, n),
                      ~(pc'[q] = "inserting" /\ n = Pos(q))
               PROVE  q \in upset'
    BY <1>1 DEF OrphansExplained, FileName, Pos
  <2>1. CASE q # r
    BY <1>1, <1>2, <2>1 DEF OrphansExplained
  <2>2. CASE q = r /\ told[r] = <<>>
    <3>1. mine[r] = {}
      BY <2>2 DEF Ownership
    <3>2. n # Pos(r)
      BY <1>1, <2>2
    <3> QED
      BY <1>1, <1>2, <2>2, <3>1, <3>2 DEF OrphansExplained
  <2>3. CASE q = r /\ told[r] # <<>>
    BY <1>1, <2>3
  <2> QED
    BY <2>1, <2>2, <2>3
<1> QED
  BY <1>3, <1>5, <1>6, <1>7, <1>8, <1>9, <1>10

(* The rows of the call join the table.                                    *)
LEMMA CommitPreserves ==
  ASSUME DepositInv, NEW r \in Requests, Commit(r)
  PROVE  DepositInv'
<1> USE DEF DepositInv
<1>1. /\ pc[r] = "answered" /\ pc' = [pc EXCEPT ![r] = "done"]
      /\ rows' = rows \cup mine[r] /\ mine' = [mine EXCEPT ![r] = {}]
      /\ UNCHANGED <<disk, batch, told, used, upset>>
  BY DEF Commit, Goto
<1>2. /\ pc'[r] = "done" /\ mine'[r] = {}
      /\ \A q \in Requests \ {r} : pc'[q] = pc[q] /\ mine'[q] = mine[q]
  BY <1>1 DEF TypeOK
<1>3. TypeOK'
  BY <1>1 DEF TypeOK
<1>4. Place'
  <2>1. \A q \in Requests : Pos(q)' = Pos(q) /\ Doc(q)' = Doc(q) /\ FileName(q, Pos(q))' = FileName(q, Pos(q))
    BY <1>1 DEF Pos, Doc, FileName
  <2> QED
    BY <1>1, <1>2, <2>1 DEF Place, Placed
<1>5. Ownership'
  <2>1. \A row \in mine[r] : \E n \in Nat : row.file = FileName(r, n)
    BY BatchTypes DEF Ownership
  <2>2. \A row \in rows' : \E q \in Requests, n \in Nat : pc'[q] = "done" /\ row.file = FileName(q, n)
    BY <1>1, <1>2, <2>1 DEF Ownership
  <2> QED
    BY <1>1, <1>2, <2>2 DEF Ownership, Open, FileName
<1>6. Unique'
  <2>1. \A q, w \in Requests : q # w => KeysOf(mine'[q]) \cap KeysOf(mine'[w]) = {}
    BY <1>2 DEF Unique, KeysOf
  <2>2. ASSUME NEW q \in Requests, NEW x \in rows' \cup mine'[q], NEW y \in rows' \cup mine'[q], x.key = y.key
        PROVE  x = y
    <3>1. CASE x \in rows \cup mine[r] /\ y \in rows \cup mine[r]
      BY <2>2, <3>1 DEF Unique
    <3>2. CASE q # r /\ x \in rows \cup mine[q] /\ y \in rows \cup mine[q]
      BY <2>2, <3>2 DEF Unique
    <3>3. KeysOf(mine[q]) \cap KeysOf(mine[r]) = {} \/ q = r
      BY DEF Unique
    <3>4. CASE q # r /\ ((x \in mine[r] /\ y \in mine[q]) \/ (x \in mine[q] /\ y \in mine[r]))
      BY <2>2, <3>3, <3>4, KeysOfRows
    <3> QED
      BY <1>1, <1>2, <3>1, <3>2, <3>4
  <2> QED
    BY <2>1, <2>2 DEF Unique
<1>7. RowHasFile'
  BY <1>1, <1>2 DEF RowHasFile
<1>8. Answers'
  <2>1. \A q \in Requests : rows \cup mine[q] \subseteq rows' \cup mine'[q]
    BY <1>1, <1>2
  <2>2. \A q \in Requests : KeysOf(rows \cup mine[q]) \subseteq KeysOf(rows' \cup mine'[q])
    BY <2>1 DEF KeysOf
  <2> QED
    BY <1>1, <1>2, <2>1, <2>2 DEF Answers, Told, Row, FileName
<1>9. OrphansExplained'
  <2>1. \A q \in Requests : rows \cup mine[q] \subseteq rows' \cup mine'[q]
    BY <1>1, <1>2
  <2> QED
    BY <1>1, <1>2, <2>1 DEF OrphansExplained, FileName, Pos
<1> QED
  BY <1>3, <1>4, <1>5, <1>6, <1>7, <1>8, <1>9

(* Calls that end without an answer: what they inserted is rolled back.    *)
LEMMA RollbackPreserves ==
  ASSUME DepositInv, NEW S \in SUBSET Requests,
         \A r \in S : pc[r] \in {"checking", "inserting", "answered"},
         pc' = [r \in Requests |-> IF r \in S THEN "failed" ELSE pc[r]],
         mine' = [r \in Requests |-> IF r \in S THEN {} ELSE mine[r]],
         upset' = upset \cup S, used' \in 0..MaxFaults,
         UNCHANGED <<rows, disk, batch, told>>
  PROVE  DepositInv'
<1> USE DEF DepositInv
<1>1. TypeOK'
  BY DEF TypeOK
<1>2. Place'
  <2>1. \A q \in Requests : Pos(q)' = Pos(q) /\ Doc(q)' = Doc(q) /\ FileName(q, Pos(q))' = FileName(q, Pos(q))
    BY DEF Pos, Doc, FileName
  <2> QED
    BY <2>1 DEF Place, Placed
<1>3. Ownership'
  <2>1. \A q \in Requests : pc[q] = "done" => pc'[q] = "done"
    OBVIOUS
  <2> QED
    BY <2>1 DEF Ownership, Open, FileName
<1>4. Unique' /\ RowHasFile'
  <2>1. \A q \in Requests : mine'[q] \subseteq mine[q]
    OBVIOUS
  <2> QED
    BY <2>1, UniqueOfFewer DEF RowHasFile
<1>5. Answers'
  BY DEF Answers, Told, Row, FileName
<1>6. OrphansExplained'
  BY DEF OrphansExplained, FileName, Pos
<1> QED
  BY <1>1, <1>2, <1>3, <1>4, <1>5, <1>6

LEMMA NextDepositInv == DepositInv /\ [Next]_vars => DepositInv'
<1> SUFFICES ASSUME DepositInv, [Next]_vars PROVE DepositInv'
  OBVIOUS
<1> USE DEF DepositInv
<1>1. ASSUME NEW r \in Requests, Check(r) PROVE DepositInv'
  BY <1>1, RefusePreserves, WritePreserves
<1>2. ASSUME NEW r \in Requests, Insert(r) PROVE DepositInv'
  BY <1>2, ConflictPreserves, StorePreserves
<1>3. ASSUME NEW r \in Requests, DeadlockVictim(r) \/ InsertFails(r) PROVE DepositInv'
  <2>1. Abandon(r) /\ used' \in 0..MaxFaults
    BY <1>3, DepositAssumption DEF DeadlockVictim, InsertFails, Fault, TypeOK
  <2> QED
    BY <2>1, AbandonPreserves
<1>4. ASSUME NEW r \in Requests, Commit(r) PROVE DepositInv'
  BY <1>4, CommitPreserves
<1>5. ASSUME NEW r \in Requests, CallLost(r) PROVE DepositInv'
  <2>1. used' \in 0..MaxFaults
    BY <1>5, DepositAssumption DEF CallLost, Fault, TypeOK
  <2>2. /\ pc[r] \in {"checking", "answered"}
        /\ pc' = [q \in Requests |-> IF q \in {r} THEN "failed" ELSE pc[q]]
        /\ mine' = [q \in Requests |-> IF q \in {r} THEN {} ELSE mine[q]]
        /\ upset' = upset \cup {r} /\ UNCHANGED <<rows, disk, batch, told>>
    BY <1>5 DEF CallLost, Goto, TypeOK
  <2> QED
    BY <2>1, <2>2, RollbackPreserves
<1>6. ASSUME Crash PROVE DepositInv'
  <2> DEFINE S == {q \in Requests : Begun(q)}
  <2>1. used' \in 0..MaxFaults
    BY <1>6, DepositAssumption DEF Crash, Fault, TypeOK
  <2>2. \A q \in Requests \ S : mine[q] = {}
    BY DEF Ownership, Open, Begun
  <2>3. \A q \in S : pc[q] \in {"checking", "inserting", "answered"}
    BY DEF Begun
  <2>4. /\ pc' = [q \in Requests |-> IF q \in S THEN "failed" ELSE pc[q]]
        /\ mine' = [q \in Requests |-> IF q \in S THEN {} ELSE mine[q]]
        /\ upset' = upset \cup S /\ UNCHANGED <<rows, disk, batch, told>>
    BY <1>6, <2>2 DEF Crash
  <2> HIDE DEF S
  <2> QED
    BY <2>1, <2>2, <2>3, <2>4, RollbackPreserves DEF S
<1>7. CASE UNCHANGED vars
  <2> USE <1>7 DEF vars, callVars
  <2>1. TypeOK' /\ Unique' /\ RowHasFile'
    BY DEF TypeOK, Unique, RowHasFile
  <2>2. Place'
    BY DEF Place, Placed, Pos, Doc, FileName
  <2>3. Ownership'
    BY DEF Ownership, Open, FileName
  <2>4. Answers'
    BY DEF Answers, Told, Row, FileName
  <2>5. OrphansExplained'
    BY DEF OrphansExplained, Pos, FileName
  <2> QED
    BY <2>1, <2>2, <2>3, <2>4, <2>5
<1> QED
  BY <1>1, <1>2, <1>3, <1>4, <1>5, <1>6, <1>7 DEF Next

-----------------------------------------------------------------------------
(* The inductive invariant: what calls have told, inserted and written     *)
(* stays consistent through every check, insert, rollback and stop.        *)
THEOREM DepositInvariant == Spec => []DepositInv
<1>1. Init => DepositInv
  BY InitDepositInv
<1>2. DepositInv /\ [Next]_vars => DepositInv'
  BY NextDepositInv
<1> QED
  BY <1>1, <1>2, PTL DEF Spec

(* Every variable keeps its type, whatever the calls carry.                *)
THEOREM DepositTypes == Spec => []TypeOK
<1>1. DepositInv => TypeOK
  BY DEF DepositInv
<1> QED
  BY <1>1, DepositInvariant, PTL

(* No invoice is ever without its document: a failed INSERT deletes only   *)
(* the file it wrote.                                                      *)
THEOREM RowsHaveFiles == Spec => []RowHasFile
<1>1. DepositInv => RowHasFile
  BY DEF DepositInv
<1> QED
  BY <1>1, DepositInvariant, PTL

(* The check before the INSERT, the unique constraint and the wait for     *)
(* open transactions leave one row for each supplier and number.           *)
THEOREM OneRowForEachKey == Spec => []OneRowPerKey
<1>1. ASSUME DepositInv, NEW x \in rows, NEW y \in rows, x.key = y.key PROVE x = y
  <2>1. PICK r \in Requests : TRUE
    BY <1>1 DEF DepositInv, Ownership
  <2> QED
    BY <1>1, <2>1 DEF DepositInv, Unique
<1>2. DepositInv => OneRowPerKey
  BY <1>1 DEF OneRowPerKey
<1> QED
  BY <1>2, DepositInvariant, PTL

(* Only calls that lost a race, met a fault or were stopped leave files    *)
(* that no invoice refers to.                                              *)
THEOREM OrphansAreExplained == Spec => []OrphansExplained
<1>1. DepositInv => OrphansExplained
  BY DEF DepositInv
<1> QED
  BY <1>1, DepositInvariant, PTL

(* A finished call that lost no race and met no fault told the truth about *)
(* each of its documents.                                                  *)
THEOREM AnswersAreTrue == Spec => []AnswersHold
<1>1. ASSUME DepositInv, NEW r \in Requests \ upset, pc[r] = "done", NEW n \in DOMAIN told[r]
      PROVE  Holds(r, n)
  <2>1. Told(r, n)
    BY <1>1 DEF DepositInv, Answers
  <2>2. mine[r] = {}
    BY <1>1 DEF DepositInv, Ownership, Open
  <2> QED
    BY <2>1, <2>2 DEF Told, Holds, Row
<1>2. DepositInv => AnswersHold
  BY <1>1 DEF AnswersHold
<1> QED
  BY <1>2, DepositInvariant, PTL

=============================================================================
