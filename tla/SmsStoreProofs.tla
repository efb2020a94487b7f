--------------------------- MODULE SmsStoreProofs ---------------------------
(* What one transaction of insertSMS does to the table, for every table    *)
(* whose source keys are unique.                                           *)
EXTENDS SmsStore, TLAPS

UniquePaths(t) == \A i, j \in DOMAIN t : i # j => t[i].path # t[j].path

(* A row written by updateSMSRow is a row.                                 *)
LEMMA UpdatedRowType ==
    ASSUME NEW t, Table(t), NEW i \in DOMAIN t, NEW rec \in Record,
           NEW sim \in Sims \cup {None}, NEW modem \in BOOLEAN
    PROVE  UpdatedRow(t, i, rec, sim, modem) \in Row
  <1>1. t[i] \in Row
    BY DEF Table
  <1>2. Candidate(rec) \in BOOLEAN
    BY DEF Candidate
  <1> QED  BY <1>1, <1>2 DEF UpdatedRow, Row, Record

(* A row inserted is a row.                                                *)
LEMMA NewRowType ==
    ASSUME NEW rec \in Record, NEW sim \in Sims \cup {None},
           NEW modem \in BOOLEAN
    PROVE  NewRow(rec, sim, modem) \in Row
  BY DEF NewRow, Row, Record, Candidate

(* findContentDuplicateSMS finds received rows with the text of a          *)
(* candidate, and with its timestamp if it has one.                        *)
LEMMA ContentDuplicateSound ==
    ASSUME NEW t, NEW rec, NEW sim, NEW modem,
           NEW i \in ContentDuplicate(t, rec, sim, modem)
    PROVE  /\ Candidate(rec) /\ rec.body # None
           /\ i \in SameContent(t, rec)
  BY DEF ContentDuplicate, Newest

(* If exactly one received row has the text and the timestamp of a dated   *)
(* candidate, that row is found, whatever identities are known.            *)
LEMMA ContentDuplicateFindsTheOnly ==
    ASSUME NEW t, NEW rec, NEW sim, NEW modem, DOMAIN t \subseteq Nat,
           Candidate(rec), rec.body # None, rec.stamp # None,
           NEW i \in SameContent(t, rec),
           \A j \in SameContent(t, rec) : j = i
    PROVE  ContentDuplicate(t, rec, sim, modem) = {i}
  <1> DEFINE same == SameContent(t, rec)
             sameSim   == {j \in same : sim # None /\ t[j].sim = sim}
             sameModem == {j \in same : modem /\ t[j].modem}
             anywhere  == {j \in same : rec.stamp # None}
  <1>1. same = {i}
    BY DEF SameContent
  <1>2. i \in Nat
    BY DEF SameContent
  <1>3. Newest({i}) = {i}
    BY <1>2 DEF Newest
  <1>4. sameSim \in {{}, {i}} /\ sameModem \in {{}, {i}} /\ anywhere = {i}
    BY <1>1
  <1>5. ContentDuplicate(t, rec, sim, modem)
          = IF sameSim # {} THEN Newest(sameSim)
            ELSE IF sameModem # {} THEN Newest(sameModem)
            ELSE Newest(anywhere)
    BY DEF ContentDuplicate
  <1> HIDE DEF sameSim, sameModem, anywhere
  <1> QED  BY <1>3, <1>4, <1>5

(* The shape of the table after the transaction.  One row k is written; it *)
(* carries the record's source key, and no other row does.  A row that is  *)
(* gone was the provisional one of that key, merged into another row.      *)
Written(t, R, k, newId, rec, sim, modem) ==
    /\ k \in DOMAIN R
    /\ DOMAIN R \subseteq DOMAIN t \cup {newId}
    /\ R[k] \in Row
    /\ R[k].path = rec.path /\ R[k].dir = rec.dir
    /\ R[k].state = rec.state /\ R[k].peer = rec.peer
    /\ k \in DOMAIN t =>
          /\ \/ t[k].path = rec.path
             \/ k \in ContentDuplicate(t, rec, sim, modem)
          /\ R[k].body = IF rec.body # None THEN rec.body ELSE t[k].body
          /\ R[k].stamp = IF rec.stamp # None THEN rec.stamp ELSE t[k].stamp
          /\ R[k].pushed <=> (t[k].pushed \/ Candidate(rec))
    /\ k \notin DOMAIN t =>
          /\ k = newId
          /\ NeedsNewRow(t, rec, sim, modem)
          /\ R[k].body = rec.body /\ R[k].stamp = rec.stamp
          /\ R[k].pushed <=> Candidate(rec)
    /\ ContentDuplicate(t, rec, sim, modem) # {}
          => k \in ContentDuplicate(t, rec, sim, modem)
    /\ \A j \in DOMAIN R \ {k} :
          j \in DOMAIN t /\ R[j] = t[j] /\ t[j].path # rec.path
    /\ \A j \in DOMAIN t \ DOMAIN R :
          /\ t[j].path = rec.path
          /\ ContentDuplicate(t, rec, sim, modem) # {}
          /\ j # k

(* Every run of the transaction has that shape.                            *)
LEMMA InsertedShape ==
    ASSUME NEW t, Table(t), UniquePaths(t),
           NEW newId \in Nat \ {0}, newId \notin DOMAIN t,
           NEW rec \in Record,
           NEW sim \in Sims \cup {None}, NEW modem \in BOOLEAN
    PROVE  \E k \in DOMAIN Inserted(t, newId, rec, sim, modem) :
               Written(t, Inserted(t, newId, rec, sim, modem), k, newId, rec,
                       sim, modem)
  <1> DEFINE R       == Inserted(t, newId, rec, sim, modem)
             source  == AtSourceKey(t, rec.path)
             content == ContentDuplicate(t, rec, sim, modem)
  <1>s. \A i \in source : source = {i}
    BY DEF AtSourceKey, UniquePaths
  <1>c. content \subseteq DOMAIN t
    BY ContentDuplicateSound DEF SameContent
  <1>1. CASE content # {} /\ content # source
    <2> DEFINE k    == CHOOSE i \in content : TRUE
               rest == [j \in DOMAIN t \ (source \ {k}) |-> t[j]]
               row  == UpdatedRow(rest, k, rec, sim, modem)
    <2>1. k \in content /\ k \in DOMAIN t
      BY <1>1, <1>c
    <2>2. R = [j \in DOMAIN rest \cup {k} |-> IF j = k THEN row ELSE rest[j]]
      BY <1>1 DEF Inserted, Merged, WithRow
    <2>3. /\ DOMAIN rest = DOMAIN t \ (source \ {k}) /\ k \in DOMAIN rest
          /\ \A j \in DOMAIN rest : rest[j] = t[j]
      BY <2>1
    <2>4. Table(rest)
      BY <2>3 DEF Table
    <2>5. AtSourceKey(rest, rec.path) \subseteq {k}
      BY <2>3 DEF AtSourceKey
    <2>6. row \in Row
      BY <2>3, <2>4, UpdatedRowType
    <2>7. /\ row.path = rec.path /\ row.dir = rec.dir
          /\ row.state = rec.state /\ row.peer = rec.peer
          /\ row.body = IF rec.body # None THEN rec.body ELSE rest[k].body
          /\ row.stamp = IF rec.stamp # None THEN rec.stamp ELSE rest[k].stamp
          /\ row.pushed <=> (rest[k].pushed \/ Candidate(rec))
      BY <2>5 DEF UpdatedRow
    <2> HIDE DEF k, rest, row
    <2>8. DOMAIN R = DOMAIN rest /\ R[k] = row
          /\ \A j \in DOMAIN R \ {k} : R[j] = rest[j]
      BY <2>2, <2>3
    <2>9. \A j \in DOMAIN R \ {k} : t[j].path # rec.path
      BY <2>3, <2>8 DEF AtSourceKey
    <2>10. \A j \in DOMAIN t \ DOMAIN R : t[j].path = rec.path /\ j # k
      BY <2>3, <2>8 DEF AtSourceKey
    <2> HIDE DEF R, content
    <2>11. Written(t, R, k, newId, rec, sim, modem)
      BY <1>1, <2>1, <2>3, <2>6, <2>7, <2>8, <2>9, <2>10 DEF Written, content
    <2> QED  BY <2>3, <2>8, <2>11 DEF R
  <1>2. CASE ~(content # {} /\ content # source) /\ source # {}
    <2> DEFINE k   == CHOOSE i \in source : TRUE
               row == UpdatedRow(t, k, rec, sim, modem)
    <2>1. k \in source /\ k \in DOMAIN t /\ t[k].path = rec.path
      BY <1>2 DEF AtSourceKey
    <2>2. R = [j \in DOMAIN t \cup {k} |-> IF j = k THEN row ELSE t[j]]
      BY <1>2 DEF Inserted, WithRow
    <2>3. source = {k}
      BY <1>s, <2>1
    <2>4. row \in Row
      BY <2>1, UpdatedRowType
    <2>5. /\ row.path = rec.path /\ row.dir = rec.dir
          /\ row.state = rec.state /\ row.peer = rec.peer
          /\ row.body = IF rec.body # None THEN rec.body ELSE t[k].body
          /\ row.stamp = IF rec.stamp # None THEN rec.stamp ELSE t[k].stamp
          /\ row.pushed <=> (t[k].pushed \/ Candidate(rec))
      BY <2>3 DEF UpdatedRow
    <2> HIDE DEF k, row
    <2>6. DOMAIN R = DOMAIN t /\ R[k] = row
          /\ \A j \in DOMAIN R \ {k} : R[j] = t[j]
      BY <2>1, <2>2
    <2>7. \A j \in DOMAIN R \ {k} : t[j].path # rec.path
      BY <2>3, <2>6 DEF AtSourceKey
    <2>8. content # {} => k \in content
      BY <1>2, <2>3
    <2> HIDE DEF R, content
    <2>9. Written(t, R, k, newId, rec, sim, modem)
      BY <2>1, <2>4, <2>5, <2>6, <2>7, <2>8 DEF Written, content
    <2> QED  BY <2>1, <2>6, <2>9 DEF R
  <1>3. CASE content = {} /\ source = {}
    <2> DEFINE row == NewRow(rec, sim, modem)
    <2>1. R = [j \in DOMAIN t \cup {newId} |-> IF j = newId THEN row ELSE t[j]]
      BY <1>3 DEF Inserted, WithRow
    <2>2. DOMAIN R = DOMAIN t \cup {newId} /\ R[newId] = row
          /\ \A j \in DOMAIN R \ {newId} : j \in DOMAIN t /\ R[j] = t[j]
      BY <2>1
    <2>3. row \in Row
      BY NewRowType
    <2>4. /\ row.path = rec.path /\ row.dir = rec.dir
          /\ row.state = rec.state /\ row.peer = rec.peer
          /\ row.body = rec.body /\ row.stamp = rec.stamp
          /\ row.pushed <=> Candidate(rec)
      BY DEF NewRow
    <2>5. NeedsNewRow(t, rec, sim, modem)
      BY <1>3 DEF NeedsNewRow
    <2>6. \A j \in DOMAIN t : t[j].path # rec.path
      BY <1>3 DEF AtSourceKey
    <2> HIDE DEF R, row, content
    <2>7. Written(t, R, newId, newId, rec, sim, modem)
      BY <1>3, <2>2, <2>3, <2>4, <2>5, <2>6 DEF Written, content
    <2> QED  BY <2>2, <2>7 DEF R
  <1> QED  BY <1>1, <1>2, <1>3
=============================================================================
