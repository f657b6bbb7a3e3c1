----------------------- MODULE InvoiceMatching_proofs -----------------------
(***************************************************************************)
(* Theorems about InvoiceMatching for any contents of Odoo, any number of  *)
(* calls and of lines, any readings, payloads, tolerances and likeness of  *)
(* texts.  First the cache beside an Odoo that changes, then the calls on  *)
(* the invoice.                                                            *)
(***************************************************************************)
EXTENDS InvoiceMatching, MatchingRules_proofs

-----------------------------------------------------------------------------
(* The cache.                                                              *)
Tables == {"supplier", "order", "lines"}

Ids == [supplier |-> PartnerIds, order |-> OrderIds, lines |-> LineIds]

(* An order that a synchronisation accepts, in a content of Odoo.          *)
Accepted(o, v) ==
  \E x \in History[v].orders : x.id = o /\ x.state \notin UnmatchableStates

Listed(l, v) == \E x \in History[v].lines : x.id = l

CacheTypes ==
  /\ now \in Contents
  /\ cache \in [supplier : [PartnerIds -> Contents \cup {0}],
                order : [OrderIds -> Contents \cup {0}],
                lines : [LineIds -> Contents \cup {0}]]
  /\ DOMAIN rates = {} \/ Base \in DOMAIN rates
  /\ sync \in [Calls -> [pc : {"idle", "read", "done"}, entity : Entities \cup {"none"},
                         content : Contents \cup {0},
                         ids : SUBSET (PartnerIds \cup OrderIds \cup LineIds)]]

(* What a call has read of Odoo is no newer than Odoo.                     *)
Reads ==
  \A c \in Calls : sync[c].pc = "read" =>
    /\ sync[c].content \in Contents /\ sync[c].content <= now
    /\ \/ sync[c].entity \in Tables /\ sync[c].ids \subseteq Ids[sync[c].entity]
       \/ sync[c].entity = "rates" /\ sync[c].ids = {}
    /\ sync[c].entity = "order" => \A o \in sync[c].ids : Accepted(o, sync[c].content)
    /\ sync[c].entity = "lines" => \A l \in sync[c].ids : Listed(l, sync[c].content)

Copies ==
  \A r \in copied :
    /\ r.by \in Calls /\ sync[r.by].pc = "done"
    /\ r.entity \in Tables /\ r.id \in Ids[r.entity]
    /\ r.content \in Contents /\ r.content <= now

(* A call that has read Odoo overlaps the others that have, and those that *)
(* stored something newer.                                                 *)
Meetings ==
  /\ \A c, d \in Calls : sync[c].pc = "read" /\ sync[d].pc = "read" /\ c # d => {c, d} \in syncMet
  /\ \A c \in Calls : sync[c].pc = "read" =>
       \A r \in copied : r.content <= sync[c].content \/ {r.by, c} \in syncMet

Stored ==
  /\ \A r \in copied : (\E m \in syncMet : r.by \in m) \/ cache[r.entity][r.id] >= r.content
  /\ \A o \in OrderIds : cache.order[o] # 0 => Accepted(o, cache.order[o])
  /\ \A l \in LineIds : cache.lines[l] # 0 => Listed(l, cache.lines[l])

CacheInv == CacheTypes /\ Reads /\ Copies /\ Meetings /\ Stored

LEMMA ContentsAreNumbers ==
  Contents = 1..Len(History) /\ Len(History) \in Nat \ {0} /\ 1 \in Contents
BY OdooAssumption DEF Contents

LEMMA IdsOfTables ==
  Ids.supplier = PartnerIds /\ Ids.order = OrderIds /\ Ids.lines = LineIds
BY DEF Ids

LEMMA InitCache == OInit => CacheInv
<1> SUFFICES ASSUME OInit PROVE CacheInv
  OBVIOUS
<1>1. PICK filled \in BOOLEAN :
        LET orders == {o \in History[1].orders : o.state \notin UnmatchableStates}
            theirs == {l \in History[1].lines : \E o \in orders : o.id = l.order}
            first(id, S) == IF filled /\ \E x \in S : x.id = id THEN 1 ELSE 0
        IN cache = [supplier |-> [p \in PartnerIds |-> IF p \in Known THEN 1 ELSE 0],
                    order    |-> [o \in OrderIds |-> first(o, orders)],
                    lines    |-> [l \in LineIds |-> first(l, theirs)]]
  BY DEF OInit
<1>2. /\ now = 1 /\ rates = [c \in {} |-> 0] /\ copied = {} /\ syncMet = {}
      /\ sync = [c \in Calls |-> [pc |-> "idle", entity |-> "none", content |-> 0, ids |-> {}]]
  BY DEF OInit, SyncIdle
<1>3. CacheTypes
  <2>1. cache \in [supplier : [PartnerIds -> Contents \cup {0}],
                   order : [OrderIds -> Contents \cup {0}],
                   lines : [LineIds -> Contents \cup {0}]]
    BY <1>1, ContentsAreNumbers
  <2>2. DOMAIN rates = {}
    BY <1>2
  <2>3. sync \in [Calls -> [pc : {"idle", "read", "done"}, entity : Entities \cup {"none"},
                            content : Contents \cup {0},
                            ids : SUBSET (PartnerIds \cup OrderIds \cup LineIds)]]
    BY <1>2
  <2> QED
    BY <1>2, <2>1, <2>2, <2>3, ContentsAreNumbers DEF CacheTypes
<1>4. Reads /\ Copies /\ Meetings
  BY <1>2 DEF Reads, Copies, Meetings
<1>5. \A o \in OrderIds : cache.order[o] # 0 => Accepted(o, cache.order[o])
  BY <1>1 DEF Accepted
<1>6. \A l \in LineIds : cache.lines[l] # 0 => Listed(l, cache.lines[l])
  BY <1>1 DEF Listed
<1> QED
  BY <1>2, <1>3, <1>4, <1>5, <1>6 DEF CacheInv, Stored

LEMMA OdooChangesCache == CacheInv /\ OdooChanges => CacheInv'
<1> SUFFICES ASSUME CacheInv, OdooChanges PROVE CacheInv'
  OBVIOUS
<1>1. /\ now' \in Contents /\ now \in Contents /\ now' > now
      /\ UNCHANGED <<cache, rates, sync, copied, syncMet>>
  BY ContentsAreNumbers DEF OdooChanges, CacheInv, CacheTypes
<1>2. \A v \in Contents : v <= now => v <= now'
  BY <1>1, ContentsAreNumbers
<1>3. CacheTypes' /\ Meetings' /\ Stored'
  BY <1>1 DEF CacheInv, CacheTypes, Meetings, Stored
<1>4. Reads' /\ Copies'
  BY <1>1, <1>2 DEF CacheInv, Reads, Copies
<1> QED
  BY <1>3, <1>4 DEF CacheInv

(* What a reading finds is in the cache's tables, and an order it finds is *)
(* not cancelled.                                                          *)
LEMMA FoundIds ==
  ASSUME now \in Contents, NEW e \in Entities
  PROVE  /\ \/ e \in Tables /\ Found(e) \subseteq Ids[e]
            \/ e = "rates" /\ Found(e) = {}
         /\ e = "order" => \A o \in Found(e) : Accepted(o, now)
         /\ e = "lines" => \A l \in Found(e) : Listed(l, now)
         /\ Found(e) \subseteq PartnerIds \cup OrderIds \cup LineIds
<1>1. CASE e = "supplier"
  <2>1. Found(e) = {p.id : p \in UniquePartner(now)}
    BY <1>1 DEF Found
  <2>2. UniquePartner(now) \subseteq History[now].partners
    BY DEF UniquePartner
  <2>3. \A p \in History[now].partners : p.id \in PartnerIds
    BY DEF PartnerIds
  <2>4. Found(e) \subseteq PartnerIds
    BY <2>1, <2>2, <2>3
  <2> QED
    BY <1>1, <2>4, IdsOfTables DEF Tables
<1>2. CASE e = "order"
  <2>1. Found(e) = {o.id : o \in FindPurchaseOrder(now)}
    BY <1>2 DEF Found
  <2>2. \A o \in FindPurchaseOrder(now) : o \in History[now].orders /\ o.state \notin UnmatchableStates
    BY DEF FindPurchaseOrder
  <2> QED
    BY <1>2, <2>1, <2>2, IdsOfTables DEF OrderIds, Tables, Accepted
<1>3. CASE e = "lines"
  <2>1. Found(e) = {l.id : l \in {l \in History[now].lines : cache.order[l.order] # 0}}
    BY <1>3 DEF Found
  <2> QED
    BY <1>3, <2>1, IdsOfTables DEF LineIds, Tables, Listed
<1>4. CASE e = "rates"
  BY <1>4 DEF Found
<1> QED
  BY <1>1, <1>2, <1>3, <1>4 DEF Entities

LEMMA SyncReadCache ==
  ASSUME CacheInv, NEW c \in Calls, NEW e \in Entities, SyncRead(c, e) PROVE CacheInv'
<1> USE DEF CacheInv
<1>1. /\ sync[c].pc = "idle" /\ UNCHANGED <<now, cache, rates, copied>>
      /\ sync' = [sync EXCEPT ![c] = [pc |-> "read", entity |-> e, content |-> now, ids |-> Found(e)]]
      /\ syncMet' = syncMet \cup Meets(c)
  BY DEF SyncRead
<1>2. now \in Contents /\ now <= now
  BY ContentsAreNumbers DEF CacheTypes
<1>3. /\ \/ e \in Tables /\ Found(e) \subseteq Ids[e]
         \/ e = "rates" /\ Found(e) = {}
      /\ e = "order" => \A o \in Found(e) : Accepted(o, now)
      /\ e = "lines" => \A l \in Found(e) : Listed(l, now)
      /\ Found(e) \subseteq PartnerIds \cup OrderIds \cup LineIds
  BY <1>2, FoundIds
<1>4. /\ sync'[c] = [pc |-> "read", entity |-> e, content |-> now, ids |-> Found(e)]
      /\ \A d \in Calls \ {c} : sync'[d] = sync[d]
  BY <1>1 DEF CacheTypes
<1>5. CacheTypes'
  <2>1. [pc |-> "read", entity |-> e, content |-> now, ids |-> Found(e)]
          \in [pc : {"idle", "read", "done"}, entity : Entities \cup {"none"},
               content : Contents \cup {0}, ids : SUBSET (PartnerIds \cup OrderIds \cup LineIds)]
    BY <1>2, <1>3
  <2> QED
    BY <1>1, <2>1 DEF CacheTypes
<1>6. Reads'
  BY <1>1, <1>2, <1>3, <1>4 DEF Reads
<1>7. Copies'
  BY <1>1, <1>4 DEF Copies
<1>8. \A d \in Calls : sync[d].pc = "read" => {c, d} \in syncMet'
  BY <1>1 DEF Meets
<1>9. Meetings'
  <2>1. \A r \in copied : r.content <= now
    BY DEF Copies
  <2>2. \A a, b \in Calls : sync'[a].pc = "read" /\ sync'[b].pc = "read" /\ a # b => {a, b} \in syncMet'
    <3>1. \A a \in Calls : {a, c} = {c, a}
      OBVIOUS
    <3>2. ASSUME NEW a \in Calls, NEW b \in Calls, sync'[a].pc = "read", sync'[b].pc = "read", a # b
          PROVE  {a, b} \in syncMet'
      <4>1. CASE a = c
        BY <1>4, <1>8, <3>2, <4>1
      <4>2. CASE b = c
        BY <1>4, <1>8, <3>1, <3>2, <4>2
      <4>3. CASE a # c /\ b # c
        BY <1>1, <1>4, <3>2, <4>3 DEF Meetings
      <4> QED
        BY <4>1, <4>2, <4>3
    <3> QED
      BY <3>2
  <2>3. ASSUME NEW d \in Calls, sync'[d].pc = "read", NEW r \in copied'
        PROVE  r.content <= sync'[d].content \/ {r.by, d} \in syncMet'
    <3>1. CASE d = c
      BY <1>1, <1>4, <2>1, <2>3, <3>1
    <3>2. CASE d # c
      BY <1>1, <1>4, <2>3, <3>2 DEF Meetings
    <3> QED
      BY <3>1, <3>2
  <2> QED
    BY <2>2, <2>3 DEF Meetings
<1>10. Stored'
  BY <1>1 DEF Stored
<1> QED
  BY <1>5, <1>6, <1>7, <1>9, <1>10

(* A synchronisation that ends with nothing stored.                        *)
LEMMA SyncEndsCache ==
  ASSUME CacheInv, NEW c \in Calls, sync[c].pc # "done",
         sync' = [sync EXCEPT ![c].pc = "done"],
         UNCHANGED <<now, cache, rates, copied, syncMet>>
  PROVE  CacheInv'
<1> USE DEF CacheInv
<1>1. CacheTypes'
  BY DEF CacheTypes
<1>2. /\ \A d \in Calls : sync'[d].pc # "read" \/ sync'[d] = sync[d]
      /\ \A d \in Calls : sync[d].pc = "done" => sync'[d].pc = "done"
  BY DEF CacheTypes
<1>3. Reads' /\ Copies'
  BY <1>2 DEF Reads, Copies
<1>4. Meetings' /\ Stored'
  BY <1>2 DEF Meetings, Stored
<1> QED
  BY <1>1, <1>3, <1>4

LEMMA StoredRatesHaveBase ==
  ASSUME NEW old, NEW rows PROVE Base \in DOMAIN StoredRates(old, rows)
BY DEF StoredRates

(* The records of a table that a synchronisation stores are of the content *)
(* it read, every other record stays.                                      *)
LEMMA StoreEffect ==
  ASSUME CacheInv, NEW c \in Calls, SyncStore(c), sync[c].entity \in Tables
  PROVE  /\ UNCHANGED rates
         /\ cache' \in [supplier : [PartnerIds -> Contents \cup {0}],
                        order : [OrderIds -> Contents \cup {0}],
                        lines : [LineIds -> Contents \cup {0}]]
         /\ \A t \in Tables : \A i \in Ids[t] :
              cache'[t][i] = IF t = sync[c].entity /\ i \in sync[c].ids
                             THEN sync[c].content ELSE cache[t][i]
<1> USE DEF CacheInv
<1> DEFINE s == sync[c]
           New(t) == [i \in DOMAIN cache[t] |-> IF i \in s.ids THEN s.content ELSE cache[t][i]]
<1>1. UNCHANGED rates /\ cache' = [cache EXCEPT ![s.entity] = New(s.entity)]
  BY DEF SyncStore, Tables
<1>2. s.content \in Contents
  BY DEF SyncStore, Reads
<1>3. cache \in [supplier : [PartnerIds -> Contents \cup {0}],
                 order : [OrderIds -> Contents \cup {0}],
                 lines : [LineIds -> Contents \cup {0}]]
  BY DEF CacheTypes
<1>4. ASSUME NEW t \in Tables PROVE New(t) \in [Ids[t] -> Contents \cup {0}]
  BY <1>2, <1>3, IdsOfTables DEF Tables
<1>5. CASE s.entity = "supplier"
  BY <1>1, <1>3, <1>4, <1>5, IdsOfTables DEF Tables
<1>6. CASE s.entity = "order"
  BY <1>1, <1>3, <1>4, <1>6, IdsOfTables DEF Tables
<1>7. CASE s.entity = "lines"
  BY <1>1, <1>3, <1>4, <1>7, IdsOfTables DEF Tables
<1> QED
  BY <1>5, <1>6, <1>7 DEF Tables

LEMMA SyncStoreCache ==
  ASSUME CacheInv, NEW c \in Calls, SyncStore(c) PROVE CacheInv'
<1> USE DEF CacheInv
<1> DEFINE s == sync[c]
           New == {[by |-> c, entity |-> s.entity, id |-> i, content |-> s.content] : i \in s.ids}
<1>1. /\ s.pc = "read" /\ copied' = copied \cup New
      /\ sync' = [sync EXCEPT ![c].pc = "done"] /\ UNCHANGED <<now, syncMet>>
  BY DEF SyncStore
<1>2. /\ s.content \in Contents /\ s.content <= now
      /\ \/ s.entity \in Tables /\ s.ids \subseteq Ids[s.entity]
         \/ s.entity = "rates" /\ s.ids = {}
      /\ s.entity = "order" => \A o \in s.ids : Accepted(o, s.content)
      /\ s.entity = "lines" => \A l \in s.ids : Listed(l, s.content)
  BY <1>1 DEF Reads
<1>3. CASE s.entity = "rates" /\ s.ids = {}
  <2>1. /\ cache' = cache /\ copied' = copied
        /\ rates' = StoredRates(rates, History[s.content].rates)
    BY <1>1, <1>3 DEF SyncStore
  <2>2. CacheTypes'
    BY <1>1, <2>1, StoredRatesHaveBase DEF CacheTypes
  <2>3. /\ \A d \in Calls : sync'[d].pc # "read" \/ sync'[d] = sync[d]
        /\ \A d \in Calls : sync[d].pc = "done" => sync'[d].pc = "done"
    BY <1>1 DEF CacheTypes
  <2>4. Reads' /\ Copies'
    BY <1>1, <2>1, <2>3 DEF Reads, Copies
  <2>5. Meetings' /\ Stored'
    BY <1>1, <2>1, <2>3 DEF Meetings, Stored
  <2> QED
    BY <2>2, <2>4, <2>5
<1>4. CASE s.entity \in Tables /\ s.ids \subseteq Ids[s.entity]
  <2>1. /\ UNCHANGED rates
        /\ cache' \in [supplier : [PartnerIds -> Contents \cup {0}],
                       order : [OrderIds -> Contents \cup {0}],
                       lines : [LineIds -> Contents \cup {0}]]
        /\ \A t \in Tables : \A i \in Ids[t] :
             cache'[t][i] = IF t = s.entity /\ i \in s.ids THEN s.content ELSE cache[t][i]
    BY <1>4, StoreEffect
  <2>2. CacheTypes'
    BY <1>1, <2>1 DEF CacheTypes
  <2>3. /\ \A d \in Calls : sync'[d].pc = "read" => sync'[d] = sync[d] /\ d # c
        /\ \A d \in Calls : sync[d].pc = "done" => sync'[d].pc = "done"
        /\ sync'[c].pc = "done"
    BY <1>1 DEF CacheTypes
  <2>4. Reads'
    BY <1>1, <2>3 DEF Reads
  <2>5. \A r \in New : /\ r.by = c /\ r.entity = s.entity /\ r.id \in s.ids
                       /\ r.content = s.content
    OBVIOUS
  <2>6. Copies'
    <3>1. \A r \in New : /\ r.by \in Calls /\ sync'[r.by].pc = "done"
                         /\ r.entity \in Tables /\ r.id \in Ids[r.entity]
                         /\ r.content \in Contents /\ r.content <= now
      BY <1>2, <1>4, <2>3, <2>5
    <3>2. \A r \in copied : /\ r.by \in Calls /\ sync'[r.by].pc = "done"
                            /\ r.entity \in Tables /\ r.id \in Ids[r.entity]
                            /\ r.content \in Contents /\ r.content <= now
      BY <2>3 DEF Copies
    <3> QED
      BY <1>1, <3>1, <3>2 DEF Copies
  <2>7. Meetings'
    <3>1. \A d \in Calls : sync'[d].pc = "read" => {c, d} \in syncMet
      BY <1>1, <2>3 DEF Meetings
    <3>2. \A d \in Calls : sync'[d].pc = "read" => \A r \in New : {r.by, d} \in syncMet
      BY <2>5, <3>1
    <3>3. \A d \in Calls : sync'[d].pc = "read" =>
            \A r \in copied : r.content <= sync'[d].content \/ {r.by, d} \in syncMet
      BY <2>3 DEF Meetings
    <3> QED
      BY <1>1, <2>3, <3>2, <3>3 DEF Meetings
  <2>8. \A r \in copied' : (\E m \in syncMet' : r.by \in m) \/ cache'[r.entity][r.id] >= r.content
    <3>1. ASSUME NEW r \in New PROVE cache'[r.entity][r.id] >= r.content
      BY <1>2, <1>4, <2>1, <2>5, ContentsAreNumbers
    <3>2. ASSUME NEW r \in copied
          PROVE  (\E m \in syncMet : r.by \in m) \/ cache'[r.entity][r.id] >= r.content
      <4>1. r.entity \in Tables /\ r.id \in Ids[r.entity]
        BY DEF Copies
      <4>2. r.content <= s.content \/ {r.by, c} \in syncMet
        BY <1>1 DEF Meetings
      <4>3. (\E m \in syncMet : r.by \in m) \/ cache[r.entity][r.id] >= r.content
        BY DEF Stored
      <4> QED
        BY <1>2, <2>1, <4>1, <4>2, <4>3
    <3> QED
      BY <1>1, <3>1, <3>2
  <2>9. \A o \in OrderIds : cache'.order[o] # 0 => Accepted(o, cache'.order[o])
    <3>1. \A o \in OrderIds : cache'["order"][o] = IF "order" = s.entity /\ o \in s.ids
                                                  THEN s.content ELSE cache["order"][o]
      BY <2>1, IdsOfTables DEF Tables
    <3> QED
      BY <1>2, <3>1 DEF Stored
  <2>10. \A l \in LineIds : cache'.lines[l] # 0 => Listed(l, cache'.lines[l])
    <3>1. \A l \in LineIds : cache'["lines"][l] = IF "lines" = s.entity /\ l \in s.ids
                                                 THEN s.content ELSE cache["lines"][l]
      BY <2>1, IdsOfTables DEF Tables
    <3> QED
      BY <1>2, <3>1 DEF Stored
  <2> QED
    BY <2>2, <2>4, <2>6, <2>7, <2>8, <2>9, <2>10 DEF Stored
<1> QED
  BY <1>2, <1>3, <1>4

LEMMA NextCache == CacheInv /\ [Next]_vars => CacheInv'
<1> SUFFICES ASSUME CacheInv, [Next]_vars PROVE CacheInv'
  OBVIOUS
<1>1. ASSUME NEW c \in Calls, SyncStep(c) PROVE CacheInv'
  <2>1. ASSUME NEW e \in Entities, SyncRefused(c, e) PROVE CacheInv'
    BY <2>1, SyncEndsCache DEF SyncRefused
  <2>2. ASSUME SyncFails(c) PROVE CacheInv'
    BY <2>2, SyncEndsCache DEF SyncFails
  <2> QED
    BY <1>1, <2>1, <2>2, SyncReadCache, SyncStoreCache DEF SyncStep
<1>2. CASE UNCHANGED ovars
  <2> USE <1>2 DEF ovars
  <2>1. CacheTypes' /\ Reads' /\ Copies'
    BY DEF CacheInv, CacheTypes, Reads, Copies
  <2>2. Meetings' /\ Stored'
    BY DEF CacheInv, Meetings, Stored
  <2> QED
    BY <2>1, <2>2 DEF CacheInv
<1> QED
  BY <1>1, <1>2, OdooChangesCache DEF Next, vars

(* What the synchronisations have read, stored and met.                    *)
THEOREM CacheInvariant == Spec => []CacheInv
<1>1. Init => CacheInv
  BY InitCache DEF Init
<1> QED
  BY <1>1, NextCache, PTL DEF Spec

(* Whatever Odoo turns into while synchronisations run, a record stored by *)
(* one that met no other is never replaced by an older copy, and no        *)
(* cancelled order is ever cached.                                         *)
THEOREM CachesNeverGoBack == Spec => []CacheNeverGoesBack
<1>1. CacheInv => CacheNeverGoesBack
  <2> SUFFICES ASSUME CacheInv, NEW o \in CachedOrders(cache) PROVE o.state \notin UnmatchableStates
    BY DEF CacheInv, Stored, CacheNeverGoesBack
  <2>1. PICK id \in OrderIds : cache.order[id] # 0 /\ o = The(id, History[cache.order[id]].orders)
    BY DEF CachedOrders
  <2>2. PICK x \in History[cache.order[id]].orders : x.id = id /\ x.state \notin UnmatchableStates
    BY <2>1 DEF CacheInv, Stored, Accepted
  <2>3. o \in History[cache.order[id]].orders /\ o.id = id
    BY <2>1, <2>2 DEF The
  <2>4. cache.order[id] \in Contents
    BY <2>1 DEF CacheInv, CacheTypes
  <2>5. o = x
    BY <2>2, <2>3, <2>4, OdooAssumption
  <2> QED
    BY <2>2, <2>5
<1> QED
  BY <1>1, CacheInvariant, PTL

-----------------------------------------------------------------------------
(* The calls: their rows, their locks and the anomalies they may leave.    *)
Progress == {"idle", "reset", "compared", "flushed", "lock", "read", "half", "last",
             "done", "failed"}

(* What an open call has seen of the anomalies: those of the categories it *)
(* deletes are in its list, or were written by a call that overlaps it.    *)
Covers(c, rows, categories) ==
  \A b \in anomalies :
    b.gap[1] \in categories => AnomalyRow(b) \in rows \/ {b.by, c} \in met

CallOK(c) ==
  /\ pc[c] \in {"reset", "compared", "flushed"} =>
       /\ mem[c].op = "match"
       /\ \A x \in mem[c].delete : x[1] = "anomaly"
       /\ Covers(c, mem[c].delete, MatchingCategories)
  /\ pc[c] \in {"compared", "flushed"} =>
       \A g \in mem[c].result.gaps : g[1] \in MatchingCategories
  /\ pc[c] \in {"lock", "read", "half", "last"} => mem[c].op \in {"confirm", "resolve", "analyse"}
  /\ pc[c] \in {"half", "last"} /\ mem[c].op = "analyse" =>
       Covers(c, mem[c].rows.anomalies, {"OTHER"})
  /\ pc[c] \in {"idle", "reset", "done", "failed"} => held[c] = {}
  /\ pc[c] = "compared" => \A x \in held[c] : x[1] = "anomaly"
  /\ pc[c] = "flushed" => \A x \in held[c] : x[1] \in {"anomaly", "invoice"}

CallTypes == pc \in [Calls -> Progress] /\ DOMAIN mem = Calls /\ DOMAIN held = Calls

OpenMet == \A c, d \in Open : c # d => {c, d} \in met

(* Anomalies are those of calls that have committed.                       *)
IsAnomaly(b) == b = [by |-> b.by, gap |-> b.gap, resolved |-> b.resolved]

Fresh ==
  \A b \in anomalies :
    b.by \in Calls /\ pc[b.by] = "done" /\ b.resolved \in BOOLEAN /\ IsAnomaly(b)

CallInv ==
  /\ CallTypes /\ OpenMet /\ Fresh
  /\ \A c \in Calls : CallOK(c)
  /\ DuplicatesExplained

-----------------------------------------------------------------------------
(* A judgement finds gaps of the matching categories only.                 *)
LEMMA CompareGapCategories ==
  ASSUME NEW from, NEW fx, NEW read, NEW linked, NEW ls,
         NEW g \in Compare(from, fx, read, linked, ls).gaps
  PROVE  g[1] \in MatchingCategories
BY MatchGapCategories DEF Compare

-----------------------------------------------------------------------------
(* One step of one call, and what it leaves to the others.                 *)
LEMMA OthersOK ==
  ASSUME CallInv, NEW c \in Calls,
         \A d \in Calls \ {c} : pc'[d] = pc[d] /\ mem'[d] = mem[d] /\ held'[d] = held[d],
         met \subseteq met',
         \A b \in anomalies' : \/ b.by = c /\ c \in Open
                               \/ \E a \in anomalies : a.by = b.by /\ a.gap = b.gap
  PROVE  \A d \in Calls \ {c} : CallOK(d)'
<1> SUFFICES ASSUME NEW d \in Calls \ {c} PROVE CallOK(d)'
  OBVIOUS
<1>1. CallOK(d) /\ pc'[d] = pc[d] /\ mem'[d] = mem[d] /\ held'[d] = held[d]
  BY DEF CallInv
<1>2. ASSUME NEW rows, NEW categories, d \in Open, Covers(d, rows, categories)
      PROVE  Covers(d, rows, categories)'
  <2> SUFFICES ASSUME NEW b \in anomalies', b.gap[1] \in categories
               PROVE  AnomalyRow(b) \in rows \/ {b.by, d} \in met'
    BY DEF Covers, AnomalyRow
  <2>1. CASE b.by = c /\ c \in Open
    BY <1>2, <2>1 DEF CallInv, OpenMet
  <2>2. CASE \E a \in anomalies : a.by = b.by /\ a.gap = b.gap
    BY <1>2, <2>2 DEF Covers, AnomalyRow
  <2> QED
    BY <2>1, <2>2
<1>3. pc[d] \in {"reset", "compared", "flushed"} =>
        /\ mem'[d].op = "match"
        /\ \A x \in mem'[d].delete : x[1] = "anomaly"
        /\ Covers(d, mem[d].delete, MatchingCategories)'
  BY <1>1, <1>2 DEF CallOK, Open
<1>4. pc[d] \in {"half", "last"} /\ mem[d].op = "analyse" =>
        Covers(d, mem[d].rows.anomalies, {"OTHER"})'
  BY <1>1, <1>2 DEF CallOK, Open
<1> QED
  BY <1>1, <1>3, <1>4 DEF CallOK

LEMMA DuplicatesKept ==
  ASSUME DuplicatesExplained, met \subseteq met',
         \A b \in anomalies' : \E a \in anomalies : a.by = b.by /\ a.gap = b.gap
  PROVE  DuplicatesExplained'
BY DEF DuplicatesExplained

LEMMA CallStep ==
  ASSUME CallInv, NEW c \in Calls, pc[c] \notin {"done", "failed"},
         NEW next \in Progress \ {"idle"}, pc' = [pc EXCEPT ![c] = next],
         DOMAIN mem' = Calls, DOMAIN held' = Calls,
         \A d \in Calls \ {c} : mem'[d] = mem[d] /\ held'[d] = held[d],
         IF pc[c] = "idle" THEN met' = met \cup {{c, d} : d \in Open} ELSE met' = met,
         \A b \in anomalies' : \/ b.by = c /\ c \in Open /\ next = "done"
                               \/ \E a \in anomalies : a.by = b.by /\ a.gap = b.gap,
         \A b \in anomalies' : IsAnomaly(b) /\ b.resolved \in BOOLEAN,
         CallOK(c)', DuplicatesExplained'
  PROVE  CallInv'
<1> USE DEF CallInv
<1>1. pc'[c] = next /\ \A d \in Calls \ {c} : pc'[d] = pc[d]
  BY DEF CallTypes
<1>2. CallTypes'
  BY DEF CallTypes
<1>3. met \subseteq met' /\ (pc[c] = "idle" => \A d \in Open : {c, d} \in met' /\ {d, c} \in met')
  <2>1. \A d : {c, d} = {d, c}
    OBVIOUS
  <2> QED
    BY <2>1
<1>4. OpenMet'
  <2>1. \A d \in Calls \ {c} : d \in Open' <=> d \in Open
    BY <1>1 DEF Open
  <2>2. c \in Open \/ pc[c] = "idle"
    BY DEF Open
  <2> SUFFICES ASSUME NEW a \in Open', NEW b \in Open', a # b PROVE {a, b} \in met'
    BY DEF OpenMet
  <2>3. a \in Calls /\ b \in Calls
    BY DEF Open
  <2>4. CASE a # c /\ b # c
    BY <1>3, <2>1, <2>3, <2>4 DEF OpenMet
  <2>5. CASE a = c
    BY <1>3, <2>1, <2>2, <2>3, <2>5 DEF OpenMet
  <2>6. CASE b = c
    BY <1>3, <2>1, <2>2, <2>3, <2>6 DEF OpenMet
  <2> QED
    BY <2>4, <2>5, <2>6
<1>5. Fresh'
  <2>1. \A b \in anomalies : b.by \in Calls /\ pc'[b.by] = "done"
    BY <1>1 DEF Fresh
  <2> QED
    BY <1>1, <2>1 DEF Fresh
<1>6. \A d \in Calls \ {c} : CallOK(d)'
  BY <1>1, <1>3, OthersOK
<1> QED
  BY <1>2, <1>4, <1>5, <1>6

LEMMA QuietStep ==
  ASSUME CallInv, NEW c \in Calls, pc[c] \notin {"done", "failed"},
         NEW next \in Progress \ {"idle"}, pc' = [pc EXCEPT ![c] = next],
         DOMAIN mem' = Calls, DOMAIN held' = Calls,
         \A d \in Calls \ {c} : mem'[d] = mem[d] /\ held'[d] = held[d],
         IF pc[c] = "idle" THEN met' = met \cup {{c, d} : d \in Open} ELSE met' = met,
         UNCHANGED anomalies, CallOK(c)'
  PROVE  CallInv'
<1>1. met \subseteq met'
  OBVIOUS
<1>2. DuplicatesExplained'
  BY <1>1, DuplicatesKept DEF CallInv
<1>3. \A b \in anomalies' : IsAnomaly(b) /\ b.resolved \in BOOLEAN
  BY DEF CallInv, Fresh
<1> QED
  BY <1>2, <1>3, CallStep

(* A step of two functions of the calls at one call.                       *)
LEMMA Begins ==
  ASSUME CallInv, NEW c \in Calls, NEW state \in {"reset", "lock", "half"}, NEW memory,
         Begin(c, state, memory),
         state = "reset" => /\ memory.op = "match"
                            /\ \A x \in memory.delete : x[1] = "anomaly"
                            /\ Covers(c, memory.delete, MatchingCategories),
         state \in {"lock", "half"} => memory.op \in {"confirm", "resolve", "analyse"},
         memory.op = "analyse" => state = "lock"
  PROVE  CallInv'
<1> USE DEF CallInv
<1>1. /\ pc[c] = "idle" /\ pc' = [pc EXCEPT ![c] = state] /\ mem' = [mem EXCEPT ![c] = memory]
      /\ met' = met \cup {{c, d} : d \in Open} /\ UNCHANGED <<anomalies, held>>
  BY DEF Begin
<1>2. /\ DOMAIN mem' = Calls /\ DOMAIN held' = Calls /\ mem'[c] = memory /\ pc'[c] = state
      /\ \A d \in Calls \ {c} : mem'[d] = mem[d] /\ held'[d] = held[d]
  BY <1>1 DEF CallTypes
<1>3. held'[c] = {}
  BY <1>1 DEF CallOK
<1>4. state = "reset" => Covers(c, memory.delete, MatchingCategories)'
  BY <1>1 DEF Covers, AnomalyRow
<1>5. CallOK(c)'
  BY <1>2, <1>3, <1>4 DEF CallOK
<1>6. state \in Progress \ {"idle"}
  BY DEF Progress
<1> QED
  BY <1>1, <1>2, <1>5, <1>6, QuietStep

LEMMA Rollbacks ==
  ASSUME CallInv, NEW c \in Open, Rollback(c) PROVE CallInv'
<1> USE DEF CallInv
<1>1. /\ c \in Calls /\ pc[c] \notin {"idle", "done", "failed"}
      /\ pc' = [pc EXCEPT ![c] = "failed"] /\ mem' = [mem EXCEPT ![c] = NoPass]
      /\ held' = [held EXCEPT ![c] = {}] /\ UNCHANGED <<met, anomalies>>
  BY DEF Open, Rollback, End
<1>2. /\ DOMAIN mem' = Calls /\ DOMAIN held' = Calls /\ pc'[c] = "failed" /\ held'[c] = {}
      /\ \A d \in Calls \ {c} : mem'[d] = mem[d] /\ held'[d] = held[d]
  BY <1>1 DEF CallTypes
<1>3. CallOK(c)'
  BY <1>2 DEF CallOK
<1>4. "failed" \in Progress \ {"idle"}
  BY DEF Progress
<1> QED
  BY <1>1, <1>2, <1>3, <1>4, QuietStep

LEMMA MatchOpens ==
  ASSUME CallInv, NEW c \in Calls, MatchOpen(c) PROVE CallInv'
<1> DEFINE memory == [op |-> "match", reading |-> reading, row |-> row, delete |-> AnomalyRows(Reset)]
<1>1. Begin(c, "reset", memory)
  BY DEF MatchOpen
<1>2. \A x \in memory.delete : x[1] = "anomaly"
  BY DEF AnomalyRows, AnomalyRow
<1>3. Covers(c, memory.delete, MatchingCategories)
  BY DEF Covers, AnomalyRows, Reset
<1>4. memory.op = "match"
  OBVIOUS
<1> HIDE DEF memory
<1> QED
  BY <1>1, <1>2, <1>3, <1>4, Begins

LEMMA OtherOpens ==
  ASSUME CallInv, NEW c \in Calls,
         \/ \E p \in Payloads, first \in {"lines", "anomalies"} : ConfirmOpen(c, p, first)
         \/ \E a \in anomalies : ResolveOpen(c, a)
         \/ AnalyseOpen(c)
  PROVE  CallInv'
<1>1. ASSUME NEW state \in {"lock", "half"}, NEW memory, Begin(c, state, memory),
             memory.op \in {"confirm", "resolve", "analyse"}, memory.op = "analyse" => state = "lock"
      PROVE  CallInv'
  BY <1>1, Begins
<1>2. ASSUME NEW p \in Payloads, NEW first \in {"lines", "anomalies"}, ConfirmOpen(c, p, first)
      PROVE  CallInv'
  <2>1. PICK m : Begin(c, "half", m) /\ m.op = "confirm"
    BY <1>2 DEF ConfirmOpen
  <2> QED
    BY <1>1, <2>1
<1>3. ASSUME NEW a \in anomalies, ResolveOpen(c, a) PROVE CallInv'
  <2>1. PICK m : Begin(c, "half", m) /\ m.op = "resolve"
    BY <1>3 DEF ResolveOpen
  <2> QED
    BY <1>1, <2>1
<1>4. ASSUME AnalyseOpen(c) PROVE CallInv'
  <2>1. PICK m : Begin(c, "lock", m) /\ m.op = "analyse"
    BY <1>4 DEF AnalyseOpen
  <2> QED
    BY <1>1, <2>1
<1> QED
  BY <1>2, <1>3, <1>4

(* The rows a match writes, by their kind.                                 *)
LEMMA PassNeeds ==
  ASSUME NEW c \in Calls, CallOK(c)
  PROVE  /\ pc[c] = "reset" => \A x \in Needs(c) : x[1] = "anomaly"
         /\ pc[c] = "compared" => \A x \in Needs(c) : x[1] = "invoice"
         /\ pc[c] = "flushed" => \A x \in Needs(c) : x[1] = "line"
<1>1. CASE pc[c] = "reset"
  BY <1>1 DEF CallOK, Needs
<1>2. CASE pc[c] = "compared"
  BY <1>2 DEF Needs, InvoiceDirty, InvoiceRow
<1>3. CASE pc[c] = "flushed"
  BY <1>3 DEF Needs, LineRow
<1> QED
  BY <1>1, <1>2, <1>3

LEMMA Flushes ==
  ASSUME CallInv, NEW c \in Calls, NEW next, Flush(c, next)
  PROVE  /\ pc' = [pc EXCEPT ![c] = next] /\ pc'[c] = next
         /\ DOMAIN held' = Calls /\ \A d \in Calls \ {c} : held'[d] = held[d]
         /\ held'[c] \subseteq held[c] \cup Needs(c)
         /\ UNCHANGED <<reading, lines, row, anomalies, audit, analysable, met, last>>
BY DEF Flush, CallInv, CallTypes

LEMMA MatchResets ==
  ASSUME CallInv, NEW c \in Calls, MatchReset(c) PROVE CallInv'
<1> USE DEF CallInv
<1> DEFINE result == Compare(cache, rates, mem[c].reading, mem[c].row.order, lines)
<1>1. /\ pc[c] = "reset" /\ Flush(c, "compared")
      /\ mem' = [mem EXCEPT ![c] = [op |-> "match", was |-> mem[c].row, delete |-> mem[c].delete,
                                    lines |-> lines, seen |-> <<cache, rates>>, result |-> result]]
  BY DEF MatchReset
<1>2. \A g \in result.gaps : g[1] \in MatchingCategories
  BY CompareGapCategories
<1> HIDE DEF result
<1>3. /\ DOMAIN mem' = Calls /\ \A d \in Calls \ {c} : mem'[d] = mem[d]
      /\ mem'[c].op = "match" /\ mem'[c].delete = mem[c].delete /\ mem'[c].result = result
  BY <1>1 DEF CallTypes
<1>4. /\ pc' = [pc EXCEPT ![c] = "compared"] /\ pc'[c] = "compared"
      /\ DOMAIN held' = Calls /\ \A d \in Calls \ {c} : held'[d] = held[d]
      /\ held'[c] \subseteq held[c] \cup Needs(c) /\ UNCHANGED <<anomalies, met>>
  BY <1>1, Flushes
<1>5. CallOK(c)'
  <2>1. held[c] = {} /\ \A x \in Needs(c) : x[1] = "anomaly"
    BY <1>1, PassNeeds DEF CallOK
  <2>2. Covers(c, mem[c].delete, MatchingCategories)'
    BY <1>1, <1>3, <1>4 DEF CallOK, Covers, AnomalyRow
  <2> QED
    BY <1>1, <1>2, <1>3, <1>4, <2>1, <2>2 DEF CallOK
<1>6. "compared" \in Progress \ {"idle"}
  BY DEF Progress
<1> QED
  BY <1>1, <1>3, <1>4, <1>5, <1>6, QuietStep

LEMMA MatchInvoices ==
  ASSUME CallInv, NEW c \in Calls, MatchInvoice(c) PROVE CallInv'
<1> USE DEF CallInv
<1>1. pc[c] = "compared" /\ Flush(c, "flushed") /\ mem' = mem
  BY DEF MatchInvoice
<1>2. /\ pc' = [pc EXCEPT ![c] = "flushed"] /\ pc'[c] = "flushed"
      /\ DOMAIN held' = Calls /\ \A d \in Calls \ {c} : held'[d] = held[d]
      /\ held'[c] \subseteq held[c] \cup Needs(c) /\ UNCHANGED <<anomalies, met>>
  BY <1>1, Flushes
<1>3. CallOK(c)'
  <2>1. (\A x \in held[c] : x[1] = "anomaly") /\ \A x \in Needs(c) : x[1] = "invoice"
    BY <1>1, PassNeeds DEF CallOK
  <2>2. Covers(c, mem[c].delete, MatchingCategories)'
    BY <1>1, <1>2 DEF CallOK, Covers, AnomalyRow
  <2> QED
    BY <1>1, <1>2, <2>1, <2>2 DEF CallOK
<1>4. "flushed" \in Progress \ {"idle"}
  BY DEF Progress
<1> QED
  BY <1>1, <1>2, <1>3, <1>4, QuietStep DEF CallTypes

(* The writers of halves and the analysis before its commit.               *)
LEMMA OtherFlushes ==
  ASSUME CallInv, NEW c \in Calls, Half(c) \/ AnalyseLock(c) PROVE CallInv'
<1> USE DEF CallInv
<1>1. CASE Rollback(c)
  <2>1. c \in Open
    BY DEF Half, AnalyseLock, Open
  <2> QED
    BY <1>1, <2>1, Rollbacks
<1>2. CASE ~Rollback(c)
  <2>1. PICK next \in {"last", "read"} :
          /\ Flush(c, next) /\ mem' = mem
          /\ \/ pc[c] = "half" /\ next = "last"
             \/ pc[c] = "lock" /\ next = "read"
    BY <1>2 DEF Half, AnalyseLock
  <2>2. /\ pc' = [pc EXCEPT ![c] = next] /\ pc'[c] = next
        /\ DOMAIN held' = Calls /\ \A d \in Calls \ {c} : held'[d] = held[d]
        /\ UNCHANGED <<anomalies, met>>
    BY <2>1, Flushes
  <2>3. CallOK(c)'
    <3>1. mem'[c].op \in {"confirm", "resolve", "analyse"}
      BY <2>1 DEF CallOK
    <3>2. next = "last" /\ mem'[c].op = "analyse" => Covers(c, mem[c].rows.anomalies, {"OTHER"})'
      BY <2>1, <2>2 DEF CallOK, Covers, AnomalyRow
    <3> QED
      BY <2>1, <2>2, <3>1, <3>2 DEF CallOK
  <2>4. next \in Progress \ {"idle"}
    BY DEF Progress
  <2> QED
    BY <2>1, <2>2, <2>3, <2>4, QuietStep DEF CallTypes
<1> QED
  BY <1>1, <1>2

LEMMA AnalyseReads ==
  ASSUME CallInv, NEW c \in Calls, NEW r, NEW first, AnalyseRead(c, r, first) PROVE CallInv'
<1> USE DEF CallInv
<1>1. /\ pc[c] = "read" /\ pc' = [pc EXCEPT ![c] = "half"] /\ UNCHANGED <<anomalies, held, met>>
      /\ mem' = [mem EXCEPT ![c] = [op |-> "analyse", reading |-> r, first |-> first,
                     rows |-> [lines |-> LineRows, anomalies |-> AnomalyRows(anomalies)]]]
  BY DEF AnalyseRead
<1>2. /\ DOMAIN mem' = Calls /\ \A d \in Calls \ {c} : mem'[d] = mem[d]
      /\ mem'[c].op = "analyse" /\ mem'[c].rows.anomalies = AnomalyRows(anomalies)
      /\ pc'[c] = "half"
  BY <1>1 DEF CallTypes
<1>3. Covers(c, mem[c].rows.anomalies, {"OTHER"})'
  BY <1>1, <1>2 DEF Covers, AnomalyRows, AnomalyRow
<1>4. CallOK(c)'
  BY <1>2, <1>3 DEF CallOK
<1>5. "half" \in Progress \ {"idle"}
  BY DEF Progress
<1> QED
  BY <1>1, <1>2, <1>4, <1>5, QuietStep DEF CallTypes

LEMMA Ends ==
  ASSUME CallInv, NEW c \in Open, End(c, "done")
  PROVE  /\ c \in Calls /\ pc[c] \notin {"idle", "done", "failed"}
         /\ pc' = [pc EXCEPT ![c] = "done"] /\ "done" \in Progress \ {"idle"}
         /\ DOMAIN mem' = Calls /\ DOMAIN held' = Calls
         /\ \A d \in Calls \ {c} : mem'[d] = mem[d] /\ held'[d] = held[d]
         /\ met' = met
         /\ CallOK(c)'
<1>1. /\ c \in Calls /\ pc[c] \notin {"idle", "done", "failed"}
      /\ pc' = [pc EXCEPT ![c] = "done"] /\ mem' = [mem EXCEPT ![c] = NoPass]
      /\ held' = [held EXCEPT ![c] = {}] /\ met' = met
  BY DEF Open, End
<1>2. /\ DOMAIN mem' = Calls /\ DOMAIN held' = Calls /\ pc'[c] = "done" /\ held'[c] = {}
      /\ \A d \in Calls \ {c} : mem'[d] = mem[d] /\ held'[d] = held[d]
  BY <1>1 DEF CallInv, CallTypes
<1>3. CallOK(c)'
  BY <1>2 DEF CallOK
<1>4. "done" \in Progress \ {"idle"}
  BY DEF Progress
<1> QED
  BY <1>1, <1>2, <1>3, <1>4

(* A commit that deletes the rows it has seen and inserts gaps of the      *)
(* categories it covers.                                                   *)
LEMMA Replaces ==
  ASSUME CallInv, NEW c \in Open, End(c, "done"), NEW rows, NEW categories, NEW gaps,
         Covers(c, rows, categories), \A g \in gaps : g[1] \in categories,
         anomalies' = {a \in anomalies : AnomalyRow(a) \notin rows}
                      \cup {[by |-> c, gap |-> g, resolved |-> FALSE] : g \in gaps}
  PROVE  CallInv'
<1> USE DEF CallInv
<1> DEFINE New == {[by |-> c, gap |-> g, resolved |-> FALSE] : g \in gaps}
<1>1. ASSUME NEW b \in New
      PROVE  b.by = c /\ b.gap \in gaps /\ IsAnomaly(b) /\ b.resolved \in BOOLEAN
  <2>1. PICK g \in gaps : b = [by |-> c, gap |-> g, resolved |-> FALSE]
    OBVIOUS
  <2>2. b.by = c /\ b.gap = g /\ b.resolved = FALSE
    BY <2>1
  <2> QED
    BY <2>1, <2>2 DEF IsAnomaly
<1>2. \A b \in anomalies' : b \in New \/ (b \in anomalies /\ AnomalyRow(b) \notin rows)
  OBVIOUS
<1> HIDE DEF New
<1>3. \A b \in anomalies' : b.by = c \/ \E a \in anomalies : a.by = b.by /\ a.gap = b.gap
  BY <1>1, <1>2
<1>4. \A b \in anomalies' : IsAnomaly(b) /\ b.resolved \in BOOLEAN
  BY <1>1, <1>2 DEF Fresh
<1>5. met' = met
  BY Ends
<1>6. ASSUME NEW a \in New, NEW b \in anomalies, AnomalyRow(b) \notin rows, a.gap = b.gap
      PROVE  {b.by, c} \in met
  BY <1>1, <1>6 DEF Covers
<1>7. DuplicatesExplained'
  <2> SUFFICES ASSUME NEW a \in anomalies', NEW b \in anomalies', a.gap = b.gap
               PROVE  a.by = b.by \/ {a.by, b.by} \in met
    BY <1>5 DEF DuplicatesExplained
  <2>1. CASE a \in New /\ b \in New
    BY <1>1, <2>1
  <2>2. CASE a \in anomalies /\ b \in anomalies
    BY <2>2 DEF DuplicatesExplained
  <2>3. CASE a \in New /\ b \in anomalies /\ AnomalyRow(b) \notin rows
    <3>1. {b.by, c} \in met /\ a.by = c /\ {b.by, c} = {a.by, b.by}
      BY <1>1, <1>6, <2>3
    <3> QED
      BY <3>1
  <2>4. CASE b \in New /\ a \in anomalies /\ AnomalyRow(a) \notin rows
    <3>1. {a.by, c} \in met /\ b.by = c
      BY <1>1, <1>6, <2>4
    <3> QED
      BY <3>1
  <2> QED
    BY <1>2, <2>1, <2>2, <2>3, <2>4
<1> QED
  BY <1>3, <1>4, <1>5, <1>7, Ends, CallStep

LEMMA MatchCommits ==
  ASSUME CallInv, NEW c \in Calls, MatchCommit(c) PROVE CallInv'
<1>1. pc[c] = "flushed" /\ c \in Open
  BY DEF MatchCommit, Open
<1>2. CASE Rollback(c)
  BY <1>1, <1>2, Rollbacks
<1>3. CASE ~Rollback(c)
  <2>1. /\ End(c, "done")
        /\ anomalies' = {a \in anomalies : AnomalyRow(a) \notin mem[c].delete}
                        \cup {[by |-> c, gap |-> g, resolved |-> FALSE] : g \in mem[c].result.gaps}
    BY <1>3 DEF MatchCommit
  <2>2. /\ Covers(c, mem[c].delete, MatchingCategories)
        /\ \A g \in mem[c].result.gaps : g[1] \in MatchingCategories
    BY <1>1 DEF CallInv, CallOK
  <2> QED
    BY <1>1, <2>1, <2>2, Replaces
<1> QED
  BY <1>2, <1>3

LEMMA AnalyseCommits ==
  ASSUME CallInv, NEW c \in Calls, AnalyseCommit(c) PROVE CallInv'
<1> DEFINE gaps == Gap(~mem[c].reading.doubtful, "OTHER", "document", 0)
<1>1. /\ pc[c] = "last" /\ mem[c].op = "analyse" /\ c \in Open /\ End(c, "done")
      /\ anomalies' = {a \in anomalies : AnomalyRow(a) \notin mem[c].rows.anomalies}
                      \cup {[by |-> c, gap |-> g, resolved |-> FALSE] : g \in gaps}
  BY DEF AnalyseCommit, Open
<1>2. \A g \in gaps : g[1] \in {"OTHER"}
  BY DEF Gap
<1>3. Covers(c, mem[c].rows.anomalies, {"OTHER"})
  BY <1>1 DEF CallInv, CallOK
<1> HIDE DEF gaps
<1> QED
  BY <1>1, <1>2, <1>3, Replaces

(* What a resolution makes of the anomalies.                               *)
LEMMA Resolved ==
  ASSUME Fresh, NEW rows, NEW b \in Resolve(rows)
  PROVE  \E a \in anomalies :
           /\ b.by = a.by /\ b.gap = a.gap /\ IsAnomaly(b)
           /\ b.resolved = (a.resolved \/ AnomalyRow(a) \in rows)
<1>1. PICK a \in anomalies : b = IF AnomalyRow(a) \in rows THEN [a EXCEPT !.resolved = TRUE] ELSE a
  BY DEF Resolve
<1>2. a = [by |-> a.by, gap |-> a.gap, resolved |-> a.resolved] /\ a.resolved \in BOOLEAN
  BY DEF Fresh, IsAnomaly
<1>3. CASE AnomalyRow(a) \in rows
  <2>1. b = [by |-> a.by, gap |-> a.gap, resolved |-> TRUE]
    BY <1>1, <1>2, <1>3
  <2> QED
    BY <1>3, <2>1 DEF IsAnomaly
<1>4. CASE AnomalyRow(a) \notin rows
  BY <1>1, <1>2, <1>4 DEF IsAnomaly
<1> QED
  BY <1>3, <1>4

LEMMA ResolvedRows ==
  ASSUME Fresh, NEW rows, anomalies' = Resolve(rows)
  PROVE  \A b \in anomalies' : \E a \in anomalies :
           /\ a.by = b.by /\ a.gap = b.gap /\ AnomalyRow(b) = AnomalyRow(a)
           /\ IsAnomaly(b) /\ b.resolved \in BOOLEAN
           /\ (a.resolved => b.resolved) /\ (AnomalyRow(a) \in rows => b.resolved)
<1> TAKE b \in anomalies'
<1>1. PICK a \in anomalies : /\ b.by = a.by /\ b.gap = a.gap /\ IsAnomaly(b)
                             /\ b.resolved = (a.resolved \/ AnomalyRow(a) \in rows)
  BY Resolved
<1>2. a.resolved \in BOOLEAN
  BY DEF Fresh
<1>3. AnomalyRow(b) = AnomalyRow(a)
  BY <1>1 DEF AnomalyRow
<1> QED
  BY <1>1, <1>2, <1>3

LEMMA ConfirmCommits ==
  ASSUME CallInv, NEW c \in Calls, ConfirmCommit(c) PROVE CallInv'
<1> USE DEF CallInv
<1>1. pc[c] = "last" /\ c \in Open
  BY DEF ConfirmCommit, Open
<1>2. CASE Rollback(c)
  BY <1>1, <1>2, Rollbacks
<1>3. CASE ~Rollback(c)
  <2>1. End(c, "done") /\ anomalies' = Resolve(mem[c].rows.anomalies)
    BY <1>3 DEF ConfirmCommit
  <2>2. \A b \in anomalies' :
          /\ \E a \in anomalies : a.by = b.by /\ a.gap = b.gap
          /\ IsAnomaly(b) /\ b.resolved \in BOOLEAN
    BY <2>1, ResolvedRows
  <2>3. met' = met
    BY <1>1, <2>1, Ends
  <2>4. DuplicatesExplained'
    BY <2>2, <2>3, DuplicatesKept
  <2> QED
    BY <1>1, <2>1, <2>2, <2>3, <2>4, Ends, CallStep
<1> QED
  BY <1>2, <1>3

LEMMA InitCalls == Init => CallInv
<1> SUFFICES ASSUME Init PROVE CallInv
  OBVIOUS
<1>1. /\ pc = [c \in Calls |-> "idle"] /\ mem = [c \in Calls |-> NoPass]
      /\ held = [c \in Calls |-> {}] /\ anomalies = {}
  BY DEF Init
<1>2. Open = {} /\ CallTypes
  BY <1>1 DEF Open, CallTypes, Progress
<1>3. \A c \in Calls : CallOK(c)
  BY <1>1 DEF CallOK
<1> QED
  BY <1>1, <1>2, <1>3 DEF CallInv, OpenMet, Fresh, DuplicatesExplained

LEMMA NextCalls == CallInv /\ [Next]_vars => CallInv'
<1> SUFFICES ASSUME CallInv, [Next]_vars PROVE CallInv'
  OBVIOUS
<1>1. ASSUME NEW c \in Calls, CallLost(c) \/ DeadlockVictim(c) PROVE CallInv'
  <2>1. c \in Open /\ Rollback(c)
    BY <1>1 DEF CallLost, DeadlockVictim
  <2> QED
    BY <2>1, Rollbacks
<1>2. ASSUME NEW c \in Calls, MatchStep(c) PROVE CallInv'
  BY <1>2, MatchOpens, MatchResets, MatchInvoices, MatchCommits DEF MatchStep
<1>3. ASSUME NEW c \in Calls, ConfirmStep(c) PROVE CallInv'
  BY <1>3, OtherOpens, OtherFlushes, ConfirmCommits DEF ConfirmStep
<1>4. ASSUME NEW c \in Calls, AnalyseStep(c) PROVE CallInv'
  BY <1>4, OtherOpens, OtherFlushes, AnalyseReads, AnalyseCommits DEF AnalyseStep
<1>5. CASE UNCHANGED mvars
  <2>1. UNCHANGED <<pc, mem, held, met, anomalies>>
    BY <1>5 DEF mvars
  <2>2. CallTypes' /\ OpenMet' /\ Fresh' /\ DuplicatesExplained'
    BY <2>1 DEF CallInv, CallTypes, OpenMet, Open, Fresh, IsAnomaly, DuplicatesExplained
  <2>3. \A c \in Calls : CallOK(c)'
    BY <2>1 DEF CallInv, CallOK, Covers, AnomalyRow
  <2> QED
    BY <2>2, <2>3 DEF CallInv
<1> QED
  BY <1>1, <1>2, <1>3, <1>4, <1>5 DEF Next, vars

(* What the open calls hold, have seen and have met.                       *)
THEOREM CallInvariant == Spec => []CallInv
<1> QED
  BY InitCalls, NextCalls, PTL DEF Spec

(* The same gap is only ever shown twice by calls that overlapped.         *)
THEOREM DuplicatesAreExplained == Spec => []DuplicatesExplained
<1>1. CallInv => DuplicatesExplained
  BY DEF CallInv
<1> QED
  BY <1>1, CallInvariant, PTL

(* Any number of matches at once, however they interleave, never wait for  *)
(* each other in a circle.                                                 *)
THEOREM PassesDoNotDeadlock == Spec => []PassesNeverDeadlock
<1>1. CallInv => PassesNeverDeadlock
  <2> SUFFICES ASSUME CallInv, NEW S \in SUBSET Open, Deadlocked(S),
                      \A c \in S : mem[c].op = "match"
               PROVE  FALSE
    BY DEF PassesNeverDeadlock
  <2>1. \A c \in S : c \in Calls /\ CallOK(c) /\ pc[c] \in {"reset", "compared", "flushed"}
    <3>1. \A c \in S : c \in Calls /\ CallOK(c) /\ pc[c] \in Progress \ {"idle", "done", "failed"}
      BY DEF Open, CallInv, CallTypes
    <3>2. \A c \in S : pc[c] \notin {"lock", "read", "half", "last"}
      BY <3>1 DEF CallOK
    <3> QED
      BY <3>1, <3>2 DEF Progress
  <2>2. \A c \in S : \E d \in S : \E x \in held[d] : x \in Needs(c)
    BY DEF Deadlocked, WaitsFor
  <2>3. \A c \in S : pc[c] # "flushed"
    BY <2>1, <2>2, PassNeeds DEF CallOK
  <2>4. \A c \in S : pc[c] # "compared"
    BY <2>1, <2>2, <2>3, PassNeeds DEF CallOK
  <2>5. \A c \in S : held[c] = {}
    BY <2>1, <2>3, <2>4 DEF CallOK
  <2> QED
    BY <2>2, <2>5 DEF Deadlocked
<1> QED
  BY <1>1, CallInvariant, PTL

-----------------------------------------------------------------------------
(* The confirmations: what a buyer's edit holds until it commits.          *)
LineFields == {"by", "number", "link", "ref", "name", "quantity", "price"}

(* The row was written before the start, or by a call that has committed.  *)
Settled(x) == x[2] = Origin \/ (x[2] \in Calls /\ pc[x[2]] = "done")

Lined ==
  \A n \in DOMAIN lines :
    DOMAIN lines[n] = LineFields /\ lines[n].number = n /\ Settled(LineRow(lines[n]))

Editing(c) == pc[c] \in {"half", "last"} /\ mem[c].op # "analyse"

(* A confirmation that has committed met the call.                         *)
Overlapped(c) == \E j \in DOMAIN audit : {c, audit[j].by} \in met

(* The values the buyer gave and found in place are in place.              *)
Agrees(c) ==
  \A s \in mem[c].sets, n \in DOMAIN lines : LineRow(lines[n]) = s.line =>
    \A f \in s.given \ s.dirty : lines[n][f] = s.values[f]

EditOK(c) ==
  /\ \A s \in mem[c].sets : Settled(s.line) /\ s.dirty \subseteq s.given /\ s.given \subseteq Confirmed
  /\ \A s, t \in mem[c].sets : s.line = t.line => s = t
  /\ \A x \in mem[c].rows.anomalies : Settled(x)
  /\ mem[c].op = "resolve" => mem[c].sets = {}
  /\ Overlapped(c) \/ Agrees(c)

Entries ==
  /\ \E S : audit \in Seq(S)
  /\ \A k \in DOMAIN audit : /\ \A s \in audit[k].sets : Settled(s.line)
                             /\ \A x \in audit[k].resolved : Settled(x)

Later(k, l, f) ==
  \E j \in k + 1 .. Len(audit) : \E s \in audit[j].sets : s.line = l /\ f \in s.given

ValuesKept(k) ==
  \A s \in audit[k].sets, n \in DOMAIN lines, f \in Confirmed :
    LineRow(lines[n]) = s.line /\ f \in s.given
      => lines[n][f] = s.values[f] \/ Later(k, s.line, f)

ResolvedKept(k) == \A a \in anomalies : AnomalyRow(a) \in audit[k].resolved => a.resolved

KeepInv ==
  /\ Lined /\ Entries
  /\ \A c \in Calls : Editing(c) => EditOK(c)
  /\ \A k \in DOMAIN audit : Overlapped(audit[k].by) \/ (ValuesKept(k) /\ ResolvedKept(k))

(* A step that leaves the audit alone: what it writes is new, or keeps the *)
(* columns a buyer may confirm and what is resolved.                       *)
LEMMA KeepStep ==
  ASSUME KeepInv, NEW c \in Calls, pc[c] # "done",
         \A d \in Calls : pc[d] = "done" => pc'[d] = "done",
         UNCHANGED audit, met \subseteq met', Lined',
         \A n \in DOMAIN lines' :
           \/ lines'[n].by = c
           \/ /\ n \in DOMAIN lines /\ LineRow(lines[n])' = LineRow(lines[n])
              /\ \A f \in Confirmed : lines'[n][f] = lines[n][f],
         \A b \in anomalies' :
           \/ b.by = c
           \/ \E a \in anomalies : a.by = b.by /\ a.gap = b.gap /\ (a.resolved => b.resolved),
         \A d \in Calls : Editing(d)' => (Editing(d) /\ mem'[d] = mem[d]) \/ EditOK(d)'
  PROVE  KeepInv'
<1> USE DEF KeepInv
<1>1. c # Origin
  BY MatchingAssumption
<1>2. ASSUME NEW x, Settled(x) PROVE Settled(x)' /\ x[2] # c
  BY <1>1, <1>2 DEF Settled
<1>3. Entries'
  BY <1>2 DEF Entries
<1>4. ASSUME NEW n \in DOMAIN lines', Settled(LineRow(lines'[n]))
      PROVE  /\ n \in DOMAIN lines /\ LineRow(lines'[n]) = LineRow(lines[n])
             /\ \A f \in Confirmed : lines'[n][f] = lines[n][f]
  <2>1. LineRow(lines'[n])[2] = lines'[n].by
    BY DEF LineRow
  <2> QED
    BY <1>2, <1>4, <2>1 DEF LineRow
<1>5. \A d : Overlapped(d) => Overlapped(d)'
  BY DEF Overlapped
<1>6. ASSUME NEW d \in Calls, Editing(d)' PROVE EditOK(d)'
  <2>1. CASE EditOK(d)'
    BY <2>1
  <2>2. CASE Editing(d) /\ mem'[d] = mem[d]
    <3>1. EditOK(d)
      BY <2>2
    <3>2. Agrees(d) => Agrees(d)'
      <4> SUFFICES ASSUME Agrees(d), NEW s \in mem[d].sets, NEW n \in DOMAIN lines',
                          LineRow(lines'[n]) = s.line, NEW f \in s.given \ s.dirty
                   PROVE  lines'[n][f] = s.values[f]
        BY <2>2 DEF Agrees, LineRow
      <4>1. Settled(LineRow(lines'[n])) /\ f \in Confirmed
        BY <3>1 DEF EditOK
      <4> QED
        BY <1>4, <4>1 DEF Agrees
    <3> QED
      BY <1>2, <1>5, <2>2, <3>1, <3>2 DEF EditOK
  <2> QED
    BY <1>6, <2>1, <2>2
<1>7. ASSUME NEW k \in DOMAIN audit, ValuesKept(k) PROVE ValuesKept(k)'
  <2>1. \A s \in audit[k].sets : Settled(s.line)
    BY DEF Entries
  <2> SUFFICES ASSUME NEW s \in audit[k].sets, NEW n \in DOMAIN lines', NEW f \in Confirmed,
                      LineRow(lines'[n]) = s.line, f \in s.given
               PROVE  lines'[n][f] = s.values[f] \/ Later(k, s.line, f)'
    BY DEF ValuesKept, LineRow
  <2>2. /\ n \in DOMAIN lines /\ LineRow(lines[n]) = s.line /\ lines'[n][f] = lines[n][f]
    BY <1>4, <2>1
  <2> QED
    BY <1>7, <2>2 DEF ValuesKept, Later
<1>8. ASSUME NEW k \in DOMAIN audit, ResolvedKept(k) PROVE ResolvedKept(k)'
  <2> SUFFICES ASSUME NEW b \in anomalies', AnomalyRow(b) \in audit[k].resolved PROVE b.resolved
    BY DEF ResolvedKept, AnomalyRow
  <2>1. Settled(AnomalyRow(b)) /\ AnomalyRow(b)[2] = b.by
    BY DEF Entries, AnomalyRow
  <2>2. PICK a \in anomalies : a.by = b.by /\ a.gap = b.gap /\ (a.resolved => b.resolved)
    BY <1>2, <2>1
  <2> QED
    BY <1>8, <2>2 DEF ResolvedKept, AnomalyRow
<1> QED
  BY <1>3, <1>5, <1>6, <1>7, <1>8

(* A step that writes no row.                                              *)
LEMMA KeepQuiet ==
  ASSUME KeepInv, CallInv, NEW c \in Calls, pc[c] # "done", NEW next,
         pc' = [pc EXCEPT ![c] = next],
         UNCHANGED <<lines, anomalies, audit>>, met \subseteq met',
         \A d \in Calls \ {c} : mem'[d] = mem[d],
         Editing(c)' => (Editing(c) /\ mem'[c] = mem[c]) \/ EditOK(c)'
  PROVE  KeepInv'
<1>1. \A d \in Calls \ {c} : pc'[d] = pc[d]
  BY DEF CallInv, CallTypes
<1>2. \A d \in Calls : pc[d] = "done" => pc'[d] = "done"
  BY <1>1
<1>3. Lined'
  BY <1>2 DEF KeepInv, Lined, Settled, LineRow
<1>4. \A d \in Calls : Editing(d)' => (Editing(d) /\ mem'[d] = mem[d]) \/ EditOK(d)'
  BY <1>1 DEF Editing
<1> QED
  BY <1>2, <1>3, <1>4, KeepStep DEF LineRow

LEMMA KeepBegins ==
  ASSUME KeepInv, CallInv, NEW c \in Calls, NEW state, NEW memory, Begin(c, state, memory),
         state = "half" => EditOK(c)', state # "last"
  PROVE  KeepInv'
<1>1. /\ pc[c] = "idle" /\ pc' = [pc EXCEPT ![c] = state] /\ mem' = [mem EXCEPT ![c] = memory]
      /\ met \subseteq met' /\ UNCHANGED <<lines, anomalies, audit>>
  BY DEF Begin
<1>2. pc'[c] = state /\ \A d \in Calls \ {c} : mem'[d] = mem[d]
  BY <1>1 DEF CallInv, CallTypes
<1>3. Editing(c)' => EditOK(c)'
  BY <1>2 DEF Editing
<1> QED
  BY <1>1, <1>2, <1>3, KeepQuiet

LEMMA DirtyGiven ==
  ASSUME NEW line, NEW item, DOMAIN item \subseteq Confirmed
  PROVE  /\ Dirty(line, item) \subseteq Given(item) /\ Given(item) \subseteq Confirmed
         /\ \A f \in Given(item) \ Dirty(line, item) : line[f] = item[f]
BY DEF Dirty, Given

LEMMA KeepConfirmOpen ==
  ASSUME KeepInv, CallInv, NEW c \in Calls, NEW payload \in Payloads, NEW first,
         ConfirmOpen(c, payload, first)
  PROVE  KeepInv'
<1> DEFINE known == DOMAIN payload \cap DOMAIN lines
           Item(n) == [line |-> LineRow(lines[n]), given |-> Given(payload[n]),
                       dirty |-> Dirty(lines[n], payload[n]), values |-> payload[n]]
<1>1. PICK m : /\ Begin(c, "half", m) /\ m.op = "confirm" /\ m.sets = {Item(n) : n \in known}
               /\ m.rows.anomalies = AnomalyRows(Confirmable)
  BY DEF ConfirmOpen
<1>2. /\ pc' = [pc EXCEPT ![c] = "half"] /\ pc[c] = "idle" /\ mem'[c] = m
      /\ UNCHANGED <<lines, anomalies>>
  BY <1>1 DEF Begin, CallInv, CallTypes
<1>3. \A d \in Calls : pc[d] = "done" => pc'[d] = "done"
  BY <1>2 DEF CallInv, CallTypes
<1>4. \A x : Settled(x) => Settled(x)'
  BY <1>3 DEF Settled
<1>5. ASSUME NEW s \in m.sets
      PROVE  \E n \in known : s.line = LineRow(lines[n]) /\ s = Item(n)
  BY <1>1
<1>6. ASSUME NEW n \in known
      PROVE  /\ Item(n).line = LineRow(lines[n]) /\ Item(n).given = Given(payload[n])
             /\ Item(n).dirty = Dirty(lines[n], payload[n]) /\ Item(n).values = payload[n]
             /\ DOMAIN payload[n] \subseteq Confirmed /\ n \in DOMAIN lines
  BY MatchingAssumption
<1>7. \A k, n \in DOMAIN lines : LineRow(lines[k]) = LineRow(lines[n]) => k = n
  <2> SUFFICES ASSUME NEW k \in DOMAIN lines, NEW n \in DOMAIN lines,
                      LineRow(lines[k]) = LineRow(lines[n])
               PROVE  k = n
    OBVIOUS
  <2>1. LineRow(lines[k])[3] = k /\ LineRow(lines[n])[3] = n
    BY DEF KeepInv, Lined, LineRow
  <2> QED
    BY <2>1
<1> HIDE DEF known, Item
<1>8. \A s \in m.sets : Settled(s.line)' /\ s.dirty \subseteq s.given /\ s.given \subseteq Confirmed
  BY <1>4, <1>5, <1>6, DirtyGiven DEF KeepInv, Lined
<1>9. \A s, t \in m.sets : s.line = t.line => s = t
  BY <1>5, <1>6, <1>7
<1>10. \A x \in m.rows.anomalies : Settled(x)'
  <2>1. \A a \in anomalies : Settled(AnomalyRow(a))
    BY DEF CallInv, Fresh, Settled, AnomalyRow
  <2> QED
    BY <1>1, <1>4, <2>1 DEF AnomalyRows, Confirmable
<1>11. Agrees(c)'
  <2> SUFFICES ASSUME NEW s \in m.sets, NEW n \in DOMAIN lines, LineRow(lines[n]) = s.line,
                      NEW f \in s.given \ s.dirty
               PROVE  lines[n][f] = s.values[f]
    BY <1>2 DEF Agrees, LineRow
  <2>1. PICK k \in known : s.line = LineRow(lines[k]) /\ s = Item(k)
    BY <1>5
  <2>2. k = n
    BY <1>6, <1>7, <2>1
  <2> QED
    BY <1>6, <2>1, <2>2, DirtyGiven
<1>12. EditOK(c)'
  BY <1>1, <1>2, <1>8, <1>9, <1>10, <1>11 DEF EditOK
<1> QED
  BY <1>1, <1>12, KeepBegins

LEMMA KeepResolveOpen ==
  ASSUME KeepInv, CallInv, NEW c \in Calls, NEW a \in anomalies, ResolveOpen(c, a)
  PROVE  KeepInv'
<1>1. PICK m : /\ Begin(c, "half", m) /\ m.op = "resolve" /\ m.sets = {}
               /\ m.rows.anomalies = {AnomalyRow(a)}
  BY DEF ResolveOpen
<1>2. pc' = [pc EXCEPT ![c] = "half"] /\ pc[c] = "idle" /\ mem'[c] = m
  BY <1>1 DEF Begin, CallInv, CallTypes
<1>3. Settled(AnomalyRow(a))'
  BY <1>2 DEF CallInv, CallTypes, Fresh, Settled, AnomalyRow
<1>4. EditOK(c)'
  BY <1>1, <1>2, <1>3 DEF EditOK, Agrees
<1> QED
  BY <1>1, <1>4, KeepBegins

LEMMA KeepRollback ==
  ASSUME KeepInv, CallInv, NEW c \in Open, Rollback(c) PROVE KeepInv'
<1>1. /\ c \in Calls /\ pc[c] # "done" /\ pc' = [pc EXCEPT ![c] = "failed"]
      /\ mem' = [mem EXCEPT ![c] = NoPass] /\ UNCHANGED <<lines, anomalies, audit, met>>
  BY DEF Open, Rollback, End
<1>2. pc'[c] = "failed" /\ \A d \in Calls \ {c} : mem'[d] = mem[d]
  BY <1>1 DEF CallInv, CallTypes
<1>3. ~Editing(c)'
  BY <1>2 DEF Editing
<1> QED
  BY <1>1, <1>2, <1>3, KeepQuiet

(* The flushes, and the reading of the document.                           *)
LEMMA KeepFlushes ==
  ASSUME KeepInv, CallInv, NEW c \in Calls,
         \/ MatchReset(c) \/ MatchInvoice(c) \/ Half(c) \/ AnalyseLock(c)
         \/ \E r \in Readings, first \in {"lines", "anomalies"} : AnalyseRead(c, r, first)
  PROVE  KeepInv'
<1>1. CASE Rollback(c)
  <2>1. c \in Open
    BY DEF MatchReset, MatchInvoice, Half, AnalyseLock, AnalyseRead, Open
  <2> QED
    BY <1>1, <2>1, KeepRollback
<1>2. CASE ~Rollback(c)
  <2>1. \/ \E next \in {"compared", "flushed", "read"} : pc' = [pc EXCEPT ![c] = next]
        \/ pc[c] = "half" /\ pc' = [pc EXCEPT ![c] = "last"] /\ mem' = mem
        \/ pc' = [pc EXCEPT ![c] = "half"] /\ mem'[c].op = "analyse"
    BY <1>2 DEF MatchReset, MatchInvoice, Half, AnalyseLock, AnalyseRead, Flush, CallInv, CallTypes
  <2>2. /\ pc[c] # "done" /\ UNCHANGED <<lines, anomalies, audit, met>>
        /\ mem' = mem \/ \E m : mem' = [mem EXCEPT ![c] = m]
    BY <1>2 DEF MatchReset, MatchInvoice, Half, AnalyseLock, AnalyseRead, Flush
  <2>3. \A d \in Calls \ {c} : mem'[d] = mem[d]
    BY <2>2 DEF CallInv, CallTypes
  <2>4. Editing(c)' => Editing(c) /\ mem'[c] = mem[c]
    BY <2>1 DEF Editing, CallInv, CallTypes
  <2>5. \E next : pc' = [pc EXCEPT ![c] = next]
    BY <2>1
  <2> QED
    BY <2>2, <2>3, <2>4, <2>5, KeepQuiet
<1> QED
  BY <1>1, <1>2

(* What a commit leaves: the call is done, the others are where they were. *)
LEMMA KeepEnds ==
  ASSUME CallInv, NEW c \in Open, End(c, "done")
  PROVE  /\ c \in Calls /\ pc[c] # "done" /\ pc'[c] = "done" /\ met' = met
         /\ \A d \in Calls : pc[d] = "done" => pc'[d] = "done"
         /\ \A d \in Calls : Editing(d)' => Editing(d) /\ mem'[d] = mem[d] /\ d # c
<1>1. /\ c \in Calls /\ pc[c] # "done" /\ pc' = [pc EXCEPT ![c] = "done"]
      /\ mem' = [mem EXCEPT ![c] = NoPass] /\ met' = met
  BY DEF Open, End
<1>2. pc'[c] = "done" /\ \A d \in Calls \ {c} : pc'[d] = pc[d] /\ mem'[d] = mem[d]
  BY <1>1 DEF CallInv, CallTypes
<1> QED
  BY <1>1, <1>2 DEF Editing

LEMMA KeepMatchCommit ==
  ASSUME KeepInv, CallInv, NEW c \in Calls, MatchCommit(c) PROVE KeepInv'
<1>1. pc[c] = "flushed" /\ c \in Open
  BY DEF MatchCommit, Open
<1>2. CASE Rollback(c)
  BY <1>1, <1>2, KeepRollback
<1>3. CASE ~Rollback(c)
  <2>1. /\ End(c, "done") /\ UNCHANGED audit
        /\ anomalies' = {a \in anomalies : AnomalyRow(a) \notin mem[c].delete}
                        \cup {[by |-> c, gap |-> g, resolved |-> FALSE] : g \in mem[c].result.gaps}
        /\ lines' = [n \in DOMAIN lines |->
                       IF LineRow(lines[n]) \in Needs(c)
                       THEN [lines[n] EXCEPT !.link = mem[c].result.links[n]] ELSE lines[n]]
    BY <1>3 DEF MatchCommit
  <2>2. ASSUME NEW n \in DOMAIN lines'
        PROVE  /\ n \in DOMAIN lines /\ DOMAIN lines'[n] = LineFields
               /\ \A f \in LineFields \ {"link"} : lines'[n][f] = lines[n][f]
    <3>1. n \in DOMAIN lines /\ DOMAIN lines[n] = LineFields
      BY <2>1 DEF KeepInv, Lined
    <3>2. lines'[n] = lines[n] \/ lines'[n] = [lines[n] EXCEPT !.link = mem[c].result.links[n]]
      BY <2>1, <3>1
    <3> QED
      BY <3>1, <3>2
  <2>3. ASSUME NEW n \in DOMAIN lines'
        PROVE  /\ lines'[n].by = lines[n].by /\ lines'[n].number = lines[n].number
               /\ \A f \in Confirmed : lines'[n][f] = lines[n][f]
    BY <2>2 DEF LineFields, Confirmed
  <2>4. Lined'
    BY <1>1, <2>1, <2>2, <2>3, KeepEnds DEF KeepInv, Lined, Settled, LineRow
  <2>5. \A n \in DOMAIN lines' :
          /\ n \in DOMAIN lines /\ LineRow(lines[n])' = LineRow(lines[n])
          /\ \A f \in Confirmed : lines'[n][f] = lines[n][f]
    BY <2>2, <2>3 DEF LineRow
  <2>6. \A b \in anomalies' : b.by = c \/ b \in anomalies
    BY <2>1
  <2> QED
    BY <1>1, <2>1, <2>4, <2>5, <2>6, KeepEnds, KeepStep
<1> QED
  BY <1>2, <1>3

LEMMA KeepAnalyseCommit ==
  ASSUME KeepInv, CallInv, NEW c \in Calls, AnalyseCommit(c) PROVE KeepInv'
<1>1. /\ c \in Open /\ End(c, "done") /\ UNCHANGED audit
      /\ lines' = Extracted(c, mem[c].reading)
      /\ anomalies' = {a \in anomalies : AnomalyRow(a) \notin mem[c].rows.anomalies}
                      \cup {[by |-> c, gap |-> g, resolved |-> FALSE]
                            : g \in Gap(~mem[c].reading.doubtful, "OTHER", "document", 0)}
  BY DEF AnalyseCommit, Open
<1>2. \A n \in DOMAIN lines' :
        DOMAIN lines'[n] = LineFields /\ lines'[n].by = c /\ lines'[n].number = n
  BY <1>1 DEF Extracted, LineFields
<1>3. Lined'
  BY <1>1, <1>2, KeepEnds DEF Lined, Settled, LineRow
<1>4. \A b \in anomalies' : b.by = c \/ b \in anomalies
  BY <1>1
<1> QED
  BY <1>1, <1>2, <1>3, <1>4, KeepEnds, KeepStep

(* The columns a commit of an edit writes.                                 *)
Written(c, l, f) == {s \in mem[c].sets : s.line = LineRow(l) /\ f \in s.dirty}

LEMMA EditedLines ==
  ASSUME KeepInv, NEW c \in Calls, EditOK(c),
         lines' = [n \in DOMAIN lines |-> [f \in DOMAIN lines[n] |->
                     IF Written(c, lines[n], f) = {} THEN lines[n][f]
                     ELSE (CHOOSE s \in Written(c, lines[n], f) : TRUE).values[f]]]
  PROVE  /\ DOMAIN lines' = DOMAIN lines
         /\ \A n \in DOMAIN lines :
              /\ DOMAIN lines'[n] = LineFields /\ lines'[n].number = n
              /\ LineRow(lines[n])' = LineRow(lines[n])
              /\ \A f \in LineFields :
                   \/ lines'[n][f] = lines[n][f] /\ Written(c, lines[n], f) = {}
                   \/ \E s \in Written(c, lines[n], f) : lines'[n][f] = s.values[f]
<1> SUFFICES ASSUME NEW n \in DOMAIN lines
             PROVE  /\ DOMAIN lines'[n] = LineFields /\ lines'[n].number = n
                    /\ LineRow(lines[n])' = LineRow(lines[n])
                    /\ \A f \in LineFields :
                         \/ lines'[n][f] = lines[n][f] /\ Written(c, lines[n], f) = {}
                         \/ \E s \in Written(c, lines[n], f) : lines'[n][f] = s.values[f]
  OBVIOUS
<1>1. DOMAIN lines[n] = LineFields /\ lines[n].number = n
  BY DEF KeepInv, Lined
<1>2. lines'[n] = [f \in LineFields |->
                     IF Written(c, lines[n], f) = {} THEN lines[n][f]
                     ELSE (CHOOSE s \in Written(c, lines[n], f) : TRUE).values[f]]
  BY <1>1
<1>3. \A f \in LineFields :
        \/ lines'[n][f] = lines[n][f] /\ Written(c, lines[n], f) = {}
        \/ \E s \in Written(c, lines[n], f) : lines'[n][f] = s.values[f]
  <2> SUFFICES ASSUME NEW f \in LineFields, Written(c, lines[n], f) # {}
               PROVE  \E s \in Written(c, lines[n], f) : lines'[n][f] = s.values[f]
    BY <1>2
  <2>1. (CHOOSE s \in Written(c, lines[n], f) : TRUE) \in Written(c, lines[n], f)
    OBVIOUS
  <2> QED
    BY <1>2, <2>1
<1>4. Written(c, lines[n], "by") = {} /\ Written(c, lines[n], "number") = {}
  BY DEF Written, EditOK, Confirmed
<1>5. lines'[n].by = lines[n].by /\ lines'[n].number = lines[n].number
  BY <1>3, <1>4 DEF LineFields
<1> QED
  BY <1>1, <1>2, <1>3, <1>5 DEF LineRow

(* The resolution of one anomaly.                                          *)
LEMMA KeepResolveCommit ==
  ASSUME KeepInv, CallInv, NEW c \in Open, EditOK(c), mem[c].sets = {}, End(c, "done"),
         UNCHANGED audit, anomalies' = Resolve(mem[c].rows.anomalies),
         lines' = [n \in DOMAIN lines |-> [f \in DOMAIN lines[n] |->
                     IF Written(c, lines[n], f) = {} THEN lines[n][f]
                     ELSE (CHOOSE s \in Written(c, lines[n], f) : TRUE).values[f]]]
  PROVE  KeepInv'
<1>1. c \in Calls
  BY DEF Open
<1>2. /\ DOMAIN lines' = DOMAIN lines
      /\ \A n \in DOMAIN lines :
           /\ DOMAIN lines'[n] = LineFields /\ lines'[n].number = n
           /\ LineRow(lines[n])' = LineRow(lines[n])
           /\ \A f \in LineFields : lines'[n][f] = lines[n][f]
  BY <1>1, EditedLines DEF Written
<1>3. Lined'
  <2>1. \A x : Settled(x) => Settled(x)'
    BY KeepEnds DEF Settled
  <2> QED
    BY <1>2, <2>1 DEF KeepInv, Lined
<1>4. \A b \in anomalies' :
        \E a \in anomalies : a.by = b.by /\ a.gap = b.gap /\ (a.resolved => b.resolved)
  BY ResolvedRows DEF CallInv
<1>5. \A n \in DOMAIN lines' :
        /\ n \in DOMAIN lines /\ LineRow(lines[n])' = LineRow(lines[n])
        /\ \A f \in Confirmed : lines'[n][f] = lines[n][f]
  <2>1. Confirmed \subseteq LineFields
    BY DEF Confirmed, LineFields
  <2>2. DOMAIN lines' = DOMAIN lines /\ \A n \in DOMAIN lines : LineRow(lines[n])' = LineRow(lines[n])
    BY <1>2
  <2>3. \A n \in DOMAIN lines : \A f \in Confirmed : lines'[n][f] = lines[n][f]
    BY <1>2, <2>1
  <2> QED
    BY <2>2, <2>3, Zenon
<1>6. /\ pc[c] # "done" /\ met \subseteq met'
      /\ \A d \in Calls : pc[d] = "done" => pc'[d] = "done"
      /\ \A d \in Calls : Editing(d)' => Editing(d) /\ mem'[d] = mem[d]
  BY KeepEnds
<1>7. /\ \A n \in DOMAIN lines' :
           \/ lines'[n].by = c
           \/ /\ n \in DOMAIN lines /\ LineRow(lines[n])' = LineRow(lines[n])
              /\ \A f \in Confirmed : lines'[n][f] = lines[n][f]
      /\ \A b \in anomalies' :
           \/ b.by = c
           \/ \E a \in anomalies : a.by = b.by /\ a.gap = b.gap /\ (a.resolved => b.resolved)
      /\ \A d \in Calls : Editing(d)' => (Editing(d) /\ mem'[d] = mem[d]) \/ EditOK(d)'
  BY <1>4, <1>5, <1>6
<1> QED
  BY <1>1, <1>3, <1>6, <1>7, KeepStep

LEMMA AppendEntry ==
  ASSUME Entries, NEW e, audit' = Append(audit, e)
  PROVE  /\ Len(audit) \in Nat /\ Len(audit') = Len(audit) + 1
         /\ DOMAIN audit = 1..Len(audit) /\ DOMAIN audit' = 1..(Len(audit) + 1)
         /\ audit'[Len(audit) + 1] = e
         /\ \A k \in DOMAIN audit : audit'[k] = audit[k]
         /\ \E S : audit' \in Seq(S)
<1>1. PICK S : audit \in Seq(S)
  BY DEF Entries
<1>2. audit \in Seq(S \cup {e}) /\ e \in S \cup {e}
  BY <1>1
<1>3. audit' \in Seq(S \cup {e})
  BY <1>2
<1> QED
  BY <1>2, <1>3

LEMMA KeepConfirmCommit ==
  ASSUME KeepInv, CallInv, NEW c \in Open, EditOK(c), End(c, "done"),
         audit' = Append(audit, [by |-> c, sets |-> mem[c].sets, resolved |-> mem[c].rows.anomalies]),
         anomalies' = Resolve(mem[c].rows.anomalies),
         lines' = [n \in DOMAIN lines |-> [f \in DOMAIN lines[n] |->
                     IF Written(c, lines[n], f) = {} THEN lines[n][f]
                     ELSE (CHOOSE s \in Written(c, lines[n], f) : TRUE).values[f]]]
  PROVE  KeepInv'
<1> USE DEF KeepInv
<1>0. PICK new : new = Len(audit) + 1
  OBVIOUS
<1>1. /\ c \in Calls /\ pc'[c] = "done" /\ met' = met
      /\ \A d \in Calls : pc[d] = "done" => pc'[d] = "done"
      /\ \A d \in Calls : Editing(d)' => Editing(d) /\ mem'[d] = mem[d] /\ d # c
  BY KeepEnds
<1>2. \A x : Settled(x) => Settled(x)'
  BY <1>1 DEF Settled
<1>3. /\ DOMAIN lines' = DOMAIN lines
      /\ \A n \in DOMAIN lines :
           /\ DOMAIN lines'[n] = LineFields /\ lines'[n].number = n
           /\ LineRow(lines[n])' = LineRow(lines[n])
           /\ \A f \in Confirmed :
                \/ lines'[n][f] = lines[n][f] /\ Written(c, lines[n], f) = {}
                \/ \E s \in Written(c, lines[n], f) : lines'[n][f] = s.values[f]
  <2>1. Confirmed \subseteq LineFields
    BY DEF Confirmed, LineFields
  <2> QED
    BY <1>1, <2>1, EditedLines
<1>4. /\ Len(audit) \in Nat /\ Len(audit') = new
      /\ DOMAIN audit = 1..Len(audit) /\ DOMAIN audit' = 1..new
      /\ audit'[new].by = c /\ audit'[new].sets = mem[c].sets
      /\ audit'[new].resolved = mem[c].rows.anomalies
      /\ \A k \in DOMAIN audit : audit'[k] = audit[k]
      /\ \E S : audit' \in Seq(S)
  BY <1>0, AppendEntry
<1>5. Lined'
  BY <1>2, <1>3 DEF Lined
<1>6. Entries'
  <2> SUFFICES ASSUME NEW k \in DOMAIN audit'
               PROVE  /\ \A s \in audit'[k].sets : Settled(s.line)'
                      /\ \A x \in audit'[k].resolved : Settled(x)'
    BY <1>4 DEF Entries
  <2>1. CASE k \in DOMAIN audit
    BY <1>2, <1>4, <2>1 DEF Entries
  <2>2. CASE k = new
    BY <1>2, <1>4, <2>2 DEF EditOK
  <2> QED
    BY <1>4, <2>1, <2>2
<1>7. new \in DOMAIN audit' /\ \A k \in DOMAIN audit : k \in DOMAIN audit' /\ k + 1 <= new
  BY <1>4
<1>8. \A d : Overlapped(d) => Overlapped(d)'
  BY <1>1, <1>4, <1>7 DEF Overlapped
<1>9. ASSUME NEW d \in Calls, Editing(d)' PROVE EditOK(d)'
  <2>1. Editing(d) /\ mem'[d] = mem[d] /\ d # c /\ EditOK(d)
    BY <1>1, <1>9
  <2>2. {d, c} \in met
    BY <1>1, <2>1 DEF Editing, Open, CallInv, OpenMet
  <2>3. Overlapped(d)'
    BY <1>1, <1>4, <1>7, <2>2 DEF Overlapped
  <2> QED
    BY <1>2, <2>1, <2>3 DEF EditOK
<1>10. ASSUME NEW k \in DOMAIN audit, ValuesKept(k) PROVE ValuesKept(k)'
  <2> SUFFICES ASSUME NEW s \in audit'[k].sets, NEW n \in DOMAIN lines', NEW f \in Confirmed,
                      LineRow(lines[n])' = s.line, f \in s.given
               PROVE  lines'[n][f] = s.values[f] \/ Later(k, s.line, f)'
    BY DEF ValuesKept
  <2>4. s \in audit[k].sets /\ n \in DOMAIN lines /\ LineRow(lines[n]) = s.line
    BY <1>3, <1>4
  <2>1. Later(k, s.line, f) => Later(k, s.line, f)'
    <3>1. \A j \in k + 1 .. Len(audit) : j \in k + 1 .. Len(audit') /\ j \in DOMAIN audit
      BY <1>4
    <3> QED
      BY <1>4, <3>1 DEF Later
  <2>2. CASE lines'[n][f] = lines[n][f]
    BY <1>10, <2>1, <2>2, <2>4 DEF ValuesKept
  <2>3. CASE \E t \in Written(c, lines[n], f) : TRUE
    <3>1. PICK t \in mem[c].sets : t.line = s.line /\ f \in t.given
      BY <2>3, <2>4 DEF Written, EditOK
    <3>2. new \in k + 1 .. Len(audit')
      BY <1>4, <1>7
    <3> QED
      BY <1>4, <3>1, <3>2 DEF Later
  <2> QED
    BY <1>3, <2>2, <2>3, <2>4
<1>11. ASSUME NEW b \in anomalies'
       PROVE  \E a \in anomalies : /\ AnomalyRow(b) = AnomalyRow(a) /\ (a.resolved => b.resolved)
                                   /\ AnomalyRow(a) \in mem[c].rows.anomalies => b.resolved
  BY <1>11, ResolvedRows DEF CallInv
<1>12. ASSUME NEW k \in DOMAIN audit, ResolvedKept(k) PROVE ResolvedKept(k)'
  <2> SUFFICES ASSUME NEW b \in anomalies', AnomalyRow(b) \in audit[k].resolved PROVE b.resolved
    BY <1>4 DEF ResolvedKept, AnomalyRow
  <2> QED
    BY <1>11, <1>12 DEF ResolvedKept
<1>13. ResolvedKept(new)'
  BY <1>4, <1>11 DEF ResolvedKept, AnomalyRow
<1>14. ASSUME Agrees(c) PROVE ValuesKept(new)'
  <2> SUFFICES ASSUME NEW s \in audit'[new].sets, NEW n \in DOMAIN lines', NEW f \in Confirmed,
                      LineRow(lines[n])' = s.line, f \in s.given
               PROVE  lines'[n][f] = s.values[f] \/ Later(new, s.line, f)'
    BY DEF ValuesKept
  <2>4. s \in mem[c].sets /\ n \in DOMAIN lines /\ LineRow(lines[n]) = s.line
    BY <1>3, <1>4
  <2>1. \A t \in Written(c, lines[n], f) : t = s
    BY <2>4 DEF Written, EditOK
  <2>2. CASE lines'[n][f] = lines[n][f] /\ Written(c, lines[n], f) = {}
    <3>1. f \notin s.dirty
      BY <2>2, <2>4 DEF Written
    <3> QED
      BY <1>14, <2>2, <2>4, <3>1 DEF Agrees
  <2>3. CASE \E t \in Written(c, lines[n], f) : lines'[n][f] = t.values[f]
    BY <2>1, <2>3
  <2> QED
    BY <1>3, <2>2, <2>3, <2>4
<1>15. ASSUME NEW k \in DOMAIN audit'
       PROVE  Overlapped(audit[k].by)' \/ (ValuesKept(k)' /\ ResolvedKept(k)')
  <2>1. CASE k \in DOMAIN audit
    <3>1. audit'[k].by = audit[k].by
      BY <1>4, <2>1
    <3>2. Overlapped(audit[k].by) => Overlapped(audit[k].by)'
      BY <1>8, <3>1
    <3> QED
      BY <1>10, <1>12, <2>1, <3>2
  <2>2. CASE k = new
    <3>1. audit'[k].by = c
      BY <1>4, <2>2
    <3>2. Overlapped(c) => Overlapped(audit[k].by)'
      BY <1>8, <3>1
    <3> QED
      BY <1>13, <1>14, <2>2, <3>2 DEF EditOK
  <2> QED
    BY <1>4, <2>1, <2>2
<1> QED
  BY <1>5, <1>6, <1>9, <1>15

LEMMA NextKeep == KeepInv /\ CallInv /\ [Next]_vars => KeepInv'
<1> SUFFICES ASSUME KeepInv, CallInv, [Next]_vars PROVE KeepInv'
  OBVIOUS
<1>1. ASSUME NEW c \in Calls, CallLost(c) \/ DeadlockVictim(c) PROVE KeepInv'
  <2>1. c \in Open /\ Rollback(c)
    BY <1>1 DEF CallLost, DeadlockVictim
  <2> QED
    BY <2>1, KeepRollback
<1>2. ASSUME NEW c \in Calls, MatchOpen(c) \/ AnalyseOpen(c) PROVE KeepInv'
  <2>1. \E state \in {"reset", "lock"}, m \in {[op |-> "analyse"],
            [op |-> "match", reading |-> reading, row |-> row, delete |-> AnomalyRows(Reset)]} :
          Begin(c, state, m)
    BY <1>2 DEF MatchOpen, AnalyseOpen
  <2> QED
    BY <2>1, KeepBegins
<1>3. ASSUME NEW c \in Calls, ConfirmCommit(c) PROVE KeepInv'
  <2>1. pc[c] = "last" /\ mem[c].op # "analyse" /\ c \in Open /\ EditOK(c)
    BY <1>3 DEF ConfirmCommit, Open, Editing, KeepInv
  <2>2. CASE Rollback(c)
    BY <2>1, <2>2, KeepRollback
  <2>3. CASE ~Rollback(c)
    <3>1. /\ End(c, "done") /\ anomalies' = Resolve(mem[c].rows.anomalies)
          /\ lines' = [n \in DOMAIN lines |-> [f \in DOMAIN lines[n] |->
                     IF Written(c, lines[n], f) = {} THEN lines[n][f]
                     ELSE (CHOOSE s \in Written(c, lines[n], f) : TRUE).values[f]]]
      BY <1>3, <2>3 DEF ConfirmCommit, Written
    <3>2. CASE mem[c].op = "resolve"
      <4>1. UNCHANGED audit /\ mem[c].sets = {}
        BY <1>3, <2>1, <2>3, <3>2 DEF ConfirmCommit, EditOK
      <4> QED
        BY <2>1, <3>1, <4>1, KeepResolveCommit
    <3>3. CASE mem[c].op # "resolve"
      <4>1. audit' = Append(audit, [by |-> c, sets |-> mem[c].sets, resolved |-> mem[c].rows.anomalies])
        BY <1>3, <2>3, <3>3 DEF ConfirmCommit
      <4> QED
        BY <2>1, <3>1, <4>1, KeepConfirmCommit
    <3> QED
      BY <3>2, <3>3
  <2> QED
    BY <2>2, <2>3
<1>4. ASSUME NEW c \in Calls, MatchStep(c) PROVE KeepInv'
  BY <1>2, <1>4, KeepFlushes, KeepMatchCommit DEF MatchStep
<1>5. ASSUME NEW c \in Calls, ConfirmStep(c) PROVE KeepInv'
  BY <1>3, <1>5, KeepConfirmOpen, KeepResolveOpen, KeepFlushes DEF ConfirmStep
<1>6. ASSUME NEW c \in Calls, AnalyseStep(c) PROVE KeepInv'
  BY <1>2, <1>6, KeepFlushes, KeepAnalyseCommit DEF AnalyseStep
<1>7. CASE UNCHANGED mvars
  <2>1. UNCHANGED <<lines, anomalies, audit, pc, mem, met>>
    BY <1>7 DEF mvars
  <2>2. Lined' /\ Entries'
    BY <2>1 DEF KeepInv, Lined, Entries, Settled, LineRow
  <2>3. ASSUME NEW c \in Calls, Editing(c)' PROVE EditOK(c)'
    <3>1. EditOK(c) /\ mem'[c] = mem[c]
      BY <2>1, <2>3 DEF KeepInv, Editing
    <3>2. /\ Overlapped(c) => Overlapped(c)'
          /\ Agrees(c) => Agrees(c)'
          /\ \A x : Settled(x) => Settled(x)'
      BY <2>1 DEF Overlapped, Agrees, LineRow, Settled
    <3> QED
      BY <3>1, <3>2 DEF EditOK
  <2>4. ASSUME NEW k \in DOMAIN audit'
        PROVE  Overlapped(audit[k].by)' \/ (ValuesKept(k)' /\ ResolvedKept(k)')
    <3>1. k \in DOMAIN audit /\ (Overlapped(audit[k].by) => Overlapped(audit[k].by)')
      BY <2>1 DEF Overlapped
    <3>2. ResolvedKept(k) => ResolvedKept(k)'
      BY <2>1 DEF ResolvedKept, AnomalyRow
    <3>3. ValuesKept(k) => ValuesKept(k)'
      BY <2>1 DEF ValuesKept, Later, LineRow
    <3> QED
      BY <3>1, <3>2, <3>3 DEF KeepInv
  <2> QED
    BY <2>2, <2>3, <2>4 DEF KeepInv
<1> QED
  BY <1>1, <1>4, <1>5, <1>6, <1>7 DEF Next, vars

LEMMA InitKeep == Init => KeepInv
<1> SUFFICES ASSUME Init PROVE KeepInv
  OBVIOUS
<1>1. PICK r \in Readings :
        lines = [n \in DOMAIN r.lines |-> [by |-> Origin, number |-> n, link |-> NoLink,
                   ref |-> r.lines[n].ref, name |-> r.lines[n].name,
                   quantity |-> r.lines[n].quantity, price |-> r.lines[n].price]]
  BY DEF Init
<1>2. audit = <<>> /\ pc = [c \in Calls |-> "idle"]
  BY DEF Init
<1>3. Lined
  BY <1>1 DEF Lined, LineFields, Settled, LineRow
<1>4. Entries
  <2>1. audit \in Seq({})
    BY <1>2
  <2>2. DOMAIN audit = {}
    BY <1>2
  <2> QED
    BY <2>1, <2>2 DEF Entries
<1>5. \A c \in Calls : ~Editing(c)
  BY <1>2 DEF Editing
<1>6. DOMAIN audit = {}
  BY <1>2
<1> QED
  BY <1>3, <1>4, <1>5, <1>6 DEF KeepInv

(* What buyers have confirmed, and what those who are confirming hold.     *)
THEOREM KeepInvariant == Spec => []KeepInv
<1> QED
  BY InitKeep, NextKeep, CallInvariant, PTL DEF Spec

(* Whatever matches, analyses and resolutions run beside and after it, a   *)
(* confirmation that met no other one stays.                               *)
THEOREM ConfirmationsAreKept == Spec => []ConfirmationKept
<1>1. KeepInv => ConfirmationKept
  BY DEF KeepInv, ConfirmationKept, Overlapped, ValuesKept, ResolvedKept, Later
<1> QED
  BY <1>1, KeepInvariant, PTL

-----------------------------------------------------------------------------
(* Types of the invoice's rows.                                            *)
RowTyped(r) ==
  /\ r = [score |-> r.score, order |-> r.order, duplicate |-> r.duplicate]
  /\ r.order \in OrderIds \cup {NoOrder}
  /\ r.score \in Scores \cup {NoAmount}

Named(x) == \E r \in Readings : \E n \in DOMAIN r.lines : x = r.lines[n].name

LinesTyped(ls) ==
  /\ \E k \in Nat : DOMAIN ls = 1..k
  /\ \A n \in DOMAIN ls :
       ls[n].number = n /\ ls[n].link \in LineIds \cup {NoLink} /\ Named(ls[n].name)

ResultTyped(result, ls) ==
  /\ RowTyped(result.row)
  /\ DOMAIN result.links \subseteq DOMAIN ls
  /\ \A n \in DOMAIN result.links : result.links[n] \in LineIds \cup {NoLink}

(* The lines of a cached order are numbered and are lines of Odoo.         *)
LEMMA CachedLinesAre ==
  ASSUME CacheInv, NEW o
  PROVE  /\ DOMAIN CachedLines(cache, o) \subseteq Nat
         /\ \A k \in DOMAIN CachedLines(cache, o) :
              /\ CachedLines(cache, o)[k].id \in LineIds
              /\ \E v \in Contents : \E l \in History[v].lines :
                   CachedLines(cache, o)[k].name = l.name
<1> DEFINE Line(l) == The(l, History[cache.lines[l]].lines)
           ids == {l \in LineIds : cache.lines[l] # 0 /\ Line(l).order = o}
           pos == [l \in ids |-> Line(l).position]
           sorted == CHOOSE s \in [1..Cardinality(ids) -> ids] :
                       \A i, j \in DOMAIN s : i < j => s[i] # s[j] /\ Line(s[i]).position <= Line(s[j]).position
<1>1. \A l \in ids : cache.lines[l] \in Contents /\ Line(l) \in History[cache.lines[l]].lines
  BY DEF CacheInv, CacheTypes, Stored, Listed, The
<1>2. \A l \in ids : pos[l] \in Nat
  <2>1. ASSUME NEW l \in ids PROVE Line(l).position \in Nat
    <3>1. PICK x : x = Line(l) /\ \E v \in Contents : x \in History[v].lines
      BY <1>1
    <3> QED
      BY <3>1, OdooAssumption
  <2> QED
    BY <2>1
<1>3. IsFiniteSet(ids)
  BY OdooAssumption, FS_Subset
<1>4. \E s \in [1..Cardinality(ids) -> ids] :
         \A i, j \in DOMAIN s : i < j => s[i] # s[j] /\ pos[s[i]] <= pos[s[j]]
  <2> HIDE DEF pos, ids
  <2> QED
    BY <1>2, <1>3, SortedExists
<1>5. \E s \in [1..Cardinality(ids) -> ids] :
         \A i, j \in DOMAIN s : i < j => s[i] # s[j] /\ Line(s[i]).position <= Line(s[j]).position
  <2>1. \A l \in ids : pos[l] = Line(l).position
    OBVIOUS
  <2> HIDE DEF pos, ids, Line
  <2> QED
    BY <1>4, <2>1
<1>6. sorted \in [1..Cardinality(ids) -> ids]
  <2> HIDE DEF ids, Line
  <2> QED
    BY <1>5
<1>7. CachedLines(cache, o) = [k \in DOMAIN sorted |-> CachedLine(cache, sorted[k])]
  BY DEF CachedLines
<1>8. Cardinality(ids) \in Nat
  BY <1>3, FS_CardinalityType
<1>9. \A k \in DOMAIN sorted : sorted[k] \in ids
  BY <1>6
<1>10. \A l : CachedLine(cache, l).id = l /\ CachedLine(cache, l).name = Line(l).name
  BY DEF CachedLine
<1>11. ids \subseteq LineIds
  OBVIOUS
<1> HIDE DEF sorted, ids, Line
<1> QED
  BY <1>1, <1>6, <1>7, <1>8, <1>9, <1>10, <1>11

LEMMA CachedOrderIds == CacheInv => \A o \in CachedOrders(cache) : o.id \in OrderIds
<1> SUFFICES ASSUME CacheInv, NEW o \in CachedOrders(cache) PROVE o.id \in OrderIds
  OBVIOUS
<1>1. PICK id \in OrderIds : cache.order[id] # 0 /\ o = The(id, History[cache.order[id]].orders)
  BY DEF CachedOrders
<1>2. \E x \in History[cache.order[id]].orders : x.id = id
  BY <1>1 DEF CacheInv, Stored, Accepted
<1> QED
  BY <1>1, <1>2 DEF The

LEMMA CompareTypes ==
  ASSUME CacheInv, NEW fx, NEW read \in Readings, NEW linked \in OrderIds \cup {NoOrder},
         NEW ls, LinesTyped(ls)
  PROVE  ResultTyped(Compare(cache, fx, read, linked, ls), ls)
<1> DEFINE invoice == [read.invoice EXCEPT
                    !.order = linked, !.supplierName = CachedSupplierName(cache, read.invoice.supplier)]
           order == FindOrder(invoice, CachedOrders(cache))
           orderLines == IF order = NoOrder THEN <<>> ELSE CachedLines(cache, order.id)
           compared == Compare(cache, fx, read, linked, ls)
<1>1. PICK result : result = Match(invoice, Values(ls), order, orderLines, Others, fx, Base, Tol)
  OBVIOUS
<1>2. /\ compared.row = [score |-> result.score, order |-> result.order, duplicate |-> result.duplicate]
      /\ compared.links = [n \in DOMAIN result.pairs |->
                   IF result.pairs[n] = 0 THEN NoLink ELSE orderLines[result.pairs[n]].id]
  BY <1>1, Zenon DEF Compare
<1>3. order # NoOrder => order \in CachedOrders(cache)
  BY DEF FindOrder
<1>4. invoice.order = linked
  BY MatchingAssumption DEF Compared
<1>5. /\ DOMAIN orderLines \subseteq Nat
      /\ \A k \in DOMAIN orderLines :
           /\ orderLines[k].id \in LineIds
           /\ \E v \in Contents : \E l \in History[v].lines : orderLines[k].name = l.name
  <2>1. CASE order = NoOrder
    BY <2>1
  <2>2. CASE order # NoOrder
    BY <2>2, CachedLinesAre
  <2> QED
    BY <2>1, <2>2
<1>6. PICK k \in Nat : DOMAIN ls = 1..k
  BY DEF LinesTyped
<1>7. /\ Len(Values(ls)) = k /\ DOMAIN Values(ls) = 1..k
      /\ \A n \in 1..k : Values(ls)[n].name = ls[n].name
  <2>1. Values(ls) = [n \in 1..k |-> [ref |-> ls[n].ref, name |-> ls[n].name,
                        quantity |-> ls[n].quantity, price |-> ls[n].price]]
    BY <1>6 DEF Values
  <2> QED
    BY <2>1
<1>8. ASSUME NEW n \in 1..k, NEW j \in DOMAIN orderLines
      PROVE  Ratio(Values(ls)[n].name, orderLines[j].name) \in 0..100
  <2>1. PICK r \in Readings : \E m \in DOMAIN r.lines : ls[n].name = r.lines[m].name
    BY <1>6 DEF LinesTyped, Named
  <2>2. PICK v \in Contents : \E l \in History[v].lines : orderLines[j].name = l.name
    BY <1>5
  <2>4. PICK m \in DOMAIN r.lines : ls[n].name = r.lines[m].name
    BY <2>1
  <2>5. PICK l \in History[v].lines : orderLines[j].name = l.name
    BY <2>2
  <2>3. Ratio(r.lines[m].name, l.name) \in 0..100
    BY MatchingAssumption
  <2> QED
    BY <1>7, <2>3, <2>4, <2>5
<1> HIDE DEF invoice, order, orderLines, compared
<1>9. /\ result.pairs \in Seq(DOMAIN orderLines \cup {0})
      /\ DOMAIN result.pairs \subseteq DOMAIN ls
      /\ result.score \in Scores
      /\ result.order = IF OrderConforms(invoice, order) THEN order.id ELSE invoice.order
  <2>1. PICK vs : vs = Values(ls)
    OBVIOUS
  <2>2. result = Match(invoice, vs, order, orderLines, Others, fx, Base, Tol)
    BY <1>1, <2>1
  <2>3. Comparable(vs, orderLines) /\ DOMAIN vs = DOMAIN ls
    BY <1>5, <1>6, <1>7, <1>8, <2>1 DEF Comparable
  <2>4. Judged(result, invoice, vs, order, orderLines)
    BY <2>2, <2>3, MatchResult
  <2> QED
    BY <2>3, <2>4 DEF Judged
<1>10. result.order \in OrderIds \cup {NoOrder}
  BY <1>3, <1>4, <1>9, CachedOrderIds DEF OrderConforms
<1>11. RowTyped(compared.row)
  BY <1>2, <1>9, <1>10 DEF RowTyped
<1>12. \A n \in DOMAIN result.pairs : result.pairs[n] \in DOMAIN orderLines \cup {0}
  BY <1>9
<1>13. /\ DOMAIN compared.links \subseteq DOMAIN ls
       /\ \A n \in DOMAIN compared.links : compared.links[n] \in LineIds \cup {NoLink}
  BY <1>2, <1>5, <1>9, <1>12
<1> QED
  BY <1>11, <1>13 DEF ResultTyped, compared

MemTyped(c) ==
  /\ pc[c] = "reset" => mem[c].reading \in Readings /\ RowTyped(mem[c].row)
  /\ pc[c] \in {"compared", "flushed"} =>
       LinesTyped(mem[c].lines) /\ ResultTyped(mem[c].result, mem[c].lines)
  /\ pc[c] \in {"half", "last"} /\ mem[c].op = "analyse" => mem[c].reading \in Readings

MatchTypes ==
  /\ reading \in Readings /\ RowTyped(row) /\ LinesTyped(lines)
  /\ \A c \in Calls : MemTyped(c)

(* One call moves, and the rows it leaves are typed.                       *)
LEMMA TypesStep ==
  ASSUME MatchTypes, NEW c \in Calls,
         \A d \in Calls \ {c} : pc'[d] = pc[d] /\ mem'[d] = mem[d],
         reading' \in Readings, RowTyped(row)', LinesTyped(lines)', MemTyped(c)'
  PROVE  MatchTypes'
<1>1. ASSUME NEW d \in Calls \ {c} PROVE MemTyped(d)'
  BY DEF MatchTypes, MemTyped
<1> QED
  BY <1>1 DEF MatchTypes

LEMMA TypesKept ==
  ASSUME MatchTypes, UNCHANGED <<reading, row, lines>>
  PROVE  reading' \in Readings /\ RowTyped(row)' /\ LinesTyped(lines)'
BY DEF MatchTypes, RowTyped, LinesTyped

LEMMA TypesEnd ==
  ASSUME MatchTypes, CallInv, NEW c \in Calls, NEW outcome \in {"done", "failed"}, End(c, outcome),
         reading' \in Readings, RowTyped(row)', LinesTyped(lines)'
  PROVE  MatchTypes'
<1>1. pc'[c] = outcome /\ \A d \in Calls \ {c} : pc'[d] = pc[d] /\ mem'[d] = mem[d]
  BY DEF End, CallInv, CallTypes
<1>2. MemTyped(c)'
  BY <1>1 DEF MemTyped
<1> QED
  BY <1>1, <1>2, TypesStep

LEMMA TypesRollback ==
  ASSUME MatchTypes, CallInv, NEW c \in Calls, Rollback(c) PROVE MatchTypes'
BY TypesEnd, TypesKept DEF Rollback

LEMMA TypesBegin ==
  ASSUME MatchTypes, CallInv, NEW c \in Calls, NEW state \in {"reset", "half", "lock"}, NEW m,
         Begin(c, state, m), state = "reset" => m.reading \in Readings /\ RowTyped(m.row),
         state = "half" => m.op # "analyse"
  PROVE  MatchTypes'
<1>1. /\ pc'[c] = state /\ mem'[c] = m /\ UNCHANGED <<reading, row, lines>>
      /\ \A d \in Calls \ {c} : pc'[d] = pc[d] /\ mem'[d] = mem[d]
  BY DEF Begin, CallInv, CallTypes
<1>2. MemTyped(c)'
  BY <1>1 DEF MemTyped
<1> QED
  BY <1>1, <1>2, TypesStep, TypesKept

LEMMA TypesFlush ==
  ASSUME MatchTypes, CallInv, NEW c \in Calls, NEW next,
         <<pc[c], next>> \in {<<"compared", "flushed">>, <<"lock", "read">>, <<"half", "last">>},
         Flush(c, next), UNCHANGED mem
  PROVE  MatchTypes'
<1>1. /\ pc'[c] = next /\ UNCHANGED <<reading, row, lines>>
      /\ \A d \in Calls \ {c} : pc'[d] = pc[d] /\ mem'[d] = mem[d]
  BY DEF Flush, CallInv, CallTypes
<1>2. MemTyped(c)'
  BY <1>1 DEF MatchTypes, MemTyped
<1> QED
  BY <1>1, <1>2, TypesStep, TypesKept

LEMMA TypesMatchOpen ==
  ASSUME MatchTypes, CallInv, NEW c \in Calls, MatchOpen(c) PROVE MatchTypes'
<1>1. PICK m : /\ Begin(c, "reset", m) /\ m.reading = reading /\ m.row = row
  BY DEF MatchOpen
<1> QED
  BY <1>1, TypesBegin DEF MatchTypes

LEMMA TypesMatchReset ==
  ASSUME MatchTypes, CallInv, CacheInv, NEW c \in Calls, MatchReset(c) PROVE MatchTypes'
<1> DEFINE result == Compare(cache, rates, mem[c].reading, mem[c].row.order, lines)
<1>1. /\ pc[c] = "reset" /\ pc'[c] = "compared" /\ UNCHANGED <<reading, row, lines>>
      /\ mem'[c].lines = lines /\ mem'[c].result = result
      /\ \A d \in Calls \ {c} : pc'[d] = pc[d] /\ mem'[d] = mem[d]
  BY DEF MatchReset, Flush, CallInv, CallTypes
<1>2. mem[c].reading \in Readings /\ RowTyped(mem[c].row) /\ LinesTyped(lines)
  BY <1>1 DEF MatchTypes, MemTyped
<1>3. ResultTyped(result, lines)
  BY <1>2, CompareTypes DEF RowTyped
<1> HIDE DEF result
<1>4. MemTyped(c)'
  BY <1>1, <1>2, <1>3 DEF MemTyped
<1> QED
  BY <1>1, <1>4, TypesStep, TypesKept

LEMMA TypesMatchCommit ==
  ASSUME MatchTypes, CallInv, KeepInv, NEW c \in Calls, MatchCommit(c) PROVE MatchTypes'
<1> DEFINE m == mem[c]
<1>1. CASE Rollback(c)
  BY <1>1, TypesRollback
<1>2. CASE ~Rollback(c)
  <2>1. /\ pc[c] = "flushed" /\ End(c, "done") /\ UNCHANGED reading
        /\ row' = [f \in DOMAIN row |-> IF m.result.row[f] = m.was[f] THEN row[f] ELSE m.result.row[f]]
        /\ lines' = [n \in DOMAIN lines |->
                       IF LineRow(lines[n]) \in Needs(c)
                       THEN [lines[n] EXCEPT !.link = m.result.links[n]] ELSE lines[n]]
    BY <1>2 DEF MatchCommit
  <2>2. LinesTyped(m.lines) /\ ResultTyped(m.result, m.lines)
    BY <2>1 DEF MatchTypes, MemTyped
  <2>3. RowTyped(row')
    <3>1. row = [score |-> row.score, order |-> row.order, duplicate |-> row.duplicate]
      BY DEF MatchTypes, RowTyped
    <3>2. DOMAIN row = {"score", "order", "duplicate"}
      BY <3>1
    <3>3. row' = [score |-> row'.score, order |-> row'.order, duplicate |-> row'.duplicate]
      BY <2>1, <3>2
    <3>4. /\ row'.order \in {row.order, m.result.row.order}
          /\ row'.score \in {row.score, m.result.row.score}
      BY <2>1, <3>2
    <3> QED
      BY <2>2, <3>3, <3>4 DEF MatchTypes, RowTyped, ResultTyped
  <2>4. ASSUME NEW n \in DOMAIN lines, LineRow(lines[n]) \in Needs(c)
        PROVE  n \in DOMAIN m.result.links
    <3>1. Needs(c) = {LineRow(m.lines[k]) : k \in Relinked(m)}
      BY <2>1 DEF Needs
    <3>2. PICK k \in Relinked(m) : LineRow(lines[n]) = LineRow(m.lines[k])
      BY <2>4, <3>1
    <3>3. k \in DOMAIN m.result.links /\ k \in DOMAIN m.lines
      BY <2>2, <3>2 DEF Relinked, ResultTyped
    <3>4. m.lines[k].number = k /\ lines[n].number = n
      BY <2>2, <3>3 DEF MatchTypes, LinesTyped
    <3> QED
      BY <3>2, <3>3, <3>4 DEF LineRow
  <2>5. ASSUME NEW n \in DOMAIN lines
        PROVE  /\ lines'[n].number = n /\ lines'[n].link \in LineIds \cup {NoLink}
               /\ Named(lines'[n].name)
    <3>1. DOMAIN lines[n] = LineFields
      BY DEF KeepInv, Lined
    <3>2. /\ lines[n].number = n /\ lines[n].link \in LineIds \cup {NoLink} /\ Named(lines[n].name)
      BY DEF MatchTypes, LinesTyped
    <3>3. CASE LineRow(lines[n]) \in Needs(c)
      <4>1. m.result.links[n] \in LineIds \cup {NoLink}
        BY <2>2, <2>4, <3>3 DEF ResultTyped
      <4>2. lines'[n] = [lines[n] EXCEPT !.link = m.result.links[n]]
        BY <2>1, <3>3
      <4>3. /\ lines'[n].number = lines[n].number /\ lines'[n].name = lines[n].name
            /\ lines'[n].link = m.result.links[n]
        BY <3>1, <4>2 DEF LineFields
      <4> QED
        BY <3>2, <4>1, <4>3
    <3>4. CASE LineRow(lines[n]) \notin Needs(c)
      <4>1. lines'[n] = lines[n]
        BY <2>1, <3>4
      <4> QED
        BY <3>2, <4>1
    <3> QED
      BY <3>3, <3>4
  <2>6. LinesTyped(lines')
    BY <2>1, <2>5 DEF MatchTypes, LinesTyped
  <2>7. reading' \in Readings /\ RowTyped(row)' /\ LinesTyped(lines)'
    BY <2>1, <2>3, <2>6 DEF MatchTypes, RowTyped, LinesTyped
  <2> QED
    BY <2>1, <2>7, TypesEnd
<1> QED
  BY <1>1, <1>2

LEMMA TypesConfirmCommit ==
  ASSUME MatchTypes, CallInv, KeepInv, NEW c \in Calls, ConfirmCommit(c) PROVE MatchTypes'
<1>1. CASE Rollback(c)
  BY <1>1, TypesRollback
<1>2. CASE ~Rollback(c)
  <2>1. /\ pc[c] = "last" /\ mem[c].op # "analyse" /\ End(c, "done") /\ UNCHANGED <<reading, row>>
        /\ lines' = [n \in DOMAIN lines |-> [f \in DOMAIN lines[n] |->
                       IF Written(c, lines[n], f) = {} THEN lines[n][f]
                       ELSE (CHOOSE s \in Written(c, lines[n], f) : TRUE).values[f]]]
    BY <1>2 DEF ConfirmCommit, Written
  <2>2. EditOK(c)
    BY <2>1 DEF KeepInv, Editing
  <2>3. /\ DOMAIN lines' = DOMAIN lines
        /\ \A n \in DOMAIN lines :
             /\ lines'[n].number = n
             /\ \A f \in LineFields :
                  \/ lines'[n][f] = lines[n][f] /\ Written(c, lines[n], f) = {}
                  \/ \E s \in Written(c, lines[n], f) : lines'[n][f] = s.values[f]
    BY <2>1, <2>2, EditedLines
  <2>4. ASSUME NEW n \in DOMAIN lines
        PROVE  lines'[n].link = lines[n].link /\ lines'[n].name = lines[n].name
    <3>1. Written(c, lines[n], "link") = {} /\ Written(c, lines[n], "name") = {}
      BY <2>2 DEF Written, EditOK, Confirmed
    <3> QED
      BY <2>3, <3>1 DEF LineFields
  <2>5. LinesTyped(lines')
    BY <2>3, <2>4 DEF MatchTypes, LinesTyped
  <2>6. reading' \in Readings /\ RowTyped(row)' /\ LinesTyped(lines)'
    BY <2>1, <2>5 DEF MatchTypes, RowTyped, LinesTyped
  <2> QED
    BY <2>1, <2>6, TypesEnd
<1> QED
  BY <1>1, <1>2

LEMMA TypesAnalyseRead ==
  ASSUME MatchTypes, CallInv, NEW c \in Calls, NEW r \in Readings, NEW first, AnalyseRead(c, r, first)
  PROVE  MatchTypes'
<1>1. /\ pc'[c] = "half" /\ mem'[c].reading = r /\ UNCHANGED <<reading, row, lines>>
      /\ \A d \in Calls \ {c} : pc'[d] = pc[d] /\ mem'[d] = mem[d]
  BY DEF AnalyseRead, CallInv, CallTypes
<1>2. MemTyped(c)'
  BY <1>1 DEF MemTyped
<1> QED
  BY <1>1, <1>2, TypesStep, TypesKept

(* The lines of a reading, as rows.                                        *)
LEMMA ReadingTyped ==
  ASSUME NEW r \in Readings, NEW ls, DOMAIN ls = DOMAIN r.lines,
         \A n \in DOMAIN ls : ls[n].number = n /\ ls[n].link = NoLink /\ ls[n].name = r.lines[n].name
  PROVE  LinesTyped(ls)
<1>1. DOMAIN r.lines = 1..Len(r.lines) /\ Len(r.lines) \in Nat
  BY MatchingAssumption
<1> QED
  BY <1>1 DEF LinesTyped, Named

LEMMA TypesAnalyseCommit ==
  ASSUME MatchTypes, CallInv, NEW c \in Calls, AnalyseCommit(c) PROVE MatchTypes'
<1>1. /\ pc[c] = "last" /\ mem[c].op = "analyse" /\ End(c, "done") /\ UNCHANGED row
      /\ reading' = mem[c].reading /\ lines' = Extracted(c, mem[c].reading)
  BY DEF AnalyseCommit
<1>2. reading' \in Readings
  BY <1>1 DEF MatchTypes, MemTyped
<1>3. LinesTyped(lines')
  BY <1>1, <1>2, ReadingTyped DEF Extracted
<1>4. RowTyped(row)' /\ LinesTyped(lines)'
  BY <1>1, <1>3 DEF MatchTypes, RowTyped, LinesTyped
<1> QED
  BY <1>1, <1>2, <1>4, TypesEnd

LEMMA NextTypes == MatchTypes /\ CallInv /\ CacheInv /\ KeepInv /\ [Next]_vars => MatchTypes'
<1> SUFFICES ASSUME MatchTypes, CallInv, CacheInv, KeepInv, [Next]_vars PROVE MatchTypes'
  OBVIOUS
<1>1. ASSUME NEW c \in Calls, MatchStep(c) PROVE MatchTypes'
  <2>1. ASSUME MatchInvoice(c) PROVE MatchTypes'
    BY <2>1, TypesFlush DEF MatchInvoice
  <2> QED
    BY <1>1, <2>1, TypesMatchOpen, TypesMatchReset, TypesMatchCommit DEF MatchStep
<1>2. ASSUME NEW c \in Calls, ConfirmStep(c) PROVE MatchTypes'
  <2>1. ASSUME NEW p \in Payloads, NEW first, ConfirmOpen(c, p, first) PROVE MatchTypes'
    <3>1. PICK m : Begin(c, "half", m) /\ m.op = "confirm"
      BY <2>1 DEF ConfirmOpen
    <3> QED
      BY <3>1, TypesBegin
  <2>2. ASSUME NEW a \in anomalies, ResolveOpen(c, a) PROVE MatchTypes'
    <3>1. PICK m : Begin(c, "half", m) /\ m.op = "resolve"
      BY <2>2 DEF ResolveOpen
    <3> QED
      BY <3>1, TypesBegin
  <2>3. ASSUME Half(c) PROVE MatchTypes'
    BY <2>3, TypesFlush, TypesRollback DEF Half
  <2> QED
    BY <1>2, <2>1, <2>2, <2>3, TypesConfirmCommit DEF ConfirmStep
<1>3. ASSUME NEW c \in Calls, AnalyseStep(c) PROVE MatchTypes'
  <2>1. ASSUME AnalyseOpen(c) PROVE MatchTypes'
    BY <2>1, TypesBegin DEF AnalyseOpen
  <2>2. ASSUME AnalyseLock(c) PROVE MatchTypes'
    BY <2>2, TypesFlush, TypesRollback DEF AnalyseLock
  <2> QED
    BY <1>3, <2>1, <2>2, TypesAnalyseRead, TypesAnalyseCommit DEF AnalyseStep
<1>4. ASSUME NEW c \in Calls, CallLost(c) \/ DeadlockVictim(c) PROVE MatchTypes'
  BY <1>4, TypesRollback DEF CallLost, DeadlockVictim
<1>5. CASE UNCHANGED mvars
  <2>1. UNCHANGED <<reading, row, lines, pc, mem>>
    BY <1>5 DEF mvars
  <2>2. \A c \in Calls : MemTyped(c)'
    BY <2>1 DEF MatchTypes, MemTyped
  <2> QED
    BY <2>1, <2>2, TypesKept DEF MatchTypes
<1> QED
  BY <1>1, <1>2, <1>3, <1>4, <1>5 DEF Next, vars

LEMMA InitTypes == Init => MatchTypes
<1> SUFFICES ASSUME Init PROVE MatchTypes
  OBVIOUS
<1>1. PICK r \in Readings :
        /\ reading = r
        /\ lines = [n \in DOMAIN r.lines |-> [by |-> Origin, number |-> n, link |-> NoLink,
                      ref |-> r.lines[n].ref, name |-> r.lines[n].name,
                      quantity |-> r.lines[n].quantity, price |-> r.lines[n].price]]
  BY DEF Init
<1>2. LinesTyped(lines)
  BY <1>1, ReadingTyped
<1>3. RowTyped(row)
  BY DEF Init, RowTyped
<1>4. \A c \in Calls : MemTyped(c)
  BY DEF Init, MemTyped
<1> QED
  BY <1>1, <1>2, <1>3, <1>4 DEF MatchTypes

(* The rows of the invoice, and what the calls hold of them, are typed.    *)
THEOREM TypesInvariant == Spec => []MatchTypes
<1> QED
  BY InitTypes, NextTypes, CallInvariant, CacheInvariant, KeepInvariant, PTL DEF Spec

(* Whatever the cache holds when a match compares, the score is a share of *)
(* the whole weight and the links are lines of Odoo.                       *)
THEOREM TypesAreRespected == Spec => []TypeOK
<1>1. MatchTypes /\ CallInv /\ CacheInv => TypeOK
  <2> SUFFICES ASSUME MatchTypes, CallInv, CacheInv PROVE TypeOK
    OBVIOUS
  <2>1. OTypeOK
    BY DEF CacheInv, CacheTypes, OTypeOK
  <2>2. /\ reading \in Readings /\ row.order \in OrderIds \cup {NoOrder}
        /\ row.score \in Scores \cup {NoAmount}
        /\ \A n \in DOMAIN lines : lines[n].number = n /\ lines[n].link \in LineIds \cup {NoLink}
    BY DEF MatchTypes, RowTyped, LinesTyped
  <2>3. /\ \A a \in anomalies : a.by \in Calls /\ a.resolved \in BOOLEAN
        /\ pc \in [Calls -> Progress]
    BY DEF CallInv, CallTypes, Fresh
  <2>5. pc \in [Calls -> {"idle", "reset", "compared", "flushed", "lock", "read", "half", "last",
                         "done", "failed"}]
    BY <2>3 DEF Progress
  <2> QED
    BY <2>1, <2>2, <2>3, <2>5 DEF TypeOK
<1> QED
  BY <1>1, TypesInvariant, CallInvariant, CacheInvariant, PTL

-----------------------------------------------------------------------------
(* A pass repeated with the same cache and rates judges the same: the order*)
(* that the first one linked is the one the reference names, or the one    *)
(* that was linked already.                                                *)
SameInvoice(a, b) == \A f \in Compared \ {"order"} : a[f] = b[f]

(* The whole comparison, once its parts that read the invoice are known.   *)
Judgement(duplicate, supplierOk, conform, linked, factor, amounts, ls, order, orderLines, tol) ==
  LET found  == order # NoOrder
      pairs  == IF conform THEN MatchLines(ls, orderLines)
                ELSE IF found THEN [n \in DOMAIN ls |-> 0]
                ELSE <<>>
      paired == {n \in DOMAIN pairs : pairs[n] # 0}
      gaps   == UNION {Gap(~duplicate, "DUPLICATE", "invoice", 0),
                       Gap(supplierOk, "SUPPLIER", "invoice", 0),
                       Gap(conform, "PURCHASE_ORDER", "invoice", 0),
                       IF conform THEN LineGaps(ls, orderLines, pairs, factor, tol) ELSE {},
                       amounts}
  IN [gaps      |-> gaps,
      pairs     |-> pairs,
      order     |-> linked,
      duplicate |-> duplicate,
      score     |-> Score(supplierOk, conform, found, pairs,
                          {n \in paired : QuantityConforms(ls[n], orderLines[pairs[n]], tol)},
                          {n \in paired : PriceConforms(ls[n], orderLines[pairs[n]], factor, tol)},
                          conform /\ amounts = {})]

LEMMA SameJudgement ==
  ASSUME NEW a, NEW b, SameInvoice(a, b), NEW ls, NEW order, NEW orderLines, NEW others, NEW fx, NEW base, NEW tol,
         OrderConforms(a, order)
  PROVE  Match(a, ls, order, orderLines, others, fx, base, tol)
           = Match(b, ls, order, orderLines, others, fx, base, tol)
<1>1. /\ a.currency = b.currency /\ a.readSupplier = b.readSupplier /\ a.supplierName = b.supplierName
      /\ a.supplier = b.supplier /\ a.number = b.number /\ a.readNumber = b.readNumber
      /\ a.ht = b.ht /\ a.tax = b.tax /\ a.ttc = b.ttc
  BY DEF SameInvoice, Compared
<1>2. OrderConforms(a, order) = OrderConforms(b, order)
  BY <1>1 DEF OrderConforms
<1>3. IsDuplicate(a, others) = IsDuplicate(b, others)
  BY <1>1, Zenon DEF IsDuplicate
<1>4. SupplierConforms(a) = SupplierConforms(b)
  BY <1>1, Zenon DEF SupplierConforms
<1>5. FxFactor(a, order, fx, base) = FxFactor(b, order, fx, base)
  BY <1>1, Zenon DEF FxFactor
<1>6. \A p, x : AmountGaps(a, order, orderLines, p, x, tol) = AmountGaps(b, order, orderLines, p, x, tol)
  <2>1. \A p, x : ExclTaxConforms(a, orderLines, p, x, tol) = ExclTaxConforms(b, orderLines, p, x, tol)
    BY <1>1, Zenon DEF ExclTaxConforms
  <2>2. \A x : InclTaxConforms(a, order, x, tol) = InclTaxConforms(b, order, x, tol)
    BY <1>1, Zenon DEF InclTaxConforms
  <2>3. \A x : OrderTaxConforms(a, order, orderLines, x, tol) = OrderTaxConforms(b, order, orderLines, x, tol)
    BY <1>1, Zenon DEF OrderTaxConforms
  <2>4. InternalTaxConforms(a, tol) = InternalTaxConforms(b, tol)
    BY <1>1, Zenon DEF InternalTaxConforms
  <2> QED
    BY <2>1, <2>2, <2>3, <2>4, Zenon DEF AmountGaps
<1> DEFINE found == order # NoOrder
           Factor(i) == IF found THEN FxFactor(i, order, fx, base) ELSE [num |-> 1, den |-> 1]
           Pairs(i) == IF OrderConforms(i, order) THEN MatchLines(ls, orderLines)
                       ELSE IF found THEN [n \in DOMAIN ls |-> 0]
                       ELSE <<>>
           Amounts(i) == IF OrderConforms(i, order)
                         THEN AmountGaps(i, order, orderLines, Pairs(i), Factor(i), tol) ELSE {}
           Linked(i) == IF OrderConforms(i, order) THEN order.id ELSE i.order
<1>7. \A i : Match(i, ls, order, orderLines, others, fx, base, tol)
              = Judgement(IsDuplicate(i, others), SupplierConforms(i), OrderConforms(i, order), Linked(i),
                          Factor(i), Amounts(i), ls, order, orderLines, tol)
  BY Zenon DEF Match, Judgement
<1>8. Factor(a) = Factor(b)
  BY <1>5
<1>9. Pairs(a) = Pairs(b)
  BY <1>2
<1>10. Linked(a) = Linked(b)
  BY <1>2
<1> HIDE DEF Factor, Pairs
<1>11. Amounts(a) = Amounts(b)
  BY <1>2, <1>6, <1>8, <1>9
<1> HIDE DEF Amounts, Linked
<1> QED
  BY <1>2, <1>3, <1>4, <1>7, <1>8, <1>10, <1>11

(* The invoice that is compared, and the order found for it.               *)
Against(from, read, linked) ==
  [read.invoice EXCEPT !.order = linked, !.supplierName = CachedSupplierName(from, read.invoice.supplier)]

OrderLines(from, order) == IF order = NoOrder THEN <<>> ELSE CachedLines(from, order.id)

Verdict(result, orderLines) ==
  [row   |-> [score |-> result.score, order |-> result.order, duplicate |-> result.duplicate],
   gaps  |-> result.gaps,
   links |-> [n \in DOMAIN result.pairs |->
                IF result.pairs[n] = 0 THEN NoLink ELSE orderLines[result.pairs[n]].id]]

Judge(from, fx, invoice, order, vs) ==
  Verdict(Match(invoice, vs, order, OrderLines(from, order), Others, fx, Base, Tol), OrderLines(from, order))

LEMMA CompareIsJudge ==
  ASSUME NEW from, NEW fx, NEW read, NEW linked, NEW ls
  PROVE  Compare(from, fx, read, linked, ls)
           = Judge(from, fx, Against(from, read, linked),
                   FindOrder(Against(from, read, linked), CachedOrders(from)), Values(ls))
BY Zenon DEF Compare, Judge, Verdict, OrderLines, Against

LEMMA JudgeOrder ==
  ASSUME NEW from, NEW fx, NEW invoice, NEW order, NEW vs
  PROVE  Judge(from, fx, invoice, order, vs).row.order
           = IF OrderConforms(invoice, order) THEN order.id ELSE invoice.order
<1>1. PICK result : result = Match(invoice, vs, order, OrderLines(from, order), Others, fx, Base, Tol)
  OBVIOUS
<1>2. result.order = IF OrderConforms(invoice, order) THEN order.id ELSE invoice.order
  BY <1>1 DEF Match
<1>3. Judge(from, fx, invoice, order, vs) = Verdict(result, OrderLines(from, order))
  BY <1>1 DEF Judge
<1> QED
  BY <1>2, <1>3 DEF Verdict

LEMMA CompareAgain ==
  ASSUME NEW from, NEW fx, NEW read \in Readings, NEW linked, NEW ls,
         NEW result, result = Compare(from, fx, read, linked, ls)
  PROVE  Compare(from, fx, read, result.row.order, ls) = result
<1> DEFINE I(l) == Against(from, read, l)
           O(l) == FindOrder(I(l), CachedOrders(from))
           named(l) == {o \in CachedOrders(from) : I(l).reference # "" /\ o.reference = I(l).reference}
<1>1. \A l : Compare(from, fx, read, l, ls) = Judge(from, fx, I(l), O(l), Values(ls))
  BY CompareIsJudge
<1>2. \A l : I(l).order = l /\ I(l).reference = read.invoice.reference
  BY MatchingAssumption DEF Compared, Against
<1>3. \A k, l : SameInvoice(I(k), I(l))
  BY MatchingAssumption DEF Compared, Against, SameInvoice
<1>4. result.row.order = IF OrderConforms(I(linked), O(linked)) THEN O(linked).id ELSE linked
  BY <1>1, <1>2, JudgeOrder
<1>5. CASE result.row.order = linked
  BY <1>5
<1>6. CASE result.row.order # linked
  <2>1. OrderConforms(I(linked), O(linked)) /\ O(linked).id # linked
    BY <1>4, <1>6
  <2>2. named(linked) # {}
    <3>1. SUFFICES ASSUME named(linked) = {} PROVE FALSE
      OBVIOUS
    <3>2. O(linked) # NoOrder
      BY <2>1 DEF OrderConforms
    <3>3. O(linked) \in {o \in CachedOrders(from) : o.id = I(linked).order}
      BY <3>1, <3>2 DEF FindOrder
    <3> QED
      BY <1>2, <2>1, <3>3
  <2>3. \A l : named(l) = named(linked)
    BY <1>2
  <2>4. \A l : O(l) = CHOOSE o \in named(l) : TRUE
    BY <2>2, <2>3 DEF FindOrder
  <2>5. O(result.row.order) = O(linked)
    BY <2>3, <2>4
  <2> HIDE DEF I, O
  <2>6. Match(I(linked), Values(ls), O(linked), OrderLines(from, O(linked)), Others, fx, Base, Tol)
        = Match(I(result.row.order), Values(ls), O(linked), OrderLines(from, O(linked)), Others, fx, Base, Tol)
    BY <1>3, <2>1, SameJudgement
  <2>7. Judge(from, fx, I(linked), O(linked), Values(ls))
        = Judge(from, fx, I(result.row.order), O(result.row.order), Values(ls))
    BY <2>5, <2>6 DEF Judge
  <2> QED
    BY <1>1, <2>7
<1> QED
  BY <1>5, <1>6

LEMMA SameValues ==
  ASSUME NEW from, NEW fx, NEW read, NEW linked, NEW ks, NEW ls, Values(ks) = Values(ls)
  PROVE  Compare(from, fx, read, linked, ks) = Compare(from, fx, read, linked, ls)
BY CompareIsJudge

-----------------------------------------------------------------------------
(* A pass under way that has met nobody, and what it has read.             *)
Alone(c) == c \in Open /\ \A p \in met : c \notin p

PassOK(c) ==
  /\ pc[c] = "reset" =>
       mem[c].reading = reading /\ mem[c].row = row /\ mem[c].delete = AnomalyRows(Reset)
  /\ pc[c] \in {"compared", "flushed"} =>
       /\ mem[c].was = row /\ mem[c].lines = lines /\ mem[c].delete = AnomalyRows(Reset)
       /\ mem[c].result = Compare(mem[c].seen[1], mem[c].seen[2], reading, row.order, lines)

(* What the last commit left, if it is a pass that met nobody.             *)
Applied ==
  last # NoPass =>
    LET found == {a \in anomalies : a.gap[1] \in MatchingCategories}
        links == last.result.links
    IN /\ row = last.result.row
       /\ {a.gap : a \in found} = last.result.gaps
       /\ \A a, b \in found : ~a.resolved /\ (a.gap = b.gap => a = b)
       /\ \A n \in DOMAIN links : lines[n].link = links[n]
       /\ last.result = Compare(last.seen[1], last.seen[2], reading, row.order, lines)

PassInv == Applied /\ \A c \in Calls : Alone(c) => PassOK(c)

(* One call moves: another that is open meets it, or has met it.           *)
LEMMA PassStep ==
  ASSUME PassInv, CallInv, NEW c \in Calls, pc[c] \notin {"done", "failed"},
         \A d \in Calls \ {c} : pc'[d] = pc[d],
         IF pc[c] = "idle" THEN met' = met \cup {{c, d} : d \in Open} ELSE met' = met,
         Applied', Alone(c)' => PassOK(c)'
  PROVE  PassInv'
<1>1. ASSUME NEW d \in Calls \ {c}, Alone(d)' PROVE FALSE
  <2>1. d \in Open /\ \A p \in met' : d \notin p
    BY <1>1 DEF Alone, Open
  <2>2. CASE pc[c] = "idle"
    <3>1. {c, d} \in met'
      BY <2>1, <2>2
    <3> QED
      BY <2>1, <3>1
  <2>3. CASE pc[c] # "idle"
    <3>1. c \in Open
      BY <2>3 DEF Open
    <3>2. {c, d} \in met
      BY <2>1, <3>1 DEF CallInv, OpenMet
    <3> QED
      BY <2>1, <2>3, <3>2
  <2> QED
    BY <2>2, <2>3
<1> QED
  BY <1>1 DEF PassInv

LEMMA AppliedKept ==
  ASSUME PassInv, UNCHANGED <<reading, lines, row, anomalies, last>> PROVE Applied'
BY DEF PassInv, Applied

LEMMA PassQuiet ==
  ASSUME PassInv, CallInv, NEW c \in Calls, pc[c] \notin {"done", "failed"},
         \A d \in Calls \ {c} : pc'[d] = pc[d], pc'[c] \notin {"reset", "compared", "flushed"},
         IF pc[c] = "idle" THEN met' = met \cup {{c, d} : d \in Open} ELSE met' = met,
         Applied'
  PROVE  PassInv'
<1>1. PassOK(c)'
  BY DEF PassOK
<1> QED
  BY <1>1, PassStep

LEMMA PassEnds ==
  ASSUME PassInv, CallInv, NEW c \in Open, NEW outcome \in {"done", "failed"}, End(c, outcome), Applied'
  PROVE  PassInv'
<1>1. /\ pc'[c] = outcome /\ \A d \in Calls \ {c} : pc'[d] = pc[d]
      /\ met' = met /\ c \in Calls /\ pc[c] \notin {"idle", "done", "failed"}
  BY DEF End, CallInv, CallTypes, Open
<1> QED
  BY <1>1, PassQuiet

LEMMA PassRollback ==
  ASSUME PassInv, CallInv, NEW c \in Open, Rollback(c) PROVE PassInv'
BY AppliedKept, PassEnds DEF Rollback

LEMMA PassCommits ==
  ASSUME PassInv, CallInv, NEW c \in Open, End(c, "done"), last' = NoPass PROVE PassInv'
<1>1. Applied'
  BY DEF Applied
<1> QED
  BY <1>1, PassEnds

LEMMA PassBegins ==
  ASSUME PassInv, CallInv, NEW c \in Calls, NEW state \in {"lock", "half"}, NEW m, Begin(c, state, m)
  PROVE  PassInv'
<1>1. /\ pc[c] = "idle" /\ pc'[c] = state /\ \A d \in Calls \ {c} : pc'[d] = pc[d]
      /\ met' = met \cup {{c, d} : d \in Open} /\ UNCHANGED <<reading, lines, row, anomalies, last>>
  BY DEF Begin, CallInv, CallTypes
<1> QED
  BY <1>1, AppliedKept, PassQuiet

LEMMA PassFlushes ==
  ASSUME PassInv, CallInv, NEW c \in Calls, NEW next,
         <<pc[c], next>> \in {<<"lock", "read">>, <<"half", "last">>}, Flush(c, next)
  PROVE  PassInv'
<1>1. /\ pc'[c] = next /\ \A d \in Calls \ {c} : pc'[d] = pc[d]
      /\ UNCHANGED <<reading, lines, row, anomalies, last, met>>
  BY DEF Flush, CallInv, CallTypes
<1> QED
  BY <1>1, AppliedKept, PassQuiet

LEMMA PassMatchOpen ==
  ASSUME PassInv, CallInv, NEW c \in Calls, MatchOpen(c) PROVE PassInv'
<1> DEFINE m == [op |-> "match", reading |-> reading, row |-> row, delete |-> AnomalyRows(Reset)]
<1>1. /\ pc[c] = "idle" /\ pc'[c] = "reset" /\ mem'[c] = m /\ \A d \in Calls \ {c} : pc'[d] = pc[d]
      /\ met' = met \cup {{c, d} : d \in Open} /\ UNCHANGED <<reading, lines, row, anomalies, last>>
  BY DEF MatchOpen, Begin, CallInv, CallTypes
<1>2. m.reading = reading /\ m.row = row /\ m.delete = AnomalyRows(Reset)
  OBVIOUS
<1>3. AnomalyRows(Reset)' = AnomalyRows(Reset)
  BY <1>1 DEF AnomalyRows, AnomalyRow, Reset
<1> HIDE DEF m
<1>4. PassOK(c)'
  BY <1>1, <1>2, <1>3 DEF PassOK
<1> QED
  BY <1>1, <1>4, AppliedKept, PassStep

LEMMA PassMatchReset ==
  ASSUME PassInv, CallInv, NEW c \in Calls, MatchReset(c) PROVE PassInv'
<1> DEFINE result == Compare(cache, rates, mem[c].reading, mem[c].row.order, lines)
           m == [op |-> "match", was |-> mem[c].row, delete |-> mem[c].delete,
                 lines |-> lines, seen |-> <<cache, rates>>, result |-> result]
<1>1. /\ pc[c] = "reset" /\ pc'[c] = "compared" /\ mem'[c] = m /\ \A d \in Calls \ {c} : pc'[d] = pc[d]
      /\ UNCHANGED <<reading, lines, row, anomalies, last, met>>
  BY DEF MatchReset, Flush, CallInv, CallTypes
<1>2. ASSUME Alone(c)' PROVE PassOK(c)'
  <2>1. Alone(c)
    BY <1>1, <1>2 DEF Alone, Open
  <2>2. mem[c].reading = reading /\ mem[c].row = row /\ mem[c].delete = AnomalyRows(Reset)
    BY <1>1, <2>1 DEF PassInv, PassOK
  <2>3. AnomalyRows(Reset)' = AnomalyRows(Reset)
    BY <1>1 DEF AnomalyRows, AnomalyRow, Reset
  <2>4. /\ m.was = row /\ m.lines = lines /\ m.delete = AnomalyRows(Reset)
        /\ m.result = Compare(m.seen[1], m.seen[2], reading, row.order, lines)
    BY <2>2
  <2> HIDE DEF m
  <2> QED
    BY <1>1, <2>3, <2>4 DEF PassOK
<1> QED
  BY <1>1, <1>2, AppliedKept, PassStep

LEMMA PassMatchInvoice ==
  ASSUME PassInv, CallInv, NEW c \in Calls, MatchInvoice(c) PROVE PassInv'
<1>1. /\ pc[c] = "compared" /\ pc'[c] = "flushed" /\ mem'[c] = mem[c] /\ \A d \in Calls \ {c} : pc'[d] = pc[d]
      /\ UNCHANGED <<reading, lines, row, anomalies, last, met>>
  BY DEF MatchInvoice, Flush, CallInv, CallTypes
<1>2. ASSUME Alone(c)' PROVE PassOK(c)'
  <2>1. Alone(c)
    BY <1>1, <1>2 DEF Alone, Open
  <2>2. AnomalyRows(Reset)' = AnomalyRows(Reset)
    BY <1>1 DEF AnomalyRows, AnomalyRow, Reset
  <2> QED
    BY <1>1, <2>1, <2>2 DEF PassInv, PassOK
<1> QED
  BY <1>1, <1>2, AppliedKept, PassStep

(* The links a commit writes are all that it changes of the lines.         *)
LEMMA RelinkedLines ==
  ASSUME MatchTypes, KeepInv, CallInv, NEW c \in Calls, pc[c] = "flushed", mem[c].lines = lines,
         lines' = [n \in DOMAIN lines |->
                     IF LineRow(lines[n]) \in Needs(c)
                     THEN [lines[n] EXCEPT !.link = mem[c].result.links[n]] ELSE lines[n]]
  PROVE  /\ \A n \in DOMAIN mem[c].result.links : lines'[n].link = mem[c].result.links[n]
         /\ Values(lines') = Values(lines)
<1> DEFINE m == mem[c]
<1>1. Needs(c) = {LineRow(lines[n]) : n \in Relinked(m)}
  BY DEF Needs
<1>2. DOMAIN m.result.links \subseteq DOMAIN lines
  BY DEF MatchTypes, MemTyped, ResultTyped
<1>3. ASSUME NEW n \in DOMAIN lines
      PROVE  /\ lines'[n].ref = lines[n].ref /\ lines'[n].name = lines[n].name
             /\ lines'[n].quantity = lines[n].quantity /\ lines'[n].price = lines[n].price
             /\ lines'[n].link = IF LineRow(lines[n]) \in Needs(c) THEN m.result.links[n] ELSE lines[n].link
  <2>1. DOMAIN lines[n] = LineFields
    BY DEF KeepInv, Lined
  <2> QED
    BY <2>1 DEF LineFields
<1>4. ASSUME NEW n \in DOMAIN m.result.links PROVE lines'[n].link = m.result.links[n]
  <2>1. CASE m.lines[n].link = m.result.links[n]
    BY <1>2, <1>3, <2>1
  <2>2. CASE m.lines[n].link # m.result.links[n]
    <3>1. LineRow(lines[n]) \in Needs(c)
      BY <1>1, <2>2 DEF Relinked
    <3> QED
      BY <1>2, <1>3, <3>1
  <2> QED
    BY <2>1, <2>2
<1>5. DOMAIN lines' = DOMAIN lines
  OBVIOUS
<1>6. Values(lines') = Values(lines)
  BY <1>3, <1>5 DEF Values
<1> QED
  BY <1>4, <1>6

(* The open gaps after a commit that deleted those of the passes before.   *)
LEMMA ReplacedGaps ==
  ASSUME NEW c, NEW gaps, \A g \in gaps : g[1] \in MatchingCategories,
         anomalies' = {a \in anomalies : AnomalyRow(a) \notin AnomalyRows(Reset)}
                      \cup {[by |-> c, gap |-> g, resolved |-> FALSE] : g \in gaps}
  PROVE  {a \in anomalies' : a.gap[1] \in MatchingCategories}
           = {[by |-> c, gap |-> g, resolved |-> FALSE] : g \in gaps}
<1>1. \A a \in anomalies : a.gap[1] \in MatchingCategories => AnomalyRow(a) \in AnomalyRows(Reset)
  BY DEF AnomalyRows, Reset
<1>2. \A b \in {[by |-> c, gap |-> g, resolved |-> FALSE] : g \in gaps} : b.gap \in gaps
  OBVIOUS
<1> QED
  BY <1>1, <1>2

LEMMA PassMatchCommit ==
  ASSUME PassInv, CallInv, MatchTypes, KeepInv, NEW c \in Calls, MatchCommit(c) PROVE PassInv'
<1> DEFINE m == mem[c]
           alone == Open = {c} /\ \A p \in met : c \notin p
<1>0. pc[c] = "flushed" /\ c \in Open
  BY DEF MatchCommit, Open
<1>1. CASE Rollback(c)
  BY <1>0, <1>1, PassRollback
<1>2. CASE ~Rollback(c)
  <2>1. /\ End(c, "done") /\ UNCHANGED reading
        /\ row' = [f \in DOMAIN row |-> IF m.result.row[f] = m.was[f] THEN row[f] ELSE m.result.row[f]]
        /\ lines' = [n \in DOMAIN lines |->
                       IF LineRow(lines[n]) \in Needs(c)
                       THEN [lines[n] EXCEPT !.link = m.result.links[n]] ELSE lines[n]]
        /\ anomalies' = {a \in anomalies : AnomalyRow(a) \notin m.delete}
                        \cup {[by |-> c, gap |-> g, resolved |-> FALSE] : g \in m.result.gaps}
        /\ last' = IF alone THEN [result |-> m.result, seen |-> m.seen] ELSE NoPass
    BY <1>2 DEF MatchCommit
  <2>2. CASE ~alone
    BY <1>0, <2>1, <2>2, PassCommits
  <2>3. CASE alone
    <3>1. /\ m.was = row /\ m.lines = lines /\ m.delete = AnomalyRows(Reset)
          /\ m.result = Compare(m.seen[1], m.seen[2], reading, row.order, lines)
      BY <1>0, <2>3 DEF PassInv, PassOK, Alone
    <3>2. last'.result = m.result /\ last'.seen = m.seen
      BY <2>1, <2>3
    <3>3. row' = m.result.row
      <4>1. /\ row = [score |-> row.score, order |-> row.order, duplicate |-> row.duplicate]
            /\ RowTyped(m.result.row)
        BY <1>0 DEF MatchTypes, MemTyped, ResultTyped, RowTyped
      <4>2. PICK r : r = m.result.row
        OBVIOUS
      <4>3. r = [score |-> r.score, order |-> r.order, duplicate |-> r.duplicate]
        BY <4>1, <4>2 DEF RowTyped
      <4>4. row' = [f \in DOMAIN row |-> r[f]]
        BY <2>1, <3>1, <4>2
      <4>5. DOMAIN row = {"score", "order", "duplicate"}
        BY <4>1
      <4>6. row' = [f \in {"score", "order", "duplicate"} |-> r[f]]
        BY <4>4, <4>5
      <4> QED
        BY <4>2, <4>3, <4>6
    <3>4. /\ \A n \in DOMAIN m.result.links : lines'[n].link = m.result.links[n]
          /\ Values(lines') = Values(lines)
      BY <1>0, <2>1, <3>1, RelinkedLines
    <3>5. \A g \in m.result.gaps : g[1] \in MatchingCategories
      BY <3>1, CompareGapCategories
    <3>6. {a \in anomalies' : a.gap[1] \in MatchingCategories}
            = {[by |-> c, gap |-> g, resolved |-> FALSE] : g \in m.result.gaps}
      <4>1. PICK gaps : gaps = m.result.gaps
        OBVIOUS
      <4>2. anomalies' = {a \in anomalies : AnomalyRow(a) \notin AnomalyRows(Reset)}
                         \cup {[by |-> c, gap |-> g, resolved |-> FALSE] : g \in gaps}
        BY <2>1, <3>1, <4>1
      <4>3. {a \in anomalies' : a.gap[1] \in MatchingCategories}
              = {[by |-> c, gap |-> g, resolved |-> FALSE] : g \in gaps}
        BY <3>5, <4>1, <4>2, ReplacedGaps
      <4> QED
        BY <4>1, <4>3
    <3>7. m.result = Compare(m.seen[1], m.seen[2], reading', row'.order, lines')
      <4>1. PICK result : result = m.result
        OBVIOUS
      <4>2. reading \in Readings
        BY DEF MatchTypes
      <4>3. Compare(m.seen[1], m.seen[2], reading, result.row.order, lines) = result
        BY <3>1, <4>1, <4>2, CompareAgain
      <4>4. Compare(m.seen[1], m.seen[2], reading, result.row.order, lines)
              = Compare(m.seen[1], m.seen[2], reading, result.row.order, lines')
        BY <3>4, SameValues
      <4> QED
        BY <2>1, <3>3, <4>1, <4>3, <4>4
    <3>8. Applied'
      <4> DEFINE new == {[by |-> c, gap |-> g, resolved |-> FALSE] : g \in m.result.gaps}
      <4>1. /\ {a.gap : a \in new} = m.result.gaps
            /\ \A a, b \in new : ~a.resolved /\ (a.gap = b.gap => a = b)
        <5>1. PICK gaps : gaps = m.result.gaps
          OBVIOUS
        <5>2. new = {[by |-> c, gap |-> g, resolved |-> FALSE] : g \in gaps}
          BY <5>1
        <5> HIDE DEF new
        <5>3. \A b \in new : b = [by |-> c, gap |-> b.gap, resolved |-> FALSE] /\ b.gap \in gaps
          BY <5>2
        <5>4. ASSUME NEW g \in gaps PROVE \E b \in new : b.gap = g
          <6>1. [by |-> c, gap |-> g, resolved |-> FALSE] \in new
            BY <5>2
          <6>2. [by |-> c, gap |-> g, resolved |-> FALSE].gap = g
            OBVIOUS
          <6> QED
            BY <6>1, <6>2
        <5>5. \A b \in new : ~b.resolved
          BY <5>3
        <5>6. \A a, b \in new : a.gap = b.gap => a = b
          BY <5>3, Zenon
        <5> QED
          BY <5>1, <5>3, <5>4, <5>5, <5>6
      <4> HIDE DEF new
      <4>2. {a \in anomalies' : a.gap[1] \in MatchingCategories} = new
        BY <3>6 DEF new
      <4> HIDE DEF m
      <4> QED
        BY <3>2, <3>3, <3>4, <3>7, <4>1, <4>2 DEF Applied
    <3> QED
      BY <1>0, <2>1, <3>8, PassEnds
  <2> QED
    BY <2>2, <2>3
<1> QED
  BY <1>1, <1>2

LEMMA PassAnalyseRead ==
  ASSUME PassInv, CallInv, NEW c \in Calls, NEW r, NEW first, AnalyseRead(c, r, first) PROVE PassInv'
<1>1. /\ pc[c] = "read" /\ pc'[c] = "half" /\ \A d \in Calls \ {c} : pc'[d] = pc[d]
      /\ UNCHANGED <<reading, lines, row, anomalies, last, met>>
  BY DEF AnalyseRead, CallInv, CallTypes
<1> QED
  BY <1>1, AppliedKept, PassQuiet

LEMMA NextPass == PassInv /\ CallInv /\ MatchTypes /\ KeepInv /\ [Next]_vars => PassInv'
<1> SUFFICES ASSUME PassInv, CallInv, MatchTypes, KeepInv, [Next]_vars PROVE PassInv'
  OBVIOUS
<1>1. ASSUME NEW c \in Calls, CallLost(c) \/ DeadlockVictim(c) PROVE PassInv'
  <2>1. c \in Open /\ Rollback(c)
    BY <1>1 DEF CallLost, DeadlockVictim
  <2> QED
    BY <2>1, PassRollback
<1>2. ASSUME NEW c \in Calls, MatchStep(c) PROVE PassInv'
  BY <1>2, PassMatchOpen, PassMatchReset, PassMatchInvoice, PassMatchCommit DEF MatchStep
<1>3. ASSUME NEW c \in Calls, ConfirmStep(c) PROVE PassInv'
  <2>1. ASSUME NEW p \in Payloads, NEW first, ConfirmOpen(c, p, first) PROVE PassInv'
    <3>1. \E m : Begin(c, "half", m)
      BY <2>1 DEF ConfirmOpen
    <3> QED
      BY <3>1, PassBegins
  <2>2. ASSUME NEW a \in anomalies, ResolveOpen(c, a) PROVE PassInv'
    <3>1. \E m : Begin(c, "half", m)
      BY <2>2 DEF ResolveOpen
    <3> QED
      BY <3>1, PassBegins
  <2>3. ASSUME Half(c) PROVE PassInv'
    <3>1. pc[c] = "half" /\ c \in Open
      BY <2>3 DEF Half, Open
    <3> QED
      BY <2>3, <3>1, PassFlushes, PassRollback DEF Half
  <2>4. ASSUME ConfirmCommit(c) PROVE PassInv'
    <3>1. c \in Open
      BY <2>4 DEF ConfirmCommit, Open
    <3>2. Rollback(c) \/ (End(c, "done") /\ last' = NoPass)
      BY <2>4 DEF ConfirmCommit
    <3> QED
      BY <3>1, <3>2, PassRollback, PassCommits
  <2> QED
    BY <1>3, <2>1, <2>2, <2>3, <2>4 DEF ConfirmStep
<1>4. ASSUME NEW c \in Calls, AnalyseStep(c) PROVE PassInv'
  <2>1. ASSUME AnalyseOpen(c) PROVE PassInv'
    BY <2>1, PassBegins DEF AnalyseOpen
  <2>2. ASSUME AnalyseLock(c) PROVE PassInv'
    <3>1. pc[c] = "lock" /\ c \in Open
      BY <2>2 DEF AnalyseLock, Open
    <3> QED
      BY <2>2, <3>1, PassFlushes, PassRollback DEF AnalyseLock
  <2>3. ASSUME AnalyseCommit(c) PROVE PassInv'
    <3>1. c \in Open /\ End(c, "done") /\ last' = NoPass
      BY <2>3 DEF AnalyseCommit, Open
    <3> QED
      BY <3>1, PassCommits
  <2> QED
    BY <1>4, <2>1, <2>2, <2>3, PassAnalyseRead DEF AnalyseStep
<1>5. CASE UNCHANGED mvars
  <2>1. UNCHANGED <<reading, lines, row, anomalies, last, pc, mem, met>>
    BY <1>5 DEF mvars
  <2>2. AnomalyRows(Reset)' = AnomalyRows(Reset)
    BY <2>1 DEF AnomalyRows, AnomalyRow, Reset
  <2>3. \A c \in Calls : Alone(c)' => PassOK(c)'
    BY <2>1, <2>2 DEF PassInv, PassOK, Alone, Open
  <2> QED
    BY <2>1, <2>3, AppliedKept DEF PassInv
<1> QED
  BY <1>1, <1>2, <1>3, <1>4, <1>5 DEF Next, vars

(* A pass that meets nobody sees the invoice as it is until it commits.    *)
THEOREM PassInvariant == Spec => []PassInv
<1>1. Init => PassInv
  <2> SUFFICES ASSUME Init PROVE PassInv
    OBVIOUS
  <2>1. Applied
    BY DEF Init, Applied
  <2>2. \A c \in Calls : ~Alone(c)
    BY DEF Init, Alone, Open
  <2> QED
    BY <2>1, <2>2 DEF PassInv
<1> QED
  BY <1>1, NextPass, CallInvariant, TypesInvariant, KeepInvariant, PTL DEF Spec

(* What a pass that overlapped no other call leaves is its judgement,      *)
(* whole, and a second pass at once would judge the same.                  *)
THEOREM PassesAreAppliedWhole == Spec => []PassesApplyWhole
<1>1. PassInv => PassesApplyWhole
  BY DEF PassInv, Applied, PassesApplyWhole
<1> QED
  BY <1>1, PassInvariant, PTL
=============================================================================
