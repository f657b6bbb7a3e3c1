------------------------------ MODULE OdooCache ------------------------------
(***************************************************************************)
(* The local cache of Odoo's suppliers, purchase orders, order lines and   *)
(* exchange rates, filled on demand by OdooSyncService while Odoo itself   *)
(* goes on changing.  Odoo's successive contents are the constant History; *)
(* the cache remembers, for each record, which content it was copied from. *)
(* What Odoo no longer holds is never removed from the cache.              *)
(***************************************************************************)
EXTENDS MatchingRules, FiniteSets

CONSTANTS
  History,        \* successive contents of Odoo
  Reference,      \* the order reference asked for
  SupplierName,   \* the supplier name asked for
  Known,          \* the partners cached at the start, from the first content
  Base,           \* settings.fx_base_currency
  Calls           \* requests, each of which makes one call

VARIABLES
  now,            \* position of Odoo in History
  cache,          \* for each record, the content it was copied from, 0 if none
  rates,          \* currency_rates
  sync,           \* the synchronisations: progress, entity, content read
  copied,         \* history: what the finished synchronisations stored
  syncMet         \* history: pairs of synchronisations that overlapped

ovars == <<now, cache, rates, sync, copied, syncMet>>

Contents == DOMAIN History
PartnerIds == UNION {{p.id : p \in History[v].partners} : v \in Contents}
OrderIds   == UNION {{o.id : o \in History[v].orders} : v \in Contents}
LineIds    == UNION {{l.id : l \in History[v].lines} : v \in Contents}
The(id, S) == CHOOSE x \in S : x.id = id

(* Odoo has a content at every time; its orders have identifiers, its      *)
(* lines a position.                                                       *)
ASSUME OdooAssumption ==
  /\ History \in Seq(Range(History)) /\ History # <<>>
  /\ \A v \in Contents :
       /\ \A o, p \in History[v].orders : o.id = p.id => o = p
       /\ \A l \in History[v].lines : l.position \in Nat
  /\ IsFiniteSet(LineIds)

(***************************************************************************)
(* Reading Odoo.                                                           *)
(***************************************************************************)
(* Several partners may contain the name: only one of exactly that name    *)
(* settles it.                                                             *)
UniquePartner(v) ==
  LET exact == {p \in History[v].partners : p.name = SupplierName}
  IN IF Cardinality(exact) = 1 THEN exact ELSE {}

(* A single order of that reference, not cancelled, of a cached supplier.  *)
FindPurchaseOrder_AnyState(v) ==
  LET named == {o \in History[v].orders : o.reference = Reference}
  IN IF Cardinality(named) = 1 THEN {o \in named : cache.supplier[o.supplier] # 0} ELSE {}
FindPurchaseOrder(v) ==
  LET named == {o \in History[v].orders : o.reference = Reference}
  IN IF Cardinality(named) = 1
     THEN {o \in named : /\ o.state \notin UnmatchableStates
                         /\ cache.supplier[o.supplier] # 0}
     ELSE {}

(* The reference of a product: its own code, else its template's, else its *)
(* name.                                                                   *)
ProductRef(p) ==
  IF p.code # "" THEN p.code ELSE IF p.template # "" THEN p.template ELSE p.name

(* Rows are stored one after the other, so the last row of a currency      *)
(* stays; a rate of zero is skipped and the base currency is always 1.     *)
StoredRates(old, rows) ==
  LET step[n \in 0..Len(rows)] ==
        IF n = 0 THEN old
        ELSE IF rows[n].rate = 0 THEN step[n - 1]
        ELSE [c \in DOMAIN step[n - 1] \cup {rows[n].code} |->
                IF c = rows[n].code THEN rows[n].rate ELSE step[n - 1][c]]
  IN [c \in DOMAIN step[Len(rows)] \cup {Base} |->
        IF c = Base THEN 1 ELSE step[Len(rows)][c]]

(***************************************************************************)
(* Reading the cache.                                                      *)
(***************************************************************************)
CachedOrders(from) ==
  {The(o, History[from.order[o]].orders) : o \in {o \in OrderIds : from.order[o] # 0}}

CachedLine(from, l) ==
  LET line == The(l, History[from.lines[l]].lines)
  IN [id |-> l, ref |-> ProductRef(line.product), name |-> line.name,
      quantity |-> line.quantity, price |-> line.price, amount |-> line.amount]

(* The lines of an order by their position in it; those of one position    *)
(* come in any order.                                                      *)
CachedLines(from, o) ==
  LET ids == {l \in LineIds : /\ from.lines[l] # 0
                              /\ The(l, History[from.lines[l]].lines).order = o}
      position(l) == The(l, History[from.lines[l]].lines).position
      sorted == CHOOSE s \in [1..Cardinality(ids) -> ids] :
                  \A i, j \in DOMAIN s : i < j => s[i] # s[j] /\ position(s[i]) <= position(s[j])
  IN [k \in DOMAIN sorted |-> CachedLine(from, sorted[k])]

CachedSupplierName(from, p) == The(p, History[from.supplier[p]].partners).name

(***************************************************************************)
(* The synchronisations: one reading of Odoo, then one transaction.        *)
(***************************************************************************)
Entities == {"supplier", "order", "lines", "rates"}

SyncIdle == [pc |-> "idle", entity |-> "none", content |-> 0, ids |-> {}]

(* At the start the cache holds the known partners, and either nothing     *)
(* else or the orders of the first content a synchronisation accepts, with *)
(* their lines.                                                            *)
OInit ==
  /\ now = 1
  /\ \E filled \in BOOLEAN :
       LET orders == {o \in History[1].orders : o.state \notin UnmatchableStates}
           theirs == {l \in History[1].lines : \E o \in orders : o.id = l.order}
           first(id, S) == IF filled /\ \E x \in S : x.id = id THEN 1 ELSE 0
       IN cache = [supplier |-> [p \in PartnerIds |-> IF p \in Known THEN 1 ELSE 0],
                   order    |-> [o \in OrderIds |-> first(o, orders)],
                   lines    |-> [l \in LineIds |-> first(l, theirs)]]
  /\ rates = [c \in {} |-> 0]
  /\ sync = [c \in Calls |-> SyncIdle]
  /\ copied = {}
  /\ syncMet = {}

OdooChanges ==
  /\ now < Len(History)
  /\ now' = now + 1
  /\ UNCHANGED <<cache, rates, sync, copied, syncMet>>

(* What a synchronisation of entity e finds in Odoo, as identifiers.  The  *)
(* lines asked for are those of an order already cached.                   *)
Found(e) ==
  CASE e = "supplier" -> {p.id : p \in UniquePartner(now)}
    [] e = "order"    -> {o.id : o \in FindPurchaseOrder(now)}
    [] e = "lines"    -> {l.id : l \in {l \in History[now].lines : cache.order[l.order] # 0}}
    [] e = "rates"    -> {}

Meets(c) == {{c, d} : d \in {d \in Calls : sync[d].pc = "read"}}

SyncRead(c, e) ==
  /\ sync[c].pc = "idle"
  /\ e = "lines" => \E o \in OrderIds : cache.order[o] # 0
  /\ e \in {"supplier", "order"} => Found(e) # {}
  /\ sync' = [sync EXCEPT ![c] = [pc |-> "read", entity |-> e, content |-> now, ids |-> Found(e)]]
  /\ syncMet' = syncMet \cup Meets(c)
  /\ UNCHANGED <<now, cache, rates, copied>>

(* None, several, cancelled or of an unknown supplier: an error, before    *)
(* anything is stored.                                                     *)
SyncRefused(c, e) ==
  /\ sync[c].pc = "idle"
  /\ e \in {"supplier", "order"} /\ Found(e) = {}
  /\ sync' = [sync EXCEPT ![c].pc = "done"]
  /\ UNCHANGED <<now, cache, rates, copied, syncMet>>

SyncStore(c) ==
  LET s == sync[c]
  IN /\ s.pc = "read"
     /\ IF s.entity = "rates"
        THEN /\ rates' = StoredRates(rates, History[s.content].rates)
             /\ UNCHANGED cache
        ELSE /\ cache' = [cache EXCEPT ![s.entity] =
                            [i \in DOMAIN @ |-> IF i \in s.ids THEN s.content ELSE @[i]]]
             /\ UNCHANGED rates
     /\ copied' = copied \cup {[by |-> c, entity |-> s.entity, id |-> i, content |-> s.content] : i \in s.ids}
     /\ sync' = [sync EXCEPT ![c].pc = "done"]
     /\ UNCHANGED <<now, syncMet>>

(* Odoo does not answer, or the INSERT of a record meets one inserted      *)
(* meanwhile (unique identifiers): the transaction is rolled back.         *)
SyncFails(c) ==
  /\ sync[c].pc = "read"
  /\ sync' = [sync EXCEPT ![c].pc = "done"]
  /\ UNCHANGED <<now, cache, rates, copied, syncMet>>

SyncStep(c) ==
  \/ \E e \in Entities : SyncRead(c, e) \/ SyncRefused(c, e)
  \/ SyncStore(c)
  \/ SyncFails(c)

(***************************************************************************)
(* Properties.                                                             *)
(***************************************************************************)
OTypeOK ==
  /\ now \in Contents
  /\ cache \in [supplier : [PartnerIds -> Contents \cup {0}],
                order : [OrderIds -> Contents \cup {0}],
                lines : [LineIds -> Contents \cup {0}]]
  /\ DOMAIN rates = {} \/ Base \in DOMAIN rates
  /\ \A c \in Calls : /\ sync[c].pc \in {"idle", "read", "done"}
                      /\ sync[c].content \in Contents \cup {0}

(* The cache never goes back: a record copied by a synchronisation that    *)
(* overlapped no other is never older than that copy afterwards, and an    *)
(* order is only ever copied from a content in which it was not cancelled. *)
(* About sync_supplier_from_name, find_purchase_order and                  *)
(* load_purchase_order_lines, which read Odoo before they write.           *)
CacheNeverGoesBack ==
  /\ \A r \in copied :
       \/ \E m \in syncMet : r.by \in m
       \/ cache[r.entity][r.id] >= r.content
  /\ \A o \in CachedOrders(cache) : o.state \notin UnmatchableStates
=============================================================================
