------------------------------ MODULE MCMatching ------------------------------
(* Three calls on an invoice of two lines, beside an Odoo that changes twice:*)
(* a line is dropped, its quantity raised and the rate moved, then the order *)
(* is cancelled.                                                             *)
EXTENDS InvoiceMatching, TLC

MCRatio(a, b) == IF a = b THEN 100 ELSE IF {a, b} = {"pump", "pumps"} THEN 95 ELSE 20

Product(code) == [code |-> code, template |-> "", name |-> "part"]
OrderLine(id, position, product, name, quantity, amount) ==
  [id |-> id, order |-> 7, position |-> position, product |-> product, name |-> name,
   quantity |-> quantity, price |-> 10, amount |-> amount]
Order(state) == [id |-> 7, reference |-> "PO7", supplier |-> 1, state |-> state,
                 currency |-> "EUR", total |-> 60]

MCHistory ==
  << [partners |-> {[id |-> 1, name |-> "acme"]},
      orders   |-> {Order("purchase")},
      lines    |-> {OrderLine(21, 2, Product("R1"), "pump", 2, 20),
                    OrderLine(22, 1, Product(""), "valve", 3, 30)},
      rates    |-> <<[code |-> "EUR", rate |-> 2]>>],
     [partners |-> {[id |-> 1, name |-> "acme"]},
      orders   |-> {Order("purchase")},
      lines    |-> {OrderLine(21, 2, Product("R1"), "pump", 4, 40)},
      rates    |-> <<[code |-> "EUR", rate |-> 3]>>],
     [partners |-> {[id |-> 1, name |-> "acme"], [id |-> 2, name |-> "acme"]},
      orders   |-> {Order("cancel")},
      lines    |-> {},
      rates    |-> <<>>] >>

Line(ref, name, quantity) == [ref |-> ref, name |-> name, quantity |-> quantity, price |-> 10]
Reading(currency, reference, number, ls, doubtful) ==
  [invoice |-> [currency |-> currency, readSupplier |-> "acme", supplierName |-> "", supplier |-> 1,
                reference |-> reference, order |-> NoOrder, number |-> "F1", readNumber |-> number,
                ht |-> 50, tax |-> 10, ttc |-> 60],
   lines |-> ls, doubtful |-> doubtful]

(* The second reading names no order, and bears the number of another      *)
(* invoice.                                                                *)
MCReadings ==
  {Reading("EUR", "PO7", "F1", <<Line("R1", "pump", 2), Line("", "valve", 5)>>, FALSE),
   Reading("USD", "", "F2", <<Line("", "pumps", 2)>>, TRUE)}
MCPayloads == {[n \in {2} |-> [quantity |-> 3, price |-> NoAmount, ref |-> NoAmount]]}
MCOthers == {[supplier |-> 1, number |-> "F2"]}
MCTol == [quantity |-> 50, price |-> 50, amount |-> 50, tax |-> 50]
MCSymmetry == Permutations(Calls)
=============================================================================
