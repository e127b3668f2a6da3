------------------------------ MODULE Invoices ------------------------------
(* Vendor invoices: numbering, totals, lines and the status workflow            *)
(* (app/modules/invoices). Amounts are in cents, a line's quantity in           *)
(* hundredths.                                                               *)
EXTENDS Finance

STATUS_TRANSITIONS ==
    [pending |-> {"overdue", "paid", "cancelled"}, overdue |-> {"paid", "cancelled"},
     paid |-> {}, cancelled |-> {}]

require_vendor(tables, vendor) == IsLive(tables.vendors, vendor) /\ tables.vendors[vendor].active

\* A status that is known is enough.
validate_status(current, target) == target \in DOMAIN STATUS_TRANSITIONS

validate_transition(current, target) == current = target \/ target \in STATUS_TRANSITIONS[current]

\* subtotal, discount, tax and grand total: the subtotal rounds the sum of the lines.
calculate(b) ==
    LET subtotal == money(Sum([i \in DOMAIN b.lines |-> b.lines[i].quantity * b.lines[i].rate]))
        discount == CASE b.discount_type = "percentage" -> money(subtotal * b.discount_value)
                      [] b.discount_type = "flat" -> b.discount_value
                      [] OTHER -> 0
        tax == money((subtotal - discount) * b.tax_rate)
    IN  [subtotal |-> subtotal, discount |-> discount, tax |-> tax,
         grand_total |-> subtotal - discount + tax]

\* Each line's amount is rounded by itself.
build_lines(r, invoice) ==
    [k \in {<<r, i>> : i \in DOMAIN body[r].lines} |->
       LET line == body[r].lines[k[2]]
       IN  [invoice |-> invoice, order |-> k[2], amount |-> money(line.quantity * line.rate)]]

lines_of(tables, invoice) == {k \in DOMAIN tables.invoiceLines : tables.invoiceLines[k].invoice = invoice}

get_scoped(tables, invoice, association) ==
    IsLive(tables.invoices, invoice) /\ tables.invoices[invoice].association = association

\* Deleted invoices keep their number: the query and the unique key see them.
number_exists(tables, association, number, excluding) ==
    \E k \in DOMAIN tables.invoices \ {excluding} :
        tables.invoices[k].association = association /\ tables.invoices[k].number = number

\* From the count of the association's invoices on, the first number that is free.
generate_invoice_number(tables, association) ==
    LET count == Cardinality({k \in DOMAIN tables.invoices : tables.invoices[k].association = association})
        \* Among this many candidates one is free.
        free == {n \in 1..(2 * count + 1) : n > count /\ ~number_exists(tables, association, <<"INV", n>>, None)}
    IN  <<"INV", CHOOSE n \in free : \A m \in free : n <= m>>

\* InvoiceRequest and its validate_business_rules
validate_business_rules(b) ==
    /\ b.lines # <<>>
    /\ b.issue <= b.due
    /\ b.discount_type = "none" => b.discount_value = 0
    /\ b.discount_type = "percentage" => b.discount_value <= 100
    /\ b.status = "paid" => b.payment # None
    /\ b.payment # None => b.issue <= b.payment

apply_payload(row, b, number) ==
    With(With(row, calculate(b)),
         [vendor |-> b.vendor, number |-> number, issue |-> b.issue, status |-> b.status,
          payment |-> IF b.status = "paid" THEN b.payment ELSE None])
-----------------------------------------------------------------------------
create_invoice(r) ==
    LET b == body[r]
        number == IF b.number = None THEN generate_invoice_number(seen[r], b.association) ELSE b.number
        row == apply_payload([association |-> b.association, deleted |-> FALSE], b, number)
    IN  /\ Asks(r, "create_invoice")
        /\ Decide(r,
             /\ validate_business_rules(b)
             /\ RoleOf[b.by] \in MANAGER_ROLE_CODES
             /\ check_association(seen[r], b.by, b.association)
             /\ require_vendor(seen[r], b.vendor)
             /\ ~number_exists(seen[r], b.association, number, None)
             /\ calculate(b).discount <= calculate(b).subtotal,
             number_exists(db, b.association, number, None),
             [db EXCEPT !.invoices = With(@, [k \in {r} |-> row]),
                        !.invoiceLines = With(@, build_lines(r, r))])

\* The flush inserts the new lines before it deletes the old ones, whose sort_order they
\* have: uq_invoice_lines_order refuses them. Only an invoice without lines, from before
\* they were introduced, takes an edit.
update_invoice(r) ==
    LET b == body[r]
        tables == seen[r]
        old == tables.invoices[b.invoice]
        number == IF b.number = None THEN old.number ELSE b.number
        new == apply_payload(old, b, number)
    IN  /\ Asks(r, "update_invoice")
        /\ Decide(r,
             /\ validate_business_rules(b)
             /\ RoleOf[b.by] \in MANAGER_ROLE_CODES
             /\ check_association(tables, b.by, b.association)
             /\ get_scoped(tables, b.invoice, b.association)
             /\ validate_transition(old.status, b.status)
             /\ require_vendor(tables, b.vendor)
             /\ ~number_exists(tables, b.association, number, b.invoice)
             /\ calculate(b).discount <= calculate(b).subtotal,
             \/ \E k \in lines_of(db, b.invoice) : db.invoiceLines[k].order \in DOMAIN b.lines
             \/ number_exists(db, b.association, number, b.invoice),
             [db EXCEPT !.invoices = Save(@, tables.invoices, b.invoice, new),
                        !.invoiceLines = With([k \in DOMAIN @ \ lines_of(tables, b.invoice) |-> @[k]],
                                              build_lines(r, b.invoice))])

update_invoice_status(r) ==
    LET b == body[r]
        old == seen[r].invoices[b.invoice]
    IN  /\ Asks(r, "invoice_status")
        /\ Decide(r,
             /\ b.status = "paid" => b.payment # None
             /\ RoleOf[b.by] \in MANAGER_ROLE_CODES
             /\ check_association(seen[r], b.by, b.association)
             /\ get_scoped(seen[r], b.invoice, b.association)
             /\ validate_transition(old.status, b.status)
             /\ b.payment # None => old.issue <= b.payment, FALSE,
             [db EXCEPT !.invoices = Save(@, seen[r].invoices, b.invoice,
                           [old EXCEPT !.status = b.status,
                                       !.payment = IF b.status = "paid" THEN b.payment ELSE None])])

delete_invoice(r) ==
    LET b == body[r]
    IN  /\ Asks(r, "delete_invoice")
        /\ Decide(r,
             /\ RoleOf[b.by] \in MANAGER_ROLE_CODES
             /\ check_association(seen[r], b.by, b.association)
             /\ get_scoped(seen[r], b.invoice, b.association), FALSE,
             [db EXCEPT !.invoices = Delete(@, seen[r].invoices, {b.invoice})])

InvoiceStep(r) ==
    create_invoice(r) \/ update_invoice(r) \/ update_invoice_status(r) \/ delete_invoice(r)

\* What the list sums up: of all, and of one status.
total_amount(tables, association, statuses) ==
    LET listed == {k \in Live(tables.invoices) : /\ tables.invoices[k].association = association
                                                 /\ tables.invoices[k].status \in statuses}
    IN  Sum([k \in listed |-> tables.invoices[k].grand_total])
-----------------------------------------------------------------------------
InvoicesTypeOK ==
    /\ \A k \in DOMAIN db.invoices :
          LET invoice == db.invoices[k]
          IN  /\ invoice.association \in DOMAIN db.associations /\ invoice.vendor \in DOMAIN db.vendors
              /\ invoice.status \in DOMAIN STATUS_TRANSITIONS
              /\ invoice.payment \in Nat \cup {None}
    /\ \A k \in DOMAIN db.invoiceLines : db.invoiceLines[k].invoice \in DOMAIN db.invoices
=============================================================================
