------------------------------ MODULE Reports ------------------------------
(* The delinquency, prepaid and vendor aging reports: a header with totals and   *)
(* the rows they are of, entered, edited, exported to a workbook and imported   *)
(* from one (app/modules/delinquency_reports, prepaid_reports,                  *)
(* vendor_aging_reports and financial_report_imports.py).                      *)
EXTENDS Finance

CONSTANTS
    Formulas,       \* texts of more than one character that begin with =
    ExactBelow      \* hundredths from which a float no longer tells two neighbours apart, 100 * 2^46

ASSUME Floats == ExactBelow \in Nat

\* A cell of a workbook, None when it is empty. Headings are as normalize_label leaves them.
Text(s) == <<"text", s>>
Number(n) == <<"number", n>>
Date(d) == <<"date", d>>

\* float(amount).
as_float(n) == IF n < ExactBelow THEN n ELSE 2 * (n \div 2)
Amount(n) == Number(as_float(n))

\* What load_workbook(data_only=True) finds in a saved cell: openpyxl has made a text that
\* begins with = a formula, and a formula nobody has computed has no value.
reread(sheet) ==
    [i \in DOMAIN sheet |-> [c \in DOMAIN sheet[i] |->
        IF sheet[i][c] # None /\ sheet[i][c][1] = "text" /\ sheet[i][c][2] \in Formulas THEN None ELSE sheet[i][c]]]

\* The fields of a row, in the order of their columns.
report_fields ==
    [delinquency |-> <<"member", "unit", "block", "category", "outstanding", "days", "paid">>,
     prepaid |-> <<"member", "unit", "block", "category", "prepaid", "used", "expiry">>,
     vendor_aging |-> <<"vendor", "category", "invoice", "date", "current", "d30", "d60", "d90", "over">>]
Kinds == DOMAIN report_fields
Fields(kind) == {report_fields[kind][i] : i \in DOMAIN report_fields[kind]}
TextFields == {"member", "unit", "block", "category", "vendor", "invoice"}
DateFields == {"paid", "expiry", "date"}
Optional == {"block", "paid"}
CHARGE_CATEGORY_VALUES == {"Maintenance", "Late Fee", "Special Assessment", "Utilities", "Other"}

Column(rows, field) == [i \in DOMAIN rows |-> rows[i][field][2]]
column_total(rows, field) == Sum(Column(rows, field))
VENDOR_OVERDUE == {"d30", "d60", "d90", "over"}
BUCKETS == <<"current", "d30", "d60", "d90", "over">>

row_amount(kind, row) ==
    CASE kind = "delinquency" -> row.outstanding[2]
      [] kind = "prepaid" -> row.prepaid[2] - row.used[2]
      [] OTHER -> Sum([f \in {"current"} \cup VENDOR_OVERDUE |-> row[f][2]])
total_of(kind, rows) == Sum([i \in DOMAIN rows |-> row_amount(kind, rows[i])])

\* The totals a header keeps.
totals(kind, rows) ==
    CASE kind = "delinquency" -> [outstanding |-> column_total(rows, "outstanding")]
      [] kind = "prepaid" -> [prepaid |-> column_total(rows, "prepaid"), used |-> column_total(rows, "used"),
                              available |-> column_total(rows, "prepaid") - column_total(rows, "used")]
      [] OTHER -> [outstanding |-> total_of(kind, rows),
                   overdue |-> Sum([f \in VENDOR_OVERDUE |-> column_total(rows, f)]),
                   current |-> column_total(rows, "current")]

\* What makes two rows the same to the request.
identity(kind, row) ==
    CASE kind = "delinquency" -> <<row.member, row.unit, row.category>>
      [] kind = "vendor_aging" -> <<row.vendor, row.invoice>>

\* The validators of the request and its rows.
valid_report(kind, rows, billed, collected) ==
    /\ rows # <<>>
    /\ \A i \in DOMAIN rows : \A f \in Fields(kind) \ Optional : rows[i][f] # None
    /\ kind = "delinquency" => collected <= billed
    /\ kind = "prepaid" => \A i \in DOMAIN rows : rows[i].used[2] <= rows[i].prepaid[2]
    /\ kind # "prepaid" => \A i, j \in DOMAIN rows : identity(kind, rows[i]) = identity(kind, rows[j]) => i = j

duplicate_period(tables, kind, association, period, excluding) ==
    \E k \in DOMAIN tables.financialReports \ {excluding} :
        LET report == tables.financialReports[k]
        IN  report.kind = kind /\ report.association = association /\ report.period = period

header(kind, period, rows, billed, collected) ==
    With([period |-> period, billed |-> billed, collected |-> collected], totals(kind, rows))

\* ck_delinquency_reports_collection_within_billed
collection_within_billed(report) == report.collected <= report.billed
-----------------------------------------------------------------------------
(* Workbooks: sequences of rows, a row a sequence of cells *)

derive_status(kind, row) ==
    CASE kind = "delinquency" -> (CASE row.outstanding[2] <= 0 -> "resolved" [] row.days[2] >= 75 -> "high"
                                    [] row.days[2] >= 45 -> "medium" [] OTHER -> "low")
      [] kind = "prepaid" -> IF row.expiry[2] < now \/ row_amount(kind, row) <= 0 THEN "expired" ELSE "active"
      [] OTHER -> CASE row_amount(kind, row) <= 0 -> "settled"
                    [] \E f \in VENDOR_OVERDUE : row[f][2] > 0 -> "overdue" [] OTHER -> "due soon"

\* The headings of an export; those of the template are the same without what is derived.
export_headings ==
    [delinquency |-> <<"", "member name", "unit number", "block", "charge category", "outstanding amount",
                       "days overdue", "last payment date", "status">>,
     prepaid |-> <<"", "member name", "unit number", "block", "category", "prepaid amount", "used amount",
                   "available balance", "expiry date status">>,
     vendor_aging |-> <<"", "vendor name", "category", "invoice number", "invoice date", "current due", "1 30 days",
                        "31 60 days", "61 90 days", "90 days", "total outstanding", "status">>]

export_row(kind, row, i) ==
    LET Money(field) == Amount(row[field][2])
    IN  CASE kind = "delinquency" ->
               <<Number(i), row.member, row.unit, row.block, row.category, Money("outstanding"), row.days, row.paid,
                 Text(derive_status(kind, row))>>
          [] kind = "prepaid" ->
               <<Number(i), row.member, row.unit, row.block, row.category, Money("prepaid"), Money("used"),
                 Amount(row_amount(kind, row)), <<"date / status", row.expiry[2], derive_status(kind, row)>>>>
          [] OTHER ->
               <<Number(i), row.vendor, row.category, row.invoice, row.date, Money("current"), Money("d30"), Money("d60"),
                 Money("d90"), Money("over"), Amount(row_amount(kind, row)), Text(derive_status(kind, row))>>

\* TOTALS stands under the first text column, for prepaid reports under the last.
totals_row(kind, rows) ==
    IF kind = "prepaid"
    THEN <<None, None, None, None, Text("totals"), Amount(column_total(rows, "prepaid"))>>
    ELSE <<None, Text("totals"), None, None, None, Amount(total_of(kind, rows))>>

summary_rows(report) ==
    LET total == Amount(total_of(report.kind, report.rows))
    IN  IF report.kind = "delinquency"
        THEN <<<<Text("total outstanding"), Text("members"), Text("average days"), Text("high risk"),
                 Text("billed"), Text("collected"), Text("collection rate")>>,
               <<total, Number(Len(report.rows)), Number(column_total(report.rows, "days") \div Len(report.rows)),
                 Number(0), Amount(report.billed), Amount(report.collected),
                 Number(percentage(report.collected, report.billed))>>>>
        ELSE <<<<Text("total"), Text("category")>>, <<total, Number(0)>>>>

build_export_workbook(report) ==
    LET rows == report.rows
        headings == export_headings[report.kind]
    IN  <<<<Text("title")>>, <<Text("fiscal period")>>, <<None>>>> \o summary_rows(report)
        \o <<<<None>>, [i \in DOMAIN headings |-> Text(headings[i])]>>
        \o [i \in DOMAIN rows |-> export_row(report.kind, rows[i], i)]
        \o <<totals_row(report.kind, rows)>>

aliases(kind) ==
    [member |-> {"member", "member name"}, unit |-> {"unit", "unit number"}, block |-> {"block"},
     category |-> IF kind = "delinquency" THEN {"category", "charge category"} ELSE {"category"},
     outstanding |-> {"outstanding", "outstanding amount"}, days |-> {"days overdue"},
     paid |-> {"last payment", "last payment date"},
     prepaid |-> {"prepaid", "prepaid amount"}, used |-> {"used", "used amount"},
     expiry |-> {"expiry", "expiry date", "expiry date status"},
     vendor |-> {"vendor", "vendor name"}, invoice |-> {"invoice", "invoice number"},
     date |-> {"date", "invoice date"}, current |-> {"current", "current due"},
     d30 |-> {"1 30", "1 30 days", "days 1 30"}, d60 |-> {"31 60", "31 60 days", "days 31 60"},
     d90 |-> {"61 90", "61 90 days", "days 61 90"}, over |-> {"90 days", "over 90", "days over 90"}]

Least(numbers) == CHOOSE n \in numbers : \A m \in numbers : n <= m
\* The columns of a row that carry one of these labels.
labelled(row, labels) == {c \in DOMAIN row : \E label \in labels : row[c] = Text(label)}

\* The first of the first 25 rows with a column for every required field; 0 for none.
find_header(kind, sheet) ==
    LET found == {i \in DOMAIN sheet : /\ i <= 25
                                       /\ \A f \in Fields(kind) \ Optional : labelled(sheet[i], aliases(kind)[f]) # {}}
    IN  IF found = {} THEN 0 ELSE Least(found)

first_nonempty(row) == LET full == {c \in DOMAIN row : row[c] # None}
                       IN  IF full = {} THEN None ELSE row[Least(full)]

\* The column of each field, 0 for none.
field_columns(kind, heading) ==
    [f \in Fields(kind) |-> LET found == labelled(heading, aliases(kind)[f])
                           IN  IF found = {} THEN 0 ELSE Least(found)]

\* The rows that count: after the header, up to one that begins with a total; empty ones
\* do not.
data_rows(sheet, start) ==
    LET ends == {i \in DOMAIN sheet : i > start /\ first_nonempty(sheet[i]) \in {Text("total"), Text("totals")}}
        last == IF ends = {} THEN Len(sheet) ELSE Least(ends) - 1
        full == {i \in (start + 1)..last : first_nonempty(sheet[i]) # None}
        nth(n) == CHOOSE i \in full : Cardinality({j \in full : j <= i}) = n
    IN  [n \in 1..Cardinality(full) |-> sheet[nth(n)]]

\* The cell as it is.
cell_of(row, field, column) == IF column \in DOMAIN row THEN row[column] ELSE None

\* What a cell says of a field; the date of an export carries the status.
value_for(row, field, column) ==
    LET cell == IF column \in DOMAIN row THEN row[column] ELSE None
    IN  IF field = "expiry" /\ cell # None /\ cell[1] = "date / status" THEN Date(cell[2]) ELSE cell

\* What a number may be: a whole one of days up to a century, an amount not below nought.
most_days == 36500
numbers(field) == IF field = "days" THEN 0..most_days ELSE Nat

readable(kind, field, cell) ==
    IF cell = None THEN field \in Optional
    ELSE /\ cell[1] = CASE field \in TextFields -> "text" [] field \in DateFields -> "date" [] OTHER -> "number"
         /\ cell[1] = "number" => cell[2] \in numbers(field)
         /\ field = "category" /\ kind = "delinquency" => cell[2] \in CHARGE_CATEGORY_VALUES

imported_rows(kind, sheet) ==
    LET start == find_header(kind, sheet)
        column == field_columns(kind, sheet[start])
        data == data_rows(sheet, start)
    IN  [i \in DOMAIN data |-> [f \in Fields(kind) |-> value_for(data[i], f, column[f])]]

\* The number to the right of a label or below it, of the first label that has one.
find_summary_amount(sheet, labels) ==
    LET IsAmount(i, c) == /\ i \in DOMAIN sheet /\ c \in DOMAIN sheet[i]
                          /\ sheet[i][c] # None /\ sheet[i][c][1] = "number"
        places == UNION {{<<i, c>> : c \in labelled(sheet[i], labels)} : i \in DOMAIN sheet}
        useful == {p \in places : IsAmount(p[1], p[2] + 1) \/ IsAmount(p[1] + 1, p[2])}
        first == CHOOSE p \in useful : \A q \in useful : p[1] < q[1] \/ (p[1] = q[1] /\ p[2] <= q[2])
    IN  CASE useful = {} -> None
          [] IsAmount(first[1], first[2] + 1) -> sheet[first[1]][first[2] + 1][2]
          [] OTHER -> sheet[first[1] + 1][first[2]][2]

\* Only the delinquency report has these two.
billed_in(kind, sheet) ==
    IF kind = "delinquency" THEN find_summary_amount(sheet, {"total billed amount", "billed"}) ELSE 0
collected_in(kind, sheet) ==
    IF kind = "delinquency" THEN find_summary_amount(sheet, {"total collected amount", "collected"}) ELSE 0

parse_import_workbook(kind, sheet) ==
    LET rows == imported_rows(kind, sheet)
        billed == billed_in(kind, sheet)
        collected == collected_in(kind, sheet)
    IN  /\ find_header(kind, sheet) # 0
        /\ \A i \in DOMAIN rows : \A f \in Fields(kind) : readable(kind, f, rows[i][f])
        /\ None \notin {billed, collected}
        /\ valid_report(kind, rows, billed, collected)
-----------------------------------------------------------------------------
CreateReport(r, accepted, rows, billed, collected) ==
    LET b == body[r]
        row == With(header(b.kind, b.period, rows, billed, collected),
                    [kind |-> b.kind, association |-> b.association, rows |-> rows])
    IN  Decide(r,
          /\ RoleOf[b.by] \in MANAGER_ROLE_CODES
          /\ accepted
          /\ check_association(seen[r], b.by, b.association)
          /\ ~duplicate_period(seen[r], b.kind, b.association, b.period, None),
          duplicate_period(db, b.kind, b.association, b.period, None),
          [db EXCEPT !.financialReports = With(@, [k \in {r} |-> row])])

create_report(r) ==
    LET b == body[r]
    IN  /\ Asks(r, "create_report")
        /\ CreateReport(r, valid_report(b.kind, b.rows, b.billed, b.collected), b.rows, b.billed, b.collected)

import_report(r) ==
    LET b == body[r]
    IN  /\ Asks(r, "import_report")
        /\ CreateReport(r, parse_import_workbook(b.kind, b.sheet), imported_rows(b.kind, b.sheet),
                        billed_in(b.kind, b.sheet), collected_in(b.kind, b.sheet))

\* Each kind has routes of its own, which know the reports of that kind. Of the header what
\* differs from the snapshot is written; the rows there are, whoever put them there, make
\* way for the new ones.
update_report(r) ==
    LET b == body[r]
        old == seen[r].financialReports[b.report]
        new == With(old, header(old.kind, b.period, b.rows, b.billed, b.collected))
        reports == [Save(db.financialReports, seen[r].financialReports, b.report, new) EXCEPT ![b.report].rows = b.rows]
    IN  /\ Asks(r, "update_report")
        /\ Decide(r,
             /\ RoleOf[b.by] \in MANAGER_ROLE_CODES
             /\ b.report \in DOMAIN seen[r].financialReports /\ old.kind = b.kind
             /\ valid_report(old.kind, b.rows, b.billed, b.collected)
             /\ check_association(seen[r], b.by, old.association)
             /\ b.association = old.association
             /\ ~duplicate_period(seen[r], old.kind, old.association, b.period, b.report),
             \/ duplicate_period(db, old.kind, old.association, reports[b.report].period, b.report)
             \/ ~collection_within_billed(reports[b.report]),
             [db EXCEPT !.financialReports = reports])

ReportStep(r) == create_report(r) \/ import_report(r) \/ update_report(r)
-----------------------------------------------------------------------------
(* What the reader sees of a report *)

\* Two buckets share their bound.
AGING_BUCKETS_SHARED == <<0..0, 1..30, 30..60, 61..90, 91..most_days>>

AGING_BUCKETS == <<0..0, 1..30, 31..60, 61..90, 91..most_days>>

aging_distribution(kind, rows) ==
    IF kind = "vendor_aging" THEN [i \in DOMAIN BUCKETS |-> column_total(rows, BUCKETS[i])]
    ELSE [i \in DOMAIN AGING_BUCKETS |->
            Sum([j \in {x \in DOMAIN rows : rows[x].days[2] \in AGING_BUCKETS[i]} |-> row_amount(kind, rows[j])])]

category_distribution(kind, rows) ==
    [c \in {rows[i].category : i \in DOMAIN rows} |->
       Sum([j \in {x \in DOMAIN rows : rows[x].category = c} |-> row_amount(kind, rows[j])])]

status_distribution(kind, rows) ==
    [s \in {derive_status(kind, rows[i]) : i \in DOMAIN rows} |->
       Sum([j \in {x \in DOMAIN rows : derive_status(kind, rows[x]) = s} |-> row_amount(kind, rows[j])])]

distributions(kind, rows) ==
    <<category_distribution(kind, rows),
      IF kind = "prepaid" THEN status_distribution(kind, rows) ELSE aging_distribution(kind, rows)>>
-----------------------------------------------------------------------------
ReportsTypeOK ==
    \A k \in DOMAIN db.financialReports :
        LET report == db.financialReports[k]
        IN  /\ report.kind \in Kinds /\ report.association \in DOMAIN db.associations
            /\ \A i \in DOMAIN report.rows : DOMAIN report.rows[i] = Fields(report.kind)
=============================================================================
