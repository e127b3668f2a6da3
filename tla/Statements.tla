----------------------------- MODULE Statements -----------------------------
(* Balance sheets, income statements and the chart of accounts that the lines of *)
(* a sheet name (app/modules/balance_sheets, income_statements and               *)
(* chart_of_accounts). Cells of workbooks are those of Reports; headings are as   *)
(* normalize_header leaves them.                                             *)
EXTENDS Reports

chart_of(tables, association) == {k \in Live(tables.chart) : tables.chart[k].association = association}

\* gl_code has no unique key.
duplicate_code(tables, association, code, excluding) ==
    \E k \in chart_of(tables, association) \ {excluding} : tables.chart[k].code = code

chart_row(association, code, source) ==
    [association |-> association, code |-> code, mapped_from |-> source, deleted |-> FALSE]

\* Rows with a code and a name are taken; a sheet narrower than the four columns of the
\* template runs past the end of its rows.
upload_global(r) ==
    LET b == body[r]
        taken == {i \in DOMAIN b.rows : b.rows[i].code # None /\ b.rows[i].name # None}
    IN  /\ Asks(r, "upload_chart")
        /\ Decide(r, RoleOf[b.by] \in MANAGER_ROLE_CODES, b.width < 4 /\ taken # {},
             [db EXCEPT !.globalChart = With(@, [k \in {<<r, i>> : i \in taken} |-> [code |-> b.rows[k[2]].code]])])

\* Every row of the global list, twice if it is there twice.
map_global(r) ==
    LET b == body[r]
        source == seen[r].globalChart
        copies == [k \in {<<r, g[1], g[2]>> : g \in DOMAIN source} |->
                     chart_row(b.association, source[<<k[2], k[3]>>].code, <<k[2], k[3]>>)]
    IN  /\ Asks(r, "map_chart")
        /\ Decide(r,
             /\ RoleOf[b.by] \in MANAGER_ROLE_CODES
             /\ check_association(seen[r], b.by, b.association)
             /\ chart_of(seen[r], b.association) = {}
             /\ DOMAIN source # {}, FALSE,
             [db EXCEPT !.chart = With(@, copies)])

add_association(r) ==
    LET b == body[r]
    IN  /\ Asks(r, "add_chart")
        /\ Decide(r,
             /\ RoleOf[b.by] \in MANAGER_ROLE_CODES
             /\ check_association(seen[r], b.by, b.association)
             /\ ~duplicate_code(seen[r], b.association, b.code, None), FALSE,
             [db EXCEPT !.chart = With(@, [k \in {<<r, "", 0>>} |-> chart_row(b.association, b.code, None)])])

\* The UPDATE finds no row that was deleted since, which is no error.
update_association(r) ==
    LET b == body[r]
        row == seen[r].chart[b.row]
    IN  /\ Asks(r, "update_chart")
        /\ Decide(r,
             /\ RoleOf[b.by] \in MANAGER_ROLE_CODES
             /\ IsLive(seen[r].chart, b.row)
             /\ check_association(seen[r], b.by, row.association)
             /\ ~duplicate_code(seen[r], row.association, b.code, b.row), FALSE,
             [db EXCEPT !.chart[b.row].code = IF db.chart[b.row].deleted THEN @ ELSE b.code])

delete_association(r) ==
    LET b == body[r]
    IN  /\ Asks(r, "delete_chart")
        /\ Decide(r,
             /\ RoleOf[b.by] \in MANAGER_ROLE_CODES
             /\ IsLive(seen[r].chart, b.row)
             /\ check_association(seen[r], b.by, seen[r].chart[b.row].association), FALSE,
             [db EXCEPT !.chart[b.row].deleted = TRUE])
-----------------------------------------------------------------------------
(* Balance sheets: one for each association and day *)

ASSETS == {"current_asset", "non_current_asset"}
LIABILITIES == {"current_liability", "non_current_liability"}
SECTION_ALIASES ==
    [current_asset |-> "current_asset", current_assets |-> "current_asset",
     non_current_asset |-> "non_current_asset", non_current_assets |-> "non_current_asset",
     current_liability |-> "current_liability", current_liabilities |-> "current_liability",
     non_current_liability |-> "non_current_liability", non_current_liabilities |-> "non_current_liability",
     equity |-> "equity"]

section_total(items, sections) ==
    Sum([i \in {j \in DOMAIN items : items[j].section \in sections} |-> items[i].amount])

validate_balanced(items) ==
    section_total(items, ASSETS) = section_total(items, LIABILITIES \cup {"equity"})

\* Of whatever association.
chart_accounts_exist(tables, association, items) ==
    \A i \in DOMAIN items : items[i].account \in Live(tables.chart) \cup {None}

validate_chart_accounts(tables, association, items) ==
    \A i \in DOMAIN items : items[i].account \in chart_of(tables, association) \cup {None}

duplicate_date(tables, association, on, excluding) ==
    \E k \in DOMAIN tables.balanceSheets \ {excluding} :
        tables.balanceSheets[k].association = association /\ tables.balanceSheets[k].on = on

CreateBalanceSheet(r, accepted, items, health) ==
    LET b == body[r]
        row == [association |-> b.association, on |-> b.on, health |-> health, items |-> items]
    IN  Decide(r,
          /\ RoleOf[b.by] \in MANAGER_ROLE_CODES
          /\ check_association(seen[r], b.by, b.association)
          /\ accepted
          /\ ~duplicate_date(seen[r], b.association, b.on, None)
          /\ validate_balanced(items)
          /\ validate_chart_accounts(seen[r], b.association, items),
          duplicate_date(db, b.association, b.on, None),
          [db EXCEPT !.balanceSheets = With(@, [k \in {r} |-> row])])

create_balance_sheet(r) ==
    /\ Asks(r, "create_sheet")
    /\ CreateBalanceSheet(r, body[r].items # <<>>, body[r].items, body[r].health)

update_balance_sheet(r) ==
    LET b == body[r]
        old == seen[r].balanceSheets[b.balance_sheet]
        new == [old EXCEPT !.on = b.on, !.health = b.health]
        sheets == [Save(db.balanceSheets, seen[r].balanceSheets, b.balance_sheet, new)
                     EXCEPT ![b.balance_sheet].items = b.items]
    IN  /\ Asks(r, "update_sheet")
        /\ Decide(r,
             /\ RoleOf[b.by] \in MANAGER_ROLE_CODES
             /\ b.balance_sheet \in DOMAIN seen[r].balanceSheets
             /\ check_association(seen[r], b.by, old.association)
             /\ b.association = old.association
             /\ ~duplicate_date(seen[r], b.association, b.on, b.balance_sheet)
             /\ b.items # <<>> /\ validate_balanced(b.items)
             /\ validate_chart_accounts(seen[r], b.association, b.items),
             duplicate_date(db, b.association, sheets[b.balance_sheet].on, b.balance_sheet),
             [db EXCEPT !.balanceSheets = sheets])

template_headings == <<Text("section"), Text("account_code"), Text("account_name"), Text("amount"),
                       Text("health_status"), Text("financial_health_note")>>
required_headings == {"section", "account_name", "amount"}

\* The last column with this heading.
header_column(sheet, heading) ==
    LET found == {c \in DOMAIN sheet[1] : sheet[1][c] = Text(heading)}
    IN  IF found = {} THEN 0 ELSE CHOOSE c \in found : \A d \in found : d <= c

cell_value(sheet, i, heading) ==
    LET c == header_column(sheet, heading)
    IN  IF c \in DOMAIN sheet[i] THEN sheet[i][c] ELSE None

populated(sheet) == {i \in DOMAIN sheet : i > 1 /\ first_nonempty(sheet[i]) # None}

health_in(sheet) == {cell_value(sheet, i, "health_status") : i \in populated(sheet)} \ {None}

account_codes(sheet) == {cell_value(sheet, i, "account_code") : i \in populated(sheet)} \ {None}

parse_workbook(sheet) ==
    /\ \A h \in required_headings : header_column(sheet, h) # 0
    /\ populated(sheet) # {}
    /\ \A i \in populated(sheet) :
          LET section == cell_value(sheet, i, "section")
              amount == cell_value(sheet, i, "amount")
          IN  /\ section # None /\ section[2] \in DOMAIN SECTION_ALIASES
              /\ cell_value(sheet, i, "account_name") # None
              /\ amount # None /\ amount[1] = "number"
    /\ Cardinality(health_in(sheet)) <= 1

\* association_accounts_by_code: of accounts with one code the query's last, whichever
\* that is.
accounts_by_code(tables, association, codes) ==
    {f \in [codes -> chart_of(tables, association)] : \A c \in codes : Text(tables.chart[f[c]].code) = c}

imported_items(sheet, accounts) ==
    LET rows == SelectSeq([i \in DOMAIN sheet |-> i], LAMBDA i : i \in populated(sheet))
    IN  [j \in DOMAIN rows |->
           LET code == cell_value(sheet, rows[j], "account_code")
           IN  [section |-> SECTION_ALIASES[cell_value(sheet, rows[j], "section")[2]],
                amount |-> cell_value(sheet, rows[j], "amount")[2],
                account |-> IF code = None THEN None ELSE accounts[code]]]

import_workbook(r) ==
    LET sheet == body[r].sheet
        choices == accounts_by_code(seen[r], body[r].association, account_codes(sheet))
        health == health_in(sheet)
    IN  /\ Asks(r, "import_sheet")
        /\ IF ~parse_workbook(sheet) \/ choices = {} THEN Refuse(r)
           ELSE \E accounts \in choices :
                  CreateBalanceSheet(r, TRUE, imported_items(sheet, accounts),
                                     IF health = {} THEN None ELSE (CHOOSE h \in health : TRUE)[2])

\* A title, the day, then the sections under headings of their own with their totals.
export_section(items, section) ==
    LET own == SelectSeq(items, LAMBDA item : item.section = section)
    IN  <<<<Text(section)>>>>
        \o [i \in DOMAIN own |-> <<None, Text("name"), Amount(own[i].amount)>>]
        \o <<<<None, Text("total"), Amount(section_total(items, {section}))>>, <<None>>>>

export_balance_sheet(sheet) ==
    <<<<Text("title")>>, <<Text("as on")>>, <<None>>,
      <<Text("category"), Text("particulars"), Text("amount"), Text("notes")>>>>
    \o export_section(sheet.items, "current_asset") \o export_section(sheet.items, "non_current_asset")
    \o <<<<Text("total assets"), None, Amount(section_total(sheet.items, ASSETS))>>>>
    \o export_section(sheet.items, "current_liability") \o export_section(sheet.items, "non_current_liability")
    \o export_section(sheet.items, "equity")
    \o <<<<Text("total liabilities & equity"), None,
           Amount(section_total(sheet.items, LIABILITIES \cup {"equity"}))>>>>
-----------------------------------------------------------------------------
(* Income statements: one for each association and period *)

type_total(items, type) == Sum([i \in {j \in DOMAIN items : items[j].type = type} |-> items[i].current])

\* Hundredths of a percent, rounded half away from zero; nothing where there is no income.
operating_margin(income, surplus) ==
    IF surplus < 0 THEN -percentage(-surplus, income) ELSE percentage(surplus, income)

income_totals(items) ==
    LET income == type_total(items, "income")
        surplus == income - type_total(items, "expense")
    IN  [income |-> income, expenses |-> type_total(items, "expense"), surplus |-> surplus,
         margin |-> operating_margin(income, surplus)]

\* NUMERIC(8, 2)
MarginColumn == -99999999..99999999

duplicate_statement(tables, association, period, excluding) ==
    \E k \in DOMAIN tables.incomeStatements \ {excluding} :
        tables.incomeStatements[k].association = association /\ tables.incomeStatements[k].period = period

statement_row(b, items) ==
    With(income_totals(items), [association |-> b.association, period |-> b.period, items |-> items])

SaveNew(r, accepted, items) ==
    LET b == body[r]
    IN  Decide(r,
          /\ RoleOf[b.by] \in MANAGER_ROLE_CODES
          /\ accepted
          /\ check_association(seen[r], b.by, b.association)
          /\ ~duplicate_statement(seen[r], b.association, b.period, None),
          \/ duplicate_statement(db, b.association, b.period, None)
          \/ income_totals(items).margin \notin MarginColumn,
          [db EXCEPT !.incomeStatements = With(@, [k \in {r} |-> statement_row(b, items)])])

create_income_statement(r) == Asks(r, "create_statement") /\ SaveNew(r, TRUE, body[r].items)

\* Of the header what differs from the snapshot is written, the items are replaced.
update_income_statement(r) ==
    LET b == body[r]
        old == seen[r].incomeStatements[b.statement]
        saved == [Save(db.incomeStatements, seen[r].incomeStatements, b.statement, statement_row(b, b.items))
                    EXCEPT ![b.statement].items = b.items]
    IN  /\ Asks(r, "update_statement")
        /\ Decide(r,
             /\ RoleOf[b.by] \in MANAGER_ROLE_CODES
             /\ b.statement \in DOMAIN seen[r].incomeStatements
             /\ check_association(seen[r], b.by, b.association)
             /\ b.association = old.association
             /\ ~duplicate_statement(seen[r], b.association, b.period, b.statement),
             \/ duplicate_statement(db, b.association, saved[b.statement].period, b.statement)
             \/ income_totals(b.items).margin \notin MarginColumn,
             [db EXCEPT !.incomeStatements = saved])

\* The rows after the first are read by position: type, name, this year, the year before.
cell_at(sheet, i, c) == IF c \in DOMAIN sheet[i] THEN sheet[i][c] ELSE None

parse_statement(sheet) ==
    /\ populated(sheet) # {}
    /\ \A i \in populated(sheet) :
          /\ cell_at(sheet, i, 1) \in {Text("income"), Text("expense")}
          /\ cell_at(sheet, i, 2) # None
          /\ \A c \in {3, 4} : cell_at(sheet, i, c) # None /\ cell_at(sheet, i, c)[1] = "number"

import_income_statement(r) ==
    LET sheet == body[r].sheet
        rows == SelectSeq([i \in DOMAIN sheet |-> i], LAMBDA i : i \in populated(sheet))
        items == [j \in DOMAIN rows |-> [type |-> cell_at(sheet, rows[j], 1)[2],
                                         current |-> cell_at(sheet, rows[j], 3)[2],
                                         previous |-> cell_at(sheet, rows[j], 4)[2]]]
    IN  /\ Asks(r, "import_statement")
        /\ IF parse_statement(sheet) THEN SaveNew(r, TRUE, items) ELSE Refuse(r)

\* The cells of a year and of the year before; the change is a third.
export_type(items, type) ==
    LET own == SelectSeq(items, LAMBDA item : item.type = type)
    IN  <<<<Text(type)>>>>
        \o [i \in DOMAIN own |-> <<None, Text("name"), Amount(own[i].current), Amount(own[i].previous)>>]
        \o <<<<None, Text("total"), Amount(type_total(items, type))>>, <<None>>>>

export_income_statement(statement) ==
    <<<<Text("title")>>, <<Text(statement.period)>>, <<None>>,
      <<Text("category"), Text("particulars"), Text("current year"), Text("previous year"), Text("variance")>>>>
    \o export_type(statement.items, "income") \o export_type(statement.items, "expense")
    \o <<<<Text("net surplus"), None, Amount(statement.surplus)>>>>
-----------------------------------------------------------------------------
StatementStep(r) ==
    \/ upload_global(r) \/ map_global(r) \/ add_association(r) \/ update_association(r) \/ delete_association(r)
    \/ create_balance_sheet(r) \/ update_balance_sheet(r) \/ import_workbook(r)
    \/ create_income_statement(r) \/ update_income_statement(r) \/ import_income_statement(r)

\* The lines of a sheet name accounts of the association's own chart.
StatementsTypeOK ==
    /\ \A k \in DOMAIN db.chart : /\ db.chart[k].association \in DOMAIN db.associations
                                  /\ db.chart[k].mapped_from \in DOMAIN db.globalChart \cup {None}
    /\ \A k \in DOMAIN db.balanceSheets :
          \A i \in DOMAIN db.balanceSheets[k].items :
             LET account == db.balanceSheets[k].items[i].account
             IN  account = None \/ db.chart[account].association = db.balanceSheets[k].association
    /\ \A k \in DOMAIN db.incomeStatements : db.incomeStatements[k].margin \in MarginColumn
=============================================================================
