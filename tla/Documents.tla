----------------------------- MODULE Documents -----------------------------
(* Documents of an association and of its units (app/modules/documents). Edits  *)
(* and deletions are UPDATE statements of their own: their WHERE clause meets   *)
(* the committed row, whatever the snapshot showed.                          *)
EXTENDS UnitOfWork

\* Only the association an account belongs to makes it a board member
\* (board_members/service.py, create).
ASSUME SeatsAtHome == \A a \in Accounts : SeatsOf[a] # {} => HomeOf[a] \in SeatsOf[a]

DOCUMENT_VIEW_ROLES == {"super_admin", "admin", "accountant", "board_member",
                        "committee_member", "homeowner", "tenant"}
DOCUMENT_MANAGER_ROLES == {"super_admin", "admin", "accountant", "board_member"}
UNIT_DOCUMENT_MANAGER_ROLES == {"super_admin", "admin"}

scoped_associations(tables, account) ==
    CASE RoleOf[account] = "super_admin" -> DOMAIN tables.associations
      [] RoleOf[account] \in {"admin", "accountant"} -> Manages[account]
      [] RoleOf[account] = "board_member" /\ SeatsOf[account] # {} -> SeatsOf[account]
      [] OTHER -> {HomeOf[account]}

manages_document(tables, document, account) ==
    /\ RoleOf[account] \in DOCUMENT_MANAGER_ROLES
    /\ IsLive(tables.documents, document)
    /\ tables.documents[document].association \in scoped_associations(tables, account)

\* Managers see all of their associations; residents what names them.
document_list(tables, account) ==
    {d \in Live(tables.documents) :
        LET document == tables.documents[d]
        IN  /\ RoleOf[account] \in DOCUMENT_VIEW_ROLES
            /\ association_exists(tables, document.association)
            /\ document.association \in scoped_associations(tables, account)
            /\ \/ RoleOf[account] \in DOCUMENT_MANAGER_ROLES
               \/ document.visibility \cap {"public", "residents"} # {}
               \/ RoleOf[account] = "committee_member" /\ "committee" \in document.visibility}

\* Outside UNIT_DOCUMENT_MANAGER_ROLES: what the account or another of its unit put there.
unit_document_list(tables, account) ==
    {d \in Live(tables.unitDocuments) :
        LET document == tables.unitDocuments[d]
        IN  /\ RoleOf[account] \in DOCUMENT_VIEW_ROLES
            /\ association_exists(tables, document.association)
            /\ document.association \in scoped_associations(tables, account)
            /\ \/ RoleOf[account] \in UNIT_DOCUMENT_MANAGER_ROLES
               \/ document.by = account
               \/ UnitOf[account] # None /\ document.unit = UnitOf[account]}

board_visible_list(tables, account) ==
    {d \in Live(tables.unitDocuments) :
        LET document == tables.unitDocuments[d]
        IN  /\ RoleOf[account] \in {"super_admin", "admin", "board_member"}
            /\ association_exists(tables, document.association)
            /\ document.association \in scoped_associations(tables, account)
            /\ document.board \/ RoleOf[document.by] = "tenant"}

\* update_unit and delete_unit: an administrator of the association, or the author.
writes_unit_document(tables, document, account) ==
    /\ RoleOf[account] \in DOCUMENT_VIEW_ROLES
    /\ IsLive(tables.unitDocuments, document)
    /\ tables.unitDocuments[document].association \in scoped_associations(tables, account)
    /\ \/ RoleOf[account] \in UNIT_DOCUMENT_MANAGER_ROLES
       \/ tables.unitDocuments[document].by = account

\* UPDATE ... SET columns WHERE id = document AND is_deleted = 0
Update(table, document, columns) ==
    IF table[document].deleted THEN table ELSE [table EXCEPT ![document] = With(@, columns)]
-----------------------------------------------------------------------------
create_document(r) ==
    LET b == body[r]
        row == With(b.columns, [association |-> b.association, deleted |-> FALSE])
    IN  /\ Asks(r, "create_document")
        /\ Decide(r,
             /\ RoleOf[b.by] \in DOCUMENT_MANAGER_ROLES
             /\ b.association \in scoped_associations(seen[r], b.by), FALSE,
             [db EXCEPT !.documents = With(@, [k \in {r} |-> row])])

\* No row matched: 404.
update_document(r) ==
    LET b == body[r]
    IN  /\ Asks(r, "update_document")
        /\ Decide(r,
             /\ manages_document(seen[r], b.document, b.by)
             /\ ~db.documents[b.document].deleted, FALSE,
             [db EXCEPT !.documents = Update(@, b.document, b.columns)])

delete_document(r) ==
    LET b == body[r]
    IN  /\ Asks(r, "delete_document")
        /\ Decide(r, manages_document(seen[r], b.document, b.by), FALSE,
             [db EXCEPT !.documents = Update(@, b.document, [deleted |-> TRUE])])

\* A resident's goes to the resident's own unit, an administrator's to any.
create_unit_document(r) ==
    LET b == body[r]
        manager == RoleOf[b.by] \in UNIT_DOCUMENT_MANAGER_ROLES
        association == IF manager THEN b.association ELSE HomeOf[b.by]
        row == [association |-> association, by |-> b.by, name |-> b.name, file |-> b.file,
                unit |-> IF manager THEN b.unit ELSE UnitOf[b.by],
                board |-> b.board \/ RoleOf[b.by] = "tenant", deleted |-> FALSE]
    IN  /\ Asks(r, "create_unit_document")
        /\ Decide(r,
             /\ RoleOf[b.by] \in DOCUMENT_VIEW_ROLES
             /\ manager \/ b.unit \in {None, UnitOf[b.by]}
             /\ association # None
             /\ association \in scoped_associations(seen[r], b.by), FALSE,
             [db EXCEPT !.unitDocuments = With(@, [k \in {r} |-> row])])

\* A file or a flag the request leaves out is written as the snapshot has it.
update_unit_document(r) ==
    LET b == body[r]
        old == seen[r].unitDocuments[b.unit_document]
        columns == [name |-> b.name,
                    file |-> IF b.file = None THEN old.file ELSE b.file,
                    board |-> CASE RoleOf[b.by] = "tenant" -> TRUE
                                [] b.board = None -> old.board
                                [] OTHER -> b.board]
    IN  /\ Asks(r, "update_unit_document")
        /\ Decide(r, writes_unit_document(seen[r], b.unit_document, b.by), FALSE,
             [db EXCEPT !.unitDocuments = Update(@, b.unit_document, columns)])

delete_unit_document(r) ==
    LET b == body[r]
    IN  /\ Asks(r, "delete_unit_document")
        /\ Decide(r, writes_unit_document(seen[r], b.unit_document, b.by), FALSE,
             [db EXCEPT !.unitDocuments = Update(@, b.unit_document, [deleted |-> TRUE])])

DocumentStep(r) ==
    \/ create_document(r) \/ update_document(r) \/ delete_document(r)
    \/ create_unit_document(r) \/ update_unit_document(r) \/ delete_unit_document(r)
-----------------------------------------------------------------------------
DocumentsTypeOK ==
    /\ \A d \in DOMAIN db.documents :
          /\ db.documents[d].association \in DOMAIN db.associations
          /\ db.documents[d].deleted \in BOOLEAN
    /\ \A d \in DOMAIN db.unitDocuments :
          /\ db.unitDocuments[d].by \in Accounts
          /\ db.unitDocuments[d].unit \in DOMAIN UnitHome \cup {None}
          /\ db.unitDocuments[d].board \in BOOLEAN
=============================================================================
