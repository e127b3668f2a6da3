----------------------------- MODULE Catalogues -----------------------------
(* What administrators define: entity types and entities, subscription plans with    *)
(* their features, features, roles and the permissions of roles (app/modules/          *)
(* entity_types, entities, subscriptions, features, roles and permissions). A name      *)
(* or a code is in lower case.                                                     *)
EXTENDS UnitOfWork

CATALOGUE_ROLES == {"super_admin", "admin"}
PLAN_ROLES == {"super_admin"}

\* Names differ within a type, within a country, or among all.
Scope(table, row) ==
    CASE table = "entities" -> row.type
      [] table = "plans" -> row.country
      [] OTHER -> None

SameName(table, one, other) == one.name = other.name /\ Scope(table, one) = Scope(table, other)

name_exists(tables, table, row, excluding) ==
    \E k \in Live(tables[table]) \ {excluding} : SameName(table, tables[table][k], row)

\* Plans, features and roles have a code too. That of a deleted row is free here, and taken
\* in the unique key.
Coded == {"plans", "features", "roles"}

code_exists(tables, table, row, excluding) ==
    /\ table \in Coded /\ row.code # None
    /\ \E k \in Live(tables[table]) \ {excluding} : tables[table][k].code = row.code

code_taken(table, row, excluding) ==
    /\ table \in Coded /\ row.code # None
    /\ \E k \in DOMAIN db[table] \ {excluding} : db[table][k].code = row.code

Validated(r, table, excluding) ==
    /\ ~name_exists(seen[r], table, body[r].columns, excluding)
    /\ ~code_exists(seen[r], table, body[r].columns, excluding)
-----------------------------------------------------------------------------
(* Entity types and entities *)

CreateEntry(r, table, allowed) ==
    Decide(r, allowed /\ Validated(r, table, None), code_taken(table, body[r].columns, None),
           [db EXCEPT ![table] = With(@, [k \in {r} |-> With(body[r].columns, [deleted |-> FALSE])])])

UpdateEntry(r, table, allowed) ==
    LET k == body[r].entry
        loaded == seen[r][table]
        saved == Save(db[table], loaded, k, With(loaded[k], body[r].columns))
    IN  Decide(r, IsLive(loaded, k) /\ allowed /\ Validated(r, table, k), code_taken(table, saved[k], k),
               [db EXCEPT ![table] = saved])

DeleteEntry(r, table, allowed) ==
    Decide(r, IsLive(seen[r][table], body[r].entry) /\ allowed, FALSE,
           [db EXCEPT ![table] = Delete(@, seen[r][table], {body[r].entry})])

IsOneOf(r, roles) == RoleOf[body[r].by] \in roles

create_entity_type(r) == Asks(r, "create_entity_type") /\ CreateEntry(r, "entityTypes", IsOneOf(r, CATALOGUE_ROLES))
update_entity_type(r) == Asks(r, "update_entity_type") /\ UpdateEntry(r, "entityTypes", IsOneOf(r, CATALOGUE_ROLES))
delete_entity_type(r) == Asks(r, "delete_entity_type") /\ DeleteEntry(r, "entityTypes", IsOneOf(r, CATALOGUE_ROLES))

create_entity(r) == Asks(r, "create_entity") /\ CreateEntry(r, "entities", IsOneOf(r, CATALOGUE_ROLES))
update_entity(r) == Asks(r, "update_entity") /\ UpdateEntry(r, "entities", IsOneOf(r, CATALOGUE_ROLES))
delete_entity(r) == Asks(r, "delete_entity") /\ DeleteEntry(r, "entities", IsOneOf(r, CATALOGUE_ROLES))
-----------------------------------------------------------------------------
(* Plans, features and roles *)

\* Deleting turns it off too.
DeleteCoded(r, table, allowed) ==
    LET k == body[r].entry
        off == [seen[r][table][k] EXCEPT !.deleted = TRUE, !.active = FALSE]
    IN  Decide(r, IsLive(seen[r][table], k) /\ allowed, FALSE,
               [db EXCEPT ![table] = Save(@, seen[r][table], k, off)])

create_plan(r) == Asks(r, "create_plan") /\ CreateEntry(r, "plans", IsOneOf(r, PLAN_ROLES))
update_plan(r) == Asks(r, "update_plan") /\ UpdateEntry(r, "plans", IsOneOf(r, PLAN_ROLES))
delete_plan(r) == Asks(r, "delete_plan") /\ DeleteCoded(r, "plans", IsOneOf(r, PLAN_ROLES))

feature_exists(tables, feature) == IsLive(tables.features, feature) /\ tables.features[feature].active

\* replace_features: the rows seen are marked, those listed restored or inserted.
set_features(r) ==
    LET b == body[r]
        rows == {k \in DOMAIN seen[r].planFeatures : k[1] = b.entry}
        listed == {<<b.entry, f>> : f \in b.features}
        added == listed \ rows
    IN  /\ Asks(r, "set_features")
        /\ Decide(r, /\ IsOneOf(r, PLAN_ROLES)
                     /\ IsLive(seen[r].plans, b.entry)
                     /\ \A f \in b.features : feature_exists(seen[r], f),
             Taken(db.planFeatures, seen[r].planFeatures, added),
             [db EXCEPT !.planFeatures =
                With(Mark(@, seen[r].planFeatures, [k \in rows |-> k \notin listed]),
                     [k \in added |-> [deleted |-> FALSE]])])

\* The features above one, itself with them: the walk ends at a deleted one.
branch(tables, feature) ==
    LET Up[n \in 0..Cardinality(DOMAIN tables.features)] ==
            IF n = 0 THEN {feature} ELSE Up[n - 1] \cup ({tables.features[f].parent : f \in Up[n - 1]} \cap Live(tables.features))
    IN  Up[Cardinality(DOMAIN tables.features)]

_is_descendant(tables, feature, ancestor) ==
    \E f \in branch(tables, feature) : tables.features[f].parent = ancestor

\* A new parent is to exist.
ParentExists(r, feature) ==
    LET parent == body[r].columns.parent
    IN  parent # None => IsLive(seen[r].features, parent)

\* A new parent is not to be below the feature; the feature itself is not looked at.
ParentAllowed(r, feature) ==
    LET parent == body[r].columns.parent
    IN  parent # None => /\ IsLive(seen[r].features, parent)
                         /\ feature # None => ~_is_descendant(seen[r], parent, feature)

create_feature(r) ==
    Asks(r, "create_feature") /\ CreateEntry(r, "features", IsOneOf(r, CATALOGUE_ROLES) /\ ParentAllowed(r, None))
update_feature(r) ==
    Asks(r, "update_feature") /\ UpdateEntry(r, "features", IsOneOf(r, CATALOGUE_ROLES) /\ ParentAllowed(r, body[r].entry))
delete_feature(r) == Asks(r, "delete_feature") /\ DeleteCoded(r, "features", IsOneOf(r, CATALOGUE_ROLES))

role_exists(tables, role) == IsLive(tables.roles, role)
role_code(tables, role) == tables.roles[role].code
role_with(tables, code) == {k \in Live(tables.roles) : tables.roles[k].code = code}

has_account_assignment(tables, role) == \E l \in DOMAIN tables.logins : tables.logins[l].role = role

create_role(r) == Asks(r, "create_role") /\ CreateEntry(r, "roles", IsOneOf(r, CATALOGUE_ROLES))
update_role(r) == Asks(r, "update_role") /\ UpdateEntry(r, "roles", IsOneOf(r, CATALOGUE_ROLES))
delete_role(r) ==
    /\ Asks(r, "delete_role")
    /\ DeleteCoded(r, "roles", IsOneOf(r, CATALOGUE_ROLES) /\ ~has_account_assignment(seen[r], body[r].entry))
-----------------------------------------------------------------------------
(* Permissions: one row for a role and a feature, kept when deleted *)

pair(permission) == <<permission.role, permission.feature>>
rows_with(table, role, feature) == {k \in DOMAIN table : pair(table[k]) = <<role, feature>>}
find_active(tables, role, feature, excluding) ==
    (rows_with(tables.permissions, role, feature) \cap Live(tables.permissions)) \ {excluding}

\* The row as the request states it.
stated(role, item) == [role |-> role, feature |-> item.feature, flags |-> item.flags, deleted |-> FALSE]

RefsValid(r, role, feature) == role_exists(seen[r], role) /\ feature_exists(seen[r], feature)

create_permission(r) ==
    LET b == body[r]
        old == rows_with(seen[r].permissions, b.role, b.feature)
    IN  /\ Asks(r, "create_permission")
        /\ Decide(r,
             /\ IsOneOf(r, CATALOGUE_ROLES)
             /\ RefsValid(r, b.role, b.feature)
             /\ find_active(seen[r], b.role, b.feature, None) = {},
             old = {} /\ rows_with(db.permissions, b.role, b.feature) # {},
             [db EXCEPT !.permissions =
                IF old = {} THEN With(@, [k \in {<<r, 1>>} |-> stated(b.role, b)])
                ELSE [k \in DOMAIN @ |-> IF k \in old THEN Changed(@[k], seen[r].permissions[k], stated(b.role, b)) ELSE @[k]]])

update_permission(r) ==
    LET b == body[r]
        saved == Save(db.permissions, seen[r].permissions, b.permission, stated(b.role, b))
        new == pair(saved[b.permission])
    IN  /\ Asks(r, "update_permission")
        /\ Decide(r,
             /\ IsOneOf(r, CATALOGUE_ROLES)
             /\ IsLive(seen[r].permissions, b.permission)
             /\ RefsValid(r, b.role, b.feature)
             /\ find_active(seen[r], b.role, b.feature, b.permission) = {},
             rows_with(db.permissions, new[1], new[2]) \ {b.permission} # {},
             [db EXCEPT !.permissions = saved])

delete_permission(r) ==
    LET b == body[r]
    IN  /\ Asks(r, "delete_permission")
        /\ Decide(r, IsOneOf(r, CATALOGUE_ROLES) /\ IsLive(seen[r].permissions, b.permission), FALSE,
             [db EXCEPT !.permissions = Delete(@, seen[r].permissions, {b.permission})])

\* The whole matrix of a role: rows seen and not listed are marked. Of a feature listed
\* twice the last counts, and a second insertion meets the unique key.
bulk_update(r) ==
    LET b == body[r]
        granted == {i \in DOMAIN b.grants : b.grants[i].flags # {}}
        old == {k \in DOMAIN seen[r].permissions : seen[r].permissions[k].role = b.role}
        listed(f) == {i \in granted : b.grants[i].feature = f}
        inserted == {i \in granted : rows_with(seen[r].permissions, b.role, b.grants[i].feature) = {}}
        last(f) == CHOOSE i \in listed(f) : \A j \in listed(f) : j <= i
        wanted(k) == LET row == seen[r].permissions[k]
                     IN  IF listed(row.feature) = {} THEN [row EXCEPT !.deleted = TRUE]
                         ELSE stated(b.role, b.grants[last(row.feature)])
    IN  /\ Asks(r, "bulk_permissions")
        /\ Decide(r,
             /\ IsOneOf(r, CATALOGUE_ROLES)
             /\ role_exists(seen[r], b.role)
             /\ \A i \in granted : feature_exists(seen[r], b.grants[i].feature),
             \/ \E i \in inserted : rows_with(db.permissions, b.role, b.grants[i].feature) # {}
             \/ \E i, j \in inserted : i # j /\ b.grants[i].feature = b.grants[j].feature,
             [db EXCEPT !.permissions =
                With([k \in DOMAIN @ |-> IF k \in old THEN Changed(@[k], seen[r].permissions[k], wanted(k)) ELSE @[k]],
                     [k \in {<<r, i>> : i \in inserted} |-> stated(b.role, b.grants[k[2]])])])
-----------------------------------------------------------------------------
CatalogueStep(r) ==
    \/ create_entity_type(r) \/ update_entity_type(r) \/ delete_entity_type(r)
    \/ create_entity(r) \/ update_entity(r) \/ delete_entity(r)
    \/ create_plan(r) \/ update_plan(r) \/ delete_plan(r) \/ set_features(r)
    \/ create_feature(r) \/ update_feature(r) \/ delete_feature(r)
    \/ create_role(r) \/ update_role(r) \/ delete_role(r)
    \/ create_permission(r) \/ update_permission(r) \/ delete_permission(r) \/ bulk_update(r)

\* The unique keys of the tables hold, and columns that name rows name rows there are.
CataloguesTypeOK ==
    /\ \A t \in Coded : \A k \in DOMAIN db[t] : ~code_taken(t, db[t][k], k)
    /\ \A j, k \in DOMAIN db.permissions : pair(db.permissions[j]) = pair(db.permissions[k]) => j = k
    /\ \A k \in DOMAIN db.permissions : db.permissions[k].role \in DOMAIN db.roles /\ db.permissions[k].feature \in DOMAIN db.features
    /\ \A f \in DOMAIN db.features : db.features[f].parent \in DOMAIN db.features \cup {None}
    /\ \A k \in DOMAIN db.planFeatures : k[1] \in DOMAIN db.plans /\ k[2] \in DOMAIN db.features
=============================================================================
