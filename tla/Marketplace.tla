----------------------------- MODULE Marketplace -----------------------------
(* Listings with their images, favourites, views, reports and the chat between  *)
(* an owner and buyers (app/modules/marketplace). Its writes are SQL statements  *)
(* that read the committed rows, whatever the snapshot was.                    *)
EXTENDS UnitOfWork

item_get(tables, item) == IsLive(tables.items, item)

MarketManagers == {"super_admin", "admin"}

\* A seat on a board goes before the association of the person.
member_association_ids(account) ==
    IF SeatsOf[account] # {} THEN SeatsOf[account] ELSE {HomeOf[account]} \ {None}

\* Whatever the role of its member, a seat counts; a super administrator has no list.
scope(account) == IF RoleOf[account] = "admin" THEN Manages[account] ELSE member_association_ids(account)

InScope(account, association) == RoleOf[account] = "super_admin" \/ association \in scope(account)

_authorized_item(tables, item, account) ==
    /\ item_get(tables, item)
    /\ RoleOf[account] \in MarketManagers \/ InScope(account, tables.items[item].association)

\* The list without its filter.
item_list_of_all(tables, account) == Live(tables.items)

item_list(tables, account) ==
    {i \in Live(tables.items) : InScope(account, tables.items[i].association)}

\* GET /marketplace/favorites: whatever the association
favorites(tables, account) ==
    {i \in Live(tables.items) :
        \E k \in Live(tables.favorites) :
            tables.favorites[k].item = i /\ tables.favorites[k].by = account}

MayEditItem(tables, item, account) ==
    /\ _authorized_item(tables, item, account)
    /\ tables.items[item].owner = account \/ RoleOf[account] \in MarketManagers

images_of(tables, item) == {k \in Live(tables.images) : tables.images[k].item = item}

new_images(r, item, urls) ==
    [k \in {<<r, u>> : u \in urls} |-> [item |-> item, deleted |-> FALSE]]

\* Rows of the account in a table whose rows have keys of their own.
own_rows(table, item, account) ==
    {k \in DOMAIN table : table[k].item = item /\ table[k].by = account}
-----------------------------------------------------------------------------
\* Without an association: the first of those the account may post to.
create_item(r) ==
    LET b == body[r]
        choices == CASE b.association # None -> {b.association}
                     [] RoleOf[b.by] = "super_admin" -> {}
                     [] OTHER -> scope(b.by)
    IN  /\ Asks(r, "create_item")
        /\ IF choices = {} THEN Refuse(r)
           ELSE \E association \in choices :
             Decide(r, InScope(b.by, association) /\ association_exists(seen[r], association), FALSE,
               [db EXCEPT !.items = With(@, [k \in {r} |-> With(b.columns,
                                      [association |-> association, owner |-> b.by, deleted |-> FALSE])]),
                          !.images = With(@, new_images(r, r, b.images))])

\* UPDATE ... WHERE id AND is_deleted=0 with the columns the request names, then the
\* images if it names any. images = None: not named.
update_item(r) ==
    LET b == body[r]
        named == DOMAIN b.columns # {}
    IN  /\ Asks(r, "update_item")
        /\ Decide(r,
             /\ MayEditItem(seen[r], b.item, b.by)
             /\ named => item_get(db, b.item), FALSE,
             [db EXCEPT !.items[b.item] = With(@, b.columns),
                        !.images = IF b.images = None THEN @
                                   ELSE With(Delete(@, @, images_of(db, b.item)),
                                             new_images(r, b.item, b.images))])

delete_item(r) ==
    /\ Asks(r, "delete_item")
    /\ Decide(r, MayEditItem(seen[r], body[r].item, body[r].by), FALSE,
         [db EXCEPT !.items = [@ EXCEPT ![body[r].item].deleted = TRUE]])

\* The new flag is computed from the snapshot and written as a constant.
toggle_favorite(r) ==
    LET b == body[r]
        loaded == seen[r].favorites
        mine == own_rows(loaded, b.item, b.by)
        Row == [item |-> b.item, by |-> b.by, deleted |-> FALSE]
    IN  /\ Asks(r, "favorite_item")
        /\ \E k \in IF mine = {} THEN {r} ELSE mine :
             Decide(r, _authorized_item(seen[r], b.item, b.by), FALSE,
               [db EXCEPT !.favorites = IF mine = {} THEN With(@, [x \in {r} |-> Row])
                                        ELSE [@ EXCEPT ![k].deleted = ~loaded[k].deleted]])

record_view(r) ==
    LET b == body[r]
        mine == own_rows(seen[r].views, b.item, b.by)
    IN  /\ Asks(r, "view_item")
        /\ Decide(r, _authorized_item(seen[r], b.item, b.by), FALSE,
             [db EXCEPT !.views = IF mine # {} THEN @
                                  ELSE With(@, [k \in {r} |-> [item |-> b.item, by |-> b.by]])])

add_report(r) ==
    /\ Asks(r, "report_item")
    /\ Decide(r, _authorized_item(seen[r], body[r].item, body[r].by), FALSE,
         [db EXCEPT !.reports = @ \cup {[item |-> body[r].item, by |-> body[r].by, key |-> r]}])

\* The other end of the last messages of an account about an item.
latest_chat_peer(tables, item, account) ==
    LET mine == {k \in DOMAIN tables.chat : tables.chat[k].item = item
                                            /\ account \in {tables.chat[k].from, tables.chat[k].to}}
        Last(k) == \A x \in mine : tables.chat[x].at <= tables.chat[k].at
    IN  {IF tables.chat[k].from = account THEN tables.chat[k].to ELSE tables.chat[k].from
            : k \in {k \in mine : Last(k)}}

send_chat(r) ==
    LET b == body[r]
        tables == seen[r]
        owner == tables.items[b.item].owner
        targets == CASE owner # b.by -> {owner}
                     [] owner = b.by /\ b.to # None -> {b.to}
                     [] OTHER -> latest_chat_peer(tables, b.item, b.by)
        ChatRow(to) == [item |-> b.item, from |-> b.by, to |-> to, at |-> now]
    IN  /\ Asks(r, "chat_item")
        /\ IF ~_authorized_item(tables, b.item, b.by) \/ targets = {} THEN Refuse(r)
           ELSE \E to \in targets :
             Decide(r, to # b.by, FALSE,
               [db EXCEPT !.chat = With(@, [k \in {r} |-> ChatRow(to)]),
                          !.frames = @ \cup {Message(r, <<"item", b.item, "message">>, {b.by, to})},
                          !.notifications = NotifyAll(@, r, <<"item", b.item>>, {to})])

MarketStep(r) ==
    \/ create_item(r) \/ update_item(r) \/ delete_item(r) \/ toggle_favorite(r)
    \/ record_view(r) \/ add_report(r) \/ send_chat(r)
-----------------------------------------------------------------------------
ItemRow == [title : STRING, price : Nat, status : STRING, owner : Accounts,
            association : DOMAIN db.associations, deleted : BOOLEAN]

MarketTypeOK ==
    /\ \A i \in DOMAIN db.items : db.items[i] \in ItemRow
    /\ \A k \in DOMAIN db.images : db.images[k].item \in DOMAIN db.items
    /\ \A m \in DOMAIN db.chat : db.chat[m].item \in DOMAIN db.items /\ db.chat[m].from # db.chat[m].to
=============================================================================
