-------------------------- MODULE NotificationInbox --------------------------
(***************************************************************************)
(* The notifications a user reads (services/notification.service.ts and    *)
(* controllers/notification.controller.ts): those addressed to the user's  *)
(* id or wallet, and the rows of the three tables of events, which have    *)
(* both.  Nothing in the program writes to those tables.                   *)
(*                                                                         *)
(* An item is [table, id, user, wallet, type, read, at]; a row of the      *)
(* notifications has one address, `user`, and `wallet` is none.            *)
(***************************************************************************)
EXTENDS Integers, Sequences, FiniteSets

LOCAL INSTANCE SequencesExt
LOCAL INSTANCE FiniteSetsExt

NoWallet == "none"
IsNotification(item) == item.table = "notifications"

\* Whom an item is for, when the wallet of the user is known or else the id twice.
IsFor(item, user, wallet) ==
    IF IsNotification(item) THEN item.user \in {user, wallet}
    ELSE item.wallet = wallet \/ item.user = user

\* list: all of them, filtered, the newest first (ties are in no order).  The
\* cursor of the request is not looked at.
Listed(items, user, wallet, read, type) ==
    {item \in items : /\ IsFor(item, user, wallet)
                      /\ \A r \in read : item.read = r
                      /\ \A t \in type : item.type = t}
Page(items, number, limit) ==
    LET all == SetToSortSeq(items, LAMBDA i, j : i.at > j.at)
        first == (number - 1) * limit + 1
    IN  [data |-> SubSeq(all, first, Min({first + limit - 1, Len(all)})),
         hasMore |-> first + limit - 1 < Len(all),
         totalPages |-> (Len(all) + limit - 1) \div limit]
CursorOf(page) == IF page.hasMore /\ page.data # <<>> THEN <<Last(page.data).at, Last(page.data).id>> ELSE <<>>
List(items, user, wallet, read, type, number, limit, cursor) ==
    LET page == Page(Listed(items, user, wallet, read, type), number, limit)
    IN  [data |-> page.data, totalPages |-> page.totalPages, nextCursor |-> CursorOf(page)]

\* markAllRead of the repository, without a wallet also by the wallet's column.
MarkAll(items, user, wallet) ==
    LET known == IF wallet = NoWallet THEN user ELSE wallet
    IN  {IF IsFor(item, user, known) THEN [item EXCEPT !.read = TRUE] ELSE item : item \in items}

\* The two endpoints: readAll knows the wallet, markAllRead does not.
ReadAll(items, user, wallet) == MarkAll(items, user, wallet)
MarkAllRead(items, user) == MarkAll(items, user, NoWallet)

\* unreadCount: of the notifications of the id.
UnreadCount(items, user) ==
    Cardinality({item \in items : IsNotification(item) /\ item.user = user /\ ~item.read})

\* markRead: a notification of the id, or nothing: 404.
MarkRead(items, user, id) ==
    LET own == {item \in items : IsNotification(item) /\ item.id = id /\ item.user = user}
    IN  IF own = {} THEN [status |-> 404, items |-> items]
        ELSE [status |-> 200,
              items |-> {IF item \in own THEN [item EXCEPT !.read = TRUE] ELSE item : item \in items}]
=============================================================================
