----------------------------- MODULE PagedLists -----------------------------
(***************************************************************************)
(* Lists of invoices by the page: paginateQuery of                         *)
(* utils/query-pagination.utils.ts, the marketplace's two lists and the    *)
(* search (services/marketplace.service.ts, invoice-search.service.ts).    *)
(*                                                                         *)
(* A row has an id and the value it is sorted by, an integer in the units  *)
(* of the database, of which the program's have `unit`: 1 where the cursor *)
(* carries the value as it is, 1000 for the time a row was made, which the *)
(* database keeps in microseconds and a Date in milliseconds.              *)
(***************************************************************************)
EXTENDS Integers, Sequences, FiniteSets

LOCAL INSTANCE SequencesExt
LOCAL INSTANCE FiniteSetsExt

Nothing == <<>>

\* findPublishedInvoices(ByCursor): the rows the filters let through.
Unless(filter, ok) == filter = {} \/ ok
Matches(row, f) ==
    /\ ~row.deleted /\ Unless(f.status, row.status \in f.status)
    /\ \A due \in f.dueBefore : row.due <= due
    /\ \A min \in f.minAmount : row.amount >= min
    /\ \A max \in f.maxAmount : row.amount <= max
    /\ Unless(f.search, row.customer \in f.search)

\* getInvoices: "open" is published, as is no status at all, and bounds that
\* cross are refused.
AskedStatus(status) ==
    IF status = {} THEN {"published"} ELSE {IF s = "open" THEN "published" ELSE s : s \in status}
IsRefused(f) == \E min \in f.minAmount, max \in f.maxAmount : min > max
Sorting(sort, order) ==
    CASE sort = "deadline_asc" -> <<"due_date", "ASC">>
      [] sort = "yield_desc" -> <<"discount_rate", "DESC">>
      [] sort = "amount_desc" -> <<"amount", "DESC">>
      [] sort \in {"due_date", "discount_rate", "amount", "created_at"} -> <<sort, order>>
      [] OTHER -> <<"amount", order>>

Clamped(limit) == Max({1, Min({100, limit})})

-----------------------------------------------------------------------------
(* Pages by number.                                                        *)

Before(v, w, order) == IF order = "DESC" THEN v > w ELSE v < w
Precedes(r, q, order) == Before(r.value, q.value, order) \/ (r.value = q.value /\ r.id < q.id)
Sorted(rows, order) == SetToSortSeq(rows, LAMBDA r, q : Precedes(r, q, order))
Slice(s, from, n) == SubSeq(s, from, Min({from + n - 1, Len(s)}))

NumberedPage(rows, order, number, limit) == Slice(Sorted(rows, order), (number - 1) * limit + 1, limit)
PageCount(rows, limit) == (Cardinality(rows) + limit - 1) \div limit

-----------------------------------------------------------------------------
(* Pages by cursor: the value, as the program has it, and the id of the    *)
(* last row.                                                               *)

Truncated(value, unit) == (value \div unit) * unit
CursorOf(row, field, unit) == [field |-> field, value |-> Truncated(row.value, unit), id |-> row.id]

IsAfter(row, cursor, order) ==
    Before(cursor.value, row.value, order) \/ (row.value = cursor.value /\ row.id > cursor.id)

\* One row more than the page tells whether there is another.  A cursor of
\* another field is refused.
CursorPage(rows, field, order, unit, limit, cursor) ==
    LET left == IF cursor = Nothing THEN rows ELSE {r \in rows : IsAfter(r, cursor, order)}
        found == Slice(Sorted(left, order), 1, limit + 1)
        items == Slice(found, 1, limit)
    IN  IF cursor # Nothing /\ cursor.field # field THEN [error |-> "invalid_cursor"]
        ELSE [items |-> items,
              next |-> IF Len(found) > limit THEN CursorOf(Last(items), field, unit) ELSE Nothing]

\* The search: the best rank first, then the newest, then the greatest id; a
\* cursor without a rank is refused by a ranked search, and one with by another.
FoundBefore(r, q) ==
    \/ r.rank > q.rank
    \/ r.rank = q.rank /\ (r.value > q.value \/ (r.value = q.value /\ r.id > q.id))
SearchPage(rows, ranked, unit, limit, cursor) ==
    LET Key(r) == [rank |-> IF ranked THEN r.rank ELSE 0, value |-> r.value, id |-> r.id]
        left == IF cursor = Nothing THEN rows ELSE {r \in rows : FoundBefore(cursor.last, Key(r))}
        found == Slice(SetToSortSeq(left, LAMBDA r, q : FoundBefore(Key(r), Key(q))), 1, limit + 1)
        items == Slice(found, 1, limit)
        last == [Key(Last(items)) EXCEPT !.value = Truncated(@, unit)]
    IN  IF cursor # Nothing /\ cursor.ranked # ranked THEN [error |-> "INVALID_CURSOR"]
        ELSE [items |-> items,
              next |-> IF Len(found) > limit THEN [ranked |-> ranked, last |-> last] ELSE Nothing]
=============================================================================
