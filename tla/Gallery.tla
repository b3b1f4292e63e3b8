------------------------------- MODULE Gallery -------------------------------
(***************************************************************************)
(* The gallery of Argon-BE: GET /api/images, which pages through the       *)
(* images of a user, newest first, while images are uploaded, processed    *)
(* and removed.  A page is two queries, the rows and then their variants,  *)
(* and a cursor, the id of the last row of a full page.                    *)
(*                                                                         *)
(* Rows are ordered by createdAt alone, so the database may order rows of  *)
(* one millisecond in each query as it likes.  A query with a cursor       *)
(* starts after that row and finds nothing when the row is no longer among *)
(* those the query selects.                                                *)
(***************************************************************************)
EXTENDS Naturals, Sequences, FiniteSets

CONSTANTS
    Images,
    Early,       \* the images listed when the traversal begins, newest first
    NoImage,     \* no cursor
    Limit,       \* images on a page
    StatusFilter,  \* the status the client lists, or "any"
    Now,         \* the time of the traversal, which is short; others are earlier
    MaxWrites    \* bound on the status writes and removals of a behaviour

ASSUME GalleryAssumption ==
    /\ IsFiniteSet(Images) /\ NoImage \notin Images /\ Early \in Seq(Images)
    /\ Limit \in Nat \ {0} /\ Now \in Nat \ {0} /\ MaxWrites \in Nat

VARIABLES
    rows,        \* rows[i]: the row of i and whether it has its variants
    writes,      \* status writes and removals so far
    reader,      \* the traversal: its next step, the cursor, the page it has read
    returned,    \* history: the images on the pages so far
    again,       \* history: the images that were on two of them
    cursors,     \* history: the cursors used
    lost,        \* history: the cursor that was not among the rows selected
    steady       \* history: the images listed ever since the traversal began

db == <<rows, writes, steady>>
client == <<reader, returned, again, cursors, lost>>
vars == <<db, client>>

-----------------------------------------------------------------------------
(* createdAt is taken when the insert starts; others see the row when it   *)
(* is committed.  The variants are all there or not all: one flag.         *)
Phases == {"none", "inserting", "visible", "removed"}
RowStatuses == {"PENDING", "PROCESSING", "COMPLETED"}
Row == [phase : Phases, createdAt : 0..Now, status : RowStatuses, variants : BOOLEAN]
NewRow(phase, t) ==
    [phase |-> phase, createdAt |-> t, status |-> "PENDING", variants |-> FALSE]

(* The where clause of list.                                               *)
Selected(i) ==
    /\ rows[i].phase = "visible"
    /\ StatusFilter = "any" \/ rows[i].status = StatusFilter

View == [id : Images, status : RowStatuses, variants : BOOLEAN]
Reader == [pc : {"ready", "variants", "ended"}, cursor : Images \cup {NoImage}, page : Seq(View)]

Init ==
    /\ \E t \in [DOMAIN Early -> 1..Now], done \in BOOLEAN :
          /\ \A m, n \in DOMAIN Early : m < n => t[m] >= t[n]
          /\ rows = [i \in Images |->
                IF \E n \in DOMAIN Early : Early[n] = i
                THEN [phase |-> "visible",
                      createdAt |-> t[CHOOSE n \in DOMAIN Early : Early[n] = i],
                      status |-> IF done THEN "COMPLETED" ELSE "PROCESSING",
                      variants |-> done]
                ELSE NewRow("none", 0)]
    /\ writes = 0
    /\ reader = [pc |-> "ready", cursor |-> NoImage, page |-> <<>>]
    /\ returned = {} /\ again = {}
    /\ cursors = {} /\ lost = NoImage
    /\ steady = {i \in Images : Selected(i)}

-----------------------------------------------------------------------------
(* What happens to the images meanwhile.                                   *)

(* upload: repo.create.                                                    *)
Insert(i) ==
    /\ rows[i].phase = "none"
    /\ rows' = [rows EXCEPT ![i] = NewRow("inserting", Now)]
    /\ UNCHANGED <<writes, steady, client>>

Commit(i) ==
    /\ rows[i].phase = "inserting"
    /\ rows' = [rows EXCEPT ![i].phase = "visible"]
    /\ UNCHANGED <<writes, steady, client>>

Update(i, row) ==
    /\ rows[i].phase = "visible" /\ writes < MaxWrites
    /\ rows' = [rows EXCEPT ![i] = row]
    /\ writes' = writes + 1
    /\ steady' = {k \in steady : Selected(k)'}
    /\ UNCHANGED client

(* A worker takes the image up, or it is reprocessed; earlier variants     *)
(* stay.                                                                   *)
Process(i) ==
    /\ rows[i].status # "PROCESSING"
    /\ Update(i, [rows[i] EXCEPT !.status = "PROCESSING"])

StoreVariants(i) ==
    /\ rows[i].status = "PROCESSING" /\ ~rows[i].variants
    /\ Update(i, [rows[i] EXCEPT !.variants = TRUE])

Complete(i) ==
    /\ rows[i].status = "PROCESSING" /\ rows[i].variants
    /\ Update(i, [rows[i] EXCEPT !.status = "COMPLETED"])

(* repo.delete, with the variants (onDelete: Cascade).                     *)
Remove(i) == Update(i, [rows[i] EXCEPT !.phase = "removed", !.variants = FALSE])

-----------------------------------------------------------------------------
(* The first n rows of a set in an order by createdAt, newest first: every *)
(* order the database may choose.                                          *)
Newest(n, S) ==
    LET len == IF Cardinality(S) < n THEN Cardinality(S) ELSE n
    IN  {s \in [1..len -> S] :
            /\ \A a, b \in 1..len :
                  a < b => s[a] # s[b] /\ rows[s[a]].createdAt >= rows[s[b]].createdAt
            /\ \A k \in S \ {s[a] : a \in 1..len} :
                  \A a \in 1..len : rows[k].createdAt <= rows[s[a]].createdAt}

(* What may follow a cursor: the older rows, and any of the same time.     *)
FollowingSets(cursor) ==
    LET listed == {i \in Images : Selected(i)}
        ties == {i \in listed \ {cursor} : rows[i].createdAt = rows[cursor].createdAt}
    IN  IF cursor = NoImage THEN {listed}
        ELSE IF cursor \notin listed THEN {{}}
        ELSE {{i \in listed : rows[i].createdAt < rows[cursor].createdAt} \cup T :
                 T \in SUBSET ties}

Seen(i) == [id |-> i, status |-> rows[i].status, variants |-> FALSE]

(* Mutant of ReadRows: the cursor row itself begins the next page.         *)
ReadRowsNoSkip ==
    /\ reader.pc = "ready"
    /\ \E S \in FollowingSets(reader.cursor) :
          \E s \in Newest(Limit, S \cup ({reader.cursor} \cap {i \in Images : Selected(i)})) :
             reader' = [reader EXCEPT !.pc = "variants",
                                      !.page = [n \in DOMAIN s |-> Seen(s[n])]]
    /\ cursors' = cursors \cup {reader.cursor}
    /\ lost' = IF reader.cursor # NoImage /\ ~Selected(reader.cursor) THEN reader.cursor ELSE lost
    /\ UNCHANGED <<db, returned, again>>

(* Mutant of ReadRows: one row more than the limit is taken.               *)
ReadRowsOneMore ==
    /\ reader.pc = "ready"
    /\ \E S \in FollowingSets(reader.cursor) : \E s \in Newest(Limit + 1, S) :
          reader' = [reader EXCEPT !.pc = "variants",
                                   !.page = [n \in DOMAIN s |-> Seen(s[n])]]
    /\ cursors' = cursors \cup {reader.cursor}
    /\ lost' = IF reader.cursor # NoImage /\ ~Selected(reader.cursor) THEN reader.cursor ELSE lost
    /\ UNCHANGED <<db, returned, again>>

(* repo.list: the rows of the next page.                                   *)
ReadRows ==
    /\ reader.pc = "ready"
    /\ \E S \in FollowingSets(reader.cursor) : \E s \in Newest(Limit, S) :
          reader' = [reader EXCEPT !.pc = "variants",
                                   !.page = [n \in DOMAIN s |-> Seen(s[n])]]
    /\ cursors' = cursors \cup {reader.cursor}
    /\ lost' = IF reader.cursor # NoImage /\ ~Selected(reader.cursor) THEN reader.cursor ELSE lost
    /\ UNCHANGED <<db, returned, again>>

(* Mutant of NextCursor: a page that is not full keeps the cursor.         *)
NextCursorKept(page) ==
    IF Len(page) = Limit THEN page[Len(page)].id ELSE reader.cursor

(* Mutant of NextCursor: a page would have to be longer than Limit.        *)
NextCursorPastLimit(page) == IF Len(page) > Limit THEN page[Limit].id ELSE NoImage

(* The controller: another page exists if this one is full.                *)
NextCursor(page) == IF Len(page) = Limit THEN page[Len(page)].id ELSE NoImage

PageImages == {reader.page[n].id : n \in DOMAIN reader.page}

(* Mutant of WithVariants: the variants of the first row of the page only. *)
WithVariantsOfFirst(page) ==
    [n \in DOMAIN page |-> [page[n] EXCEPT !.variants = n = 1 /\ rows[page[n].id].variants]]

(* The variants of a page are read with one query, after its rows.         *)
WithVariants(page) ==
    [n \in DOMAIN page |-> [page[n] EXCEPT !.variants = rows[page[n].id].variants]]

(* toViews and the response, whose cursor the client follows.              *)
Respond ==
    LET page == WithVariants(reader.page)
        next == NextCursor(reader.page)
    IN  /\ reader.pc = "variants"
        /\ reader' = [pc |-> IF next = NoImage THEN "ended" ELSE "ready",
                      cursor |-> next, page |-> page]
        /\ returned' = returned \cup PageImages
        /\ again' = again \cup (returned \cap PageImages)
        /\ UNCHANGED <<db, cursors, lost>>

-----------------------------------------------------------------------------
Next ==
    \/ ReadRows \/ Respond
    \/ \E i \in Images : \/ Insert(i) \/ Commit(i) \/ Process(i)
                         \/ StoreVariants(i) \/ Complete(i) \/ Remove(i)

Spec == Init /\ [][Next]_vars

(* The client follows the cursors and the server answers it.  Nothing else *)
(* has to happen.                                                          *)
FairSpec == Spec /\ WF_vars(ReadRows) /\ WF_vars(Respond)

-----------------------------------------------------------------------------
(* Type invariant of the gallery: rows have their fields, and a page has   *)
(* at most Limit views of different images.                                *)
TypeOK ==
    /\ writes \in 0..MaxWrites
    /\ rows \in [Images -> Row]
    /\ reader \in Reader
    /\ Len(reader.page) <= Limit /\ Cardinality(PageImages) = Len(reader.page)
    /\ returned \subseteq Images /\ again \subseteq returned /\ steady \subseteq Images
    /\ cursors \subseteq Images \cup {NoImage} /\ lost \in Images \cup {NoImage}

(* i was created in the millisecond of another image that was a cursor.    *)
Tied(i) == \E c \in cursors \ {NoImage, i} : rows[c].createdAt = rows[i].createdAt

(* i is older than a cursor that was gone when it was used.                *)
BelowLost(i) == lost # NoImage /\ rows[i].createdAt < rows[lost].createdAt

(* A client that pages to the end has seen every image that was listed all *)
(* the while, whatever was uploaded, processed or removed meanwhile, but   *)
(* for those that share the createdAt of a cursor and, when a cursor row   *)
(* left the listing before it was used, those older than it: such a cursor *)
(* costs nothing that was newer (image.repository.ts:48-51).               *)
NoneSkipped ==
    reader.pc = "ended" =>
        \A i \in steady : i \in returned \/ Tied(i) \/ BelowLost(i)

(* No image is on two pages, however many are uploaded between the pages,  *)
(* unless it shares its createdAt with a cursor: the keyset cursor of list.*)
ReturnedOnce == \A i \in again : Tied(i)

(* A view that says COMPLETED has its variants, although they are read     *)
(* after the row, unless the image was removed in between: toViews.        *)
CompletedHasVariants ==
    reader.pc \in {"ready", "ended"} =>
        \A n \in DOMAIN reader.page :
            LET view == reader.page[n]
            IN  view.status = "COMPLETED" => view.variants \/ rows[view.id].phase = "removed"

(* Following the cursors comes to an end, although images keep being       *)
(* uploaded, unless images share their createdAt: the nextCursor of the    *)
(* list handler.                                                           *)
TraversalEnds == []~(\E i \in Images : Tied(i)) => <>(reader.pc = "ended")

-----------------------------------------------------------------------------
(* Statements of the documentation that the code does not keep.            *)

(* docs/api-contract.yaml:257: "Pass back as `cursor` to fetch the next    *)
(* page. `null` when at the end": a client whose pages end has seen every  *)
(* image that was listed all the while; those that share the createdAt of  *)
(* a cursor are left aside.                                                *)
NullAtTheEnd ==
    reader.pc = "ended" => \A i \in steady : i \in returned \/ Tied(i)
=============================================================================
