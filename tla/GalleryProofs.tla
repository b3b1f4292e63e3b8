---------------------------- MODULE GalleryProofs ----------------------------
(***************************************************************************)
(* Theorems about the gallery, for every set of images, page limit, filter *)
(* and number of writes.                                                   *)
(***************************************************************************)
EXTENDS Gallery, FiniteSetTheorems, TLAPS

-----------------------------------------------------------------------------
(* The inductive invariant.                                                *)

At(i) == rows[i].createdAt
Begun(i) == rows[i].phase # "none"

(* Whatever the traversal has met exists, or has existed: its createdAt    *)
(* does not change any more.                                               *)
MetImages == (returned \cup PageImages \cup cursors \cup steady \cup {reader.cursor}) \cap Images
MetHaveBegun == \A i \in MetImages : Begun(i)

SteadyListed == \A i \in steady : Selected(i)

(* Only an image with variants is COMPLETED.                               *)
CompletedRows ==
    \A i \in Images :
        rows[i].status = "COMPLETED" => rows[i].variants \/ rows[i].phase = "removed"

(* What the page says is COMPLETED will have variants when they are read.  *)
PageCompleted ==
    reader.pc = "variants" =>
        \A n \in DOMAIN reader.page : reader.page[n].status = "COMPLETED" =>
            \/ rows[reader.page[n].id].variants
            \/ rows[reader.page[n].id].phase = "removed"

(* The cursor is the oldest image returned so far.                         *)
CursorOldest ==
    reader.pc = "ready" =>
        \/ reader.cursor = NoImage /\ returned = {}
        \/ /\ reader.cursor \in returned
           /\ \A i \in returned : At(i) >= At(reader.cursor)

(* A page goes on below what was returned, newest first, and repeats only  *)
(* what shares its createdAt with a cursor.                                *)
PageGoesOn ==
    reader.pc = "variants" =>
        /\ \A m, n \in DOMAIN reader.page :
              m < n => At(reader.page[m].id) >= At(reader.page[n].id)
        /\ \A i \in returned, n \in DOMAIN reader.page : At(i) >= At(reader.page[n].id)
        /\ \A i \in returned \cap PageImages : Tied(i)

(* A cursor that was gone gives an empty page, the last of the traversal.  *)
LostEnds ==
    /\ reader.pc = "ready" => lost = NoImage
    /\ reader.pc = "variants" /\ lost # NoImage => Len(reader.page) = 0
    /\ lost \in cursors \cup {NoImage}

(* What remains to be returned lies below the cursor; or it is on the page *)
(* just read, or below that page, which then is full; or a lost cursor     *)
(* cuts it off.                                                            *)
RemainingAhead ==
    /\ reader.pc = "ready" /\ reader.cursor # NoImage =>
          \A i \in steady : i \in returned \/ Tied(i) \/ At(i) <= At(reader.cursor)
    /\ reader.pc = "variants" =>
          \A i \in steady :
             \/ i \in returned \cup PageImages
             \/ Tied(i) \/ BelowLost(i)
             \/ /\ Len(reader.page) = Limit
                /\ \A n \in DOMAIN reader.page : At(i) <= At(reader.page[n].id)

GInv ==
    /\ TypeOK /\ MetHaveBegun /\ SteadyListed /\ CompletedRows /\ PageCompleted
    /\ CursorOldest /\ PageGoesOn /\ LostEnds /\ RemainingAhead
    /\ NoneSkipped /\ ReturnedOnce /\ CompletedHasVariants

-----------------------------------------------------------------------------
(* Counting.                                                               *)

LEMMA DistinctCounted ==
    ASSUME NEW n \in Nat, NEW f, \A a, b \in 1..n : f[a] = f[b] => a = b,
           NEW T, T = {f[a] : a \in 1..n}
    PROVE  IsFiniteSet(T) /\ Cardinality(T) = n
<1> DEFINE g == [a \in 1..n |-> f[a]]
<1>1. g \in Bijection(1..n, T)
  BY DEF Bijection, Injection, Surjection, IsInjective
<1>2. ExistsBijection(1..n, T)  BY <1>1 DEF ExistsBijection
<1>3. QED  BY <1>2, FS_CountingElements, FS_NatBijection

(* What Newest returns: distinct rows of the set in order, and, when some  *)
(* are left out, as many as were asked for, none of them older than one    *)
(* left out.                                                               *)
LEMMA NewestFacts ==
    ASSUME NEW S \in SUBSET Images, NEW n \in Nat, NEW s \in Newest(n, S)
    PROVE  /\ s \in Seq(Images) /\ Len(s) <= n /\ DOMAIN s = 1..Len(s)
           /\ \A a \in 1..Len(s) : s[a] \in S
           /\ \A a, b \in 1..Len(s) : s[a] = s[b] => a = b
           /\ \A a, b \in 1..Len(s) : a < b => At(s[a]) >= At(s[b])
           /\ \A k \in S \ {s[a] : a \in 1..Len(s)} :
                 Len(s) = n /\ \A a \in 1..Len(s) : At(k) <= At(s[a])
<1> DEFINE len == IF Cardinality(S) < n THEN Cardinality(S) ELSE n
           T == {s[a] : a \in 1..len}
<1>1. IsFiniteSet(S) /\ Cardinality(S) \in Nat
  BY GalleryAssumption, FS_Subset, FS_CardinalityType DEF GalleryAssumption
<1>2. len \in Nat /\ len <= n  BY <1>1
<1>3. /\ s \in [1..len -> S]
      /\ \A a, b \in 1..len : a < b => s[a] # s[b] /\ At(s[a]) >= At(s[b])
      /\ \A k \in S \ T : \A a \in 1..len : At(k) <= At(s[a])
  BY DEF Newest, At
<1> HIDE DEF len
<1>4. s \in Seq(Images) /\ Len(s) = len /\ DOMAIN s = 1..len
  BY <1>2, <1>3
<1>5. \A a, b \in 1..len : s[a] = s[b] => a = b
  BY <1>2, <1>3
<1>6. IsFiniteSet(T) /\ Cardinality(T) = len
  BY <1>2, <1>5, DistinctCounted
<1>7. T \subseteq S  BY <1>3
<1>8. ASSUME NEW k \in S \ T PROVE len = n
  <2>1. Cardinality(T) # Cardinality(S)  BY <1>1, <1>7, <1>8, FS_Subset
  <2>2. QED  BY <1>6, <2>1 DEF len
<1>9. QED  BY <1>2, <1>3, <1>4, <1>5, <1>8

-----------------------------------------------------------------------------
(* The initial states.                                                     *)

LEMMA InitGInv == Init => GInv
<1> SUFFICES ASSUME Init PROVE GInv  OBVIOUS
<1>a. Limit \in Nat \ {0} /\ Now \in Nat \ {0} /\ MaxWrites \in Nat /\ NoImage \notin Images
      /\ Early \in Seq(Images)
  BY GalleryAssumption DEF GalleryAssumption
<1>1. /\ writes = 0 /\ reader = [pc |-> "ready", cursor |-> NoImage, page |-> <<>>]
      /\ returned = {} /\ again = {} /\ cursors = {} /\ lost = NoImage
      /\ steady = {i \in Images : Selected(i)}
  BY DEF Init
<1>2. /\ rows \in [Images -> Row]
      /\ \A i \in Images : rows[i].status = "COMPLETED" => rows[i].variants
  <2>1. PICK t \in [DOMAIN Early -> 1..Now], done \in BOOLEAN :
           rows = [i \in Images |->
                IF \E n \in DOMAIN Early : Early[n] = i
                THEN [phase |-> "visible",
                      createdAt |-> t[CHOOSE n \in DOMAIN Early : Early[n] = i],
                      status |-> IF done THEN "COMPLETED" ELSE "PROCESSING",
                      variants |-> done]
                ELSE NewRow("none", 0)]
    BY DEF Init
  <2>2. ASSUME NEW i \in Images
        PROVE  rows[i] \in Row /\ (rows[i].status = "COMPLETED" => rows[i].variants)
    <3>1. CASE \E n \in DOMAIN Early : Early[n] = i
      <4>1. PICK n \in DOMAIN Early : n = CHOOSE m \in DOMAIN Early : Early[m] = i
        BY <3>1
      <4>2. t[n] \in 0..Now  BY <1>a
      <4>3. rows[i] = [phase |-> "visible", createdAt |-> t[n],
                       status |-> IF done THEN "COMPLETED" ELSE "PROCESSING",
                       variants |-> done]
        BY <2>1, <3>1, <4>1
      <4>4. QED  BY <4>2, <4>3 DEF Row, Phases, RowStatuses
    <3>2. CASE ~\E n \in DOMAIN Early : Early[n] = i
      <4>1. rows[i] = NewRow("none", 0)  BY <2>1, <3>2
      <4>2. QED  BY <1>a, <4>1 DEF NewRow, Row, Phases, RowStatuses
    <3>3. QED  BY <3>1, <3>2
  <2>3. DOMAIN rows = Images /\ rows = [i \in Images |-> rows[i]]  BY <2>1
  <2>4. QED  BY <2>2, <2>3
<1>3. PageImages = {}  BY <1>1 DEF PageImages
<1>4. TypeOK
  <2>1. reader \in Reader /\ Len(reader.page) = 0
    BY <1>1 DEF Reader
  <2>2. Cardinality(PageImages) = 0  BY <1>3, FS_EmptySet
  <2>3. writes \in 0..MaxWrites /\ 0 <= Limit  BY <1>a, <1>1
  <2>4. QED  BY <1>1, <1>2, <2>1, <2>2, <2>3 DEF TypeOK
<1>5. MetHaveBegun /\ SteadyListed
  BY <1>a, <1>1, <1>3 DEF MetHaveBegun, MetImages, SteadyListed, Selected, Begun
<1>6. CompletedRows  BY <1>2 DEF CompletedRows
<1>7. PageCompleted /\ CursorOldest /\ PageGoesOn /\ LostEnds /\ RemainingAhead
  BY <1>1 DEF PageCompleted, CursorOldest, PageGoesOn, LostEnds, RemainingAhead
<1>8. NoneSkipped /\ ReturnedOnce /\ CompletedHasVariants
  BY <1>1 DEF NoneSkipped, ReturnedOnce, CompletedHasVariants
<1>9. QED  BY <1>4, <1>5, <1>6, <1>7, <1>8 DEF GInv

-----------------------------------------------------------------------------
(* Steps of the images.  createdAt of what has begun stays, and variants   *)
(* are lost only with their image.                                         *)

RowKept(i) ==
    /\ Begun(i)' /\ At(i)' = At(i)
    /\ rows[i].variants => rows'[i].variants \/ rows'[i].phase = "removed"
    /\ rows[i].phase = "removed" => rows'[i].phase = "removed"

LEMMA RowsStep ==
    ASSUME GInv, UNCHANGED client, rows' \in [Images -> Row], writes' \in 0..MaxWrites,
           \A i \in Images : Begun(i) => RowKept(i),
           CompletedRows', steady' \subseteq steady, SteadyListed'
    PROVE  GInv'
<1>0. TypeOK /\ MetHaveBegun  BY DEF GInv
<1>1. PageImages' = PageImages /\ MetImages' \subseteq MetImages
  BY DEF PageImages, MetImages, client
<1>2. TypeOK'  BY <1>0, <1>1 DEF TypeOK, client
<1>3. \A i \in MetImages : RowKept(i) /\ At(i)' = At(i)
  BY <1>0 DEF MetHaveBegun, MetImages, RowKept
<1>4. /\ returned \subseteq MetImages /\ PageImages \subseteq MetImages
      /\ steady \subseteq MetImages /\ cursors \ {NoImage} \subseteq MetImages
      /\ reader.cursor # NoImage => reader.cursor \in MetImages
      /\ \A n \in DOMAIN reader.page : reader.page[n].id \in PageImages
  <2>1. PageImages \subseteq Images
    <3>1. \A n \in DOMAIN reader.page : reader.page[n] \in View
      BY <1>0 DEF TypeOK, Reader
    <3>2. QED  BY <3>1 DEF PageImages, View
  <2>2. QED  BY <1>0, <2>1 DEF TypeOK, MetImages, PageImages, Reader
<1>5. \A i \in MetImages : Tied(i) <=> Tied(i)'
  BY <1>3, <1>4 DEF Tied, At, client
<1>6. MetHaveBegun'  BY <1>1, <1>3 DEF MetHaveBegun, RowKept
<1>13. LostEnds'  BY DEF GInv, LostEnds, client
<1>14. \A i \in MetImages : BelowLost(i) <=> BelowLost(i)'
  <2>1. lost # NoImage => lost \in MetImages  BY <1>4 DEF GInv, LostEnds
  <2>2. QED  BY <1>3, <2>1 DEF BelowLost, At, client
<1>7. PageCompleted' /\ CompletedHasVariants'
  BY <1>3, <1>4 DEF GInv, PageCompleted, CompletedHasVariants, RowKept, client
<1>8. CursorOldest'  BY <1>3, <1>4 DEF GInv, CursorOldest, client
<1>9. PageGoesOn'
  <2> SUFFICES ASSUME reader.pc = "variants" PROVE PageGoesOn'
    BY DEF PageGoesOn, client
  <2>1. /\ \A m, n \in DOMAIN reader.page :
              m < n => At(reader.page[m].id) >= At(reader.page[n].id)
        /\ \A i \in returned, n \in DOMAIN reader.page : At(i) >= At(reader.page[n].id)
        /\ \A i \in returned \cap PageImages : Tied(i)
    BY DEF GInv, PageGoesOn
  <2>2. \A n \in DOMAIN reader.page : At(reader.page[n].id)' = At(reader.page[n].id)
    BY <1>3, <1>4 DEF client, At
  <2>3. QED  BY <1>1, <1>3, <1>4, <1>5, <2>1, <2>2 DEF PageGoesOn, client, At
<1>10. RemainingAhead'
  <2>1. ASSUME NEW i \in steady' PROVE i \in steady /\ i \in MetImages /\ At(i)' = At(i)
    BY <1>3, <1>4
  <2>2. \A n \in DOMAIN reader.page : At(reader.page[n].id)' = At(reader.page[n].id)
    BY <1>3, <1>4 DEF client, At
  <2>3. reader.cursor # NoImage => At(reader.cursor)' = At(reader.cursor)
    BY <1>3, <1>4 DEF client, At
  <2>4. RemainingAhead  BY DEF GInv
  <2>5. QED  BY <1>1, <1>5, <1>14, <2>1, <2>2, <2>3, <2>4 DEF RemainingAhead, client, At
<1>11. NoneSkipped' /\ ReturnedOnce'
  BY <1>0, <1>4, <1>5, <1>14 DEF GInv, NoneSkipped, ReturnedOnce, TypeOK, client
<1>12. QED  BY <1>2, <1>6, <1>7, <1>8, <1>9, <1>10, <1>11, <1>13 DEF GInv

LEMMA InsertGInv ==
    ASSUME GInv, NEW i \in Images, Insert(i)
    PROVE  GInv'
<1>0. TypeOK /\ SteadyListed /\ CompletedRows  BY DEF GInv
<1>1. /\ rows' = [rows EXCEPT ![i] = NewRow("inserting", Now)] /\ ~Begun(i)
      /\ UNCHANGED <<writes, steady>> /\ UNCHANGED client
  BY DEF Insert, Begun
<1>2. NewRow("inserting", Now) \in Row
  BY GalleryAssumption DEF GalleryAssumption, NewRow, Row, Phases, RowStatuses
<1>3. rows' \in [Images -> Row]  BY <1>0, <1>1, <1>2 DEF TypeOK
<1>4. \A k \in Images : Begun(k) => RowKept(k)
  BY <1>0, <1>1 DEF TypeOK, RowKept, Begun, At
<1>5. CompletedRows'  BY <1>0, <1>1 DEF TypeOK, CompletedRows, NewRow
<1>6. SteadyListed'
  BY <1>0, <1>1 DEF TypeOK, SteadyListed, Selected, Begun
<1>7. QED  BY <1>0, <1>1, <1>3, <1>4, <1>5, <1>6, RowsStep DEF TypeOK

LEMMA CommitGInv ==
    ASSUME GInv, NEW i \in Images, Commit(i)
    PROVE  GInv'
<1>0. TypeOK /\ SteadyListed /\ CompletedRows  BY DEF GInv
<1>1. /\ rows' = [rows EXCEPT ![i] = [rows[i] EXCEPT !.phase = "visible"]]
      /\ rows[i].phase = "inserting"
      /\ UNCHANGED <<writes, steady>> /\ UNCHANGED client
  BY DEF Commit
<1>2. rows[i] \in Row /\ [rows[i] EXCEPT !.phase = "visible"] \in Row
  BY <1>0 DEF TypeOK, Row, Phases
<1>3. rows' \in [Images -> Row]  BY <1>0, <1>1, <1>2 DEF TypeOK
<1>4. \A k \in Images : Begun(k) => RowKept(k)
  BY <1>0, <1>1, <1>2 DEF TypeOK, Row, RowKept, Begun, At
<1>5. CompletedRows'  BY <1>0, <1>1, <1>2 DEF TypeOK, Row, CompletedRows
<1>6. SteadyListed'
  BY <1>0, <1>1 DEF TypeOK, SteadyListed, Selected
<1>7. QED  BY <1>0, <1>1, <1>3, <1>4, <1>5, <1>6, RowsStep DEF TypeOK

(* A status write or a removal, of which the filter may take note.         *)
LEMMA UpdateGInv ==
    ASSUME GInv, NEW i \in Images, NEW row \in Row, Update(i, row),
           row.phase \in {"visible", "removed"}, row.createdAt = At(i),
           rows[i].variants => row.variants \/ row.phase = "removed",
           row.status = "COMPLETED" => row.variants \/ row.phase = "removed"
    PROVE  GInv'
<1>0. TypeOK /\ SteadyListed /\ CompletedRows  BY DEF GInv
<1>1. /\ rows' = [rows EXCEPT ![i] = row] /\ rows[i].phase = "visible"
      /\ writes < MaxWrites /\ writes' = writes + 1
      /\ steady' = {k \in steady : Selected(k)'} /\ UNCHANGED client
  BY DEF Update
<1>2. rows' \in [Images -> Row]  BY <1>0, <1>1 DEF TypeOK
<1>3. writes' \in 0..MaxWrites
  BY <1>0, <1>1, GalleryAssumption DEF TypeOK, GalleryAssumption
<1>4. \A k \in Images : Begun(k) => RowKept(k)
  BY <1>0, <1>1 DEF TypeOK, RowKept, Begun, At
<1>5. CompletedRows'  BY <1>0, <1>1 DEF TypeOK, CompletedRows
<1>6. steady' \subseteq steady /\ SteadyListed'  BY <1>1 DEF SteadyListed
<1>7. QED  BY <1>1, <1>2, <1>3, <1>4, <1>5, <1>6, RowsStep

LEMMA ImageStepGInv ==
    ASSUME GInv, NEW i \in Images,
           Process(i) \/ StoreVariants(i) \/ Complete(i) \/ Remove(i)
    PROVE  GInv'
<1>1. rows[i] \in Row /\ rows[i].phase = "visible" /\ CompletedRows
  BY DEF GInv, TypeOK, Process, StoreVariants, Complete, Remove, Update
<1>2. CASE Process(i)
  <2> DEFINE row == [rows[i] EXCEPT !.status = "PROCESSING"]
  <2>1. row \in Row /\ row.phase = "visible" /\ row.createdAt = At(i)
        /\ row.variants = rows[i].variants /\ row.status = "PROCESSING"
    BY <1>1 DEF Row, RowStatuses, At
  <2>2. Update(i, row)  BY <1>2 DEF Process
  <2> HIDE DEF row
  <2>3. QED  BY <2>1, <2>2, UpdateGInv
<1>3. CASE StoreVariants(i)
  <2> DEFINE row == [rows[i] EXCEPT !.variants = TRUE]
  <2>1. row \in Row /\ row.phase = "visible" /\ row.createdAt = At(i) /\ row.variants
    BY <1>1 DEF Row, At
  <2>2. Update(i, row)  BY <1>3 DEF StoreVariants
  <2> HIDE DEF row
  <2>3. QED  BY <2>1, <2>2, UpdateGInv
<1>4. CASE Complete(i)
  <2> DEFINE row == [rows[i] EXCEPT !.status = "COMPLETED"]
  <2>1. row \in Row /\ row.phase = "visible" /\ row.createdAt = At(i) /\ row.variants
    BY <1>1, <1>4 DEF Row, RowStatuses, At, Complete
  <2>2. Update(i, row)  BY <1>4 DEF Complete
  <2> HIDE DEF row
  <2>3. QED  BY <2>1, <2>2, UpdateGInv
<1>5. CASE Remove(i)
  <2> DEFINE row == [rows[i] EXCEPT !.phase = "removed", !.variants = FALSE]
  <2>1. row \in Row /\ row.phase = "removed" /\ row.createdAt = At(i)
    BY <1>1 DEF Row, Phases, At
  <2>2. Update(i, row)  BY <1>5 DEF Remove
  <2> HIDE DEF row
  <2>3. QED  BY <2>1, <2>2, UpdateGInv
<1>6. QED  BY <1>2, <1>3, <1>4, <1>5

-----------------------------------------------------------------------------
(* Steps of the traversal.                                                 *)

(* What follows a cursor that is still listed: everything older, perhaps   *)
(* some of its time, nothing newer and never the cursor itself.            *)
LEMMA FollowingFacts ==
    ASSUME TypeOK, NEW S \in FollowingSets(reader.cursor)
    PROVE  /\ S \subseteq {i \in Images : Selected(i)}
           /\ reader.cursor # NoImage =>
                 /\ \A i \in S : i # reader.cursor /\ At(i) <= At(reader.cursor)
                 /\ Selected(reader.cursor) =>
                       \A i \in Images :
                          Selected(i) /\ At(i) < At(reader.cursor) => i \in S
                 /\ ~Selected(reader.cursor) => S = {}
           /\ reader.cursor = NoImage => S = {i \in Images : Selected(i)}
<1> DEFINE c == reader.cursor
           listed == {i \in Images : Selected(i)}
           ties == {i \in listed \ {c} : At(i) = At(c)}
<1>1. CASE c = NoImage
  BY <1>1 DEF FollowingSets
<1>2. CASE c # NoImage /\ c \notin listed
  <2>1. S = {} /\ c \in Images  BY <1>2 DEF FollowingSets, TypeOK, Reader
  <2>2. QED  BY <1>2, <2>1
<1>3. CASE c # NoImage /\ c \in listed
  <2>1. PICK T \in SUBSET ties : S = {i \in listed : At(i) < At(c)} \cup T
    BY <1>3 DEF FollowingSets, At
  <2>2. \A i \in Images : At(i) \in 0..Now  BY DEF TypeOK, Row, At
  <2>3. QED  BY <1>3, <2>1, <2>2, GalleryAssumption DEF GalleryAssumption
<1>4. QED  BY <1>1, <1>2, <1>3

LEMMA ReadRowsGInv ==
    ASSUME GInv, ReadRows
    PROVE  GInv'
<1>0. TypeOK /\ MetHaveBegun /\ SteadyListed /\ CompletedRows  BY DEF GInv
<1>l. Limit \in Nat \ {0} /\ NoImage \notin Images  BY GalleryAssumption DEF GalleryAssumption
<1>1. reader.pc = "ready" /\ UNCHANGED db /\ returned' = returned /\ again' = again
  BY DEF ReadRows
<1>2. /\ cursors' = cursors \cup {reader.cursor}
      /\ lost' = IF reader.cursor # NoImage /\ ~Selected(reader.cursor)
                 THEN reader.cursor ELSE lost
      /\ lost = NoImage
  BY DEF GInv, LostEnds, ReadRows
<1>3. PICK S \in FollowingSets(reader.cursor) : \E s \in Newest(Limit, S) :
         reader' = [reader EXCEPT !.pc = "variants",
                                  !.page = [n \in DOMAIN s |-> Seen(s[n])]]
  BY DEF ReadRows
<1>4. PICK s \in Newest(Limit, S) :
         reader' = [reader EXCEPT !.pc = "variants",
                                  !.page = [n \in DOMAIN s |-> Seen(s[n])]]
  BY <1>3
<1>5. /\ S \subseteq {i \in Images : Selected(i)} /\ S \in SUBSET Images
      /\ reader.cursor # NoImage =>
            /\ \A i \in S : i # reader.cursor /\ At(i) <= At(reader.cursor)
            /\ Selected(reader.cursor) =>
                  \A i \in Images : Selected(i) /\ At(i) < At(reader.cursor) => i \in S
            /\ ~Selected(reader.cursor) => S = {}
      /\ reader.cursor = NoImage => S = {i \in Images : Selected(i)}
  BY <1>0, FollowingFacts
<1>6. /\ s \in Seq(Images) /\ Len(s) <= Limit /\ DOMAIN s = 1..Len(s)
      /\ \A a \in 1..Len(s) : s[a] \in S
      /\ \A a, b \in 1..Len(s) : s[a] = s[b] => a = b
      /\ \A a, b \in 1..Len(s) : a < b => At(s[a]) >= At(s[b])
      /\ \A k \in S \ {s[a] : a \in 1..Len(s)} :
            Len(s) = Limit /\ \A a \in 1..Len(s) : At(k) <= At(s[a])
  BY <1>5, <1>l, NewestFacts
<1> PICK page : page = [n \in DOMAIN s |-> Seen(s[n])]  OBVIOUS
<1> DEFINE P == {s[a] : a \in 1..Len(s)}
<1>7. reader \in Reader /\ reader'.pc = "variants" /\ reader'.cursor = reader.cursor
      /\ reader'.page = page
  BY <1>0, <1>4 DEF TypeOK, Reader
<1>8. /\ page \in Seq(View) /\ Len(page) = Len(s) /\ DOMAIN page = 1..Len(s)
      /\ \A n \in 1..Len(s) :
            page[n].id = s[n] /\ page[n].status = rows[s[n]].status
  <2>1. \A n \in 1..Len(s) : rows[s[n]].status \in RowStatuses /\ s[n] \in Images
    BY <1>0, <1>5, <1>6 DEF TypeOK, Row
  <2>2. \A n \in 1..Len(s) : Seen(s[n]) \in View /\ Seen(s[n]).id = s[n]
                            /\ Seen(s[n]).status = rows[s[n]].status
    BY <2>1 DEF Seen, View
  <2>3. page \in [1..Len(s) -> View] /\ Len(s) \in Nat  BY <1>6, <2>2
  <2>4. QED  BY <1>6, <2>2, <2>3
<1>9. PageImages' = P  BY <1>7, <1>8 DEF PageImages
<1>10. \A i \in Images : At(i)' = At(i) /\ At(i) \in Nat /\ (Selected(i) <=> Selected(i)')
  BY <1>0, <1>1 DEF db, At, Selected, TypeOK, Row
<1>11. P \subseteq S /\ P \subseteq Images /\ \A i \in P : Begun(i) /\ rows[i].phase = "visible"
  BY <1>5, <1>6 DEF Begun, Selected
<1>12. TypeOK'
  <2>1. Cardinality(P) = Len(s)  BY <1>6, DistinctCounted
  <2>2. reader' \in Reader  BY <1>4, <1>7, <1>8 DEF Reader
  <2>3. cursors' \subseteq Images \cup {NoImage} /\ lost' \in Images \cup {NoImage}
    BY <1>0, <1>2, <1>7 DEF TypeOK, Reader
  <2>4. QED  BY <1>0, <1>1, <1>6, <1>7, <1>8, <1>9, <2>1, <2>2, <2>3 DEF TypeOK, db
<1>13. MetHaveBegun'
  BY <1>0, <1>1, <1>2, <1>7, <1>9, <1>11 DEF MetHaveBegun, MetImages, Begun, db
<1>14. SteadyListed' /\ CompletedRows'
  BY <1>0, <1>1 DEF SteadyListed, CompletedRows, Selected, db
<1>15. PageCompleted'
  BY <1>0, <1>1, <1>7, <1>8, <1>6, <1>11 DEF PageCompleted, CompletedRows, db
<1>16. CursorOldest' /\ CompletedHasVariants' /\ NoneSkipped'
  BY <1>7 DEF CursorOldest, CompletedHasVariants, NoneSkipped
<1>17. \A i \in Images : Tied(i) => Tied(i)'
  BY <1>1, <1>2 DEF Tied, db
<1>18. ReturnedOnce'
  BY <1>0, <1>1, <1>17 DEF GInv, ReturnedOnce, TypeOK
<1>19. \A i \in Images : reader.cursor # NoImage /\ i # reader.cursor
                          /\ At(i) = At(reader.cursor) => Tied(i)'
  BY <1>1, <1>2 DEF Tied, db, At
<1>20. PageGoesOn'
  <2>1. ASSUME NEW i \in returned, NEW k \in S PROVE At(i) >= At(k)
    <3>1. reader.cursor # NoImage /\ reader.cursor \in Images /\ At(i) >= At(reader.cursor)
      BY <1>0, <1>1, <1>l DEF GInv, CursorOldest, TypeOK
    <3>2. i \in Images /\ k \in Images  BY <1>0, <1>5 DEF TypeOK
    <3>3. QED  BY <1>5, <1>10, <3>1, <3>2
  <2>2. ASSUME NEW i \in returned \cap P PROVE Tied(i)'
    <3>1. reader.cursor # NoImage /\ reader.cursor \in Images /\ At(i) >= At(reader.cursor)
      BY <1>0, <1>1, <1>l DEF GInv, CursorOldest, TypeOK
    <3>2. i # reader.cursor /\ At(i) <= At(reader.cursor) /\ i \in Images
      BY <1>5, <1>11, <3>1
    <3>3. At(i) = At(reader.cursor)  BY <1>10, <3>1, <3>2
    <3>4. QED  BY <1>19, <3>1, <3>2, <3>3
  <2>3. \A a \in 1..Len(s) : At(s[a])' = At(s[a])  BY <1>1 DEF db, At
  <2>4. \A i \in returned : At(i)' = At(i)  BY <1>1 DEF db, At
  <2>5. QED  BY <1>1, <1>6, <1>7, <1>8, <1>9, <2>1, <2>2, <2>3, <2>4 DEF PageGoesOn, At
<1>21. RemainingAhead'
  <2> SUFFICES ASSUME NEW i \in steady, i \notin returned, ~Tied(i)', ~BelowLost(i)', i \notin P
               PROVE  Len(s) = Limit /\ \A n \in 1..Len(s) : At(i) <= At(s[n])
    BY <1>1, <1>7, <1>8, <1>9 DEF RemainingAhead, db, At
  <2>1. i \in Images /\ Selected(i)  BY <1>0 DEF TypeOK, SteadyListed
  <2>2. i \in S
    <3>1. CASE reader.cursor = NoImage
      BY <1>5, <2>1, <3>1
    <3>2. CASE reader.cursor # NoImage
      <4>1. reader.cursor \in Images  BY <1>0, <3>2 DEF TypeOK, Reader
      <4>2. At(i) <= At(reader.cursor)
        BY <1>1, <1>17, <2>1, <3>2 DEF GInv, RemainingAhead
      <4>3. i # reader.cursor  BY <1>1, <3>2 DEF GInv, CursorOldest
      <4>4. At(i) # At(reader.cursor)  BY <1>19, <2>1, <3>2, <4>3
      <4>5. At(i) < At(reader.cursor)  BY <1>10, <2>1, <4>1, <4>2, <4>4
      <4>6. Selected(reader.cursor)
        BY <1>1, <1>2, <3>2, <4>5 DEF BelowLost, At, db
      <4>7. QED  BY <1>5, <2>1, <3>2, <4>1, <4>5, <4>6
    <3>3. QED  BY <3>1, <3>2
  <2>3. QED  BY <1>6, <2>2
<1>23. LostEnds'
  <2>1. ASSUME lost' # NoImage PROVE Len(s) = 0
    <3>1. S = {}  BY <1>2, <1>5, <2>1
    <3>2. QED  BY <1>6, <3>1
  <2>2. QED  BY <1>2, <1>7, <1>8, <2>1 DEF LostEnds
<1>22. QED
  BY <1>12, <1>13, <1>14, <1>15, <1>16, <1>18, <1>20, <1>21, <1>23 DEF GInv

LEMMA RespondGInv ==
    ASSUME GInv, Respond
    PROVE  GInv'
<1>0. TypeOK /\ MetHaveBegun /\ SteadyListed /\ CompletedRows  BY DEF GInv
<1>l. Limit \in Nat \ {0} /\ NoImage \notin Images  BY GalleryAssumption DEF GalleryAssumption
<1> PICK page : page = WithVariants(reader.page)  OBVIOUS
<1> PICK nextCursor : nextCursor = NextCursor(reader.page)  OBVIOUS
<1>1. /\ reader.pc = "variants" /\ UNCHANGED db
      /\ reader' = [pc |-> IF nextCursor = NoImage THEN "ended" ELSE "ready",
                    cursor |-> nextCursor, page |-> page]
      /\ returned' = returned \cup PageImages
      /\ again' = again \cup (returned \cap PageImages)
      /\ cursors' = cursors /\ lost' = lost
  BY DEF Respond
<1>2. /\ reader.page \in Seq(View) /\ Len(reader.page) \in Nat
      /\ DOMAIN reader.page = 1..Len(reader.page)
      /\ \A n \in 1..Len(reader.page) : reader.page[n] \in View /\ reader.page[n].id \in Images
                                        /\ reader.page[n].id \in PageImages
  <2>1. reader.page \in Seq(View)  BY <1>0 DEF TypeOK, Reader
  <2>2. /\ Len(reader.page) \in Nat /\ DOMAIN reader.page = 1..Len(reader.page)
        /\ \A n \in 1..Len(reader.page) : reader.page[n] \in View
    BY <2>1
  <2>3. QED  BY <2>1, <2>2 DEF View, PageImages
<1>3. /\ page \in Seq(View) /\ Len(page) = Len(reader.page)
      /\ DOMAIN page = 1..Len(reader.page)
      /\ \A n \in 1..Len(page) :
            /\ page[n].id = reader.page[n].id /\ page[n].status = reader.page[n].status
            /\ page[n].variants = rows[page[n].id].variants
  <2>1. \A n \in 1..Len(reader.page) : rows[reader.page[n].id].variants \in BOOLEAN
    BY <1>0, <1>2 DEF TypeOK, Row
  <2>2. page = [n \in 1..Len(reader.page) |->
                  [reader.page[n] EXCEPT !.variants = rows[reader.page[n].id].variants]]
    BY <1>2 DEF WithVariants
  <2>3. \A n \in 1..Len(reader.page) :
           /\ page[n] \in View /\ page[n].id = reader.page[n].id
           /\ page[n].status = reader.page[n].status
           /\ page[n].variants = rows[page[n].id].variants
    <3> TAKE n \in 1..Len(reader.page)
    <3>1. page[n] = [reader.page[n] EXCEPT !.variants = rows[reader.page[n].id].variants]
      BY <2>2
    <3>2. reader.page[n] \in View /\ rows[reader.page[n].id].variants \in BOOLEAN
      BY <1>2, <2>1
    <3>3. page[n].id = reader.page[n].id  BY <3>1, <3>2 DEF View
    <3>4. QED  BY <3>1, <3>2, <3>3 DEF View
  <2>4. page \in [1..Len(reader.page) -> View]  BY <2>2, <2>3
  <2>5. QED  BY <1>2, <2>3, <2>4
<1>4. PageImages' = PageImages
  <2>1. reader'.page = page  BY <1>1
  <2>2. QED  BY <1>2, <1>3, <2>1 DEF PageImages
<1>5. /\ PageImages \subseteq Images
      /\ nextCursor # NoImage =>
            /\ Len(reader.page) = Limit /\ nextCursor \in PageImages /\ nextCursor \in Images
            /\ nextCursor = reader.page[Limit].id
      /\ nextCursor = NoImage => Len(reader.page) # Limit
  BY <1>2, <1>l DEF PageImages, NextCursor
<1>6. \A i \in Images : At(i)' = At(i) /\ At(i) \in Nat /\ (Tied(i) <=> Tied(i)')
  BY <1>0, <1>1 DEF db, At, Tied, TypeOK, Row
<1>7. TypeOK'
  <2>1. reader' \in Reader  BY <1>1, <1>3, <1>5 DEF Reader
  <2>2. reader'.page = page  BY <1>1
  <2>3. QED  BY <1>0, <1>1, <1>3, <1>4, <1>5, <2>1, <2>2 DEF TypeOK, db
<1>8. MetHaveBegun'
  <2>1. reader'.cursor = nextCursor  BY <1>1
  <2>2. MetImages' \subseteq MetImages
    BY <1>0, <1>1, <1>4, <1>5, <2>1 DEF MetImages, db
  <2>3. \A i \in Images : Begun(i)' <=> Begun(i)  BY <1>1 DEF Begun, db
  <2>4. QED  BY <1>0, <2>2, <2>3 DEF MetHaveBegun, MetImages
<1>9. SteadyListed' /\ CompletedRows'
  BY <1>0, <1>1 DEF SteadyListed, CompletedRows, Selected, db
<1>10. reader'.pc # "variants" /\ (reader'.pc = "ready" => nextCursor # NoImage)
       /\ (reader'.pc = "ended" => nextCursor = NoImage)
       /\ reader'.cursor = nextCursor /\ reader'.page = page
  BY <1>1
<1>11. PageCompleted' /\ PageGoesOn'
  BY <1>10 DEF PageCompleted, PageGoesOn
<1>12. CompletedHasVariants'
  <2>1. \A n \in 1..Len(page) : page[n].status = "COMPLETED" =>
           page[n].variants \/ rows[page[n].id].phase = "removed"
    BY <1>1, <1>2, <1>3 DEF GInv, PageCompleted
  <2>2. QED  BY <1>1, <1>3, <1>10, <2>1 DEF CompletedHasVariants, db
<1>13. ASSUME nextCursor # NoImage PROVE \A i \in returned' : At(i) >= At(nextCursor)
  <2>1. PageGoesOn  BY DEF GInv
  <2>2. \A n \in 1..Len(reader.page) : At(reader.page[n].id) >= At(nextCursor)
    BY <1>1, <1>2, <1>5, <1>6, <1>13, <2>1, <1>l DEF PageGoesOn
  <2>3. \A i \in returned : At(i) >= At(nextCursor)
    BY <1>1, <1>2, <1>5, <1>13, <2>1, <1>l DEF PageGoesOn
  <2>4. \A i \in PageImages : At(i) >= At(nextCursor)
    BY <1>2, <2>2 DEF PageImages
  <2>5. QED  BY <1>1, <2>3, <2>4
<1>14. CursorOldest'
  BY <1>0, <1>1, <1>5, <1>6, <1>10, <1>13 DEF CursorOldest, TypeOK
<1>15. ReturnedOnce'
  <2>1. \A i \in again \cup (returned \cap PageImages) : Tied(i) /\ i \in Images
    BY <1>0, <1>1 DEF GInv, ReturnedOnce, PageGoesOn, TypeOK
  <2>2. QED  BY <1>1, <1>6, <2>1 DEF ReturnedOnce
(* What a full page leaves lies below its last row; any other page leaves  *)
(* nothing.                                                                *)
<1>16. ASSUME NEW i \in steady, i \notin returned', ~Tied(i), ~BelowLost(i)
       PROVE  nextCursor # NoImage /\ At(i) <= At(nextCursor)
  <2>1. Len(reader.page) = Limit /\ \A n \in DOMAIN reader.page : At(i) <= At(reader.page[n].id)
    BY <1>1, <1>16 DEF GInv, RemainingAhead
  <2>2. nextCursor # NoImage /\ Limit \in DOMAIN reader.page
    BY <1>2, <1>5, <1>l, <2>1
  <2>3. QED  BY <1>5, <2>1, <2>2
<1>17. LostEnds'
  <2>1. lost # NoImage => Len(reader.page) = 0  BY <1>1 DEF GInv, LostEnds
  <2>2. nextCursor # NoImage => lost = NoImage  BY <1>5, <1>l, <2>1
  <2>3. QED  BY <1>1, <1>10, <2>2 DEF GInv, LostEnds
<1>18. RemainingAhead' /\ NoneSkipped'
  <2>1. steady' = steady /\ steady \subseteq Images  BY <1>0, <1>1 DEF db, TypeOK
  <2>2. reader'.pc = "ready" => \A i \in Images : ~BelowLost(i)
    BY <1>1, <1>10, <1>17 DEF LostEnds, BelowLost
  <2>3. \A i \in Images : BelowLost(i)' <=> BelowLost(i)  BY <1>1 DEF BelowLost, db
  <2>4. QED
    BY <1>1, <1>5, <1>6, <1>10, <1>16, <2>1, <2>2, <2>3 DEF RemainingAhead, NoneSkipped
<1>19. QED
  BY <1>7, <1>8, <1>9, <1>11, <1>12, <1>14, <1>15, <1>17, <1>18 DEF GInv

-----------------------------------------------------------------------------
LEMMA NextGInv == GInv /\ [Next]_vars => GInv'
<1> SUFFICES ASSUME GInv, [Next]_vars PROVE GInv'  OBVIOUS
<1>1. ASSUME ReadRows PROVE GInv'  BY <1>1, ReadRowsGInv
<1>2. ASSUME Respond PROVE GInv'  BY <1>2, RespondGInv
<1>3. ASSUME NEW i \in Images, Insert(i) PROVE GInv'  BY <1>3, InsertGInv
<1>4. ASSUME NEW i \in Images, Commit(i) PROVE GInv'  BY <1>4, CommitGInv
<1>5. ASSUME NEW i \in Images,
             Process(i) \/ StoreVariants(i) \/ Complete(i) \/ Remove(i)
      PROVE  GInv'
  BY <1>5, ImageStepGInv
<1>6. ASSUME UNCHANGED vars PROVE GInv'
  <2>1. UNCHANGED db /\ UNCHANGED client  BY <1>6 DEF vars
  <2>2. \A i \in Images : Begun(i) => RowKept(i)
    BY <2>1 DEF RowKept, Begun, At, db
  <2>3. CompletedRows' /\ SteadyListed'
    BY <2>1 DEF GInv, CompletedRows, SteadyListed, Selected, db
  <2>4. QED  BY <2>1, <2>2, <2>3, RowsStep DEF GInv, TypeOK, db
<1>7. QED  BY <1>1, <1>2, <1>3, <1>4, <1>5, <1>6 DEF Next

LEMMA GInvInvariant == Spec => []GInv
<1>1. Init => GInv  BY InitGInv
<1>2. GInv /\ [Next]_vars => GInv'  BY NextGInv
<1>3. QED  BY <1>1, <1>2, PTL DEF Spec

(* The gallery is of its type: in particular no page holds an image twice  *)
(* or more than Limit.                                                     *)
THEOREM TypeCorrect == Spec => []TypeOK
<1>1. GInv => TypeOK  BY DEF GInv
<1>2. QED  BY <1>1, GInvInvariant, PTL

(* The keyset cursor of list skips nothing that was listed all the while,  *)
(* but what a tie or a lost cursor costs, however many images there are,   *)
(* whatever happens to them and whatever order the database chooses.       *)
THEOREM NoneSkippedTheorem == Spec => []NoneSkipped
<1>1. GInv => NoneSkipped  BY DEF GInv
<1>2. QED  BY <1>1, GInvInvariant, PTL

(* The pages of list do not overlap but at equal times.                    *)
THEOREM ReturnedOnceTheorem == Spec => []ReturnedOnce
<1>1. GInv => ReturnedOnce  BY DEF GInv
<1>2. QED  BY <1>1, GInvInvariant, PTL

(* toViews finds the variants of what list found COMPLETED.                *)
THEOREM CompletedTheorem == Spec => []CompletedHasVariants
<1>1. GInv => CompletedHasVariants  BY DEF GInv
<1>2. QED  BY <1>1, GInvInvariant, PTL
=============================================================================
