------------------------- MODULE BulletinPagesProofs -------------------------
(***************************************************************************)
(* For any readers, page length, int width and number of posts: the types  *)
(* of BulletinPages; that a walk from the first page on has seen the       *)
(* newest messages at any time, and all of them at a last page whose       *)
(* SELECT did not time out, and repeats no more than were posted           *)
(* meanwhile; why a poster may not find the message; and that links lead   *)
(* to pages.                                                               *)
(***************************************************************************)
EXTENDS BulletinPages, FiniteSetTheorems, TLAPS

\* The rows of a page fetched when there were k messages.
Rows(k, page) ==
    LET skipped == IF Offset(page) < 0 THEN 0 ELSE Offset(page)
    IN  {m \in 1..k : k - m >= skipped /\ k - m < skipped + Limit}

\* The page v, of a walk w or not, is one fetched when there were k messages.
FetchedAt(k, v) ==
    /\ v.shown = IF v.kind = "page" THEN Rows(k, v.page) ELSE {}
    /\ v.kind = "none" => v.own = 0
    /\ v.own <= k

\* The first page is where a redirect from /bulletin ends.
AfterPost(v) ==
    v.kind = "page" /\ v.own # 0 /\ ~v.numbered => v.page = 1

\* Pages reached by links begin within the messages there were.
Linked(k, v) ==
    v.kind \in {"page", "busy"} => v.page >= 1 /\ (v.page - 1) * Limit <= k

\* Nothing seen is as old as `low`.  Posts that move the pages by more than one
\* make a walk turn back; a page it showed for that is a repeat of those it will show.
Repeats(k, v, w) ==
    \E low \in Int :
        /\ low <= k - v.page * Limit
        /\ \A m \in w.seen : m > low
        /\ w.count - Cardinality(w.seen) <= v.page * Limit + low - w.start

\* Of the messages there at its start a walk has seen the newest, with no gap.
NoGap(w) ==
    \A m \in w.seen, later \in 1..w.start : later > m => later \in w.seen

\* A walk whose page a timeout left empty has seen what it had seen before.  At
\* any other page it has seen the newest v.page * Limit of k messages, but those
\* it was too early for.
Walking(k, v, w) ==
    /\ v.kind \in {"page", "busy", "error"}
    /\ w.start <= k
    /\ w.seen \subseteq 1..k
    /\ NoGap(w)
    /\ w.count - Cardinality(w.seen) <= k - w.start
    /\ v.kind = "page" =>
          /\ \A m \in 1..w.start : k - m < v.page * Limit => m \in w.seen
          /\ Repeats(k, v, w)

Fits(k, v, w, t) ==
    /\ FetchedAt(k, v)
    /\ AfterPost(v)
    /\ t \/ w # None => Linked(k, v)
    /\ w # None => Walking(k, v, w)

IInv == TypeOK /\ \A r \in Readers : \E k \in 0..n : Fits(k, view[r], walk[r], tame[r])

-----------------------------------------------------------------------------
\* Arithmetic stays in int, and is exact for numbers an int can hold.
LEMMA Wrapping == \A x \in Int : Wrap(x) \in Ints /\ (x \in Ints => Wrap(x) = x)
<1> SUFFICES ASSUME NEW x \in Int
             PROVE  Wrap(x) \in Ints /\ (x \in Ints => Wrap(x) = x)
  OBVIOUS
<1> DEFINE w == 2 * (IntMax + 1)
           y == x + IntMax + 1
<1>1. IntMax \in Nat /\ w \in Nat /\ w > 0 /\ y \in Int
  BY PagesAssumption
<1>2. y % w \in 0..(w - 1) /\ (y \in 0..(w - 1) => y % w = y)
  <2> HIDE DEF w, y
  <2> QED BY <1>1
<1>3. y % w \in Int /\ Wrap(x) = (y % w) - (IntMax + 1)
  BY <1>1, <1>2 DEF Wrap
<1>4. x \in Ints => y \in 0..(w - 1)
  BY <1>1 DEF Ints
<1> HIDE DEF w
<1>5. y % w \in 0..(w - 1) /\ (x \in Ints => y % w = x + IntMax + 1)
  BY <1>2, <1>4
<1>6. w = 2 * (IntMax + 1)
  BY DEF w
<1> HIDE DEF y
<1> QED BY <1>1, <1>3, <1>5, <1>6 DEF Ints

LEMMA OffsetInt == \A page \in Int : Offset(page) \in Ints
<1> TAKE page \in Int
<1>1. Wrap(page - 1) \in Int
  BY Wrapping, PagesAssumption DEF Ints
<1>2. Wrap(page - 1) * Limit \in Int
  BY <1>1, PagesAssumption
<1> QED BY <1>2, Wrapping DEF Offset

\* The offset of a page that begins within the messages does not overflow.
LEMMA OffsetExact ==
  ASSUME NEW page \in Int, page >= 1, (page - 1) * Limit <= IntMax
  PROVE  Offset(page) = (page - 1) * Limit
<1> DEFINE p == page - 1
<1>1. p \in Nat /\ Limit \in Nat /\ Limit >= 1 /\ IntMax \in Nat
  BY PagesAssumption
<1>2. p * Limit \in Nat /\ p <= p * Limit
  <2> HIDE DEF p
  <2> QED BY <1>1
<1>3. p \in Ints /\ p * Limit \in Ints
  BY <1>1, <1>2 DEF Ints
<1>4. Wrap(p) = p /\ Wrap(p * Limit) = p * Limit
  BY <1>1, <1>2, <1>3, Wrapping
<1> QED BY <1>4 DEF Offset

\* The rows of a page are an interval of ids, Limit at most; it is full when
\* enough messages are left.
LEMMA RowsOfPage ==
  \A k \in Nat, page \in Int :
     /\ Rows(k, page) \subseteq 1..k
     /\ IsFiniteSet(Rows(k, page))
     /\ Cardinality(Rows(k, page)) \in Nat
     /\ Cardinality(Rows(k, page)) <= Limit
     /\ Offset(page) >= 0 =>
          (Cardinality(Rows(k, page)) = Limit <=> k - Offset(page) >= Limit)
<1> TAKE k \in Nat, page \in Int
<1> DEFINE s == IF Offset(page) < 0 THEN 0 ELSE Offset(page)
           hi == k - s
           lo == IF hi - Limit + 1 < 1 THEN 1 ELSE hi - Limit + 1
<1>1. s \in Nat /\ Limit \in Nat /\ Limit >= 1
  BY OffsetInt, PagesAssumption DEF Ints
<1>2. Rows(k, page) = {m \in 1..k : k - m >= s /\ k - m < s + Limit}
  BY DEF Rows
<1> HIDE DEF s
<1>3. lo \in Int /\ hi \in Int
  BY <1>1
<1>4. Rows(k, page) = lo..hi
  BY <1>1, <1>2, <1>3
<1>5. IsFiniteSet(lo..hi) /\ Cardinality(lo..hi) = IF lo > hi THEN 0 ELSE hi - lo + 1
  BY <1>3, FS_Interval
<1>6. /\ Cardinality(lo..hi) \in Nat /\ Cardinality(lo..hi) <= Limit
      /\ Cardinality(lo..hi) = Limit <=> k - s >= Limit
  BY <1>1, <1>3, <1>5
<1>7. Rows(k, page) \subseteq 1..k
  BY <1>2
<1>8. Offset(page) >= 0 => s = Offset(page)
  BY OffsetInt, PagesAssumption DEF s, Ints
<1> HIDE DEF lo, hi
<1> QED BY <1>4, <1>5, <1>6, <1>7, <1>8

\* A full page ends within the messages, so the next one is still an int.
LEMMA FullPage ==
  ASSUME NEW k \in 0..MaxMessages, NEW page \in Int,
         page >= 1, (page - 1) * Limit <= k
  PROVE  /\ Offset(page) = (page - 1) * Limit /\ Offset(page) >= 0
         /\ Cardinality(Rows(k, page)) = Limit <=> page * Limit <= k
         /\ page * Limit <= k => page + 1 \in Ints /\ page + 1 >= 1
<1> DEFINE p == page - 1
<1>1. /\ p \in Nat /\ Limit \in Nat /\ Limit >= 1 /\ IntMax \in Nat /\ MaxMessages \in Nat
      /\ MaxMessages + Limit <= IntMax
  BY PagesAssumption
<1>2. p * Limit \in Nat /\ p <= p * Limit
  <2> HIDE DEF p
  <2> QED BY <1>1
<1>3. page * Limit = p * Limit + Limit
  BY <1>1
<1>4. Offset(page) = p * Limit /\ Offset(page) >= 0
  BY <1>1, <1>2, OffsetExact
<1>5. Cardinality(Rows(k, page)) = Limit <=> k - p * Limit >= Limit
  <2>1. k \in Nat
    BY <1>1
  <2>2. Cardinality(Rows(k, page)) = Limit <=> k - Offset(page) >= Limit
    BY <1>4, <2>1, RowsOfPage
  <2> QED BY <1>4, <2>2
<1>6. (page * Limit <= k) <=> (k - p * Limit >= Limit)
  BY <1>1, <1>2, <1>3
<1>7. page * Limit <= k => page + 1 \in Ints /\ page + 1 >= 1
  BY <1>1, <1>2, <1>3 DEF Ints
<1> QED BY <1>4, <1>5, <1>6, <1>7

Views == [kind : {"none", "page", "busy", "error", "sent"}, numbered : BOOLEAN,
          page : Ints, shown : SUBSET Messages, own : 0..MaxMessages]
Walks == [start : 0..MaxMessages, seen : SUBSET Messages, count : Nat]

\* What a fetch shows is a page as of now.
Shows(v, r, page, numbered, own) ==
    /\ view' = [view EXCEPT ![r] = v]
    /\ v.kind \in {"page", "busy", "error"}
    /\ v.page = page /\ v.numbered = numbered /\ v.own = own
    /\ v.shown = IF v.kind = "page" THEN Listing(page) ELSE {}
    /\ Cardinality(v.shown) <= Limit
    /\ FetchedAt(n, v)

LEMMA Fetched ==
  ASSUME TypeOK, NEW r \in Readers, NEW page \in Ints, NEW numbered \in BOOLEAN,
         NEW own \in 0..n, Fetch(r, page, numbered, own)
  PROVE  \E v \in Views : Shows(v, r, page, numbered, own)
<1>1. PICK kind \in {"page", "busy", "error"} :
        view' = [view EXCEPT ![r] = Page(kind, page, numbered, own)]
  BY DEF Fetch
<1> DEFINE v == Page(kind, page, numbered, own)
<1>2. page \in Int /\ n \in Nat /\ n <= MaxMessages /\ Limit \in Nat /\ MaxMessages \in Nat
  BY PagesAssumption DEF Ints, TypeOK
<1>3. Listing(page) = Rows(n, page)
  BY DEF Listing, Rows
<1>4. Listing(page) \subseteq Messages /\ Cardinality(Listing(page)) <= Limit
  <2>1. Rows(n, page) \subseteq 1..n /\ Cardinality(Rows(n, page)) <= Limit
    BY <1>2, RowsOfPage
  <2> QED BY <1>2, <1>3, <2>1 DEF Messages
<1>5. Cardinality({}) <= Limit
  BY <1>2, FS_EmptySet
<1>6. /\ v.kind = kind /\ v.page = page /\ v.numbered = numbered /\ v.own = own
      /\ v.shown = IF kind = "page" THEN Listing(page) ELSE {}
  BY DEF Page
<1>7. v \in Views
  BY <1>2, <1>4 DEF Page, Views
<1>8. Cardinality(v.shown) <= Limit /\ FetchedAt(n, v)
  BY <1>2, <1>3, <1>4, <1>5, <1>6 DEF FetchedAt
<1> HIDE DEF v
<1>9. view' = [view EXCEPT ![r] = v]
  BY <1>1 DEF v
<1> QED BY <1>6, <1>7, <1>8, <1>9 DEF Shows

\* A visit fetches the page asked for, or one an int can name.
LEMMA Visited ==
  ASSUME NEW r \in Readers, NEW page \in Ints, Visit(r, page)
  PROVE  \E p \in Ints : Fetch(r, p, TRUE, 0) /\ (page >= 0 => p = page)
<1>1. CASE page >= 0
  BY <1>1 DEF Visit
<1>2. CASE ~(page >= 0)
  BY <1>2 DEF Visit
<1> QED BY <1>1, <1>2

\* A walk begins with a fetch of the first page.
LEMMA WalkBegins ==
  ASSUME TypeOK, NEW v \in Views, v.page = 1, v.kind = "page", v.shown = Listing(1)
  PROVE  /\ Walked(NewWalk, v) \in Walks
         /\ Walking(n, v, Walked(NewWalk, v))
<1>1. n \in Nat /\ n <= MaxMessages /\ MaxMessages \in Nat /\ Limit \in Nat /\ Limit >= 1
  BY PagesAssumption DEF TypeOK
<1>2. Offset(1) = 0
  BY <1>1, OffsetExact, PagesAssumption
<1>3. v.shown = {m \in 1..n : n - m < Limit}
  BY <1>1, <1>2 DEF Listing
<1>4. v.shown = Rows(n, 1)
  BY DEF Listing, Rows
<1>5. Cardinality(v.shown) \in Nat
  <2>1. 1 \in Int
    OBVIOUS
  <2> QED BY <1>1, <1>4, <2>1, RowsOfPage
<1>6. Walked(NewWalk, v) = [start |-> n, seen |-> v.shown, count |-> Cardinality(v.shown)]
  <2>1. {} \cup v.shown = v.shown /\ 0 + Cardinality(v.shown) = Cardinality(v.shown)
    BY <1>5
  <2>2. NewWalk.seen = {} /\ NewWalk.count = 0
    BY DEF NewWalk
  <2>3. Walked(NewWalk, v) = [NewWalk EXCEPT !.seen = v.shown, !.count = Cardinality(v.shown)]
    BY <2>1, <2>2 DEF Walked
  <2> QED BY <2>3 DEF NewWalk
<1>7. Walked(NewWalk, v) \in Walks
  <2>1. v.shown \in SUBSET Messages /\ n \in 0..MaxMessages
    BY <1>1 DEF Views
  <2> QED BY <1>5, <1>6, <2>1 DEF Walks
<1> DEFINE w == [start |-> n, seen |-> v.shown, count |-> Cardinality(v.shown)]
<1>8. Walking(n, v, w)
  <2>1. Repeats(n, v, w)
    <3>1. n - Limit \in Int /\ n - Limit <= n - v.page * Limit
      BY <1>1
    <3>2. \A m \in w.seen : m > n - Limit
      BY <1>1, <1>3
    <3>3. w.count - Cardinality(w.seen) <= v.page * Limit + (n - Limit) - w.start
      BY <1>1, <1>5
    <3> QED BY <3>1, <3>2, <3>3 DEF Repeats
  <2>2. w.seen \subseteq 1..n /\ w.start = n /\ NoGap(w)
    BY <1>1, <1>3 DEF NoGap
  <2>3. w.count - Cardinality(w.seen) <= n - w.start
    BY <1>1, <1>5
  <2>4. \A m \in 1..w.start : n - m < v.page * Limit => m \in w.seen
    BY <1>1, <1>3
  <2> HIDE DEF w
  <2> QED BY <1>1, <2>1, <2>2, <2>3, <2>4 DEF Walking
<1> QED BY <1>6, <1>7, <1>8

\* A page that a timeout left empty adds nothing to a walk.
LEMMA EmptyPage ==
  ASSUME TypeOK, NEW v \in Views, v.shown = {}, NEW w \in Walks
  PROVE  Walked(w, v) = w
<1>1. Cardinality({}) = 0 /\ w.seen \cup {} = w.seen
  BY FS_EmptySet
<1>2. w.count \in Nat
  BY DEF Walks
<1>3. w.count + 0 = w.count
  BY <1>2
<1> QED BY <1>1, <1>3 DEF Walked, Walks

\* A walk that begins with one.
LEMMA WalkBeginsEmpty ==
  ASSUME TypeOK, NEW v \in Views, v.kind \in {"busy", "error"}, v.shown = {}
  PROVE  /\ Walked(NewWalk, v) \in Walks
         /\ Walking(n, v, Walked(NewWalk, v))
<1>1. n \in Nat /\ n <= MaxMessages /\ MaxMessages \in Nat
  BY PagesAssumption DEF TypeOK
<1>2. NewWalk \in Walks
  BY <1>1 DEF NewWalk, Walks
<1>3. Walked(NewWalk, v) = NewWalk
  BY <1>2, EmptyPage
<1>4. NewWalk.start = n /\ NewWalk.seen = {} /\ NewWalk.count = 0 /\ Cardinality({}) = 0
  BY FS_EmptySet DEF NewWalk
<1>5. NoGap(NewWalk)
  BY <1>4 DEF NoGap
<1>6. Walking(n, v, NewWalk)
  BY <1>1, <1>4, <1>5 DEF Walking
<1> QED BY <1>2, <1>3, <1>6

\* A walk that ends with one.
LEMMA WalkEndsEmpty ==
  ASSUME TypeOK, NEW k \in 0..n, NEW v \in Views, NEW w \in Walks, Walking(k, v, w),
         NEW u \in Views, u.kind \in {"busy", "error"}, u.shown = {}
  PROVE  Walked(w, u) \in Walks /\ Walking(n, u, Walked(w, u))
<1>1. Walked(w, u) = w
  BY EmptyPage
<1>2. n \in Nat /\ k \in Nat /\ k <= n /\ w.start \in Nat /\ w.count \in Nat
  BY PagesAssumption DEF TypeOK, Walks
<1>3. w.start <= k /\ w.seen \subseteq 1..k /\ NoGap(w) /\ w.count - Cardinality(w.seen) <= k - w.start
  BY DEF Walking
<1>4. Cardinality(w.seen) \in Nat
  <2>1. 1 \in Int /\ k \in Int
    BY <1>2
  <2>2. IsFiniteSet(1..k)
    BY <2>1, FS_Interval
  <2> QED BY <1>3, <2>2, FS_Subset, FS_CardinalityType
<1>5. w.start <= n /\ w.seen \subseteq 1..n /\ w.count - Cardinality(w.seen) <= n - w.start
  BY <1>2, <1>3, <1>4
<1>6. Walking(n, u, w)
  BY <1>3, <1>5 DEF Walking
<1> QED BY <1>1, <1>6

\* The next page continues a walk: what was posted since the last page moved
\* that many of the messages seen to it, and none past it.
LEMMA WalkGoesOn ==
  ASSUME TypeOK, NEW k \in 0..n, NEW v \in Views, NEW w \in Walks,
         v.kind = "page", Linked(k, v), Walking(k, v, w), v.page * Limit <= k,
         NEW u \in Views, u.kind = "page", u.page = v.page + 1, u.shown = Listing(u.page)
  PROVE  Walked(w, u) \in Walks /\ Walking(n, u, Walked(w, u))
<1> DEFINE L == v.page * Limit
           seen == w.seen \cup u.shown
           both == w.seen \cap u.shown
<1>1. /\ n \in Nat /\ k \in Nat /\ k <= n /\ n <= MaxMessages /\ MaxMessages \in Nat
      /\ Limit \in Nat /\ Limit >= 1 /\ v.page \in Int /\ v.page >= 1 /\ MaxMessages <= IntMax
      /\ w.start \in Nat /\ w.start <= k /\ w.count \in Nat
      /\ w.start <= MaxMessages
  BY PagesAssumption DEF TypeOK, Views, Walks, Linked, Walking, Ints
<1>2. L \in Nat /\ L <= k /\ u.page * Limit = L + Limit /\ (u.page - 1) * Limit = L
  BY <1>1, PagesAssumption
<1>3. Offset(u.page) = L
  BY <1>1, <1>2, OffsetExact, PagesAssumption
<1>4. u.shown = {m \in 1..n : n - m >= L /\ n - m < L + Limit}
  BY <1>2, <1>3 DEF Listing
<1>5. /\ IsFiniteSet(u.shown) /\ Cardinality(u.shown) \in Nat
  <2>1. u.shown = Rows(n, u.page)
    BY DEF Listing, Rows
  <2>2. u.page \in Int
    BY <1>1
  <2> QED BY <1>1, <2>1, <2>2, RowsOfPage
<1> HIDE DEF L
<1>6. /\ w.seen \subseteq 1..k
      /\ \A m \in 1..w.start : k - m < L => m \in w.seen
  BY DEF Walking, L
<1>7. PICK low \in Int : /\ low <= k - L
                         /\ \A m \in w.seen : m > low
                         /\ w.count - Cardinality(w.seen) <= L + low - w.start
  BY DEF Walking, Repeats, L
<1> DEFINE last == n - (L + Limit)
           above == IF last < low THEN low ELSE last
           below == IF last < low THEN last ELSE low
<1>8. IsFiniteSet(w.seen) /\ Cardinality(w.seen) \in Nat
  <2>1. 1 \in Int /\ k \in Int
    BY <1>1
  <2>2. IsFiniteSet(1..k)
    BY <2>1, FS_Interval
  <2>3. IsFiniteSet(w.seen)
    BY <1>6, <2>2, FS_Subset
  <2> QED BY <2>3, FS_CardinalityType
<1>9. last \in Int /\ above \in Int /\ below \in Int /\ above <= n - L /\ above + below = last + low
  BY <1>1, <1>2, <1>7
<1>10. both \subseteq (above + 1)..(n - L)
  BY <1>1, <1>2, <1>4, <1>6, <1>7
<1>11. IsFiniteSet(both) /\ Cardinality(both) \in Nat /\ Cardinality(both) <= n - L - above
  <2> DEFINE from == above + 1
             to == n - L
  <2>1. from \in Int /\ to \in Int /\ from <= to + 1 /\ n - L - above = to - from + 1
    BY <1>1, <1>2, <1>9
  <2>2. both \in SUBSET (from..to)
    BY <1>10
  <2> HIDE DEF from, to, both
  <2>3. IsFiniteSet(from..to) /\ Cardinality(from..to) = IF from > to THEN 0 ELSE to - from + 1
    BY <2>1, FS_Interval
  <2>4. IsFiniteSet(both) /\ Cardinality(both) <= Cardinality(from..to)
    BY <2>2, <2>3, FS_Subset
  <2>5. Cardinality(both) \in Nat
    BY <2>4, FS_CardinalityType
  <2>6. Cardinality(from..to) = to - from + 1
    BY <2>1, <2>3
  <2> QED BY <2>1, <2>4, <2>5, <2>6
<1>12. Cardinality(seen) = Cardinality(w.seen) + Cardinality(u.shown) - Cardinality(both)
  BY <1>5, <1>8, FS_Union
<1> DEFINE new == [w EXCEPT !.seen = seen, !.count = w.count + Cardinality(u.shown)]
<1>13. Walked(w, u) = new
  BY DEF Walked
<1>14. new.start = w.start /\ new.seen = seen /\ new.count = w.count + Cardinality(u.shown)
  BY DEF Walks
<1>15. seen \subseteq 1..n
  BY <1>1, <1>4, <1>6
<1>16. new \in Walks
  <2>1. w.count + Cardinality(u.shown) \in Nat
    BY <1>1, <1>5
  <2>2. seen \in SUBSET Messages
    BY DEF Views, Walks
  <2> HIDE DEF seen
  <2> QED BY <2>1, <2>2 DEF Walks
<1>17. \A m \in 1..w.start : n - m < L + Limit => m \in seen
  BY <1>1, <1>2, <1>4, <1>6
<1>18. \A m \in seen : m > below
  <2>1. \A m \in u.shown : m > last
    BY <1>1, <1>2, <1>4
  <2>2. \A m \in w.seen : m \in Int
    BY <1>1, <1>6
  <2>3. \A m \in u.shown : m \in Int
    BY <1>4
  <2> QED BY <1>7, <1>9, <2>1, <2>2, <2>3
<1>19. new.count - Cardinality(seen) <= L + Limit + below - w.start
  <2> HIDE DEF seen, both, above, below, last, new
  <2>1. above + below = n - (L + Limit) + low
    BY <1>9 DEF last
  <2> QED BY <1>1, <1>2, <1>5, <1>7, <1>8, <1>9, <1>11, <1>12, <1>14, <2>1
<1>20. below <= n - (L + Limit)
  BY <1>1, <1>2, <1>7
<1> HIDE DEF new, seen, both, above, below, last
<1>21. Repeats(n, u, new)
  <2>1. below <= n - u.page * Limit
    BY <1>2, <1>20
  <2>2. \A m \in new.seen : m > below
    BY <1>14, <1>18
  <2>3. new.count - Cardinality(new.seen) <= u.page * Limit + below - new.start
    BY <1>2, <1>14, <1>19
  <2> QED BY <1>9, <2>1, <2>2, <2>3 DEF Repeats
<1>22. NoGap(new)
  <2> SUFFICES ASSUME NEW m \in new.seen, NEW later \in 1..w.start, later > m
               PROVE  later \in new.seen
    BY <1>14 DEF NoGap
  <2>1. later \in Int /\ later <= k /\ (k - later < L => later \in w.seen)
    BY <1>1, <1>6
  <2>2. CASE m \in w.seen
    <3>1. later \in w.seen
      BY <2>2 DEF Walking, NoGap
    <3> QED BY <1>14, <3>1 DEF seen
  <2>3. CASE m \in u.shown
    <3>1. m \in Int /\ n - m < L + Limit
      BY <1>4, <2>3
    <3>2. k - later < L \/ later \in u.shown
      <4> SUFFICES ASSUME ~(k - later < L) PROVE later \in u.shown
        OBVIOUS
      <4>1. later \in 1..n /\ n - later >= L /\ n - later < L + Limit
        BY <1>1, <1>2, <2>1, <3>1
      <4> QED BY <1>4, <4>1
    <3> QED BY <1>14, <2>1, <3>2 DEF seen
  <2> QED BY <1>14, <2>2, <2>3 DEF seen
<1>23. new.count - Cardinality(new.seen) <= n - new.start
  <2>1. Cardinality(seen) \in Int
    BY <1>5, <1>8, <1>11, <1>12
  <2> QED BY <1>1, <1>2, <1>5, <1>9, <1>14, <1>19, <1>20, <2>1
<1>24. Walking(n, u, new)
  <2>1. new.start <= n /\ new.seen \subseteq 1..n
    BY <1>1, <1>14, <1>15
  <2>2. \A m \in 1..new.start : n - m < u.page * Limit => m \in new.seen
    BY <1>2, <1>14, <1>17
  <2> QED BY <1>21, <1>22, <1>23, <2>1, <2>2 DEF Walking
<1> QED BY <1>13, <1>16, <1>24

-----------------------------------------------------------------------------
\* A step changes one reader only, and messages are never removed: what was
\* fetched from fewer messages still fits for the others.
LEMMA OneReader ==
  ASSUME IInv, NEW r \in Readers, NEW v \in Views, NEW w \in Walks \cup {None},
         NEW t \in BOOLEAN, Cardinality(v.shown) <= Limit,
         n' \in n..MaxMessages, down' \in BOOLEAN,
         view' = [view EXCEPT ![r] = v], walk' = [walk EXCEPT ![r] = w],
         tame' = [tame EXCEPT ![r] = t],
         \E k \in 0..n' : Fits(k, v, w, t)
  PROVE  IInv'
<1>1. n \in Nat /\ n' \in Nat /\ n <= n' /\ n' <= MaxMessages /\ MaxMessages \in Nat
  BY PagesAssumption DEF IInv, TypeOK
<1>2. /\ view \in [Readers -> Views] /\ walk \in [Readers -> Walks \cup {None}]
      /\ tame \in [Readers -> BOOLEAN]
      /\ \A q \in Readers : Cardinality(view[q].shown) <= Limit
  BY DEF IInv, TypeOK, Views, Walks
<1>3. /\ view' \in [Readers -> Views] /\ walk' \in [Readers -> Walks \cup {None}]
      /\ tame' \in [Readers -> BOOLEAN]
  BY <1>2
<1>4. view'[r] = v /\ walk'[r] = w /\ tame'[r] = t
  BY <1>2
<1>5. \A q \in Readers \ {r} : view'[q] = view[q] /\ walk'[q] = walk[q] /\ tame'[q] = tame[q]
  BY <1>2
<1>6. \A q \in Readers : Cardinality(view'[q].shown) <= Limit
  BY <1>2, <1>4, <1>5
<1>7. TypeOK'
  BY <1>1, <1>3, <1>6 DEF TypeOK, Views, Walks, Messages
<1>8. ASSUME NEW q \in Readers
      PROVE  \E k \in 0..n' : Fits(k, view'[q], walk'[q], tame'[q])
  <2>1. CASE q = r
    BY <1>4, <2>1
  <2>2. CASE q # r
    <3>1. PICK k \in 0..n : Fits(k, view[q], walk[q], tame[q])
      BY DEF IInv
    <3>2. k \in 0..n'
      BY <1>1
    <3>3. Fits(k, view'[q], walk'[q], tame'[q])
      BY <1>5, <2>2, <3>1
    <3> QED BY <3>2, <3>3
  <2> QED BY <2>1, <2>2
<1>9. (\A q \in Readers : \E k \in 0..n : Fits(k, view[q], walk[q], tame[q]))'
  BY <1>8
<1> QED BY <1>7, <1>9 DEF IInv

\* What the invariant says of the reader who is about to act.
LEMMA Reader ==
  ASSUME IInv, NEW r \in Readers
  PROVE  /\ n \in Nat /\ n \in 0..MaxMessages /\ TypeOK /\ down \in BOOLEAN
         /\ view[r] \in Views /\ view[r].page \in Ints /\ view[r].own \in 0..MaxMessages
         /\ view[r].numbered \in BOOLEAN
         /\ walk[r] \in Walks \cup {None} /\ tame[r] \in BOOLEAN
         /\ view \in [Readers -> Views] /\ walk \in [Readers -> Walks \cup {None}]
         /\ tame \in [Readers -> BOOLEAN]
         /\ walk = [walk EXCEPT ![r] = walk[r]] /\ tame = [tame EXCEPT ![r] = tame[r]]
         /\ \E k \in 0..n : Fits(k, view[r], walk[r], tame[r])
<1>1. n \in 0..MaxMessages /\ MaxMessages \in Nat /\ TypeOK /\ down \in BOOLEAN
  BY PagesAssumption DEF IInv, TypeOK
<1>2. /\ view \in [Readers -> Views] /\ walk \in [Readers -> Walks \cup {None}]
      /\ tame \in [Readers -> BOOLEAN]
  BY DEF IInv, TypeOK, Views, Walks
<1>3. view[r] \in Views
  BY <1>2
<1>4. /\ view[r].page \in Ints /\ view[r].own \in 0..MaxMessages
      /\ view[r].numbered \in BOOLEAN
  BY <1>3 DEF Views
<1>5. \E k \in 0..n : Fits(k, view[r], walk[r], tame[r])
  BY DEF IInv
<1> QED BY <1>1, <1>2, <1>3, <1>4, <1>5

LEMMA SmallInts == 1 \in Ints /\ \A page \in Typed \cup {-1} : page \in Ints
<1>1. IntMax \in Nat /\ Typed \subseteq 0..IntMax /\ IntMax >= 1
  BY PagesAssumption
<1> QED BY <1>1 DEF Ints

\* /bulletin, asked for or redirected to.
LEMMA FirstPage ==
  ASSUME IInv, NEW r \in Readers, NEW own \in 0..n, NEW t \in BOOLEAN,
         Fetch(r, 1, FALSE, own), walk' = [walk EXCEPT ![r] = Walked(NewWalk, view'[r])],
         tame' = [tame EXCEPT ![r] = t], UNCHANGED <<n, down>>
  PROVE  IInv'
<1>1. /\ n \in Nat /\ n \in 0..MaxMessages /\ TypeOK /\ down \in BOOLEAN
      /\ view \in [Readers -> Views]
  BY Reader
<1>2a. PICK v \in Views : Shows(v, r, 1, FALSE, own)
  <2>1. 1 \in Ints /\ FALSE \in BOOLEAN
    BY SmallInts
  <2> QED BY <1>1, <2>1, Fetched
<1>2. /\ view' = [view EXCEPT ![r] = v]
      /\ v.kind \in {"page", "busy", "error"}
      /\ v.page = 1 /\ v.numbered = FALSE /\ v.own = own
      /\ v.shown = IF v.kind = "page" THEN Listing(1) ELSE {}
      /\ Cardinality(v.shown) <= Limit
      /\ FetchedAt(n, v)
  BY <1>2a DEF Shows
<1>3. view'[r] = v
  BY <1>1, <1>2
<1> DEFINE w == Walked(NewWalk, v)
<1>4. walk' = [walk EXCEPT ![r] = w]
  BY <1>3
<1>5. w \in Walks \cup {None} /\ (w # None => Walking(n, v, w))
  <2>1. CASE v.kind = "page"
    BY <1>1, <1>2, <2>1, WalkBegins
  <2>2. CASE v.kind # "page"
    BY <1>1, <1>2, <2>2, WalkBeginsEmpty
  <2> QED BY <2>1, <2>2
<1>6. AfterPost(v) /\ Linked(n, v)
  BY <1>1, <1>2, PagesAssumption DEF AfterPost, Linked
<1>7. Fits(n, v, w, t)
  BY <1>2, <1>5, <1>6 DEF Fits
<1>8. n' \in n..MaxMessages /\ down' \in BOOLEAN /\ n \in 0..n'
  BY <1>1
<1> HIDE DEF w
<1>9. \E k \in 0..n' : Fits(k, v, w, t)
  BY <1>7, <1>8
<1>10. /\ Cardinality(v.shown) <= Limit /\ view' = [view EXCEPT ![r] = v]
       /\ w \in Walks \cup {None}
  BY <1>2, <1>5
<1>11. IInv /\ tame' = [tame EXCEPT ![r] = t]
  OBVIOUS
<1> QED BY ONLY <1>4, <1>8, <1>9, <1>10, <1>11, r \in Readers, v \in Views, t \in BOOLEAN, OneReader

\* Any other fetch, which ends the reader's walk or is not part of one.
LEMMA OtherPage ==
  ASSUME IInv, NEW r \in Readers, NEW page \in Ints, NEW own \in 0..n, NEW t \in BOOLEAN,
         Fetch(r, page, TRUE, own), walk' = [walk EXCEPT ![r] = None],
         tame' = [tame EXCEPT ![r] = t], UNCHANGED <<n, down>>,
         t => page >= 1 /\ (page - 1) * Limit <= n
  PROVE  IInv'
<1>1. n \in Nat /\ n \in 0..MaxMessages /\ TypeOK /\ down \in BOOLEAN
  BY Reader
<1>2a. PICK v \in Views : Shows(v, r, page, TRUE, own)
  <2>1. TRUE \in BOOLEAN
    OBVIOUS
  <2> QED BY <1>1, <2>1, Fetched
<1>2. /\ view' = [view EXCEPT ![r] = v]
      /\ v.page = page /\ v.numbered = TRUE
      /\ Cardinality(v.shown) <= Limit
      /\ FetchedAt(n, v)
  BY <1>2a DEF Shows
<1>3. AfterPost(v) /\ (t => Linked(n, v))
  BY <1>2 DEF AfterPost, Linked
<1>4. Fits(n, v, None, t)
  BY <1>2, <1>3 DEF Fits
<1>5. n' \in n..MaxMessages /\ down' \in BOOLEAN /\ n \in 0..n' /\ None \in Walks \cup {None}
  BY <1>1
<1> QED BY <1>2, <1>4, <1>5, OneReader

LEMMA OpenStep ==
  ASSUME IInv, NEW r \in Readers, Open(r)  PROVE IInv'
<1>1. n \in Nat
  BY Reader
<1>2. 0 \in 0..n /\ TRUE \in BOOLEAN
  BY <1>1
<1> QED BY <1>2, FirstPage DEF Open

LEMMA NextStep ==
  ASSUME IInv, NEW r \in Readers, FollowNext(r)  PROVE IInv'
<1> DEFINE v == view[r]
           w == walk[r]
           page == Wrap(v.page + 1)
<1>1. /\ n \in Nat /\ n \in 0..MaxMessages /\ TypeOK /\ down \in BOOLEAN
      /\ v \in Views /\ v.page \in Ints /\ v.page \in Int
      /\ w \in Walks \cup {None} /\ tame[r] \in BOOLEAN
      /\ view \in [Readers -> Views] /\ tame = [tame EXCEPT ![r] = tame[r]]
  BY Reader, PagesAssumption DEF Ints
<1>2. page \in Ints
  BY <1>1, Wrapping, PagesAssumption
<1>3. PICK p \in Ints : Fetch(r, p, TRUE, 0) /\ (page >= 0 => p = page)
  BY <1>2, Visited DEF FollowNext
<1>4. 0 \in 0..n
  BY <1>1
<1>5a. PICK u \in Views : Shows(u, r, p, TRUE, 0)
  <2>1. TRUE \in BOOLEAN
    OBVIOUS
  <2> QED BY <1>1, <1>3, <1>4, <2>1, Fetched
<1>5. /\ view' = [view EXCEPT ![r] = u]
      /\ u.page = p /\ u.numbered = TRUE /\ u.own = 0
      /\ u.kind \in {"page", "busy", "error"}
      /\ u.shown = IF u.kind = "page" THEN Listing(p) ELSE {}
      /\ Cardinality(u.shown) <= Limit
      /\ FetchedAt(n, u)
  BY <1>5a DEF Shows
<1>6. view'[r] = u
  BY <1>1, <1>5
<1>7. PICK k \in 0..n : Fits(k, v, w, tame[r])
  BY Reader
<1>8. v.kind = "page" /\ v.shown = Rows(k, v.page) /\ Cardinality(v.shown) = Limit
  BY <1>7 DEF FollowNext, HasNext, Fits, FetchedAt
<1>9. ASSUME Linked(k, v)
      PROVE  /\ v.page * Limit <= k /\ u.page = v.page + 1 /\ Linked(n, u)
  <2>1. v.page >= 1 /\ (v.page - 1) * Limit <= k /\ k \in 0..MaxMessages
    BY <1>1, <1>8, <1>9, PagesAssumption DEF Linked
  <2>2. v.page * Limit <= k /\ v.page + 1 \in Ints /\ v.page + 1 >= 1
    BY <1>1, <1>8, <2>1, FullPage
  <2>3. page = v.page + 1
    BY <1>1, <2>2, Wrapping
  <2>4. u.page = v.page + 1
    BY <1>1, <1>3, <1>5, <2>2, <2>3
  <2>5. (u.page - 1) * Limit <= n /\ u.page >= 1
    <3>1. u.page - 1 = v.page
      BY <1>1, <2>4
    <3>2. v.page * Limit \in Int
      BY <1>1, PagesAssumption
    <3> QED BY <1>1, <2>2, <2>4, <3>1, <3>2
  <2> QED BY <2>2, <2>4, <2>5 DEF Linked
<1> DEFINE x == IF w = None THEN None ELSE Walked(w, u)
<1>10. walk' = [walk EXCEPT ![r] = x]
  BY <1>6 DEF FollowNext
<1>11. x \in Walks \cup {None} /\ (x # None => Walking(n, u, x) /\ Linked(n, u))
  <2>1. CASE w = None
    BY <2>1
  <2>3. CASE w # None /\ u.kind # "page"
    <3>1. Linked(k, v) /\ Walking(k, v, w) /\ w \in Walks
      BY <1>1, <1>7, <2>3 DEF Fits
    <3>2. u.shown = {} /\ u.kind \in {"busy", "error"} /\ Linked(n, u)
      BY <1>5, <1>9, <2>3, <3>1
    <3> HIDE DEF v, w
    <3>3. Walked(w, u) \in Walks /\ Walking(n, u, Walked(w, u))
      BY <1>1, <3>1, <3>2, WalkEndsEmpty
    <3> QED BY <2>3, <3>2, <3>3
  <2>2. CASE w # None /\ u.kind = "page"
    <3>1. Linked(k, v) /\ Walking(k, v, w) /\ w \in Walks
      BY <1>1, <1>7, <2>2 DEF Fits
    <3>2. u.shown = Listing(u.page)
      BY <1>5, <2>2
    <3>3. v.page * Limit <= k /\ u.page = v.page + 1 /\ Linked(n, u)
      BY <1>9, <3>1
    <3> HIDE DEF v, w
    <3>4. Walked(w, u) \in Walks /\ Walking(n, u, Walked(w, u))
      BY <1>1, <1>8, <2>2, <3>1, <3>2, <3>3, WalkGoesOn
    <3> QED BY <2>2, <3>3, <3>4
  <2> QED BY <2>1, <2>2, <2>3
<1>12. tame[r] => Linked(n, u)
  BY <1>7, <1>9 DEF Fits
<1>13. AfterPost(u)
  BY <1>5 DEF AfterPost
<1> HIDE DEF x
<1>14. Fits(n, u, x, tame[r])
  BY <1>5, <1>11, <1>12, <1>13 DEF Fits
<1>15. n' \in n..MaxMessages /\ down' \in BOOLEAN /\ n \in 0..n'
       /\ tame' = [tame EXCEPT ![r] = tame[r]]
  BY <1>1 DEF FollowNext
<1>16. /\ Cardinality(u.shown) <= Limit /\ view' = [view EXCEPT ![r] = u]
       /\ x \in Walks \cup {None} /\ tame[r] \in BOOLEAN
  BY <1>1, <1>5, <1>11
<1>17. \E l \in 0..n' : Fits(l, u, x, tame[r])
  BY <1>14, <1>15
<1>18. IInv
  OBVIOUS
<1> QED BY ONLY <1>10, <1>15, <1>16, <1>17, <1>18, r \in Readers, u \in Views, OneReader

LEMMA PrevStep ==
  ASSUME IInv, NEW r \in Readers, FollowPrev(r)  PROVE IInv'
<1> DEFINE v == view[r]
           page == v.page - 1
<1>1. /\ n \in Nat /\ n \in 0..MaxMessages /\ v.page \in Ints /\ v.page \in Int
      /\ tame[r] \in BOOLEAN /\ tame = [tame EXCEPT ![r] = tame[r]]
  BY Reader, PagesAssumption DEF Ints
<1>2. v.kind \in {"page", "busy"} /\ v.page > 1
  BY DEF FollowPrev, HasPrev
<1>3. page \in Ints /\ page >= 1
  BY <1>1, <1>2, PagesAssumption DEF Ints
<1>4. PICK p \in Ints : Fetch(r, p, TRUE, 0) /\ (page >= 0 => p = page)
  BY <1>3, Visited DEF FollowPrev
<1>5. p = page
  BY <1>1, <1>3, <1>4
<1>6. PICK k \in 0..n : Fits(k, v, walk[r], tame[r])
  BY Reader
<1>7. tame[r] => page >= 1 /\ (page - 1) * Limit <= n
  <2> SUFFICES ASSUME tame[r] PROVE (page - 1) * Limit <= n
    BY <1>3
  <2>1. page * Limit <= k
    BY <1>2, <1>6 DEF Fits, Linked
  <2>2. Limit \in Nat /\ k \in Nat /\ k <= n
    BY <1>1, PagesAssumption
  <2>3. page \in Int
    BY <1>1
  <2>4. page * Limit \in Int /\ (page - 1) * Limit = page * Limit - Limit
    <3> HIDE DEF page
    <3> QED BY <2>2, <2>3
  <2> HIDE DEF page
  <2> QED BY <1>1, <2>1, <2>2, <2>4
<1>8. 0 \in 0..n
  BY <1>1
<1> HIDE DEF page
<1> QED BY <1>1, <1>3, <1>4, <1>5, <1>7, <1>8, OtherPage DEF FollowPrev

LEMMA TypePageStep ==
  ASSUME IInv, NEW r \in Readers, TypePage(r)  PROVE IInv'
<1>1. PICK page \in Typed \cup {-1} : Visit(r, page)
  BY DEF TypePage
<1>2. page \in Ints
  BY SmallInts
<1>3. PICK p \in Ints : Fetch(r, p, TRUE, 0)
  BY <1>1, <1>2, Visited
<1>4. n \in Nat
  BY Reader
<1>5. 0 \in 0..n /\ FALSE \in BOOLEAN
  BY <1>4
<1> QED BY <1>3, <1>5, OtherPage DEF TypePage

LEMMA HugeStep ==
  ASSUME IInv, NEW r \in Readers, TypeHuge(r)  PROVE IInv'
<1>1. TypeOK'
  BY DEF IInv, TypeOK, TypeHuge
<1>2. (\A q \in Readers : \E k \in 0..n : Fits(k, view[q], walk[q], tame[q]))'
  BY DEF IInv, TypeHuge
<1> QED BY <1>1, <1>2 DEF IInv

LEMMA PostStep ==
  ASSUME IInv, NEW r \in Readers, Post(r)  PROVE IInv'
<1>1. /\ n \in Nat /\ n \in 0..MaxMessages /\ TypeOK /\ down \in BOOLEAN
      /\ view[r].numbered \in BOOLEAN /\ tame[r] \in BOOLEAN
      /\ tame = [tame EXCEPT ![r] = tame[r]]
      /\ MaxMessages \in Nat /\ Limit \in Nat /\ n < MaxMessages
  BY Reader, PagesAssumption DEF Post
<1>2. Cardinality({}) = 0
  BY FS_EmptySet
<1>3. /\ down' \in BOOLEAN /\ walk' = [walk EXCEPT ![r] = None]
      /\ tame' = [tame EXCEPT ![r] = tame[r]] /\ None \in Walks \cup {None}
  BY <1>1 DEF Post
<1>4. CASE /\ n' = n + 1
           /\ view' = [view EXCEPT ![r] = [Blank EXCEPT !.kind = "sent", !.own = n + 1,
                                                        !.numbered = view[r].numbered]]
  <2> DEFINE v == [Blank EXCEPT !.kind = "sent", !.own = n + 1,
                                !.numbered = view[r].numbered]
  <2>1. view' = [view EXCEPT ![r] = v]
    BY <1>4
  <2>2. v.kind = "sent" /\ v.shown = {} /\ v.own = n + 1
    BY DEF Blank
  <2>3. v \in Views /\ Cardinality(v.shown) <= Limit
    <3>1. Blank \in Views
      BY <1>1, SmallInts DEF Blank, Views
    <3>2. n + 1 \in 0..MaxMessages /\ "sent" \in {"none", "page", "busy", "error", "sent"}
      BY <1>1
    <3>3. v \in Views
      BY <1>1, <3>1, <3>2 DEF Views
    <3> QED BY <1>1, <1>2, <2>2, <3>3
  <2>4. n' \in n..MaxMessages /\ n + 1 \in 0..n'
    BY <1>1, <1>4
  <2> HIDE DEF v
  <2>5. Fits(n + 1, v, None, tame[r])
    BY <1>1, <2>2 DEF Fits, FetchedAt, AfterPost, Linked
  <2> QED BY <1>1, <1>3, <2>1, <2>2, <2>3, <2>4, <2>5, OneReader
<1>5. CASE view' = [view EXCEPT ![r] = Page("error", 1, view[r].numbered, 0)] /\ UNCHANGED n
  <2> DEFINE v == Page("error", 1, view[r].numbered, 0)
  <2>1. v.kind = "error" /\ v.shown = {} /\ v.own = 0
    BY DEF Page
  <2>2. v \in Views
    BY <1>1, SmallInts DEF Views, Page
  <2>3. Cardinality(v.shown) <= Limit
    BY <1>1, <1>2, <2>1
  <2>4. n' \in n..MaxMessages /\ n \in 0..n'
    BY <1>1, <1>5
  <2> HIDE DEF v
  <2>5. Fits(n, v, None, tame[r])
    BY <1>1, <2>1 DEF Fits, FetchedAt, AfterPost, Linked
  <2>6. view' = [view EXCEPT ![r] = v]
    BY <1>5 DEF v
  <2> QED BY <1>1, <1>3, <2>2, <2>3, <2>4, <2>5, <2>6, OneReader
<1> QED BY <1>4, <1>5 DEF Post

LEMMA RedirectStep ==
  ASSUME IInv, NEW r \in Readers, Redirect(r)  PROVE IInv'
<1> DEFINE v == view[r]
<1>1. /\ n \in Nat /\ v.own \in 0..MaxMessages /\ tame[r] \in BOOLEAN
      /\ tame = [tame EXCEPT ![r] = tame[r]] /\ walk = [walk EXCEPT ![r] = walk[r]]
  BY Reader
<1>2. PICK k \in 0..n : Fits(k, v, walk[r], tame[r])
  BY Reader
<1>3. v.own \in 0..n
  BY <1>1, <1>2 DEF Fits, FetchedAt
<1>4. walk[r] = None
  BY <1>2 DEF Fits, Walking, Redirect
<1>5. CASE /\ Fetch(r, 1, FALSE, v.own)
           /\ walk' = [walk EXCEPT ![r] = Walked(NewWalk, view'[r])]
           /\ UNCHANGED tame
  <2>1. tame' = [tame EXCEPT ![r] = tame[r]]
    BY <1>1, <1>5
  <2> QED BY <1>1, <1>3, <1>5, <2>1, FirstPage DEF Redirect
<1>6. CASE /\ \E garbage \in Ints : Fetch(r, garbage, TRUE, v.own)
           /\ tame' = [tame EXCEPT ![r] = FALSE]
           /\ UNCHANGED walk
  <2>1. walk' = [walk EXCEPT ![r] = None]
    BY <1>1, <1>4, <1>6
  <2>2. PICK garbage \in Ints : Fetch(r, garbage, TRUE, v.own)
    BY <1>6
  <2> QED BY <1>3, <1>6, <2>1, <2>2, OtherPage DEF Redirect
<1> QED BY <1>5, <1>6 DEF Redirect

-----------------------------------------------------------------------------
LEMMA Initial == Init => IInv
<1> SUFFICES ASSUME Init PROVE IInv
  OBVIOUS
<1>1. MaxMessages \in Nat /\ Limit \in Nat /\ Cardinality({}) = 0
  BY PagesAssumption, FS_EmptySet
<1>2. Blank \in Views /\ Blank.shown = {} /\ Blank.kind = "none" /\ Blank.own = 0
  BY <1>1, SmallInts DEF Blank, Views
<1>3. TypeOK
  <2>1. n \in 0..MaxMessages /\ tame \in [Readers -> BOOLEAN] /\ down \in BOOLEAN
    <3>1. n \in 0..MaxMessages
      BY <1>1 DEF Init
    <3>2. tame \in [Readers -> BOOLEAN]
      BY DEF Init
    <3>3. down \in BOOLEAN
      BY DEF Init
    <3> QED BY <3>1, <3>2, <3>3
  <2>2. view \in [Readers -> Views] /\ \A r \in Readers : view[r] = Blank
    BY <1>2 DEF Init
  <2>3. \A r \in Readers : Cardinality(view[r].shown) <= Limit
    BY <1>1, <1>2, <2>2
  <2>4. walk \in [Readers -> Walks \cup {None}]
    BY DEF Init
  <2> QED BY <2>1, <2>2, <2>3, <2>4 DEF TypeOK, Views, Walks
<1>4. ASSUME NEW r \in Readers PROVE Fits(0, view[r], walk[r], tame[r])
  BY <1>2 DEF Init, Fits, FetchedAt, AfterPost, Linked
<1>5. 0 \in 0..n
  BY DEF Init
<1> QED BY <1>3, <1>4, <1>5 DEF IInv

LEMMA Step == IInv /\ [Next]_vars => IInv'
<1> SUFFICES ASSUME IInv, [Next]_vars PROVE IInv'
  OBVIOUS
<1>1. CASE UNCHANGED vars
  <2>1. TypeOK'
    BY <1>1 DEF IInv, TypeOK, vars
  <2>2. (\A q \in Readers : \E k \in 0..n : Fits(k, view[q], walk[q], tame[q]))'
    BY <1>1 DEF IInv, vars
  <2> QED BY <2>1, <2>2 DEF IInv
<1>2. CASE Next
  <2>1. PICK r \in Readers : \/ Open(r) \/ FollowNext(r) \/ FollowPrev(r)
                             \/ TypePage(r) \/ TypeHuge(r) \/ Post(r) \/ Redirect(r)
    BY <1>2 DEF Next
  <2> QED BY <2>1, OpenStep, NextStep, PrevStep, TypePageStep, HugeStep, PostStep, RedirectStep
<1> QED BY <1>1, <1>2

LEMMA Invariant == Spec => []IInv
BY Initial, Step, PTL DEF Spec

\* Page numbers stay ints and pages stay within Limit rows, whatever is typed
\* or left uninitialised.
THEOREM TypeCorrect == Spec => []TypeOK
<1>1. IInv => TypeOK
  BY DEF IInv
<1> QED BY <1>1, Invariant, PTL

\* A reader who presses Next from the first page on has seen the newest of the
\* messages that were there, without a gap, and all of them at a page without a
\* Next whose SELECT went through; posts made meanwhile hide none.  A SELECT that
\* timed out ends a walk early: what is missed then are the oldest.
THEOREM WalksMissNothing == Spec => []NothingSkipped
<1>1. ASSUME IInv, NEW r \in Readers, walk[r] # None
      PROVE  NoGap(walk[r])
  BY <1>1, Reader DEF Fits, Walking
<1>2. ASSUME IInv, NEW r \in Readers, walk[r] # None, view[r].kind = "page",
             ~HasNext(view[r]), NEW m \in 1..walk[r].start
      PROVE  m \in walk[r].seen
  <2> DEFINE v == view[r]
             w == walk[r]
  <2>1. PICK k \in 0..n : Fits(k, v, w, tame[r])
    BY <1>2, Reader
  <2>2. n \in 0..MaxMessages /\ n \in Nat /\ v.page \in Ints /\ v.page \in Int /\ w \in Walks
    BY <1>2, Reader, PagesAssumption DEF Ints
  <2>3. /\ v.shown = Rows(k, v.page) /\ v.page >= 1 /\ (v.page - 1) * Limit <= k
        /\ Walking(k, v, w) /\ Cardinality(v.shown) # Limit
    BY <1>2, <2>1 DEF Fits, FetchedAt, Linked, HasNext
  <2>4. k \in 0..MaxMessages /\ k \in Nat /\ MaxMessages \in Nat
    BY <2>2, PagesAssumption
  <2>5. ~(v.page * Limit <= k)
    BY <2>2, <2>3, <2>4, FullPage
  <2>6. v.page * Limit \in Int /\ w.start \in Nat /\ m \in Nat /\ m >= 1
    BY <2>2, PagesAssumption DEF Walks
  <2>7. k - m < v.page * Limit
    BY <2>4, <2>5, <2>6
  <2> QED BY <1>2, <2>3, <2>7 DEF Walking
<1>3. IInv => NothingSkipped
  BY <1>1, <1>2 DEF NothingSkipped, NoGap
<1> QED BY <1>3, Invariant, PTL

\* A walk repeats no more messages than were posted since it began.
THEOREM RepeatsBounded == Spec => []RepeatsAreBoundedByPosts
<1>1. IInv => RepeatsAreBoundedByPosts
  <2> SUFFICES ASSUME IInv, NEW r \in Readers, walk[r] # None
               PROVE  walk[r].count - Cardinality(walk[r].seen) <= n - walk[r].start
    BY DEF RepeatsAreBoundedByPosts
  <2> DEFINE w == walk[r]
  <2>1. PICK k \in 0..n : Fits(k, view[r], w, tame[r])
    BY Reader
  <2>2. n \in Nat /\ k \in Nat /\ k <= n /\ w \in Walks
    BY Reader
  <2>3. /\ w.start \in Nat /\ w.count \in Nat /\ w.seen \subseteq 1..k
        /\ w.count - Cardinality(w.seen) <= k - w.start
    BY <2>1, <2>2 DEF Walks, Fits, Walking
  <2>4. IsFiniteSet(1..k)
    BY <2>2, FS_Interval
  <2>5. Cardinality(w.seen) \in Nat
    BY <2>3, <2>4, FS_Subset, FS_CardinalityType
  <2> QED BY <2>2, <2>3, <2>5
<1> QED BY <1>1, Invariant, PTL

\* Who posts is redirected to a page with the message, or with a page of later
\* ones, or to one that a timeout left empty, or posted from a numbered page,
\* whose relative redirect asks for no page in particular.
THEOREM OwnPostFound == Spec => []OwnPostShown
<1>1. ASSUME IInv, NEW r \in Readers, view[r].kind = "page", view[r].own # 0, ~view[r].numbered
      PROVE  \/ view[r].own \in view[r].shown
             \/ /\ Cardinality(view[r].shown) = Limit
                /\ \A m \in view[r].shown : m > view[r].own
  <2> DEFINE v == view[r]
  <2>1. PICK k \in 0..n : Fits(k, v, walk[r], tame[r])
    BY <1>1, Reader
  <2>2. /\ n \in 0..MaxMessages /\ MaxMessages \in Nat /\ k \in 0..MaxMessages /\ k \in Nat
        /\ v.own \in Nat /\ Limit \in Nat /\ Limit >= 1
    BY <1>1, Reader, PagesAssumption
  <2>3. v.page = 1 /\ v.shown = Rows(k, 1) /\ v.own <= k /\ v.own >= 1
    BY <1>1, <2>1, <2>2 DEF Fits, FetchedAt, AfterPost
  <2>4. Offset(1) = 0 /\ (Cardinality(Rows(k, 1)) = Limit <=> Limit <= k)
    <3>1. 1 \in Int /\ 1 >= 1 /\ (1 - 1) * Limit = 0 /\ 1 * Limit = Limit /\ 0 <= k
      BY <2>2
    <3> QED BY <2>2, <3>1, FullPage
  <2>5. v.shown = {m \in 1..k : k - m < Limit}
    BY <2>2, <2>3, <2>4 DEF Rows
  <2>6. CASE k - v.own < Limit
    BY <2>2, <2>3, <2>5, <2>6
  <2>7. CASE ~(k - v.own < Limit)
    <3>1. Cardinality(v.shown) = Limit
      BY <2>2, <2>3, <2>4, <2>7
    <3>2. \A m \in v.shown : m > v.own
      BY <2>2, <2>5, <2>7
    <3> QED BY <3>1, <3>2
  <2> QED BY <2>6, <2>7
<1>2. ASSUME IInv, NEW r \in Readers, view[r].own # 0
      PROVE  \/ view[r].kind \in {"page", "sent"}
             \/ view[r].kind \in {"busy", "error"} /\ view[r].shown = {}
  <2>1. view[r] \in Views /\ \E k \in 0..n : Fits(k, view[r], walk[r], tame[r])
    BY <1>2, Reader
  <2>2. view[r].kind \in {"none", "page", "busy", "error", "sent"}
    BY <2>1 DEF Views
  <2> QED BY <1>2, <2>1, <2>2 DEF Fits, FetchedAt
<1>3. IInv => OwnPostShown
  <2> SUFFICES ASSUME IInv, NEW r \in Readers, view[r].own # 0, view[r].kind # "sent"
               PROVE  \/ view[r].own \in view[r].shown
                      \/ Cardinality(view[r].shown) = Limit /\ \A m \in view[r].shown : m > view[r].own
                      \/ view[r].kind \in {"busy", "error"} /\ view[r].shown = {}
                      \/ view[r].numbered
    BY DEF OwnPostShown
  <2> QED BY <1>1, <1>2
<1> QED BY <1>3, Invariant, PTL

\* Links and redirects never lead to a page that int arithmetic garbled.
THEOREM LinksLead == Spec => []LinksLeadToPages
<1>1. IInv => LinksLeadToPages
  <2> SUFFICES ASSUME IInv, NEW r \in Readers, tame[r], view[r].kind = "page"
               PROVE  view[r].page >= 1 /\ (view[r].page - 1) * Limit <= n
    BY DEF LinksLeadToPages
  <2>1. PICK k \in 0..n : Fits(k, view[r], walk[r], tame[r])
    BY Reader
  <2>2. view[r].page >= 1 /\ (view[r].page - 1) * Limit <= k
    BY <2>1 DEF Fits, Linked
  <2>3. view[r].page \in Int /\ n \in Nat /\ k <= n /\ (view[r].page - 1) * Limit \in Int
    BY Reader, PagesAssumption DEF Ints
  <2> QED BY <2>2, <2>3
<1> QED BY <1>1, Invariant, PTL
=============================================================================
