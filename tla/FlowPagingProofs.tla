-------------------------- MODULE FlowPagingProofs --------------------------
(***************************************************************************)
(* Proofs about FlowPaging for every set of flows and devices, every page  *)
(* size and every window.                                                  *)
(***************************************************************************)
EXTENDS FlowPaging, SequenceTheorems, TotalProofs

-----------------------------------------------------------------------------
(* The order of the rows.                                                   *)

LEMMA RowType == \A r \in Row : r.id \in Nat /\ r.last \in Nat /\ r.id \in FlowIds /\ r.last \in Times
  <1> TAKE r \in Row
  <1>1. r.id \in FlowIds /\ r.last \in Times
    BY DEF Row
  <1>2. r.id \in Nat
    BY <1>1, PagingBounds
  <1>3. r.last \in Nat
    BY <1>1, PagingBounds DEF Times
  <1>4. QED
    BY <1>1, <1>2, <1>3

LEMMA RowSame ==
    ASSUME NEW a \in Row, NEW b \in Row, a.id = b.id, a.last = b.last PROVE a = b
  BY DEF Row

\* Either way the client goes, rows are ordered strictly and totally.
LEMMA RowOrder ==
    ASSUME NEW a \in Row, NEW b \in Row, NEW dir
    PROVE  /\ a = b \/ Nearer(a, b, dir) \/ Nearer(b, a, dir)
           /\ Nearer(a, b, dir) => a # b /\ ~Nearer(b, a, dir)
           /\ \A c \in Row : Nearer(a, b, dir) /\ Nearer(b, c, dir) => Nearer(a, c, dir)
  <1>1. a.id = b.id /\ a.last = b.last => a = b
    BY RowSame
  <1>2. QED
    BY <1>1, RowType DEF Nearer, Newer, Older

LEMMA NewerOrder ==
    /\ \A a, b, c \in Row : Newer(a, b) /\ Newer(b, c) => Newer(a, c)
    /\ \A a, b \in Row : Newer(a, b) => ~Newer(b, a) /\ a # b
    /\ \A a, b \in Row : a = b \/ Newer(a, b) \/ Newer(b, a)
  <1>1. \A a, b, c \in Row : Newer(a, b) /\ Newer(b, c) => Newer(a, c)
    BY RowOrder DEF Nearer
  <1>2. \A a, b \in Row : Newer(a, b) => ~Newer(b, a) /\ a # b
    BY RowOrder DEF Nearer
  <1>3. \A a, b \in Row : a = b \/ Newer(a, b) \/ Newer(b, a)
    BY RowOrder DEF Nearer
  <1>4. QED
    BY <1>1, <1>2, <1>3

\* The rows of a set that come before r.
Ahead(rows, r, dir) == {q \in rows : Nearer(q, r, dir)}

LEMMA AheadRises ==
    ASSUME NEW rows \in SUBSET Row, IsFiniteSet(rows), NEW dir, NEW a \in rows, NEW b \in rows
    PROVE  /\ Cardinality(Ahead(rows, a, dir)) \in Nat
           /\ Cardinality(Ahead(rows, a, dir)) < Cardinality(rows)
           /\ Cardinality(rows) \in Nat
           /\ Nearer(a, b, dir) =>
                Cardinality(Ahead(rows, a, dir)) < Cardinality(Ahead(rows, b, dir))
  <1>1. ASSUME NEW S, IsFiniteSet(S), NEW T \in SUBSET S, NEW x \in S, x \notin T
        PROVE  Cardinality(T) \in Nat /\ Cardinality(S) \in Nat /\ Cardinality(T) < Cardinality(S)
    <2>1. /\ IsFiniteSet(T) /\ Cardinality(T) <= Cardinality(S)
          /\ Cardinality(S) = Cardinality(T) => S = T
      BY <1>1, FS_Subset
    <2>2. Cardinality(T) \in Nat /\ Cardinality(S) \in Nat
      BY <1>1, <2>1, FS_CardinalityType
    <2>3. QED
      BY <1>1, <2>1, <2>2
  <1>2. Ahead(rows, a, dir) \subseteq rows /\ a \notin Ahead(rows, a, dir)
    BY RowOrder DEF Ahead
  <1>3. /\ Cardinality(Ahead(rows, a, dir)) \in Nat /\ Cardinality(rows) \in Nat
        /\ Cardinality(Ahead(rows, a, dir)) < Cardinality(rows)
    BY <1>1, <1>2
  <1>4. ASSUME Nearer(a, b, dir)
        PROVE  Cardinality(Ahead(rows, a, dir)) < Cardinality(Ahead(rows, b, dir))
    <2>1. Ahead(rows, b, dir) \subseteq rows /\ a \in Ahead(rows, b, dir)
      BY <1>4 DEF Ahead
    <2>2. IsFiniteSet(Ahead(rows, b, dir))
      BY <2>1, FS_Subset
    <2>3. Ahead(rows, a, dir) \subseteq Ahead(rows, b, dir)
      BY <1>4, RowOrder DEF Ahead
    <2>4. QED
      BY <1>1, <1>2, <2>1, <2>2, <2>3
  <1>5. QED
    BY <1>3, <1>4

\* As many rows come before a row as its place tells, and every place is taken.
LEMMA PlaceTaken ==
    ASSUME NEW rows \in SUBSET Row, IsFiniteSet(rows), NEW dir, NEW i \in 1 .. Cardinality(rows)
    PROVE  \E r \in rows : Cardinality(Ahead(rows, r, dir)) = i - 1
  <1> DEFINE n == Cardinality(rows)
             place == [r \in rows |-> Cardinality(Ahead(rows, r, dir)) + 1]
  <1>1. n \in Nat
    BY FS_CardinalityType
  <1>2. place \in [rows -> 1 .. n]
    <2>1. \A r \in rows : Cardinality(Ahead(rows, r, dir)) + 1 \in 1 .. n
      BY <1>1, AheadRises
    <2>2. QED
      BY <2>1
  <1>3. \A a, b \in rows : a # b => place[a] # place[b]
    <2> SUFFICES ASSUME NEW a \in rows, NEW b \in rows, a # b PROVE place[a] # place[b]
      OBVIOUS
    <2>1. Nearer(a, b, dir) \/ Nearer(b, a, dir)
      BY RowOrder
    <2>2. Cardinality(Ahead(rows, a, dir)) \in Nat /\ Cardinality(Ahead(rows, b, dir)) \in Nat
      BY AheadRises
    <2>3. Cardinality(Ahead(rows, a, dir)) # Cardinality(Ahead(rows, b, dir))
      BY <2>1, <2>2, AheadRises
    <2>4. QED
      BY <2>2, <2>3
  <1> HIDE DEF place
  <1>4. place \in Injection(rows, 1 .. n)
    BY <1>2, <1>3 DEF Injection, IsInjective
  <1>5. IsFiniteSet(1 .. n) /\ Cardinality(1 .. n) = n
    BY <1>1, FS_Interval
  <1>6. place \in Surjection(rows, 1 .. n)
    BY <1>4, <1>5, FS_Injection
  <1>7. PICK r \in rows : place[r] = i
    BY <1>6 DEF Surjection
  <1>8. QED
    BY <1>1, <1>7, AheadRises DEF place

\* The list of a set of rows: each row once, and in order.
LEMMA Listed ==
    ASSUME NEW rows \in SUBSET Row, IsFiniteSet(rows), NEW dir, NEW s, s = NearestFirst(rows, dir)
    PROVE  /\ s \in [1 .. Cardinality(rows) -> rows] /\ Cardinality(rows) \in Nat
           /\ \A i, j \in 1 .. Cardinality(rows) : i < j => Nearer(s[i], s[j], dir)
           /\ \A r \in rows : \E i \in 1 .. Cardinality(rows) : s[i] = r
  <1> DEFINE n == Cardinality(rows)
  <1>1. n \in Nat
    BY FS_CardinalityType
  <1>2. \A i \in 1 .. n : s[i] \in rows /\ Cardinality(Ahead(rows, s[i], dir)) = i - 1
    <2> TAKE i \in 1 .. n
    <2>1. s[i] = CHOOSE r \in rows : Cardinality(Ahead(rows, r, dir)) = i - 1
      BY DEF NearestFirst, Ahead
    <2>2. \E r \in rows : Cardinality(Ahead(rows, r, dir)) = i - 1
      BY PlaceTaken
    <2>3. QED
      BY <2>1, <2>2
  <1>3. s \in [1 .. n -> rows]
    BY <1>2 DEF NearestFirst
  <1> HIDE DEF n
  <1>4. ASSUME NEW i \in 1 .. n, NEW j \in 1 .. n, i < j PROVE Nearer(s[i], s[j], dir)
    <2>1. s[i] \in rows /\ s[j] \in rows
      BY <1>2
    <2>2. s[i] # s[j] /\ ~Nearer(s[j], s[i], dir)
      <3>1. Cardinality(Ahead(rows, s[i], dir)) = i - 1 /\ Cardinality(Ahead(rows, s[j], dir)) = j - 1
        BY <1>2
      <3>2. Nearer(s[j], s[i], dir) =>
              Cardinality(Ahead(rows, s[j], dir)) < Cardinality(Ahead(rows, s[i], dir))
        BY <2>1, AheadRises
      <3>3. QED
        BY <1>1, <1>4, <3>1, <3>2
    <2>3. QED
      BY <2>1, <2>2, RowOrder
  <1>5. ASSUME NEW r \in rows PROVE \E i \in 1 .. n : s[i] = r
    <2>1. PICK k \in Nat : k = Cardinality(Ahead(rows, r, dir)) /\ k + 1 \in 1 .. n
      BY <1>1, AheadRises DEF n
    <2>2. s[k + 1] \in rows /\ Cardinality(Ahead(rows, s[k + 1], dir)) = k
      BY <1>2, <2>1
    <2>3. ~Nearer(s[k + 1], r, dir) /\ ~Nearer(r, s[k + 1], dir)
      BY <2>1, <2>2, AheadRises
    <2>4. s[k + 1] = r
      BY <2>2, <2>3, RowOrder
    <2>5. QED
      BY <2>1, <2>4
  <1>6. QED
    BY <1>1, <1>3, <1>4, <1>5 DEF n

-----------------------------------------------------------------------------
(* Beginnings and reversals of a list.                                      *)

LEMMA ListSeq ==
    ASSUME NEW n \in Nat, NEW S, NEW s \in [1 .. n -> S]
    PROVE  s \in Seq(S) /\ Len(s) = n
  <1>1. s \in Seq(S)
    BY SeqDef
  <1>2. Len(s) \in Nat /\ 1 .. Len(s) = 1 .. n
    BY <1>1, LenProperties
  <1>3. Len(s) \in 1 .. n \/ Len(s) = 0
    BY <1>2
  <1>4. n \in 1 .. Len(s) \/ n = 0
    BY <1>2
  <1>5. QED
    BY <1>1, <1>2, <1>3, <1>4

LEMMA FirstOfIs ==
    ASSUME NEW S, NEW s \in Seq(S), NEW k \in Nat
    PROVE  /\ FirstOf(s, k) \in Seq(S) /\ Len(s) \in Nat
           /\ Len(FirstOf(s, k)) = IF Len(s) < k THEN Len(s) ELSE k
           /\ \A i \in 1 .. Len(FirstOf(s, k)) : FirstOf(s, k)[i] = s[i]
  <1> DEFINE n == IF Len(s) < k THEN Len(s) ELSE k
  <1>1. n \in Nat /\ Len(s) \in Nat /\ n <= Len(s)
    BY LenProperties
  <1>2. \A i \in 1 .. n : s[i] \in S
    BY <1>1, ElementOfSeq
  <1>3. FirstOf(s, k) = SubSeq(s, 1, n)
    BY DEF FirstOf
  <1> HIDE DEF n
  <1>4. /\ SubSeq(s, 1, n) \in Seq(S) /\ Len(SubSeq(s, 1, n)) = n
        /\ \A i \in 1 .. n : SubSeq(s, 1, n)[i] = s[i]
    <2>1. /\ SubSeq(s, 1, n) \in Seq(S)
          /\ Len(SubSeq(s, 1, n)) = IF 1 <= n THEN n - 1 + 1 ELSE 0
          /\ \A i \in 1 .. n - 1 + 1 : SubSeq(s, 1, n)[i] = s[1 + i - 1]
      BY <1>1, <1>2, SubSeqProperties
    <2>2. QED
      BY <1>1, <2>1
  <1>5. QED
    BY <1>1, <1>3, <1>4 DEF n

LEMMA ReverseIs ==
    ASSUME NEW S, NEW s \in Seq(S)
    PROVE  /\ Reverse(s) \in Seq(S) /\ Len(Reverse(s)) = Len(s)
           /\ \A i \in 1 .. Len(s) : Reverse(s)[i] = s[Len(s) - i + 1]
  <1>1. Len(s) \in Nat
    BY LenProperties
  <1>2. \A i \in 1 .. Len(s) : (Len(s) - i) + 1 \in 1 .. Len(s)
    BY <1>1
  <1>3. \A i \in 1 .. Len(s) : s[(Len(s) - i) + 1] \in S
    BY <1>2, ElementOfSeq
  <1>4. Reverse(s) \in [1 .. Len(s) -> S] /\ \A i \in 1 .. Len(s) : Reverse(s)[i] = s[Len(s) - i + 1]
    BY <1>3 DEF Reverse
  <1>5. QED
    BY <1>1, <1>4, ListSeq

-----------------------------------------------------------------------------
(* What a page shows.                                                       *)

Tables == [FlowIds -> Times \cup {None}]

\* The rows a table holds of a device, and those past an anchor.
StoredIn(table, mac, since) ==
    {r \in Row : ClientMac[r.id] = mac /\ table[r.id] = r.last /\ r.last >= since}
Past(table, mac, since, anchor, dir) ==
    {r \in StoredIn(table, mac, since) : anchor = None \/ Beyond(r, anchor, dir)}

CursorAt(mac, window, since, limit, d, r) ==
    [mac |-> mac, window |-> window, since |-> since, limit |-> limit, dir |-> d, anchor |-> r]

\* What is asked of the service.
Asked(mac, window, since, limit, dir, anchor) ==
    /\ mac \in Macs /\ window \in Windows /\ since \in Int /\ limit \in Nat \ {0}
    /\ dir \in {"older", "newer"} /\ anchor \in Row \cup {None}
    /\ dir = "newer" => anchor # None

\* A page shows rows past the anchor, newest first and up to the limit, none
\* farther than one it leaves out, and says where to go on.
IsPage(table, p, mac, window, since, limit, dir, anchor) ==
    LET past == Past(table, mac, since, anchor, dir)
        shown == ToSet(p.items)
    IN  /\ p.since = since /\ p.limit = limit
        /\ p = [items |-> p.items, next |-> p.next, prev |-> p.prev, since |-> p.since, limit |-> p.limit]
        /\ p.items \in Seq(Row) /\ Len(p.items) <= limit
        /\ Len(p.items) < limit => shown = past
        /\ Len(p.items) = Cardinality(shown) /\ IsFiniteSet(shown)
        /\ shown \subseteq past
        /\ \A q \in shown, r \in past \ shown : Nearer(q, r, dir)
        /\ \A i, j \in 1 .. Len(p.items) : i < j => Newer(p.items[i], p.items[j])
        /\ p.next = IF shown # {} /\ (past # shown \/ dir = "newer")
                    THEN CursorAt(mac, window, since, limit, "older", p.items[Len(p.items)])
                    ELSE None
        /\ p.prev = IF shown # {} /\ (IF dir = "older" THEN anchor # None ELSE past # shown)
                    THEN CursorAt(mac, window, since, limit, "newer", p.items[1])
                    ELSE None

LEMMA PastIs ==
    ASSUME NEW table \in Tables, NEW mac, NEW since \in Int, NEW anchor, NEW dir
    PROVE  /\ IsFiniteSet(StoredIn(table, mac, since))
           /\ Past(table, mac, since, anchor, dir) \in SUBSET Row
           /\ IsFiniteSet(Past(table, mac, since, anchor, dir))
  <1> DEFINE idOf == [r \in StoredIn(table, mac, since) |-> r.id]
  <1>1. idOf \in [StoredIn(table, mac, since) -> FlowIds]
    BY RowType DEF StoredIn
  <1>2. \A q, r \in StoredIn(table, mac, since) : idOf[q] = idOf[r] => q = r
    BY RowSame DEF StoredIn
  <1> HIDE DEF idOf
  <1>3. IsFiniteSet(StoredIn(table, mac, since))
    <2>1. idOf \in Injection(StoredIn(table, mac, since), FlowIds)
      BY <1>1, <1>2 DEF Injection, IsInjective
    <2>2. IsFiniteSet(FlowIds)
      BY PagingBounds
    <2>3. QED
      BY <2>1, <2>2, FS_Injection
  <1>4. Past(table, mac, since, anchor, dir) \subseteq StoredIn(table, mac, since)
    BY DEF Past
  <1>5. QED
    BY <1>3, <1>4, FS_Subset DEF StoredIn

\* The set of a list without repetitions has as many elements.
LEMMA ListCounts ==
    ASSUME NEW S, NEW s \in Seq(S), \A i, j \in 1 .. Len(s) : i < j => s[i] # s[j]
    PROVE  IsFiniteSet(ToSet(s)) /\ Cardinality(ToSet(s)) = Len(s)
  <1>1. Len(s) \in Nat /\ DOMAIN s = 1 .. Len(s)
    BY LenProperties
  <1>2. s \in [1 .. Len(s) -> ToSet(s)]
    BY <1>1, LenProperties DEF ToSet
  <1>3. \A i, j \in 1 .. Len(s) : s[i] = s[j] => i = j
    BY <1>1
  <1>4. s \in Bijection(1 .. Len(s), ToSet(s))
    <2>1. s \in Injection(1 .. Len(s), ToSet(s))
      BY <1>1, <1>2, <1>3 DEF Injection, IsInjective
    <2>2. s \in Surjection(1 .. Len(s), ToSet(s))
      BY <1>1, <1>2 DEF Surjection, ToSet
    <2>3. QED
      BY <2>1, <2>2 DEF Bijection
  <1>5. IsFiniteSet(1 .. Len(s)) /\ Cardinality(1 .. Len(s)) = Len(s)
    BY <1>1, FS_Interval
  <1>6. ExistsBijection(1 .. Len(s), ToSet(s))
    BY <1>4 DEF ExistsBijection
  <1>7. QED
    BY <1>5, <1>6, FS_Bijection

\* What the service answers is such a page.
LEMMA PageIs ==
    ASSUME lastSeen \in Tables, NEW mac, NEW window, NEW since, NEW limit, NEW dir, NEW anchor,
           Asked(mac, window, since, limit, dir, anchor)
    PROVE  IsPage(lastSeen, FlowPage(mac, window, since, limit, dir, anchor),
                  mac, window, since, limit, dir, anchor)
  <1> PICK past : past = Past(lastSeen, mac, since, anchor, dir)
    OBVIOUS
  <1>1. past \in SUBSET Row /\ IsFiniteSet(past)
    BY PastIs DEF Asked
  <1> PICK n : n = Cardinality(past)
    OBVIOUS
  <1> PICK list : list = NearestFirst(past, dir)
    OBVIOUS
  <1>2. /\ list \in [1 .. n -> past] /\ n \in Nat
        /\ \A i, j \in 1 .. n : i < j => Nearer(list[i], list[j], dir)
        /\ \A r \in past : \E i \in 1 .. n : list[i] = r
    BY <1>1, Listed
  <1>3. list \in Seq(Row) /\ Len(list) = n
    <2>1. list \in [1 .. n -> Row]
      BY <1>1, <1>2
    <2>2. QED
      BY <1>2, <2>1, ListSeq
  <1>4. limit \in Nat /\ limit >= 1 /\ limit + 1 \in Nat
    BY DEF Asked
  <1> PICK found : found = FirstOf(list, limit + 1)
    OBVIOUS
  <1>5. /\ found \in Seq(Row) /\ Len(found) = IF n < limit + 1 THEN n ELSE limit + 1
        /\ \A i \in 1 .. Len(found) : found[i] = list[i]
    BY <1>3, <1>4, FirstOfIs
  <1> PICK first : first = FirstOf(found, limit)
    OBVIOUS
  <1> PICK m : m = Len(first)
    OBVIOUS
  <1>6. /\ first \in Seq(Row) /\ m = (IF n < limit THEN n ELSE limit) /\ m \in Nat
        /\ \A i \in 1 .. m : first[i] = list[i]
    <2>1. /\ first \in Seq(Row) /\ m = (IF Len(found) < limit THEN Len(found) ELSE limit)
          /\ \A i \in 1 .. m : first[i] = found[i]
      BY <1>4, <1>5, FirstOfIs
    <2>2. m = (IF n < limit THEN n ELSE limit) /\ m \in Nat /\ m <= Len(found)
      BY <1>2, <1>4, <1>5, <2>1
    <2>3. \A i \in 1 .. m : first[i] = list[i]
      BY <1>2, <1>4, <1>5, <2>1, <2>2
    <2>4. QED
      BY <2>1, <2>2, <2>3
  <1> PICK items : items = Items(found, dir, limit)
    OBVIOUS
  <1>7. /\ items \in Seq(Row) /\ Len(items) = m
        /\ dir = "older" => \A i \in 1 .. m : items[i] = list[i]
        /\ dir = "newer" => \A i \in 1 .. m : items[i] = list[m - i + 1]
    <2>1. CASE dir = "older"
      BY <1>6, <2>1 DEF Items
    <2>2. CASE dir = "newer"
      <3>1. items = Reverse(first)
        BY <2>2 DEF Items
      <3>2. /\ items \in Seq(Row) /\ Len(items) = m
            /\ \A i \in 1 .. m : items[i] = first[m - i + 1]
        BY <1>6, <3>1, ReverseIs
      <3>3. \A i \in 1 .. m : m - i + 1 \in 1 .. m
        BY <1>6
      <3>4. QED
        BY <1>6, <2>2, <3>2, <3>3
    <2>3. QED
      BY <2>1, <2>2 DEF Asked
  <1> PICK shown : shown = ToSet(items)
    OBVIOUS
  <1>8. shown = {list[i] : i \in 1 .. m}
    <2>1. DOMAIN items = 1 .. m
      BY <1>7, LenProperties
    <2>2. shown = {items[i] : i \in 1 .. m}
      BY <2>1 DEF ToSet
    <2>3. CASE dir = "older"
      BY <1>7, <2>2, <2>3
    <2>4. CASE dir = "newer"
      <3>1. \A i \in 1 .. m : m - i + 1 \in 1 .. m /\ m - (m - i + 1) + 1 = i
        BY <1>6
      <3>2. \A i \in 1 .. m : list[i] = items[m - i + 1]
        BY <1>7, <2>4, <3>1
      <3>3. ASSUME NEW i \in 1 .. m PROVE items[i] \in {list[k] : k \in 1 .. m}
        BY <1>7, <2>4, <3>1
      <3>4. ASSUME NEW i \in 1 .. m PROVE list[i] \in shown
        BY <2>2, <3>1, <3>2
      <3>5. shown \subseteq {list[k] : k \in 1 .. m}
        BY <2>2, <3>3
      <3>6. {list[k] : k \in 1 .. m} \subseteq shown
        BY <3>4
      <3>7. QED
        BY <3>5, <3>6
    <2>5. QED
      BY <2>3, <2>4 DEF Asked
  <1>9. \A i, j \in 1 .. m : i < j => Newer(items[i], items[j])
    <2>1. \A i, j \in 1 .. m : i < j => Nearer(list[i], list[j], dir)
      BY <1>2, <1>4, <1>6
    <2>2. CASE dir = "older"
      BY <1>7, <2>1, <2>2 DEF Nearer
    <2>3. CASE dir = "newer"
      <3>1. \A i, j \in 1 .. m : i < j => /\ m - i + 1 \in 1 .. m /\ m - j + 1 \in 1 .. m
                                       /\ m - j + 1 < m - i + 1
        BY <1>6
      <3>2. \A i, j \in 1 .. m : i < j => Nearer(list[m - j + 1], list[m - i + 1], dir)
        BY <2>1, <3>1
      <3>3. QED
        BY <1>7, <2>3, <3>2 DEF Nearer, Older
    <2>4. QED
      BY <2>2, <2>3 DEF Asked
  <1>10. \A i, j \in 1 .. m : i < j => items[i] # items[j]
    <2>1. \A i \in 1 .. m : items[i] \in Row
      BY <1>7, ElementOfSeq
    <2>2. \A r \in Row : ~Newer(r, r)
      BY RowType DEF Newer
    <2>3. QED
      BY <1>9, <2>1, <2>2
  <1>11. IsFiniteSet(shown) /\ Cardinality(shown) = m
    BY <1>7, <1>10, ListCounts
  <1>12. shown \subseteq past /\ (shown = past <=> n <= limit) /\ (shown # {} <=> m > 0)
    <2>1. m <= n /\ 1 .. m \subseteq 1 .. n
      BY <1>2, <1>4, <1>6
    <2>2. shown \subseteq past
      BY <1>2, <1>8, <2>1
    <2>3. n <= limit => shown = past
      <3>1. n <= limit => m = n
        BY <1>2, <1>4, <1>6
      <3>2. ASSUME n <= limit, NEW r \in past PROVE r \in shown
        <4>1. PICK i \in 1 .. n : list[i] = r
          BY <1>2
        <4>2. QED
          BY <1>8, <3>1, <3>2, <4>1
      <3>3. QED
        BY <2>2, <3>2
    <2>4. shown = past => n <= limit
      BY <1>2, <1>4, <1>6, <1>11
    <2>5. shown # {} <=> m > 0
      <3>1. m > 0 => 1 \in 1 .. m
        BY <1>6
      <3>2. ~(m > 0) => 1 .. m = {}
        BY <1>6
      <3>3. CASE m > 0
        <4>1. list[1] \in shown
          BY <1>8, <3>1, <3>3
        <4>2. QED
          BY <3>3, <4>1
      <3>4. CASE ~(m > 0)
        BY <1>8, <3>2, <3>4
      <3>5. QED
        BY <3>3, <3>4
    <2>6. QED
      BY <2>2, <2>3, <2>4, <2>5
  <1>13. \A q \in shown, r \in past \ shown : Nearer(q, r, dir)
    <2> TAKE q \in shown, r \in past \ shown
    <2>1. PICK i \in 1 .. m : q = list[i]
      BY <1>8
    <2>2. PICK j \in 1 .. n : r = list[j]
      BY <1>2
    <2>3. j \notin 1 .. m
      BY <1>8, <2>2
    <2>4. i \in 1 .. n /\ i < j
      BY <1>2, <1>4, <1>6, <2>3
    <2>5. QED
      BY <1>2, <2>1, <2>2, <2>4
  <1> PICK p : p = FlowPage(mac, window, since, limit, dir, anchor)
    OBVIOUS
  <1>14. found = ListFlowPage(mac, since, anchor, dir, limit + 1)
    BY DEF ListFlowPage, Past, StoredIn, Stored
  <1>15. /\ p = [items |-> p.items, next |-> p.next, prev |-> p.prev, since |-> p.since, limit |-> p.limit]
         /\ p.items = items /\ p.since = since /\ p.limit = limit
         /\ p.next = IF items # <<>> /\ (Len(found) > limit \/ dir = "newer")
                     THEN CursorAt(mac, window, since, limit, "older", Last(items)) ELSE None
         /\ p.prev = IF items # <<>> /\ (IF dir = "older" THEN anchor # None ELSE Len(found) > limit)
                     THEN CursorAt(mac, window, since, limit, "newer", Head(items)) ELSE None
    BY <1>14 DEF FlowPage, CursorAt
  <1>16. (Len(found) > limit) <=> past # shown
    BY <1>2, <1>4, <1>5, <1>12
  <1>17. items # <<>> <=> shown # {}
    BY <1>7, <1>12, EmptySeq, LenProperties
  <1>18. shown # {} => Last(items) = items[Len(items)] /\ Head(items) = items[1]
    BY <1>7, <1>17, HeadTailProperties DEF Last
  <1>19. Len(items) <= limit /\ (Len(items) < limit => shown = past)
    BY <1>2, <1>4, <1>6, <1>7, <1>12
  <1>20. QED
    BY <1>7, <1>9, <1>11, <1>12, <1>13, <1>15, <1>16, <1>17, <1>18, <1>19 DEF IsPage

-----------------------------------------------------------------------------
(* What follows for one page, and for a page after another.                 *)

\* The first and the last row of a page.
LEMMA PageEnds ==
    ASSUME NEW table \in Tables, NEW p, NEW mac, NEW window, NEW since, NEW limit, NEW dir, NEW anchor,
           Asked(mac, window, since, limit, dir, anchor),
           IsPage(table, p, mac, window, since, limit, dir, anchor), p.items # <<>>
    PROVE  LET n == Len(p.items)
           IN  /\ n \in Nat /\ n >= 1 /\ Last(p.items) = p.items[n]
               /\ p.items[1] \in ToSet(p.items) /\ p.items[n] \in ToSet(p.items)
               /\ \A r \in ToSet(p.items) :
                    /\ r = p.items[1] \/ Newer(p.items[1], r)
                    /\ r = p.items[n] \/ Newer(r, p.items[n])
  <1> DEFINE n == Len(p.items)
  <1>1. p.items \in Seq(Row) /\ n \in Nat /\ DOMAIN p.items = 1 .. n
    BY LenProperties DEF IsPage
  <1>2. n >= 1
    BY <1>1, EmptySeq
  <1>3. ToSet(p.items) = {p.items[i] : i \in 1 .. n}
    BY <1>1 DEF ToSet
  <1>4. \A i, j \in 1 .. n : i < j => Newer(p.items[i], p.items[j])
    BY DEF IsPage
  <1>5. Last(p.items) = p.items[n]
    BY DEF Last
  <1> HIDE DEF n
  <1>6. 1 \in 1 .. n /\ n \in 1 .. n
    BY <1>1, <1>2
  <1>7. ASSUME NEW r \in ToSet(p.items)
        PROVE  /\ r = p.items[1] \/ Newer(p.items[1], r)
               /\ r = p.items[n] \/ Newer(r, p.items[n])
    <2>1. PICK i \in 1 .. n : r = p.items[i]
      BY <1>3
    <2>2. i = 1 \/ 1 < i
      BY <1>1
    <2>3. i = n \/ i < n
      BY <1>1
    <2>4. r = p.items[1] \/ Newer(p.items[1], r)
      BY <1>4, <1>6, <2>1, <2>2
    <2>5. QED
      BY <1>4, <1>6, <2>1, <2>3, <2>4
  <1>8. QED
    BY <1>1, <1>2, <1>3, <1>5, <1>6, <1>7 DEF n

LEMMA CursorIs ==
    ASSUME NEW mac, NEW window, NEW since, NEW limit, NEW dir, NEW anchor,
           Asked(mac, window, since, limit, dir, anchor),
           NEW d \in {"older", "newer"}, NEW r \in Row
    PROVE  /\ CursorAt(mac, window, since, limit, d, r) \in Cursor
           /\ CursorAt(mac, window, since, limit, d, r) # None
  BY PagingNone DEF Asked, CursorAt, Cursor

\* A page has a cursor exactly when it may have more, and it is one the
\* service takes back.
LEMMA PageCursors ==
    ASSUME NEW table \in Tables, NEW p, NEW mac, NEW window, NEW since, NEW limit, NEW dir, NEW anchor,
           Asked(mac, window, since, limit, dir, anchor),
           IsPage(table, p, mac, window, since, limit, dir, anchor),
           NEW c \in {p.next, p.prev}, c # None
    PROVE  /\ c = CursorAt(mac, window, since, limit, c.dir, c.anchor)
           /\ c.dir \in {"older", "newer"} /\ c.anchor \in Row
           /\ c.anchor \in ToSet(p.items) /\ c.anchor \in StoredIn(table, mac, since)
           /\ p.items # <<>>
           /\ c = p.next => c.dir = "older" /\ c.anchor = p.items[Len(p.items)]
           /\ c = p.prev => c.dir = "newer" /\ c.anchor = p.items[1]
  <1>1. /\ p.next # None => /\ ToSet(p.items) # {}
                            /\ p.next = CursorAt(mac, window, since, limit, "older", p.items[Len(p.items)])
        /\ p.prev # None => /\ ToSet(p.items) # {}
                            /\ p.prev = CursorAt(mac, window, since, limit, "newer", p.items[1])
        /\ p.items \in Seq(Row) /\ ToSet(p.items) \subseteq Past(table, mac, since, anchor, dir)
    BY DEF IsPage
  <1>2. ToSet(p.items) # {}
    BY <1>1
  <1>3. p.items # <<>>
    <2>1. ToSet(<<>>) = {}
      BY DEF ToSet
    <2>2. QED
      BY <1>2, <2>1
  <1>4. p.items[1] \in ToSet(p.items) /\ p.items[Len(p.items)] \in ToSet(p.items)
    BY <1>3, PageEnds
  <1>5. ToSet(p.items) \subseteq StoredIn(table, mac, since) /\ StoredIn(table, mac, since) \subseteq Row
    BY <1>1 DEF Past, StoredIn
  <1>6. ASSUME NEW r, NEW d PROVE CursorAt(mac, window, since, limit, d, r).dir = d
                              /\ CursorAt(mac, window, since, limit, d, r).anchor = r
    BY DEF CursorAt
  <1>7. CASE c = p.next /\ c # p.prev
    BY <1>1, <1>3, <1>4, <1>5, <1>6, <1>7
  <1>8. CASE c = p.prev /\ c # p.next
    BY <1>1, <1>3, <1>4, <1>5, <1>6, <1>8
  <1>9. ~(c = p.next /\ c = p.prev)
    BY <1>1, <1>6
  <1>10. QED
    BY <1>7, <1>8, <1>9

\* A page is an unbroken run of what is stored.
LEMMA RunOfPage ==
    ASSUME NEW table \in Tables, NEW p, NEW mac, NEW window, NEW since, NEW limit, NEW dir, NEW anchor,
           Asked(mac, window, since, limit, dir, anchor),
           IsPage(table, p, mac, window, since, limit, dir, anchor), p.items # <<>>,
           NEW r \in StoredIn(table, mac, since), r \notin ToSet(p.items)
    PROVE  LET first == p.items[1]
               last == p.items[Len(p.items)]
           IN  /\ Newer(r, first) \/ Older(r, last)
               /\ Older(r, last) => ~Newer(r, first) /\ p.next # None
               /\ Newer(r, first) => ~Older(r, last) /\ p.prev # None
               /\ r \in Past(table, mac, since, anchor, dir) =>
                    IF dir = "older" THEN Older(r, last) ELSE Newer(r, first)
  <1> PICK first : first = p.items[1]
    OBVIOUS
  <1> PICK last : last = p.items[Len(p.items)]
    OBVIOUS
  <1> PICK shown : shown = ToSet(p.items)
    OBVIOUS
  <1> PICK past : past = Past(table, mac, since, anchor, dir)
    OBVIOUS
  <1>1. /\ first \in shown /\ last \in shown
        /\ \A q \in shown : /\ q = first \/ Newer(first, q)
                            /\ q = last \/ Newer(q, last)
    BY PageEnds
  <1>2. shown \subseteq past /\ past \subseteq Row
    BY DEF IsPage, Past, StoredIn
  <1>3. r \in Row /\ first \in Row /\ last \in Row /\ dir \in {"older", "newer"}
    BY <1>1, <1>2 DEF StoredIn, Asked
  <1>4. /\ \A q \in shown, x \in past \ shown : Nearer(q, x, dir)
        /\ past # shown \/ dir = "newer" => p.next # None
        /\ (IF dir = "older" THEN anchor # None ELSE past # shown) => p.prev # None
    <2>1. /\ CursorAt(mac, window, since, limit, "older", last) # None
          /\ CursorAt(mac, window, since, limit, "newer", first) # None
      BY <1>3, CursorIs
    <2>2. /\ p.next = IF shown # {} /\ (past # shown \/ dir = "newer")
                      THEN CursorAt(mac, window, since, limit, "older", last) ELSE None
          /\ p.prev = IF shown # {} /\ (IF dir = "older" THEN anchor # None ELSE past # shown)
                      THEN CursorAt(mac, window, since, limit, "newer", first) ELSE None
          /\ \A q \in shown, x \in past \ shown : Nearer(q, x, dir)
      BY DEF IsPage
    <2>3. QED
      BY <1>1, <2>1, <2>2
  <1>5. Newer(r, first) => ~Older(r, last)
    BY <1>1, <1>3, RowType DEF Newer, Older
  <1>6. CASE r \in past /\ dir = "older"
    <2>1. Older(r, last)
      BY <1>1, <1>4, <1>6 DEF Nearer, Older
    <2>2. QED
      BY <1>4, <1>5, <1>6, <2>1
  <1>7. CASE r \in past /\ dir = "newer"
    <2>1. Newer(r, first)
      BY <1>1, <1>4, <1>7 DEF Nearer, Older
    <2>2. QED
      BY <1>4, <1>5, <1>7, <2>1
  <1>8. ASSUME r \notin past
        PROVE  anchor \in Row /\ ~Beyond(r, anchor, dir) /\ Beyond(first, anchor, dir) /\ Beyond(last, anchor, dir)
    <2>1. anchor # None
      BY <1>8 DEF Past
    <2>2. QED
      BY <1>1, <1>2, <1>8, <2>1 DEF Past, Asked
  <1>9. CASE r \notin past /\ dir = "older"
    <2>1. Newer(r, first)
      <3>1. anchor \in Row /\ ~Newer(anchor, r) /\ Newer(anchor, first)
        BY <1>8, <1>9 DEF Beyond, Older
      <3>2. QED
        BY <1>3, <3>1, NewerOrder
    <2>2. anchor # None
      BY <1>8, <1>9, PagingNone
    <2>3. QED
      BY <1>4, <1>5, <1>9, <2>1, <2>2
  <1>10. CASE r \notin past /\ dir = "newer"
    <2>1. Older(r, last)
      <3>1. anchor \in Row /\ ~Newer(r, anchor) /\ Newer(last, anchor)
        BY <1>8, <1>10 DEF Beyond
      <3>2. QED
        BY <1>3, <3>1, NewerOrder DEF Older
    <2>2. QED
      BY <1>4, <1>5, <1>10, <2>1
  <1>11. QED
    BY <1>3, <1>6, <1>7, <1>9, <1>10

\* Two lists in order with the same rows are the same.
LEMMA SortedSame ==
    ASSUME NEW s \in Seq(Row), NEW t \in Seq(Row), Len(s) = Len(t), ToSet(s) = ToSet(t),
           \A i, j \in 1 .. Len(s) : i < j => Newer(s[i], s[j]),
           \A i, j \in 1 .. Len(t) : i < j => Newer(t[i], t[j])
    PROVE  s = t
  <1> PICK n : n = Len(s)
    OBVIOUS
  <1>1. n \in Nat /\ DOMAIN s = 1 .. n /\ DOMAIN t = 1 .. n
    BY LenProperties
  <1>2. \A i \in 1 .. n : s[i] \in Row /\ t[i] \in Row
    BY ElementOfSeq
  <1>3. /\ \A i \in 1 .. n : \E j \in 1 .. n : s[i] = t[j]
        /\ \A i \in 1 .. n : \E j \in 1 .. n : t[i] = s[j]
    BY <1>1 DEF ToSet
  <1>4. ASSUME NEW k \in 1 .. n, s[k] # t[k], \A i \in 1 .. n : i < k => s[i] = t[i]
        PROVE  FALSE
    <2>1. PICK i \in 1 .. n : s[k] = t[i]
      BY <1>3
    <2>2. PICK j \in 1 .. n : t[k] = s[j]
      BY <1>3
    <2>3. \A r \in Row : ~Newer(r, r)
      BY RowType DEF Newer
    <2>4. k < i
      <3>1. i # k
        BY <1>4, <2>1
      <3>2. ~(i < k)
        BY <1>2, <1>4, <2>1, <2>3
      <3>3. QED
        BY <1>1, <3>1, <3>2
    <2>5. k < j
      <3>1. j # k
        BY <1>4, <2>2
      <3>2. ~(j < k)
        BY <1>2, <1>4, <2>2, <2>3
      <3>3. QED
        BY <1>1, <3>1, <3>2
    <2>6. Newer(t[k], t[i]) /\ Newer(s[k], s[j])
      BY <2>4, <2>5
    <2>7. QED
      BY <1>2, <2>1, <2>2, <2>6, RowType DEF Newer
  <1>5. ASSUME NEW k \in 1 .. n, s[k] # t[k] PROVE FALSE
    <2> DEFINE differ == {i \in 1 .. n : s[i] # t[i]}
    <2>1. differ \in SUBSET Nat /\ k \in differ
      BY <1>1, <1>5
    <2> HIDE DEF differ
    <2>2. PICK i \in differ : \A j \in differ : i <= j
      BY <2>1, SmallestNumber
    <2>3. /\ i \in 1 .. n /\ s[i] # t[i]
          /\ \A j \in 1 .. n : s[j] # t[j] => i <= j
      BY <2>2 DEF differ
    <2>4. \A j \in 1 .. n : j < i => s[j] = t[j]
      BY <1>1, <2>3
    <2>5. QED
      BY <1>4, <2>3, <2>4
  <1>6. QED
    BY <1>1, <1>5, SeqEqual

\* From the page after, the cursor back leads to the same rows.
LEMMA BackAgain ==
    ASSUME NEW table \in Tables, NEW mac, NEW window, NEW since, NEW limit, NEW dir, NEW anchor,
           Asked(mac, window, since, limit, dir, anchor),
           NEW p, IsPage(table, p, mac, window, since, limit, dir, anchor), p.next # None,
           NEW q, IsPage(table, q, mac, window, since, limit, "older", p.next.anchor), q.items # <<>>,
           NEW b, IsPage(table, b, mac, window, since, limit, "newer", q.items[1])
    PROVE  b.items = p.items
  <1> PICK P : P = ToSet(p.items)
    OBVIOUS
  <1> PICK B : B = ToSet(b.items)
    OBVIOUS
  <1> PICK N : N = Past(table, mac, since, q.items[1], "newer")
    OBVIOUS
  <1> PICK e : e = q.items[1]
    OBVIOUS
  <1> PICK last : last = p.items[Len(p.items)]
    OBVIOUS
  <1>1. /\ p.next.anchor = last /\ last \in P /\ last \in StoredIn(table, mac, since) /\ p.items # <<>>
    BY PageCursors
  <1>2. StoredIn(table, mac, since) \subseteq Row
    BY DEF StoredIn
  <1>3. Asked(mac, window, since, limit, "older", last)
    BY <1>1, <1>2 DEF Asked
  <1>4. /\ e \in ToSet(q.items) /\ \A r \in ToSet(q.items) : r = e \/ Newer(e, r)
    BY <1>1, <1>3, PageEnds
  <1>5. e \in StoredIn(table, mac, since) /\ Older(e, last) /\ e \in Row
    <2>1. ToSet(q.items) \subseteq Past(table, mac, since, last, "older")
      BY <1>1 DEF IsPage
    <2>2. last # None
      BY <1>1, <1>2, PagingNone
    <2>3. QED
      BY <1>2, <1>4, <2>1, <2>2 DEF Past, Beyond
  <1>6. N = {r \in StoredIn(table, mac, since) : Newer(r, e)}
    <2>1. e # None
      BY <1>5, PagingNone
    <2>2. QED
      BY <2>1 DEF Past, Beyond
  <1>7. /\ P \subseteq StoredIn(table, mac, since) /\ P \subseteq N
        /\ \A r \in P : r = last \/ Newer(r, last)
    <2>1. \A r \in P : r = last \/ Newer(r, last)
      BY <1>1, PageEnds
    <2>2. P \subseteq StoredIn(table, mac, since)
      BY DEF IsPage, Past
    <2>3. \A r \in P : Newer(r, e)
      BY <1>1, <1>2, <1>5, <2>1, <2>2, RowType DEF Newer, Older
    <2>4. QED
      BY <1>6, <2>1, <2>2, <2>3
  <1>8. ASSUME NEW r \in N, r \notin P PROVE Newer(r, p.items[1])
    <2>1. r \in StoredIn(table, mac, since) /\ Newer(r, e)
      BY <1>6
    <2>2. ~Older(r, last)
      <3>1. ASSUME Older(r, last) PROVE FALSE
        <4>1. r \in Past(table, mac, since, last, "older")
          BY <2>1, <3>1 DEF Past, Beyond
        <4>2. CASE r \in ToSet(q.items)
          BY <1>2, <1>4, <1>5, <2>1, <4>2, RowType DEF Newer
        <4>3. CASE r \notin ToSet(q.items)
          <5>1. Nearer(e, r, "older")
            BY <1>1, <1>4, <4>1, <4>3 DEF IsPage
          <5>2. QED
            BY <1>2, <1>5, <2>1, <5>1, RowType DEF Nearer, Newer
        <4>4. QED
          BY <4>2, <4>3
      <3>2. QED
        BY <3>1
    <2>3. QED
      BY <1>1, <1>8, <2>1, <2>2, RunOfPage
  <1>9. \A r \in N \ P, x \in P : Newer(r, x)
    <2>1. \A x \in P : x = p.items[1] \/ Newer(p.items[1], x)
      BY <1>1, PageEnds
    <2>2. p.items[1] \in P
      BY <1>1, PageEnds
    <2>3. P \subseteq Row /\ N \subseteq Row
      BY <1>2, <1>6, <1>7
    <2>4. QED
      BY <1>8, <2>1, <2>2, <2>3, NewerOrder
  <1>10. /\ B \subseteq N /\ \A x \in B, r \in N \ B : Newer(r, x)
         /\ IsFiniteSet(B) /\ Cardinality(B) = Len(b.items) /\ Len(b.items) <= limit
         /\ Len(b.items) < limit => B = N
    BY DEF IsPage, Nearer, Older
  <1>11. /\ IsFiniteSet(P) /\ Cardinality(P) = Len(p.items) /\ Len(p.items) <= limit
         /\ Len(p.items) < limit => P = Past(table, mac, since, anchor, dir)
    BY DEF IsPage
  <1>12. Cardinality(P) \in Nat /\ Cardinality(B) \in Nat /\ limit \in Nat
    BY <1>10, <1>11, FS_CardinalityType DEF Asked
  <1>13. P \subseteq B \/ B \subseteq P
    <2>1. SUFFICES ASSUME NEW x \in P, x \notin B, NEW y \in B, y \notin P PROVE FALSE
      OBVIOUS
    <2>2. Newer(y, x) /\ Newer(x, y)
      BY <1>7, <1>9, <1>10, <2>1
    <2>3. x \in Row /\ y \in Row
      BY <1>2, <1>6, <1>7, <1>10, <2>1
    <2>4. QED
      BY <2>2, <2>3, RowType DEF Newer
  <1>14. ASSUME B \subseteq P, B # P PROVE FALSE
    <2>1. Cardinality(B) <= Cardinality(P) /\ Cardinality(B) # Cardinality(P)
      BY <1>11, <1>14, FS_Subset
    <2>2. B = N
      BY <1>10, <1>11, <1>12, <2>1
    <2>3. QED
      BY <1>7, <1>14, <2>2
  <1>15. ASSUME P \subseteq B, B # P PROVE FALSE
    <2>1. Cardinality(P) <= Cardinality(B) /\ Cardinality(B) # Cardinality(P)
      BY <1>10, <1>15, FS_Subset
    <2>2. P = Past(table, mac, since, anchor, dir)
      BY <1>10, <1>11, <1>12, <2>1
    <2>3. PICK r \in B : r \notin P
      BY <1>15
    <2>4. r \in N /\ r \in StoredIn(table, mac, since) /\ Newer(r, p.items[1])
      BY <1>6, <1>8, <1>10, <2>3
    <2>5. dir = "newer"
      <3>1. p.next = IF P # {} /\ (Past(table, mac, since, anchor, dir) # P \/ dir = "newer")
                     THEN CursorAt(mac, window, since, limit, "older", last) ELSE None
        BY DEF IsPage
      <3>2. QED
        BY <2>2, <3>1
    <2>6. anchor \in Row
      BY <2>5 DEF Asked
    <2>7. anchor # None
      BY <2>6, PagingNone
    <2>8. Newer(last, anchor) /\ ~Newer(r, anchor)
      BY <1>1, <2>2, <2>3, <2>4, <2>5, <2>7 DEF Past, Beyond
    <2>9. last = p.items[1] \/ Newer(p.items[1], last)
      BY <1>1, PageEnds
    <2>10. p.items[1] \in Row /\ r \in Row /\ last \in Row
      BY <1>1, <1>2, <1>7, <2>4, PageEnds
    <2>11. Newer(r, last)
      BY <2>4, <2>9, <2>10, NewerOrder
    <2>12. QED
      BY <2>6, <2>8, <2>10, <2>11, RowType DEF Newer
  <1>16. P = B
    BY <1>13, <1>14, <1>15
  <1>17. /\ p.items \in Seq(Row) /\ \A i, j \in 1 .. Len(p.items) : i < j => Newer(p.items[i], p.items[j])
    BY DEF IsPage
  <1>18. /\ b.items \in Seq(Row) /\ \A i, j \in 1 .. Len(b.items) : i < j => Newer(b.items[i], b.items[j])
    BY DEF IsPage
  <1>19. QED
    BY <1>10, <1>11, <1>16, <1>17, <1>18, SortedSame

-----------------------------------------------------------------------------
(* The invariants.                                                          *)

\* No flow was seen later than now.
Typed == TypeOK /\ \A f \in FlowIds : lastSeen[f] # None => lastSeen[f] <= now

\* A cursor of the page was cut from a row the service read.
CursorsInv ==
    page # None =>
        /\ \A c \in {page.next, page.prev} \ {None} :
            ValidLimit(c.limit) /\ c.since <= c.anchor.last /\ c.anchor.last <= now
        /\ \A c \in {page.next, page.prev} \ {None} : c.since = page.since
        /\ page.next # None => page.next.dir = "older"
        /\ page.prev # None => page.prev.dir = "newer"

\* While nothing is written the page shows what is stored.
FreshInv ==
    fresh => /\ page # None
             /\ \E mac, window, since, limit, dir, anchor :
                  /\ Asked(mac, window, since, limit, dir, anchor) /\ ValidLimit(limit)
                  /\ since >= WindowStart(window)
                  /\ IsPage(lastSeen, page, mac, window, since, limit, dir, anchor)

\* Of the flows that stayed put, the walk has shown those at and above the
\* last row of the page, and none below it.
RowIn(table, f) == [id |-> f, last |-> table[f]]
Covered(table, p, w) ==
    \A f \in w.still :
        /\ table[f] # None
        /\ p.next # None => ClientMac[f] = p.next.mac
        /\ p.next # None /\ f \in w.shown => ~Older(RowIn(table, f), p.next.anchor)
        /\ table[f] >= p.since /\ (p.next = None \/ ~Older(RowIn(table, f), p.next.anchor)) =>
            f \in w.shown
WalkInv == walk.still # {} => page # None /\ Covered(lastSeen, page, walk)

PagingInv == Typed /\ CursorsInv /\ FreshInv /\ WalkInv

LEMMA WindowType ==
    ASSUME now \in Times, NEW window \in Windows PROVE WindowStart(window) \in Int
  <1>1. now \in Int /\ window \in Int /\ Retention \in Int
    BY PagingBounds DEF Times
  <1>2. QED
    BY <1>1 DEF WindowStart, Later

\* A page that was just read.
LEMMA NewPage ==
    ASSUME Typed, NEW mac, NEW window, NEW since, NEW limit, NEW dir, NEW anchor,
           Asked(mac, window, since, limit, dir, anchor), ValidLimit(limit),
           since >= WindowStart(window),
           page' = FlowPage(mac, window, since, limit, dir, anchor),
           fresh' = TRUE, UNCHANGED <<now, lastSeen>>,
           walk' \in [shown: SUBSET FlowIds, still: SUBSET FlowIds]
    PROVE  Typed' /\ CursorsInv' /\ FreshInv'
  <1> PICK p : p = FlowPage(mac, window, since, limit, dir, anchor)
    OBVIOUS
  <1> PICK table : table = lastSeen
    OBVIOUS
  <1>1. table \in Tables /\ lastSeen' = table /\ page' = p
    BY DEF Typed, TypeOK, Tables
  <1>2. IsPage(table, p, mac, window, since, limit, dir, anchor)
    <2>1. lastSeen \in Tables
      BY <1>1
    <2>2. IsPage(lastSeen, FlowPage(mac, window, since, limit, dir, anchor),
                 mac, window, since, limit, dir, anchor)
      BY <2>1, PageIs
    <2>3. QED
      BY <2>2
  <1>3. /\ \A c \in {p.next, p.prev} \ {None} :
            /\ c = CursorAt(mac, window, since, limit, c.dir, c.anchor)
            /\ c.anchor \in StoredIn(table, mac, since) /\ c.dir \in {"older", "newer"}
        /\ p.next # None => p.next.dir = "older"
        /\ p.prev # None => p.prev.dir = "newer"
    BY <1>1, <1>2, PageCursors
  <1>4. \A r \in StoredIn(table, mac, since) : r \in Row /\ r.last >= since /\ r.last <= now
    <2> TAKE r \in StoredIn(table, mac, since)
    <2>1. r \in Row /\ table[r.id] = r.last /\ r.last >= since
      BY DEF StoredIn
    <2>2. r.id \in FlowIds /\ r.last # None
      BY <2>1, RowType, PagingNone
    <2>3. QED
      BY <2>1, <2>2 DEF Typed
  <1>5. p \in Page
    <2>1. p.next \in Cursor \cup {None} /\ p.prev \in Cursor \cup {None}
      BY <1>3, <1>4, CursorIs
    <2>2. /\ p = [items |-> p.items, next |-> p.next, prev |-> p.prev, since |-> p.since, limit |-> p.limit]
          /\ p.items \in Seq(Row) /\ p.since \in Int /\ p.limit \in Nat
      BY <1>2 DEF IsPage, Asked
    <2>3. QED
      BY <2>1, <2>2 DEF Page
  <1>6. Typed'
    <2>1. Len(p.items) <= p.limit
      BY <1>2 DEF IsPage
    <2>2. QED
      BY <1>1, <1>5, <2>1 DEF Typed, TypeOK
  <1>7. CursorsInv'
    <2>1. \A c \in {p.next, p.prev} \ {None} :
            ValidLimit(c.limit) /\ c.since <= c.anchor.last /\ c.anchor.last <= now
      <3> TAKE c \in {p.next, p.prev} \ {None}
      <3>1. c.limit = limit /\ c.since = since
        BY <1>3 DEF CursorAt
      <3>2. since \in Int /\ c.anchor.last >= since /\ c.anchor.last <= now
        BY <1>3, <1>4 DEF Asked
      <3>3. QED
        BY <1>3, <1>4, <3>1, <3>2, RowType
    <2>2. p.since = since
      BY <1>2 DEF IsPage
    <2>3. \A c \in {p.next, p.prev} \ {None} : c.since = p.since
      BY <1>3, <2>2 DEF CursorAt
    <2>4. QED
      BY <1>1, <1>3, <2>1, <2>3 DEF CursorsInv, ValidLimit
  <1>8. FreshInv'
    <2>1. page' # None
      BY <1>1, <1>5, PagingNone
    <2>2. since >= WindowStart(window)'
      BY DEF WindowStart, Later
    <2>3. ValidLimit(limit)'
      BY DEF ValidLimit
    <2>4. IsPage(lastSeen', page', mac, window, since, limit, dir, anchor)
      BY <1>1, <1>2
    <2>5. QED
      BY <2>1, <2>2, <2>3, <2>4 DEF FreshInv
  <1>9. QED
    BY <1>6, <1>7, <1>8

\* The arguments a cursor of the page asks with.
LEMMA CursorAsks ==
    ASSUME Typed, CursorsInv, page # None, NEW c \in {page.next, page.prev}, c # None
    PROVE  /\ Asked(c.mac, c.window, Later(c.since, WindowStart(c.window)), c.limit, c.dir, c.anchor)
           /\ Later(c.since, WindowStart(c.window)) >= WindowStart(c.window)
           /\ Later(c.since, WindowStart(c.window)) >= c.since
           /\ ValidLimit(c.limit) /\ c \in Cursor
  <1>1. page \in Page /\ now \in Times
    BY DEF Typed, TypeOK
  <1>2. c \in Cursor
    BY <1>1 DEF Page
  <1>3. /\ c.mac \in Macs /\ c.window \in Windows /\ c.since \in Int /\ c.anchor \in Row
        /\ c.dir \in {"older", "newer"}
    BY <1>2 DEF Cursor
  <1>4. c.limit \in Nat \ {0} /\ ValidLimit(c.limit)
    BY PagingBounds DEF CursorsInv, ValidLimit
  <1>5. WindowStart(c.window) \in Int
    BY <1>1, <1>3, WindowType
  <1> PICK start : start = WindowStart(c.window)
    OBVIOUS
  <1>6. /\ Later(c.since, start) \in Int /\ Later(c.since, start) >= start
        /\ Later(c.since, start) >= c.since
    BY <1>3, <1>5 DEF Later
  <1>7. c.anchor # None
    BY <1>3, PagingNone
  <1>8. QED
    BY <1>2, <1>3, <1>4, <1>6, <1>7 DEF Asked

\* A page of older rows shows a flow past the anchor unless it goes on above it.
LEMMA PageCovers ==
    ASSUME NEW table \in Tables, NEW p, NEW mac, NEW window, NEW since, NEW limit, NEW anchor,
           Asked(mac, window, since, limit, "older", anchor),
           IsPage(table, p, mac, window, since, limit, "older", anchor),
           NEW f \in FlowIds, table[f] # None
    PROVE  /\ RowIn(table, f) \in Row
           /\ f \in Ids(p.items) => RowIn(table, f) \in Past(table, mac, since, anchor, "older")
           /\ f \in Ids(p.items) /\ p.next # None => ~Older(RowIn(table, f), p.next.anchor)
           /\ RowIn(table, f) \in Past(table, mac, since, anchor, "older") /\ f \notin Ids(p.items)
                => p.next # None /\ Older(RowIn(table, f), p.next.anchor)
           /\ p.next # None => p.next.mac = mac /\ p.next.anchor \in Row
           /\ p.next # None /\ anchor # None => Older(p.next.anchor, anchor)
  <1> PICK row : row = RowIn(table, f)
    OBVIOUS
  <1>1. row \in Row /\ row.id = f /\ row.last = table[f]
    <2>1. table[f] \in Times
      BY DEF Tables
    <2>2. QED
      BY <2>1 DEF RowIn, Row
  <1>2. ToSet(p.items) \subseteq Past(table, mac, since, anchor, "older")
    BY DEF IsPage
  <1>3. Past(table, mac, since, anchor, "older") \subseteq StoredIn(table, mac, since)
    BY DEF Past
  <1>4. f \in Ids(p.items) <=> row \in ToSet(p.items)
    <2>1. ASSUME NEW r \in ToSet(p.items), r.id = f PROVE r = row
      <3>1. r \in Row /\ table[r.id] = r.last
        BY <1>2, <1>3 DEF StoredIn
      <3>2. QED
        BY <1>1, <2>1, <3>1, RowSame
    <2>2. QED
      BY <1>1, <2>1 DEF Ids
  <1>5. ASSUME p.next # None
        PROVE  /\ p.next.mac = mac /\ p.next.anchor \in Row
               /\ p.next.anchor = p.items[Len(p.items)] /\ p.items # <<>>
               /\ p.next.anchor \in ToSet(p.items)
               /\ anchor # None => Older(p.next.anchor, anchor)
    <2>1. /\ p.next = CursorAt(mac, window, since, limit, p.next.dir, p.next.anchor)
          /\ p.next.anchor \in Row /\ p.items # <<>>
          /\ p.next.anchor \in ToSet(p.items) /\ p.next.anchor = p.items[Len(p.items)]
      BY <1>5, PageCursors
    <2>2. p.next.mac = mac
      BY <2>1 DEF CursorAt
    <2>3. anchor # None => Older(p.next.anchor, anchor)
      BY <1>2, <2>1 DEF Past, Beyond
    <2>4. QED
      BY <2>1, <2>2, <2>3
  <1>6. ASSUME row \in ToSet(p.items), p.next # None PROVE ~Older(row, p.next.anchor)
    <2>1. row = p.next.anchor \/ Newer(row, p.next.anchor)
      BY <1>5, <1>6, PageEnds
    <2>2. QED
      BY <1>1, <1>5, <1>6, <2>1, RowType DEF Newer, Older
  <1>7. ASSUME row \in Past(table, mac, since, anchor, "older"), row \notin ToSet(p.items)
        PROVE  p.next # None /\ Older(row, p.next.anchor)
    <2>1. p.items # <<>>
      <3>1. ASSUME p.items = <<>> PROVE FALSE
        <4>1. Len(p.items) = 0
          BY <3>1
        <4>2. Len(p.items) < limit
          BY <4>1 DEF Asked
        <4>3. ToSet(p.items) = Past(table, mac, since, anchor, "older")
          BY <4>2 DEF IsPage
        <4>4. QED
          BY <1>7, <4>3
      <3>2. QED
        BY <3>1
    <2>2. Older(row, p.items[Len(p.items)]) /\ p.next # None
      BY <1>3, <1>7, <2>1, RunOfPage
    <2>3. QED
      BY <1>5, <2>2
  <1>8. QED
    BY <1>1, <1>2, <1>4, <1>5, <1>6, <1>7

-----------------------------------------------------------------------------
(* The steps.                                                               *)

\* A flow that stayed put is where it was.
LEMMA WalkKeeps ==
    ASSUME Typed, WalkInv, NEW gone, page' = page, walk' = [walk EXCEPT !.still = @ \ gone],
           \A f \in FlowIds \ gone : lastSeen'[f] = lastSeen[f]
    PROVE  WalkInv' /\ walk' \in [shown: SUBSET FlowIds, still: SUBSET FlowIds]
  <1> PICK w : w = walk
    OBVIOUS
  <1> PICK v : v = walk'
    OBVIOUS
  <1>1. w \in [shown: SUBSET FlowIds, still: SUBSET FlowIds]
    BY DEF Typed, TypeOK
  <1>2. /\ v \in [shown: SUBSET FlowIds, still: SUBSET FlowIds]
        /\ v.shown = w.shown /\ v.still = w.still \ gone
    BY <1>1
  <1> PICK t : t = lastSeen
    OBVIOUS
  <1> PICK u : u = lastSeen'
    OBVIOUS
  <1> PICK p : p = page
    OBVIOUS
  <1>3. \A f \in v.still : f \in w.still /\ u[f] = t[f] /\ RowIn(u, f) = RowIn(t, f)
    BY <1>1, <1>2 DEF RowIn
  <1>4. v.still # {} => p # None /\ Covered(t, p, w)
    BY <1>2 DEF WalkInv
  <1>5. v.still # {} => Covered(u, p, v)
    BY <1>2, <1>3, <1>4 DEF Covered
  <1>6. QED
    BY <1>2, <1>4, <1>5 DEF WalkInv

LEMMA PagingInit == Init => PagingInv
  <1> SUFFICES ASSUME Init PROVE PagingInv
    OBVIOUS
  <1>1. now \in Times /\ lastSeen \in Tables /\ \A f \in FlowIds : lastSeen[f] = None
    BY PagingBounds DEF Init, Times, Tables
  <1>2. /\ page = None /\ fresh = FALSE /\ walk = NoWalk
        /\ walk \in [shown: SUBSET FlowIds, still: SUBSET FlowIds] /\ walk.still = {}
    BY DEF Init, NoWalk
  <1>3. Typed
    BY <1>1, <1>2 DEF Typed, TypeOK, Tables
  <1>4. CursorsInv /\ FreshInv /\ WalkInv
    BY <1>2 DEF CursorsInv, FreshInv, WalkInv
  <1>5. QED
    BY <1>3, <1>4 DEF PagingInv

LEMMA TickStep == PagingInv /\ Tick => PagingInv'
  <1> SUFFICES ASSUME PagingInv, Tick PROVE PagingInv'
    OBVIOUS
  <1>1. /\ now \in Times /\ now' \in Times /\ now' = now + 1 /\ fresh' = FALSE
        /\ lastSeen' = lastSeen /\ page' = page /\ walk' = walk
    BY PagingBounds DEF Tick, PagingInv, Typed, TypeOK, Times
  <1>2. now' \in Int /\ now \in Int
    BY <1>1 DEF Times
  <1>3. Typed'
    <2>1. \A f \in FlowIds : lastSeen[f] # None => lastSeen[f] <= now + 1
      <3> SUFFICES ASSUME NEW f \in FlowIds, lastSeen[f] # None PROVE lastSeen[f] <= now + 1
        OBVIOUS
      <3>1. lastSeen[f] \in Times /\ lastSeen[f] <= now
        BY DEF PagingInv, Typed, TypeOK
      <3>2. QED
        BY <1>2, <3>1 DEF Times
    <2>2. QED
      BY <1>1, <2>1 DEF PagingInv, Typed, TypeOK
  <1>4. CursorsInv'
    <2>1. ASSUME page # None, NEW c \in {page.next, page.prev} \ {None}
          PROVE  ValidLimit(c.limit) /\ c.since <= c.anchor.last /\ c.anchor.last <= now + 1
      <3>1. c \in Cursor
        BY <2>1 DEF PagingInv, Typed, TypeOK, Page
      <3>2. c.anchor \in Row
        BY <3>1 DEF Cursor
      <3>3. ValidLimit(c.limit) /\ c.since <= c.anchor.last /\ c.anchor.last <= now
        BY <2>1 DEF PagingInv, CursorsInv
      <3>4. QED
        BY <1>2, <3>2, <3>3, RowType
    <2>2. QED
      BY <1>1, <2>1 DEF PagingInv, CursorsInv, ValidLimit
  <1>5. FreshInv'
    BY <1>1 DEF FreshInv
  <1>6. WalkInv'
    BY <1>1 DEF PagingInv, WalkInv
  <1>7. QED
    BY <1>3, <1>4, <1>5, <1>6 DEF PagingInv

\* What a writer of the table does.
LEMMA WriteStep ==
    ASSUME PagingInv, NEW gone, lastSeen' \in Tables, UNCHANGED <<now, page>>, fresh' = FALSE,
           \A f \in FlowIds : lastSeen'[f] # None => lastSeen'[f] <= now,
           Moved(gone), \A f \in FlowIds \ gone : lastSeen'[f] = lastSeen[f]
    PROVE  PagingInv'
  <1>1. WalkInv' /\ walk' \in [shown: SUBSET FlowIds, still: SUBSET FlowIds]
    BY WalkKeeps DEF PagingInv, Moved
  <1>2. Typed'
    BY <1>1 DEF PagingInv, Typed, TypeOK, Tables
  <1>3. CursorsInv'
    BY DEF PagingInv, CursorsInv, ValidLimit
  <1>4. FreshInv'
    BY DEF FreshInv
  <1>5. QED
    BY <1>1, <1>2, <1>3, <1>4 DEF PagingInv

LEMMA StoreStep ==
    ASSUME PagingInv, NEW f \in FlowIds, NEW t \in Times, Store(f, t)
    PROVE  PagingInv'
  <1>1. lastSeen \in Tables
    BY DEF PagingInv, Typed, TypeOK, Tables
  <1>2. lastSeen' \in Tables
    BY <1>1 DEF Store, Tables
  <1>3. \A g \in FlowIds : lastSeen'[g] = IF g = f THEN t ELSE lastSeen[g]
    BY <1>1 DEF Store, Tables
  <1>4. \A g \in FlowIds : lastSeen'[g] # None => lastSeen'[g] <= now
    BY <1>3 DEF Store, PagingInv, Typed
  <1>5. QED
    BY <1>2, <1>3, <1>4, WriteStep DEF Store

LEMMA DeleteStep ==
    ASSUME PagingInv, NEW gone \in SUBSET FlowIds, Delete(gone)
    PROVE  PagingInv'
  <1>1. lastSeen \in Tables
    BY DEF PagingInv, Typed, TypeOK, Tables
  <1>2. \A g \in FlowIds : lastSeen'[g] = IF g \in gone THEN None ELSE lastSeen[g]
    BY DEF Delete
  <1>3. lastSeen' \in Tables
    BY <1>1 DEF Delete, Tables
  <1>4. \A g \in FlowIds : lastSeen'[g] # None => lastSeen'[g] <= now
    BY <1>2 DEF PagingInv, Typed
  <1>5. QED
    BY <1>2, <1>3, <1>4, WriteStep DEF Delete

LEMMA FirstPageStep ==
    ASSUME PagingInv, NEW mac \in Macs, NEW window \in Windows, NEW limit \in Limits,
           FirstPage(mac, window, limit)
    PROVE  PagingInv'
  <1> PICK since : since = WindowStart(window)
    OBVIOUS
  <1> PICK p : p = FlowPage(mac, window, since, limit, "older", None)
    OBVIOUS
  <1> PICK t : t = lastSeen
    OBVIOUS
  <1> PICK v : v = [shown |-> Ids(p.items), still |-> {f \in FlowIds : t[f] # None /\ ClientMac[f] = mac}]
    OBVIOUS
  <1>1. now \in Times /\ lastSeen \in Tables /\ t \in Tables
    BY DEF PagingInv, Typed, TypeOK, Tables
  <1>2. since \in Int /\ since >= WindowStart(window)
    BY <1>1, WindowType
  <1>3. Asked(mac, window, since, limit, "older", None)
    BY <1>2, PagingBounds DEF Asked, FirstPage, ValidLimit
  <1>4. IsPage(t, p, mac, window, since, limit, "older", None)
    <2>1. IsPage(lastSeen, FlowPage(mac, window, since, limit, "older", None),
                 mac, window, since, limit, "older", None)
      BY <1>1, <1>3, PageIs
    <2>2. QED
      BY <2>1
  <1>5. /\ page' = p /\ walk' = v /\ lastSeen' = t /\ fresh' = TRUE /\ ValidLimit(limit)
        /\ UNCHANGED <<now, lastSeen>>
    BY DEF FirstPage
  <1>6. v \in [shown: SUBSET FlowIds, still: SUBSET FlowIds]
    <2>1. ToSet(p.items) \subseteq Row
      BY <1>4 DEF IsPage, Past, StoredIn
    <2>2. Ids(p.items) \subseteq FlowIds
      BY <2>1, RowType DEF Ids
    <2>3. QED
      BY <2>2
  <1>7. Typed' /\ CursorsInv' /\ FreshInv'
    BY <1>2, <1>3, <1>5, <1>6, NewPage DEF PagingInv
  <1>8. Covered(t, p, v)
    <2> SUFFICES ASSUME NEW f \in v.still
                 PROVE  /\ t[f] # None
                        /\ p.next # None => ClientMac[f] = p.next.mac
                        /\ p.next # None /\ f \in v.shown => ~Older(RowIn(t, f), p.next.anchor)
                        /\ t[f] >= p.since /\ (p.next = None \/ ~Older(RowIn(t, f), p.next.anchor)) =>
                             f \in v.shown
      BY DEF Covered
    <2>1. f \in FlowIds /\ t[f] # None /\ ClientMac[f] = mac
      OBVIOUS
    <2>2. p.since = since
      BY <1>4 DEF IsPage
    <2>3. t[f] >= since => RowIn(t, f) \in Past(t, mac, since, None, "older")
      <3>1. RowIn(t, f) \in Row
        BY <1>1, <1>3, <1>4, <2>1, PageCovers
      <3>2. QED
        BY <2>1, <3>1 DEF RowIn, Past, StoredIn
    <2>4. /\ f \in Ids(p.items) /\ p.next # None => ~Older(RowIn(t, f), p.next.anchor)
          /\ RowIn(t, f) \in Past(t, mac, since, None, "older") /\ f \notin Ids(p.items)
                => p.next # None /\ Older(RowIn(t, f), p.next.anchor)
          /\ p.next # None => p.next.mac = mac
      BY <1>1, <1>3, <1>4, <2>1, PageCovers
    <2>5. v.shown = Ids(p.items)
      OBVIOUS
    <2>6. QED
      BY <2>1, <2>2, <2>3, <2>4, <2>5
  <1>9. WalkInv'
    <2>1. p # None
      BY <1>5, <1>7, PagingNone DEF FreshInv
    <2>2. QED
      BY <1>5, <1>8, <2>1 DEF WalkInv
  <1>10. QED
    BY <1>7, <1>9 DEF PagingInv

LEMMA NewerPageStep == PagingInv /\ NewerPage => PagingInv'
  <1> SUFFICES ASSUME PagingInv, NewerPage PROVE PagingInv'
    OBVIOUS
  <1> PICK c : c = page.prev
    OBVIOUS
  <1> PICK since : since = Later(c.since, WindowStart(c.window))
    OBVIOUS
  <1>1. /\ Asked(c.mac, c.window, since, c.limit, c.dir, c.anchor)
        /\ since >= WindowStart(c.window) /\ ValidLimit(c.limit)
    BY CursorAsks DEF PagingInv, NewerPage
  <1>2. /\ page' = FlowPage(c.mac, c.window, since, c.limit, c.dir, c.anchor)
        /\ walk' = NoWalk /\ fresh' = TRUE /\ UNCHANGED <<now, lastSeen>>
    BY DEF NewerPage, Continuation
  <1>3. NoWalk \in [shown: SUBSET FlowIds, still: SUBSET FlowIds] /\ NoWalk.still = {}
    BY DEF NoWalk
  <1>4. Typed' /\ CursorsInv' /\ FreshInv'
    BY <1>1, <1>2, <1>3, NewPage DEF PagingInv
  <1>5. WalkInv'
    BY <1>2, <1>3 DEF WalkInv
  <1>6. QED
    BY <1>4, <1>5 DEF PagingInv

\* The page after, and what the walk has shown of the flows that stayed put.
LEMMA OlderPageRead ==
    ASSUME PagingInv, OlderPage,
           NEW t, t = lastSeen, NEW p, p = page', NEW c, c = page.next,
           NEW since, since = Later(c.since, WindowStart(c.window))
    PROVE  /\ t \in Tables /\ since \in Int /\ since >= c.since /\ since >= WindowStart(c.window)
           /\ c.dir = "older" /\ c.anchor \in Row /\ c.anchor # None /\ c.limit \in Nat
           /\ ValidLimit(c.limit)
           /\ Asked(c.mac, c.window, since, c.limit, "older", c.anchor)
           /\ p = FlowPage(c.mac, c.window, since, c.limit, "older", c.anchor)
           /\ IsPage(t, p, c.mac, c.window, since, c.limit, "older", c.anchor)
  <1>1. page # None /\ c # None /\ c.dir = "older"
    BY DEF PagingInv, CursorsInv, OlderPage
  <1>2. /\ Asked(c.mac, c.window, since, c.limit, "older", c.anchor)
        /\ since >= WindowStart(c.window) /\ since >= c.since /\ ValidLimit(c.limit)
        /\ c \in Cursor
    BY <1>1, CursorAsks DEF PagingInv
  <1>3. lastSeen \in Tables
    BY DEF PagingInv, Typed, TypeOK, Tables
  <1>4. p = FlowPage(c.mac, c.window, since, c.limit, "older", c.anchor)
    BY <1>1 DEF OlderPage, Continuation
  <1>5. IsPage(lastSeen, FlowPage(c.mac, c.window, since, c.limit, "older", c.anchor),
               c.mac, c.window, since, c.limit, "older", c.anchor)
    BY <1>2, <1>3, PageIs
  <1>6. c.anchor \in Row /\ c.limit \in Nat /\ since \in Int
    BY <1>2 DEF Cursor, Asked
  <1>7. c.anchor # None
    BY <1>6, PagingNone
  <1>8. QED
    BY <1>1, <1>2, <1>3, <1>4, <1>5, <1>6, <1>7

LEMMA OlderPageStep == PagingInv /\ OlderPage => PagingInv'
  <1> SUFFICES ASSUME PagingInv, OlderPage PROVE PagingInv'
    OBVIOUS
  <1> PICK t : t = lastSeen
    OBVIOUS
  <1> PICK p : p = page'
    OBVIOUS
  <1> PICK c : c = page.next
    OBVIOUS
  <1> PICK since : since = Later(c.since, WindowStart(c.window))
    OBVIOUS
  <1> PICK w : w = walk
    OBVIOUS
  <1> PICK v : v = walk'
    OBVIOUS
  <1>1. /\ t \in Tables /\ since \in Int /\ since >= c.since /\ since >= WindowStart(c.window)
        /\ c.anchor \in Row /\ c.anchor # None /\ ValidLimit(c.limit)
        /\ Asked(c.mac, c.window, since, c.limit, "older", c.anchor)
        /\ p = FlowPage(c.mac, c.window, since, c.limit, "older", c.anchor)
        /\ IsPage(t, p, c.mac, c.window, since, c.limit, "older", c.anchor)
    BY OlderPageRead
  <1>2. /\ fresh' = TRUE /\ UNCHANGED <<now, lastSeen>> /\ page # None /\ c # None
        /\ v = IF w.still = {} THEN NoWalk ELSE [w EXCEPT !.shown = @ \cup Ids(p.items)]
    BY DEF OlderPage
  <1>3. w \in [shown: SUBSET FlowIds, still: SUBSET FlowIds]
    BY DEF PagingInv, Typed, TypeOK
  <1>4. Ids(p.items) \subseteq FlowIds
    <2>1. ToSet(p.items) \subseteq Row
      BY <1>1 DEF IsPage, Past, StoredIn
    <2>2. QED
      BY <2>1, RowType DEF Ids
  <1>5. v \in [shown: SUBSET FlowIds, still: SUBSET FlowIds]
    BY <1>2, <1>3, <1>4 DEF NoWalk
  <1>6. Typed' /\ CursorsInv' /\ FreshInv'
    BY <1>1, <1>2, <1>5, NewPage DEF PagingInv
  <1>7. CASE w.still = {}
    <2>1. v.still = {}
      BY <1>2, <1>7 DEF NoWalk
    <2>2. WalkInv'
      BY <2>1 DEF WalkInv
    <2>3. QED
      BY <1>6, <2>2 DEF PagingInv
  <1>8. CASE w.still # {}
    <2>1. v.still = w.still /\ v.shown = w.shown \cup Ids(p.items)
      BY <1>2, <1>3, <1>8
    <2>2. Covered(t, page, w)
      BY <1>8 DEF PagingInv, WalkInv
    <2>3. p.since = since
      BY <1>1 DEF IsPage
    <2>4. Covered(t, p, v)
      <3> SUFFICES ASSUME NEW f \in v.still
                   PROVE  /\ t[f] # None
                          /\ p.next # None => ClientMac[f] = p.next.mac
                          /\ p.next # None /\ f \in v.shown => ~Older(RowIn(t, f), p.next.anchor)
                          /\ t[f] >= p.since /\ (p.next = None \/ ~Older(RowIn(t, f), p.next.anchor)) =>
                               f \in v.shown
        BY DEF Covered
      <3>1. f \in FlowIds /\ f \in w.still
        BY <1>3, <2>1
      <3>2. /\ t[f] # None /\ ClientMac[f] = c.mac
            /\ f \in w.shown => ~Older(RowIn(t, f), c.anchor)
            /\ t[f] >= page.since /\ ~Older(RowIn(t, f), c.anchor) => f \in w.shown
        BY <1>2, <2>2, <3>1 DEF Covered
      <3>3. /\ RowIn(t, f) \in Row
            /\ f \in Ids(p.items) /\ p.next # None => ~Older(RowIn(t, f), p.next.anchor)
            /\ RowIn(t, f) \in Past(t, c.mac, since, c.anchor, "older") /\ f \notin Ids(p.items)
                 => p.next # None /\ Older(RowIn(t, f), p.next.anchor)
            /\ p.next # None => p.next.mac = c.mac /\ p.next.anchor \in Row
            /\ p.next # None => Older(p.next.anchor, c.anchor)
        <4>1. t[f] # None
          BY <3>2
        <4>2. /\ t \in Tables /\ Asked(c.mac, c.window, since, c.limit, "older", c.anchor)
              /\ IsPage(t, p, c.mac, c.window, since, c.limit, "older", c.anchor)
          BY <1>1
        <4>3. /\ RowIn(t, f) \in Row
              /\ f \in Ids(p.items) /\ p.next # None => ~Older(RowIn(t, f), p.next.anchor)
              /\ RowIn(t, f) \in Past(t, c.mac, since, c.anchor, "older") /\ f \notin Ids(p.items)
                   => p.next # None /\ Older(RowIn(t, f), p.next.anchor)
              /\ p.next # None => p.next.mac = c.mac /\ p.next.anchor \in Row
              /\ p.next # None /\ c.anchor # None => Older(p.next.anchor, c.anchor)
          BY <3>1, <4>1, <4>2, PageCovers
        <4>4. QED
          BY <1>1, <4>3
      <3>4. c.since = page.since
        BY <1>2 DEF PagingInv, CursorsInv
      <3>5. t[f] >= since => t[f] >= page.since
        <4>1. t[f] \in Nat /\ c.since \in Int
          <5>1. page \in Page
            BY <1>2 DEF PagingInv, Typed, TypeOK
          <5>2. t[f] \in Times
            BY <1>1, <3>1, <3>2 DEF Tables
          <5>3. QED
            BY <1>2, <5>1, <5>2 DEF Page, Cursor, Times
        <4>2. QED
          BY <1>1, <3>4, <4>1
      <3>6. t[f] >= since /\ Older(RowIn(t, f), c.anchor)
              => RowIn(t, f) \in Past(t, c.mac, since, c.anchor, "older")
        BY <1>1, <3>1, <3>2, <3>3 DEF RowIn, Past, StoredIn, Beyond
      <3>7. ASSUME p.next # None, f \in w.shown PROVE ~Older(RowIn(t, f), p.next.anchor)
        <4>1. p.next.anchor \in Row /\ Newer(c.anchor, p.next.anchor) /\ RowIn(t, f) \in Row
          BY <3>3, <3>7 DEF Older
        <4>2. ~Newer(c.anchor, RowIn(t, f))
          BY <3>2, <3>7 DEF Older
        <4>3. Newer(RowIn(t, f), p.next.anchor)
          BY <1>1, <4>1, <4>2, NewerOrder
        <4>4. QED
          BY <4>1, <4>3, NewerOrder DEF Older
      <3>8. QED
        BY <2>1, <2>3, <3>2, <3>3, <3>5, <3>6, <3>7
    <2>5. WalkInv'
      <3>1. p # None
        BY <1>6, <1>2 DEF FreshInv
      <3>2. QED
        BY <1>2, <2>4, <3>1 DEF WalkInv
    <2>6. QED
      BY <1>6, <2>5 DEF PagingInv
  <1>9. QED
    BY <1>7, <1>8

LEMMA PagingStep == PagingInv /\ [Next]_vars => PagingInv'
  <1> SUFFICES ASSUME PagingInv, [Next]_vars PROVE PagingInv'
    OBVIOUS
  <1>1. CASE Tick
    BY <1>1, TickStep
  <1>2. CASE \E f \in FlowIds, t \in Times : Store(f, t)
    BY <1>2, StoreStep
  <1>3. CASE \E gone \in SUBSET FlowIds : Delete(gone)
    BY <1>3, DeleteStep
  <1>4. CASE \E mac \in Macs, window \in Windows, limit \in Limits : FirstPage(mac, window, limit)
    BY <1>4, FirstPageStep
  <1>5. CASE OlderPage
    BY <1>5, OlderPageStep
  <1>6. CASE NewerPage
    BY <1>6, NewerPageStep
  <1>7. CASE UNCHANGED vars
    BY <1>7 DEF vars, PagingInv, Typed, TypeOK, CursorsInv, FreshInv, WalkInv, ValidLimit,
                WindowStart, Later
  <1>8. QED
    BY <1>1, <1>2, <1>3, <1>4, <1>5, <1>6, <1>7 DEF Next

\* Everything the client and the writers do keeps the invariant.
THEOREM PagingHolds == Spec => []PagingInv
  <1>1. QED
    BY PagingInit, PagingStep, PTL DEF Spec

-----------------------------------------------------------------------------
(* The properties.                                                          *)

\* The state is well formed and no page is longer than its limit.
THEOREM PageTyped == Spec => []TypeOK
  <1>1. PagingInv => TypeOK
    BY DEF PagingInv, Typed
  <1>2. QED
    BY <1>1, PagingHolds, PTL

\* Whatever was stored, seen again or deleted since, and however late, flow_page
\* takes a cursor it issued: what it checks held of the row it cut it from.
THEOREM CursorsGood == Spec => []IssuedCursorsAccepted
  <1>1. PagingInv => IssuedCursorsAccepted
    <2> SUFFICES ASSUME PagingInv, page # None, NEW c \in {page.next, page.prev} \ {None}
                 PROVE  Accepts(c.mac, c)
      BY DEF IssuedCursorsAccepted
    <2>1. ValidLimit(c.limit) /\ c.since <= c.anchor.last /\ c.anchor.last <= now
      BY DEF PagingInv, CursorsInv
    <2>2. now \in Int /\ c.since \in Int /\ c.anchor.last \in Int
      <3>1. page \in Page /\ now \in Times
        BY DEF PagingInv, Typed, TypeOK
      <3>2. c \in Cursor
        BY <3>1 DEF Page
      <3>3. c.anchor \in Row /\ c.since \in Int
        BY <3>2 DEF Cursor
      <3>4. QED
        BY <3>1, <3>3, RowType DEF Times
    <2>3. QED
      BY <2>1, <2>2 DEF Accepts
  <1>2. QED
    BY <1>1, PagingHolds, PTL

\* A page list_flow_page cut is an unbroken run of the device's flows, newest
\* first, and a missing cursor means that there is nothing further that way.
THEOREM PagesAreRuns == Spec => []PageIsRun
  <1>1. PagingInv => PageIsRun
    <2> SUFFICES ASSUME PagingInv, fresh, page.items # <<>> PROVE PageIsRun
      BY DEF PageIsRun
    <2> PICK items : items = page.items
      OBVIOUS
    <2>1. lastSeen \in Tables
      BY DEF PagingInv, Typed, TypeOK, Tables
    <2>2. PICK mac, window, since, limit, dir, anchor :
            /\ Asked(mac, window, since, limit, dir, anchor)
            /\ IsPage(lastSeen, page, mac, window, since, limit, dir, anchor)
      BY DEF PagingInv, FreshInv
    <2>3. /\ Len(items) \in Nat /\ Len(items) >= 1 /\ Last(items) = items[Len(items)]
          /\ items[1] \in ToSet(items) /\ Last(items) \in ToSet(items)
          /\ \A r \in ToSet(items) :
                /\ r = items[1] \/ Newer(items[1], r)
                /\ r = Last(items) \/ Newer(r, Last(items))
      BY <2>1, <2>2, PageEnds
    <2>4. ToSet(items) \subseteq StoredIn(lastSeen, mac, since) /\ page.since = since
      BY <2>2 DEF IsPage, Past
    <2>5. Stored(ClientMac[items[1].id], page.since) = StoredIn(lastSeen, mac, since)
      <3>1. ClientMac[items[1].id] = mac
        BY <2>3, <2>4 DEF StoredIn
      <3>2. QED
        BY <2>4, <3>1 DEF Stored, StoredIn
    <2> PICK all : all = StoredIn(lastSeen, mac, since)
      OBVIOUS
    <2>6. all \subseteq Row /\ ToSet(items) \subseteq Row
      BY <2>4 DEF StoredIn
    <2>7. \A i \in 1 .. Len(items) - 1 : Newer(items[i], items[i + 1])
      <3> TAKE i \in 1 .. Len(items) - 1
      <3>1. i \in 1 .. Len(items) /\ i + 1 \in 1 .. Len(items) /\ i < i + 1
        BY <2>3
      <3>2. \A k, j \in 1 .. Len(items) : k < j => Newer(items[k], items[j])
        BY <2>2 DEF IsPage
      <3>3. QED
        BY <3>1, <3>2
    <2>8. \A r \in all \ ToSet(items) :
            /\ Newer(r, items[1]) \/ Older(r, Last(items))
            /\ Older(r, Last(items)) => ~Newer(r, items[1]) /\ page.next # None
            /\ Newer(r, items[1]) => ~Older(r, Last(items)) /\ page.prev # None
      BY <2>1, <2>2, <2>3, RunOfPage
    <2>9. \A a, b \in Row : Newer(a, b) => ~Newer(b, a) /\ a # b
      BY RowType DEF Newer
    <2>10. \A r \in ToSet(items) : ~Older(r, Last(items)) /\ ~Newer(r, items[1])
      BY <2>3, <2>6, <2>9 DEF Older
    <2>11. ASSUME NEW r \in all, Older(r, items[1]), Newer(r, Last(items)), r \notin ToSet(items)
           PROVE  FALSE
      <3>1. Newer(r, items[1]) \/ Older(r, Last(items))
        BY <2>8, <2>11
      <3>2. r \in Row /\ items[1] \in Row /\ Last(items) \in Row
        BY <2>3, <2>6
      <3>3. QED
        BY <2>9, <2>11, <3>1, <3>2 DEF Older
    <2>12. /\ page.next = None => \A r \in all : ~Older(r, Last(items))
           /\ page.prev = None => \A r \in all : ~Newer(r, items[1])
      BY <2>8, <2>10
    <2>13. QED
      BY <2>5, <2>7, <2>11, <2>12 DEF PageIsRun
  <1>2. QED
    BY <1>1, PagingHolds, PTL

\* The older page's cursor back leads to the page the client came from.
THEOREM ThereAndBackAgain == Spec => []ThereAndBack
  <1>1. PagingInv => ThereAndBack
    <2> SUFFICES ASSUME PagingInv, fresh, page.next # None PROVE ThereAndBack
      BY DEF ThereAndBack
    <2> PICK c : c = page.next
      OBVIOUS
    <2> PICK older : older = Continuation(c)
      OBVIOUS
    <2> SUFFICES ASSUME older.items # <<>> PROVE Continuation(older.prev).items = page.items
      BY DEF ThereAndBack
    <2>1. lastSeen \in Tables /\ page # None /\ now \in Times
      BY DEF PagingInv, Typed, TypeOK, Tables, FreshInv
    <2>2. PICK mac, window, since, limit, dir, anchor :
            /\ Asked(mac, window, since, limit, dir, anchor) /\ ValidLimit(limit)
            /\ since >= WindowStart(window)
            /\ IsPage(lastSeen, page, mac, window, since, limit, dir, anchor)
      BY DEF PagingInv, FreshInv
    <2>3. since \in Int /\ window \in Windows /\ WindowStart(window) \in Int
      BY <2>1, <2>2, WindowType DEF Asked
    <2>4. Later(since, WindowStart(window)) = since
      BY <2>2, <2>3 DEF Later
    <2>5. /\ c = CursorAt(mac, window, since, limit, "older", c.anchor)
          /\ c.anchor \in Row
      BY <2>1, <2>2, PageCursors
    <2>6. c.anchor # None /\ Asked(mac, window, since, limit, "older", c.anchor)
      BY <2>2, <2>5, PagingNone DEF Asked
    <2>7. older = FlowPage(mac, window, since, limit, "older", c.anchor)
      <3>1. /\ c.mac = mac /\ c.window = window /\ c.since = since /\ c.limit = limit /\ c.dir = "older"
        BY <2>5 DEF CursorAt
      <3>2. QED
        BY <2>4, <3>1 DEF Continuation
    <2>8. IsPage(lastSeen, older, mac, window, since, limit, "older", c.anchor)
      BY <2>1, <2>6, <2>7, PageIs
    <2> PICK e : e = older.items[1]
      OBVIOUS
    <2>9. e \in ToSet(older.items) /\ e \in Row
      <3>1. e \in ToSet(older.items)
        BY <2>1, <2>6, <2>8, PageEnds
      <3>2. QED
        BY <2>8, <3>1 DEF IsPage, Past, StoredIn
    <2>10. older.prev = CursorAt(mac, window, since, limit, "newer", e)
      BY <2>6, <2>8, <2>9 DEF IsPage
    <2>11. e # None /\ Asked(mac, window, since, limit, "newer", e)
      BY <2>2, <2>9, PagingNone DEF Asked
    <2> PICK back : back = Continuation(older.prev)
      OBVIOUS
    <2>12. back = FlowPage(mac, window, since, limit, "newer", e)
      <3>1. /\ older.prev.mac = mac /\ older.prev.window = window /\ older.prev.since = since
            /\ older.prev.limit = limit /\ older.prev.dir = "newer" /\ older.prev.anchor = e
        BY <2>10 DEF CursorAt
      <3>2. QED
        BY <2>4, <3>1 DEF Continuation
    <2>13. IsPage(lastSeen, back, mac, window, since, limit, "newer", e)
      BY <2>1, <2>11, <2>12, PageIs
    <2>14. back.items = page.items
      BY <2>1, <2>2, <2>8, <2>13, BackAgain
    <2>15. QED
      BY <2>14
  <1>2. QED
    BY <1>1, PagingHolds, PTL

\* A walk along older pages shows no flow that stayed put twice.
THEOREM NothingShownTwice == Spec => NothingTwice
  <1>1. PagingInv /\ [Next]_vars
          => [OlderPage => Ids(page'.items) \cap walk.shown \cap walk.still = {}]_vars
    <2> SUFFICES ASSUME PagingInv, OlderPage,
                        NEW f \in Ids(page'.items) \cap walk.shown \cap walk.still
                 PROVE  FALSE
      OBVIOUS
    <2> PICK t : t = lastSeen
      OBVIOUS
    <2> PICK p : p = page'
      OBVIOUS
    <2> PICK c : c = page.next
      OBVIOUS
    <2> PICK since : since = Later(c.since, WindowStart(c.window))
      OBVIOUS
    <2>1. /\ t \in Tables /\ c.anchor # None
          /\ Asked(c.mac, c.window, since, c.limit, "older", c.anchor)
          /\ IsPage(t, p, c.mac, c.window, since, c.limit, "older", c.anchor)
      BY OlderPageRead
    <2>2. f \in FlowIds
      BY DEF PagingInv, Typed, TypeOK
    <2>3. t[f] # None /\ ~Older(RowIn(t, f), c.anchor)
      <3>1. Covered(t, page, walk) /\ c # None
        BY DEF PagingInv, WalkInv, OlderPage
      <3>2. QED
        BY <3>1 DEF Covered
    <2>4. RowIn(t, f) \in Past(t, c.mac, since, c.anchor, "older")
      BY <2>1, <2>2, <2>3, PageCovers
    <2>5. QED
      BY <2>1, <2>3, <2>4 DEF Past, Beyond
  <1>2. QED
    BY <1>1, PagingHolds, PTL DEF Spec, NothingTwice

\* A walk that came to its end has shown every flow that stayed put.
THEOREM NothingLeftOut == Spec => []NothingMissed
  <1>1. PagingInv => NothingMissed
    BY DEF PagingInv, WalkInv, Covered, NothingMissed
  <1>2. QED
    BY <1>1, PagingHolds, PTL
=============================================================================
