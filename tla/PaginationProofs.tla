--------------------------- MODULE PaginationProofs ---------------------------
(***************************************************************************)
(* Proofs about Pagination, for all listings: every page size, number of   *)
(* rows, limit and page cap, any number of changes by other clients.       *)
(***************************************************************************)
EXTENDS Pagination, SequenceLemmas

-----------------------------------------------------------------------------
(* Operators.                                                              *)

\* What Visible computes.
LEMMA VisibleUnfolds ==
  ASSUME NEW S, NEW s \in Seq(S)
  PROVE  \E f : /\ f[0] = <<>>
                /\ \A n \in 1 .. Len(s) :
                     f[n] = IF s[n] \in hidden THEN f[n - 1] ELSE Append(f[n - 1], s[n])
                /\ Visible(s) = f[Len(s)]
<1>. DEFINE F(h) == h = [n \in 0 .. Len(s) |->
                      IF n = 0 THEN <<>>
                      ELSE IF s[n] \in hidden THEN h[n - 1] ELSE Append(h[n - 1], s[n])]
            visible == CHOOSE h : F(h)
<1>1. PICK g \in Recursions(Seq(S)) :
             \A n \in 1 .. Len(s) : \A v \in Seq(S) :
               g[n][v] = IF s[n] \in hidden THEN v ELSE Append(v, s[n])
  <2>. DEFINE g == [n \in Nat |-> [v \in Seq(S) |->
                     IF n \in 1 .. Len(s) /\ s[n] \notin hidden THEN Append(v, s[n]) ELSE v]]
  <2>1. g \in [Nat -> [Seq(S) -> Seq(S)]]
    OBVIOUS
  <2>2. \A n \in 1 .. Len(s) : \A v \in Seq(S) :
          g[n][v] = IF s[n] \in hidden THEN v ELSE Append(v, s[n])
    OBVIOUS
  <2>. HIDE DEF g
  <2>. QED BY <2>1, <2>2 DEF Recursions
<1>2. PICK f \in [0 .. Len(s) -> Seq(S)] :
             f[0] = <<>> /\ \A n \in 1 .. Len(s) : f[n] = g[n][f[n - 1]]
  <2>1. <<>> \in Seq(S) /\ Len(s) \in Nat
    OBVIOUS
  <2>2. Solutions(Seq(S), <<>>, g, Len(s)) # {}
    BY <2>1, RecursionSolvable
  <2>. QED BY <2>2 DEF Solutions
<1>3. F(f)
  <2>1. ASSUME NEW n \in 1 .. Len(s)
        PROVE  f[n] = IF s[n] \in hidden THEN f[n - 1] ELSE Append(f[n - 1], s[n])
    <3>1. n - 1 \in 0 .. Len(s)
      OBVIOUS
    <3>. QED BY <1>1, <1>2, <3>1
  <2>2. ASSUME NEW n \in 0 .. Len(s)
        PROVE  f[n] = IF n = 0 THEN <<>>
                      ELSE IF s[n] \in hidden THEN f[n - 1] ELSE Append(f[n - 1], s[n])
    <3>1. n = 0 \/ n \in 1 .. Len(s)
      OBVIOUS
    <3>. QED BY <1>2, <2>1, <3>1
  <2>3. f = [n \in 0 .. Len(s) |-> f[n]]
    OBVIOUS
  <2>. QED BY <2>2, <2>3
<1>4. F(visible)
  <2>. HIDE DEF F
  <2>. QED BY <1>3
<1>5. Visible(s) = visible[Len(s)]
  BY DEF Visible
<1>6. /\ visible[0] = <<>>
      /\ \A n \in 1 .. Len(s) :
           visible[n] = IF s[n] \in hidden THEN visible[n - 1] ELSE Append(visible[n - 1], s[n])
  <2>. HIDE DEF visible
  <2>1. Len(s) \in Nat
    OBVIOUS
  <2>2. visible[0] = <<>>
    BY <1>4, <2>1
  <2>3. ASSUME NEW n \in 1 .. Len(s)
        PROVE  visible[n] = IF s[n] \in hidden THEN visible[n - 1] ELSE Append(visible[n - 1], s[n])
    <3>1. n \in 0 .. Len(s) /\ n # 0
      BY <2>1
    <3>. QED BY <1>4, <3>1
  <2>. QED BY <2>2, <2>3
<1>. HIDE DEF visible
<1>. QED BY <1>5, <1>6

Increasing(s) == \A i, j \in DOMAIN s : i < j => s[i] < s[j]

LEMMA AppendElements ==
  ASSUME NEW S, NEW s \in Seq(S), NEW e \in S
  PROVE  Append(s, e) \in Seq(S) /\ ToSet(Append(s, e)) = ToSet(s) \union {e}
<1>1. /\ Append(s, e) \in Seq(S) /\ Len(s) \in Nat /\ DOMAIN s = 1 .. Len(s)
      /\ DOMAIN Append(s, e) = 1 .. Len(s) + 1
      /\ Append(s, e)[Len(s) + 1] = e /\ \A i \in 1 .. Len(s) : Append(s, e)[i] = s[i]
  OBVIOUS
<1>2. 1 .. Len(s) + 1 = (1 .. Len(s)) \union {Len(s) + 1}
  BY <1>1
<1>3. ToSet(Append(s, e)) = {Append(s, e)[i] : i \in 1 .. Len(s)} \union {Append(s, e)[Len(s) + 1]}
  BY <1>1, <1>2 DEF ToSet
<1>4. {Append(s, e)[i] : i \in 1 .. Len(s)} = ToSet(s)
  BY <1>1 DEF ToSet
<1>. QED BY <1>1, <1>3, <1>4

LEMMA AppendIncreasing ==
  ASSUME NEW S \in SUBSET Int, NEW s \in Seq(S), NEW e \in S, Increasing(s),
         \A x \in ToSet(s) : x < e
  PROVE  Increasing(Append(s, e))
<1>1. /\ Len(s) \in Nat /\ DOMAIN s = 1 .. Len(s) /\ DOMAIN Append(s, e) = 1 .. Len(s) + 1
      /\ Append(s, e)[Len(s) + 1] = e /\ \A i \in 1 .. Len(s) : Append(s, e)[i] = s[i]
  OBVIOUS
<1>2. \A i \in 1 .. Len(s) : s[i] < e
  BY <1>1 DEF ToSet
<1>. QED BY <1>1, <1>2 DEF Increasing

\* Visible drops the hidden rows, and keeps the others in their order.
LEMMA VisibleProperties ==
  ASSUME NEW S \in SUBSET Int, NEW s \in Seq(S)
  PROVE  /\ Visible(s) \in Seq(S)
         /\ ToSet(Visible(s)) = ToSet(s) \ hidden
         /\ Increasing(s) => Increasing(Visible(s))
         /\ hidden \intersect ToSet(s) = {} => Visible(s) = s
<1>1. PICK f : /\ f[0] = <<>>
               /\ \A n \in 1 .. Len(s) :
                    f[n] = IF s[n] \in hidden THEN f[n - 1] ELSE Append(f[n - 1], s[n])
               /\ Visible(s) = f[Len(s)]
  BY VisibleUnfolds
<1>. DEFINE Upto(n) == {s[i] : i \in 1 .. n}
            Good(n) ==
              /\ f[n] \in Seq(S)
              /\ ToSet(f[n]) = Upto(n) \ hidden
              /\ Increasing(s) => Increasing(f[n])
              /\ hidden \intersect ToSet(s) = {} => f[n] = SubSeq(s, 1, n)
            P == {n \in Nat : n <= Len(s) => Good(n)}
<1>2. Len(s) \in Nat /\ DOMAIN s = 1 .. Len(s)
  OBVIOUS
<1>3. Good(0)
  BY <1>1 DEF ToSet, Increasing
<1>4. ASSUME NEW n \in Nat, n + 1 \in 1 .. Len(s), Good(n) PROVE Good(n + 1)
  <2>1. s[n + 1] \in S /\ s[n + 1] \in ToSet(s)
    BY <1>4 DEF ToSet
  <2>2. f[n + 1] = IF s[n + 1] \in hidden THEN f[n] ELSE Append(f[n], s[n + 1])
    BY <1>1, <1>4
  <2>3. Upto(n + 1) = Upto(n) \union {s[n + 1]}
    <3>1. 1 .. n + 1 = (1 .. n) \union {n + 1}
      OBVIOUS
    <3>. QED BY <3>1
  <2>4. Increasing(s) => \A x \in Upto(n) : x < s[n + 1]
    BY <1>2, <1>4 DEF Increasing
  <2>5. SubSeq(s, 1, n + 1) = Append(SubSeq(s, 1, n), s[n + 1])
    BY <1>4
  <2>6. CASE s[n + 1] \in hidden
    BY <1>4, <2>1, <2>2, <2>3, <2>6
  <2>7. CASE s[n + 1] \notin hidden
    <3>. HIDE DEF Upto
    <3>1. f[n + 1] \in Seq(S) /\ ToSet(f[n + 1]) = ToSet(f[n]) \union {s[n + 1]}
      BY <1>4, <2>1, <2>2, <2>7, AppendElements
    <3>2. Increasing(s) => Increasing(f[n + 1])
      BY <1>4, <2>1, <2>2, <2>4, <2>7, AppendIncreasing
    <3>3. hidden \intersect ToSet(s) = {} => f[n + 1] = SubSeq(s, 1, n + 1)
      BY <1>4, <2>2, <2>5, <2>7
    <3>. QED BY <1>4, <2>3, <2>7, <3>1, <3>2, <3>3
  <2>. QED BY <2>6, <2>7
<1>5. Good(Len(s))
  <2>1. 0 \in P
    BY <1>3
  <2>. HIDE DEF Good
  <2>2. ASSUME NEW n \in Nat, n \in P PROVE n + 1 \in P
    BY <1>2, <1>4, <2>2
  <2>3. \A n \in Nat : n \in P
    <3>. HIDE DEF P
    <3>. QED BY <2>1, <2>2, Induction
  <2>. QED BY <1>2, <2>3
<1>6. Upto(Len(s)) = ToSet(s) /\ SubSeq(s, 1, Len(s)) = s
  BY <1>2 DEF ToSet
<1>. QED BY <1>1, <1>5, <1>6

LEMMA MinProperties ==
  ASSUME NEW a \in Int, NEW b \in Int, NEW c \in Int
  PROVE  /\ Min({a, b, c}) \in {a, b, c}
         /\ Min({a, b, c}) <= a /\ Min({a, b, c}) <= b /\ Min({a, b, c}) <= c
<1>1. \E x \in {a, b, c} : \A y \in {a, b, c} : x <= y
  OBVIOUS
<1>. QED BY <1>1 DEF Min

\* t is s with e at position i.
Inserted(t, s, i, e) ==
  /\ Len(t) = Len(s) + 1
  /\ \A j \in 1 .. Len(s) + 1 : t[j] = IF j < i THEN s[j] ELSE IF j = i THEN e ELSE s[j - 1]

LEMMA InsertAtProperties ==
  ASSUME NEW S, NEW s \in Seq(S), NEW e \in S, NEW i \in 1 .. Len(s) + 1
  PROVE  InsertAt(s, i, e) \in Seq(S) /\ Inserted(InsertAt(s, i, e), s, i, e)
<1>1. Len(s) \in Nat /\ \A j \in 1 .. Len(s) : s[j] \in S
  OBVIOUS
<1>2. PICK a : a = SubSeq(s, 1, i - 1)
  OBVIOUS
<1>3. PICK b : b = SubSeq(s, i, Len(s))
  OBVIOUS
<1>4. a \in Seq(S) /\ Len(a) = i - 1 /\ \A j \in 1 .. i - 1 : a[j] = s[j]
  BY <1>1, <1>2
<1>5. b \in Seq(S) /\ Len(b) = Len(s) - i + 1 /\ \A j \in 1 .. Len(s) - i + 1 : b[j] = s[i + j - 1]
  BY <1>1, <1>3
<1>6. PICK ab : ab = a \o <<e>>
  OBVIOUS
<1>7. ab \in Seq(S) /\ Len(ab) = i /\ ab[i] = e /\ \A j \in 1 .. i - 1 : ab[j] = s[j]
  BY <1>4, <1>6
<1>8. InsertAt(s, i, e) = ab \o b
  BY <1>2, <1>3, <1>6 DEF InsertAt
<1>9. /\ ab \o b \in Seq(S) /\ Len(ab \o b) = Len(s) + 1
      /\ \A j \in 1 .. i : (ab \o b)[j] = ab[j]
      /\ \A j \in i + 1 .. Len(s) + 1 : (ab \o b)[j] = b[j - i]
  BY <1>1, <1>5, <1>7
<1>10. Inserted(ab \o b, s, i, e)
  BY <1>1, <1>5, <1>7, <1>9 DEF Inserted
<1>. QED BY <1>8, <1>9, <1>10

LEMMA RemoveAtProperties ==
  ASSUME NEW S, NEW s \in Seq(S), NEW i \in 1 .. Len(s)
  PROVE  /\ RemoveAt(s, i) \in Seq(S)
         /\ Len(RemoveAt(s, i)) = Len(s) - 1
         /\ \A j \in 1 .. Len(s) - 1 : RemoveAt(s, i)[j] = IF j < i THEN s[j] ELSE s[j + 1]
<1>1. Len(s) \in Nat /\ \A j \in 1 .. Len(s) : s[j] \in S
  OBVIOUS
<1>2. PICK a : a = SubSeq(s, 1, i - 1)
  OBVIOUS
<1>3. PICK b : b = SubSeq(s, i + 1, Len(s))
  OBVIOUS
<1>4. a \in Seq(S) /\ Len(a) = i - 1 /\ \A j \in 1 .. i - 1 : a[j] = s[j]
  BY <1>1, <1>2
<1>5. b \in Seq(S) /\ Len(b) = Len(s) - i /\ \A j \in 1 .. Len(s) - i : b[j] = s[i + j]
  BY <1>1, <1>3
<1>6. RemoveAt(s, i) = a \o b
  BY <1>2, <1>3 DEF RemoveAt
<1>7. /\ a \o b \in Seq(S) /\ Len(a \o b) = Len(s) - 1
      /\ \A j \in 1 .. i - 1 : (a \o b)[j] = a[j]
      /\ \A j \in i .. Len(s) - 1 : (a \o b)[j] = b[j - (i - 1)]
  BY <1>1, <1>4, <1>5
<1>8. ASSUME NEW j \in 1 .. Len(s) - 1
      PROVE  (a \o b)[j] = IF j < i THEN s[j] ELSE s[j + 1]
  <2>1. CASE j < i
    BY <1>1, <1>4, <1>7, <2>1
  <2>2. CASE j >= i
    <3>1. (a \o b)[j] = b[j - (i - 1)]
      BY <1>1, <1>7, <2>2
    <3>2. j - (i - 1) \in 1 .. Len(s) - i /\ i + (j - (i - 1)) = j + 1
      BY <1>1, <2>2
    <3>3. ~(j < i)
      BY <1>1, <2>2
    <3>. QED BY <1>5, <3>1, <3>2, <3>3
  <2>3. j < i \/ j >= i
    BY <1>1
  <2>. QED BY <2>1, <2>2, <2>3
<1>. QED BY <1>6, <1>7, <1>8

-----------------------------------------------------------------------------
(* The inductive invariant: types, and where the listing is.               *)

\* Positions of the collection before that of the next request, and positions
\* that were asked for.
Position == offset - FirstIndex
Reach == IF pc = "yielding" THEN Position + page_size ELSE Position

CountInv ==
  /\ listing \in Listings
  /\ Position \in Nat
  /\ pc \in {"fetching", "yielding"} => Reach = fetched * page_size
  /\ pc \in {"fetching", "yielding"} => empties < EmptyLimit
  /\ pc = "fetching" => page = <<>>

TypeInv == TypeOK /\ CountInv

LEMMA Bounds ==
  ASSUME TypeInv
  PROVE  /\ page_size \in Nat \ {0} /\ FirstIndex \in {0, 1} /\ EmptyLimit \in {1, 2}
         /\ listing.rows \in Nat /\ listing.changes \in Nat /\ listing.cap \in Nat \ {0}
         /\ max_items \in Nat /\ Rows \subseteq Int /\ Rows \in SUBSET Int
         /\ Position \in Nat /\ offset \in Nat /\ fetched \in Nat /\ MaxPages \in Nat \ {0}
<1>1. listing \in ListingRecords /\ Position \in Nat /\ offset \in Nat /\ fetched \in 0 .. MaxPages
  BY DEF TypeInv, CountInv, TypeOK
<1>2. /\ page_size \in Nat \ {0} /\ listing.rows \in Nat /\ listing.changes \in Nat
      /\ listing.cap \in Nat \ {0} /\ max_items \in Nat
  BY <1>1 DEF ListingRecords, page_size, max_items
<1>3. FirstIndex \in {0, 1} /\ EmptyLimit \in {1, 2}
  BY DEF FirstIndex, EmptyLimit
<1>4. Rows \subseteq Int
  BY DEF Rows
<1>. QED BY <1>1, <1>2, <1>3, <1>4, PagesAssumption

LEMMA ServedProperties ==
  ASSUME TypeInv
  PROVE  LET start == IF server = "stuck" THEN 0 ELSE Position
             end == Min({start + page_size, start + listing.cap, Len(collection)})
         IN  /\ Served \in Seq(Rows)
             /\ ToSet(Served) = {collection[i] : i \in start + 1 .. end}
             /\ Increasing(collection) => Increasing(Served)
<1>. DEFINE start == IF server = "stuck" THEN 0 ELSE Position
            end == Min({start + page_size, start + listing.cap, Len(collection)})
<1>1. collection \in Seq(Rows) /\ Len(collection) \in Nat /\ DOMAIN collection = 1 .. Len(collection)
  BY DEF TypeInv, TypeOK
<1>2. start \in Nat
  BY Bounds
<1>3. end \in Int /\ end <= Len(collection)
  <2>1. start + page_size \in Int /\ start + listing.cap \in Int /\ Len(collection) \in Int
    BY <1>1, <1>2, Bounds
  <2>. HIDE DEF start
  <2>. QED BY <2>1, MinProperties
<1>4. Served = SubSeq(collection, start + 1, end)
  BY DEF Served, Position
<1>. HIDE DEF start, end
<1>5. \A i \in start + 1 .. end : i \in 1 .. Len(collection) /\ collection[i] \in Rows
  BY <1>1, <1>2, <1>3
<1>6. /\ Served \in Seq(Rows)
      /\ Len(Served) = IF start + 1 <= end THEN end - (start + 1) + 1 ELSE 0
      /\ \A i \in 1 .. end - (start + 1) + 1 : Served[i] = collection[(start + 1) + i - 1]
  BY <1>2, <1>3, <1>4, <1>5, SubSeqProperties
<1>7. /\ DOMAIN Served = 1 .. end - start
      /\ \A i \in 1 .. end - start : Served[i] = collection[start + i]
  BY <1>2, <1>3, <1>6
<1>8. ToSet(Served) = {collection[i] : i \in start + 1 .. end}
  <2>1. \A i \in 1 .. end - start : start + i \in start + 1 .. end
    BY <1>2, <1>3
  <2>2. \A i \in start + 1 .. end : i - start \in 1 .. end - start /\ start + (i - start) = i
    BY <1>2, <1>3
  <2>3. ToSet(Served) \subseteq {collection[i] : i \in start + 1 .. end}
    BY <1>7, <2>1 DEF ToSet
  <2>4. ASSUME NEW i \in start + 1 .. end PROVE collection[i] \in ToSet(Served)
    <3>1. collection[i] = Served[i - start]
      BY <1>7, <2>2
    <3>. QED BY <1>7, <2>2, <3>1 DEF ToSet
  <2>. QED BY <2>3, <2>4
<1>9. ASSUME Increasing(collection), NEW i \in DOMAIN Served, NEW j \in DOMAIN Served, i < j
      PROVE  Served[i] < Served[j]
  <2>1. start + i \in 1 .. Len(collection) /\ start + j \in 1 .. Len(collection) /\ start + i < start + j
    BY <1>2, <1>3, <1>7, <1>9
  <2>. QED BY <1>1, <1>7, <1>9, <2>1 DEF Increasing
<1>10. Increasing(collection) => Increasing(Served)
  BY <1>9 DEF Increasing
<1>. QED BY <1>6, <1>8, <1>10 DEF start, end

LEMMA ItemsProperties ==
  ASSUME TypeInv
  PROVE  /\ Items \in Seq(Rows)
         /\ ToSet(Items) \subseteq ToSet(Served) \ hidden
         /\ RowsFound => ToSet(Items) = ToSet(Served) \ hidden
         /\ RowsFound /\ hidden = {} => Items = Served
         /\ Increasing(collection) => Increasing(Items)
<1>1. /\ Visible(Served) \in Seq(Rows)
      /\ ToSet(Visible(Served)) = ToSet(Served) \ hidden
      /\ Increasing(Served) => Increasing(Visible(Served))
      /\ hidden \intersect ToSet(Served) = {} => Visible(Served) = Served
  BY Bounds, ServedProperties, VisibleProperties
<1>2. Increasing(collection) => Increasing(Served)
  BY ServedProperties
<1>3. CASE RowsFound
  BY <1>1, <1>2, <1>3 DEF Items
<1>4. CASE ~RowsFound
  BY <1>4 DEF Items, ToSet, Increasing
<1>. QED BY <1>3, <1>4

-----------------------------------------------------------------------------
(* Types, and where the listing is.                                        *)

LEMMA InitTypes == Init => TypeInv
<1>. SUFFICES ASSUME Init PROVE TypeInv
  OBVIOUS
<1>1. listing \in ListingRecords /\ listing \in Listings
  BY ListingsAssumption DEF Init
<1>2. listing.rows \in Nat /\ listing.changes \in Nat /\ page_size \in Nat \ {0}
  BY <1>1 DEF ListingRecords, page_size
<1>3. 1 .. listing.rows \subseteq Rows
  BY <1>2 DEF Rows
<1>4. collection \in Seq(Rows) /\ ToSet(collection) \subseteq Rows
  BY <1>2, <1>3 DEF Init, ToSet
<1>5. FirstIndex \in {0, 1} /\ EmptyLimit \in {1, 2}
  BY DEF FirstIndex, EmptyLimit
<1>6. TypeOK
  BY <1>1, <1>4, <1>5, PagesAssumption DEF Init, TypeOK
<1>7. CountInv
  BY <1>1, <1>2, <1>5 DEF Init, CountInv, Position, Reach
<1>. QED BY <1>6, <1>7 DEF TypeInv

\* Definitions that only depend on what never changes.
LEMMA Constants ==
  ASSUME UNCHANGED arguments
  PROVE  /\ page_size' = page_size /\ max_items' = max_items /\ paginator' = paginator
         /\ FirstIndex' = FirstIndex /\ EmptyLimit' = EmptyLimit /\ Rows' = Rows
         /\ RowsFound' = RowsFound /\ listing' = listing /\ server' = server /\ hidden' = hidden
BY DEF arguments, page_size, max_items, paginator, FirstIndex, EmptyLimit, Rows, RowsFound

LEMMA IterateKeepsTypes == ASSUME TypeInv, Iterate PROVE TypeInv'
<1>. USE DEF TypeInv
<1>1. UNCHANGED arguments /\ UNCHANGED environment
  BY DEF Iterate, Proceed, FetchRaises, FetchUndecodable, RaiseInFetch, FetchPage,
     FetchEmptyPage, PagesExhausted, Yield, PageDone
<1>2. /\ listing' = listing /\ page_size' = page_size /\ FirstIndex' = FirstIndex
      /\ EmptyLimit' = EmptyLimit /\ Rows' = Rows /\ max_items' = max_items
      /\ UNCHANGED <<server, hidden, collection, inserted, deleted>>
  BY <1>1, Constants DEF environment
<1>3. CASE FetchRaises \/ FetchUndecodable
  <2>1. /\ pc' = "raised" /\ fetched' = fetched + 1 /\ fetched < MaxPages
        /\ UNCHANGED <<offset, empties, page, total, results>>
    BY <1>3 DEF FetchRaises, FetchUndecodable, RaiseInFetch
  <2>2. TypeOK'
    BY <1>2, <2>1, Bounds DEF TypeOK
  <2>3. CountInv'
    BY <1>2, <2>1 DEF CountInv, Position, Reach
  <2>. QED BY <2>2, <2>3
<1>4. CASE FetchPage
  <2>1. /\ pc = "fetching" /\ pc' = "yielding" /\ fetched' = fetched + 1 /\ fetched < MaxPages
        /\ empties' = 0 /\ page' = Items /\ UNCHANGED <<offset, results>>
    BY <1>4 DEF FetchPage
  <2>2. total' \subseteq Nat
    BY <1>4 DEF FetchPage, TypeOK
  <2>3. TypeOK'
    BY <1>2, <2>1, <2>2, Bounds, ItemsProperties DEF TypeOK
  <2>4. (fetched + 1) * page_size = fetched * page_size + page_size
    BY Bounds
  <2>5. Reach' = Reach + page_size /\ Position' = Position
    BY <1>2, <2>1 DEF Reach, Position
  <2>6. empties' < EmptyLimit'
    BY <1>2, <2>1, Bounds
  <2>7. CountInv'
    BY <1>2, <2>1, <2>4, <2>5, <2>6 DEF CountInv, Reach
  <2>. QED BY <2>3, <2>7
<1>5. CASE FetchEmptyPage
  <2>1. /\ pc = "fetching" /\ fetched' = fetched + 1 /\ fetched < MaxPages
        /\ empties' = empties + 1 /\ UNCHANGED <<page, total, results>>
    BY <1>5 DEF FetchEmptyPage
  <2>2. empties < EmptyLimit
    BY <2>1 DEF CountInv
  <2>3. CASE Tolerates
    <3>1. offset' = offset + page_size /\ pc' = pc
      BY <1>5, <2>3 DEF FetchEmptyPage, Advance
    <3>2. empties' \in 0 .. 2 /\ fetched' \in 0 .. MaxPages /\ offset' \in Nat
      BY <2>1, <2>2, <3>1, Bounds, SMTT(30) DEF TypeOK
    <3>9. TypeOK'
      BY <1>2, <2>1, <3>1, <3>2 DEF TypeOK
    <3>3. (fetched + 1) * page_size = fetched * page_size + page_size
      BY Bounds
    <3>4. Position' = Position + page_size /\ Reach = Position /\ Reach' = Position'
      BY <1>2, <2>1, <3>1, Bounds DEF Position, Reach
    <3>5. Position' \in Nat
      BY <3>4, Bounds
    <3>6. Reach' = fetched' * page_size'
      BY <1>2, <2>1, <3>3, <3>4 DEF CountInv
    <3>7. page' = <<>> /\ empties' < EmptyLimit'
      BY <1>2, <2>1, <2>3 DEF CountInv, Tolerates
    <3>8. CountInv'
      BY <1>2, <3>5, <3>6, <3>7 DEF CountInv
    <3>. QED BY <3>8, <3>9
  <2>4. CASE ~Tolerates
    <3>1. offset' = offset /\ pc' = "ended"
      BY <1>5, <2>4 DEF FetchEmptyPage
    <3>2. TypeOK'
      BY <1>2, <2>1, <2>2, <3>1, Bounds, SMTT(30) DEF TypeOK
    <3>3. CountInv'
      BY <1>2, <3>1 DEF CountInv, Position
    <3>. QED BY <3>2, <3>3
  <2>. QED BY <2>3, <2>4
<1>6. CASE PagesExhausted
  <2>1. pc' = "ended" /\ UNCHANGED <<offset, empties, fetched, page, total, results>>
    BY <1>6 DEF PagesExhausted
  <2>. QED BY <1>2, <2>1 DEF TypeOK, CountInv, Position
<1>7. CASE Yield
  <2>1. /\ pc = "yielding" /\ page # <<>> /\ results' = Append(results, Head(page))
        /\ page' = Tail(page) /\ UNCHANGED <<offset, empties, fetched, total>>
    BY <1>7 DEF Yield
  <2>2. pc' \in {"yielding", "ended"}
    BY <1>7 DEF Yield
  <2>3. page' \in Seq(Rows) /\ results' \in Seq(Rows)
    BY <2>1 DEF TypeOK
  <2>4. TypeOK'
    BY <1>2, <2>1, <2>2, <2>3 DEF TypeOK
  <2>5. CountInv'
    BY <1>2, <2>1, <2>2 DEF CountInv, Position, Reach
  <2>. QED BY <2>4, <2>5
<1>8. CASE PageDone
  <2>1. pc = "yielding" /\ page = <<>> /\ UNCHANGED <<empties, fetched, page, total, results>>
    BY <1>8 DEF PageDone
  <2>2. CASE IsLast
    <3>1. pc' = "ended" /\ offset' = offset
      BY <1>8, <2>2 DEF PageDone
    <3>. QED BY <1>2, <2>1, <3>1 DEF TypeOK, CountInv, Position
  <2>3. CASE ~IsLast
    <3>1. pc' = "fetching" /\ offset' = offset + page_size
      BY <1>8, <2>3 DEF PageDone, Advance
    <3>2. TypeOK'
      BY <1>2, <2>1, <3>1, Bounds, SMTT(30) DEF TypeOK
    <3>3. Position' = Position + page_size /\ Reach' = Reach
      BY <1>2, <2>1, <3>1, Bounds DEF Position, Reach
    <3>4. Position' \in Nat
      BY <3>3, Bounds
    <3>5. Reach' = fetched' * page_size'
      BY <1>2, <2>1, <3>3 DEF CountInv
    <3>6. page' = <<>> /\ empties' < EmptyLimit'
      BY <1>2, <2>1 DEF CountInv
    <3>7. CountInv'
      BY <1>2, <3>4, <3>5, <3>6 DEF CountInv
    <3>. QED BY <3>2, <3>7
  <2>. QED BY <2>2, <2>3
<1>. QED BY <1>3, <1>4, <1>5, <1>6, <1>7, <1>8 DEF Iterate, Proceed

LEMMA FiniteHistory ==
  ASSUME TypeInv
  PROVE  Cardinality(inserted) \in Nat /\ Cardinality(deleted) \in Nat
<1>1. IsFiniteSet(Rows)
  <2>1. 1 \in Int /\ listing.rows + listing.changes \in Int
    BY Bounds
  <2>. QED BY <2>1, FS_Interval DEF Rows
<1>2. inserted \subseteq Rows /\ deleted \subseteq Rows
  BY DEF TypeInv, TypeOK
<1>. QED BY <1>1, <1>2, FS_Subset, FS_CardinalityType

\* An insertion: the collection has a new row at some position.
LEMMA InsertStep ==
  ASSUME TypeInv, Insert
  PROVE  \E row \in Rows, k \in 1 .. Len(collection) + 1 :
           /\ collection' \in Seq(Rows) /\ Len(collection') = Len(collection) + 1
           /\ \A j \in 1 .. Len(collection) + 1 :
                collection'[j] = IF j < k THEN collection[j]
                                 ELSE IF j = k THEN row ELSE collection[j - 1]
           /\ inserted' = inserted \union {row}
           /\ UNCHANGED <<arguments, generator, deleted>>
<1>1. PICK row \in Rows : row = listing.rows + Cardinality(inserted) + 1
  BY Bounds, FiniteHistory, SMTT(30) DEF Insert, Changes, Rows
<1>2. PICK k \in 1 .. Len(collection) + 1 : collection' = InsertAt(collection, k, row)
  BY <1>1 DEF Insert
<1>3. collection \in Seq(Rows)
  BY DEF TypeInv, TypeOK
<1>4. inserted' = inserted \union {row} /\ UNCHANGED <<arguments, generator, deleted>>
  BY <1>1 DEF Insert
<1>5. collection' \in Seq(Rows) /\ Inserted(collection', collection, k, row)
  BY <1>2, <1>3, InsertAtProperties
<1>. QED BY <1>4, <1>5 DEF Inserted

\* A deletion: the rows behind a position have moved up.
LEMMA DeleteStep ==
  ASSUME TypeInv, Delete
  PROVE  \E k \in 1 .. Len(collection) :
           /\ collection' \in Seq(Rows) /\ Len(collection') = Len(collection) - 1
           /\ \A j \in 1 .. Len(collection) - 1 :
                collection'[j] = IF j < k THEN collection[j] ELSE collection[j + 1]
           /\ deleted' = deleted \union {collection[k]}
           /\ UNCHANGED <<arguments, generator, inserted>>
<1>1. collection \in Seq(Rows)
  BY DEF TypeInv, TypeOK
<1>2. PICK k \in 1 .. Len(collection) :
        collection' = RemoveAt(collection, k) /\ deleted' = deleted \union {collection[k]}
  BY DEF Delete
<1>3. UNCHANGED <<arguments, generator, inserted>>
  BY DEF Delete
<1>4. /\ collection' \in Seq(Rows) /\ Len(collection') = Len(collection) - 1
      /\ \A j \in 1 .. Len(collection) - 1 :
           collection'[j] = IF j < k THEN collection[j] ELSE collection[j + 1]
  BY <1>1, <1>2, RemoveAtProperties
<1>. QED BY <1>2, <1>3, <1>4

LEMMA ChangesKeepTypes == ASSUME TypeInv, Insert \/ Delete PROVE TypeInv'
<1>1. /\ collection' \in Seq(Rows) /\ inserted' \subseteq Rows /\ deleted' \subseteq Rows
      /\ UNCHANGED <<arguments, generator>>
  <2>1. CASE Insert
    BY <2>1, InsertStep DEF TypeInv, TypeOK
  <2>2. CASE Delete
    BY <2>2, DeleteStep DEF TypeInv, TypeOK
  <2>. QED BY <2>1, <2>2
<1>2. /\ listing' = listing /\ page_size' = page_size /\ FirstIndex' = FirstIndex
      /\ EmptyLimit' = EmptyLimit /\ Rows' = Rows /\ server' = server /\ hidden' = hidden
  BY <1>1, Constants
<1>3. UNCHANGED <<pc, offset, empties, fetched, page, total, results>>
  BY <1>1 DEF generator
<1>4. TypeOK'
  BY <1>1, <1>2, <1>3 DEF TypeInv, TypeOK
<1>5. CountInv'
  BY <1>2, <1>3 DEF TypeInv, CountInv, Position, Reach
<1>. QED BY <1>4, <1>5 DEF TypeInv

LEMMA StepTypes == ASSUME TypeInv, [Next]_vars PROVE TypeInv'
<1>1. CASE UNCHANGED vars
  <2>1. UNCHANGED arguments /\ UNCHANGED generator /\ UNCHANGED environment
    BY <1>1 DEF vars
  <2>2. /\ listing' = listing /\ page_size' = page_size /\ FirstIndex' = FirstIndex
        /\ EmptyLimit' = EmptyLimit /\ Rows' = Rows /\ server' = server /\ hidden' = hidden
    BY <2>1, Constants
  <2>. QED BY <2>1, <2>2 DEF generator, environment, TypeInv, TypeOK, CountInv, Position, Reach
<1>. QED BY <1>1, IterateKeepsTypes, ChangesKeepTypes DEF Next

LEMMA TypesAlways == Spec => []TypeInv
BY InitTypes, StepTypes, PTL DEF Spec

\* The variables hold what they are meant to hold.
THEOREM TypeCorrect == Spec => []TypeOK
<1>1. TypeInv => TypeOK
  BY DEF TypeInv
<1>. QED BY <1>1, TypesAlways, PTL

\* A page in order, without its first row.
LEMMA HeadTailIncreasing ==
  ASSUME NEW S \in SUBSET Int, NEW s \in Seq(S), s # <<>>
  PROVE  /\ Head(s) \in S /\ Tail(s) \in Seq(S) /\ Len(Tail(s)) = Len(s) - 1
         /\ ToSet(s) = {Head(s)} \union ToSet(Tail(s))
         /\ Increasing(s) => Increasing(Tail(s)) /\ \A x \in ToSet(Tail(s)) : Head(s) < x
<1>1. /\ Len(s) \in Nat \ {0} /\ DOMAIN s = 1 .. Len(s) /\ Head(s) = s[1] /\ Head(s) \in S
      /\ Tail(s) \in Seq(S) /\ Len(Tail(s)) = Len(s) - 1 /\ DOMAIN Tail(s) = 1 .. Len(s) - 1
      /\ \A i \in 1 .. Len(s) - 1 : Tail(s)[i] = s[i + 1]
  OBVIOUS
<1>2. ASSUME NEW i \in 1 .. Len(s) - 1 PROVE Tail(s)[i] \in ToSet(s)
  <2>1. i + 1 \in DOMAIN s
    BY <1>1
  <2>. QED BY <1>1, <2>1 DEF ToSet
<1>3. ASSUME NEW i \in 1 .. Len(s), i # 1 PROVE s[i] \in ToSet(Tail(s))
  <2>1. i - 1 \in 1 .. Len(s) - 1 /\ (i - 1) + 1 = i
    BY <1>1, <1>3
  <2>. QED BY <1>1, <2>1 DEF ToSet
<1>4. ToSet(s) = {Head(s)} \union ToSet(Tail(s))
  <2>1. ToSet(s) \subseteq {Head(s)} \union ToSet(Tail(s))
    BY <1>1, <1>3 DEF ToSet
  <2>2. ToSet(Tail(s)) \subseteq ToSet(s)
    BY <1>1, <1>2 DEF ToSet
  <2>3. Head(s) \in ToSet(s)
    BY <1>1 DEF ToSet
  <2>. QED BY <2>1, <2>2, <2>3
<1>5. ASSUME Increasing(s), NEW i \in 1 .. Len(s) - 1
      PROVE  Head(s) < Tail(s)[i]
  <2>1. 1 \in DOMAIN s /\ i + 1 \in DOMAIN s /\ 1 < i + 1
    BY <1>1
  <2>. QED BY <1>1, <1>5, <2>1 DEF Increasing
<1>6. ASSUME Increasing(s), NEW i \in 1 .. Len(s) - 1, NEW j \in 1 .. Len(s) - 1, i < j
      PROVE  Tail(s)[i] < Tail(s)[j]
  <2>1. i + 1 \in DOMAIN s /\ j + 1 \in DOMAIN s /\ i + 1 < j + 1
    BY <1>1, <1>6
  <2>. QED BY <1>1, <1>6, <2>1 DEF Increasing
<1>7. Increasing(s) => Increasing(Tail(s))
  BY <1>1, <1>6 DEF Increasing
<1>8. Increasing(s) => \A x \in ToSet(Tail(s)) : Head(s) < x
  BY <1>1, <1>5 DEF ToSet
<1>. QED BY <1>1, <1>4, <1>7, <1>8

\* The arguments stay, and changes are not forgotten.
LEMMA StepHistory ==
  ASSUME Next
  PROVE  UNCHANGED arguments /\ inserted \subseteq inserted' /\ deleted \subseteq deleted'
BY DEF Next, Iterate, Proceed, FetchRaises, FetchUndecodable, RaiseInFetch, FetchPage,
   FetchEmptyPage, PagesExhausted, Yield, PageDone, Insert, Delete, environment

\* A step of the generator leaves the collection alone.
LEMMA IterateEnvironment ==
  ASSUME Iterate
  PROVE  /\ UNCHANGED <<collection, inserted, deleted>>
         /\ page_size' = page_size /\ max_items' = max_items /\ FirstIndex' = FirstIndex
         /\ EmptyLimit' = EmptyLimit /\ RowsFound' = RowsFound
         /\ UNCHANGED <<listing, server, hidden>>
<1>1. UNCHANGED arguments /\ UNCHANGED environment
  BY DEF Iterate, Proceed, FetchRaises, FetchUndecodable, RaiseInFetch, FetchPage,
     FetchEmptyPage, PagesExhausted, Yield, PageDone
<1>. QED BY <1>1, Constants DEF environment

\* How far the steps of the generator reach.
LEMMA ReachSteps ==
  ASSUME TypeInv
  PROVE  /\ pc \in {"fetching", "yielding"} => Reach \in Nat
         /\ FetchPage =>
              /\ pc = "fetching" /\ page = <<>> /\ pc' = "yielding" /\ Reach = Position
              /\ Reach' = Reach + page_size /\ page' = Items /\ results' = results
         /\ FetchEmptyPage =>
              /\ pc = "fetching" /\ page = <<>> /\ Items = <<>> /\ Reach = Position
              /\ pc' \in {"fetching", "ended"} /\ page' = page /\ results' = results
              /\ pc' = "fetching" => Reach' = Reach + page_size
         /\ Yield =>
              /\ pc = "yielding" /\ page # <<>> /\ pc' \in {"yielding", "ended"}
              /\ results' = Append(results, Head(page)) /\ page' = Tail(page)
              /\ pc' = "yielding" => Reach' = Reach
         /\ PageDone =>
              /\ pc = "yielding" /\ page = <<>> /\ pc' \in {"fetching", "ended"}
              /\ results' = results /\ page' = page
              /\ pc' = "fetching" => Reach' = Reach
<1>1. pc \in {"fetching", "yielding"} => Reach \in Nat
  BY Bounds DEF Reach
<1>2. pc = "fetching" => Reach = Position /\ page = <<>>
  BY DEF TypeInv, CountInv, Reach
<1>3. ASSUME FetchPage
      PROVE  /\ pc = "fetching" /\ pc' = "yielding" /\ Reach' = Reach + page_size
             /\ page' = Items /\ results' = results
  <2>1. pc = "fetching" /\ pc' = "yielding" /\ offset' = offset /\ page' = Items /\ results' = results
    BY <1>3 DEF FetchPage
  <2>2. page_size' = page_size /\ FirstIndex' = FirstIndex
    BY <1>3, IterateEnvironment DEF Iterate, Proceed
  <2>. QED BY <2>1, <2>2 DEF Reach, Position
<1>4. ASSUME FetchEmptyPage
      PROVE  /\ pc = "fetching" /\ Items = <<>> /\ pc' \in {"fetching", "ended"}
             /\ page' = page /\ results' = results
             /\ pc' = "fetching" => Reach' = Reach + page_size
  <2>1. page_size' = page_size /\ FirstIndex' = FirstIndex
    BY <1>4, IterateEnvironment DEF Iterate, Proceed
  <2>2. /\ pc = "fetching" /\ Items = <<>> /\ pc' \in {"fetching", "ended"}
        /\ page' = page /\ results' = results
        /\ pc' = "fetching" => offset' = offset + page_size
    BY <1>4 DEF FetchEmptyPage, Advance
  <2>3. pc' = "fetching" => Reach' = Reach + page_size
    BY <2>1, <2>2, Bounds DEF Reach, Position
  <2>. QED BY <2>2, <2>3
<1>5. ASSUME Yield
      PROVE  /\ pc = "yielding" /\ page # <<>> /\ pc' \in {"yielding", "ended"}
             /\ results' = Append(results, Head(page)) /\ page' = Tail(page)
             /\ pc' = "yielding" => Reach' = Reach
  <2>1. page_size' = page_size /\ FirstIndex' = FirstIndex
    BY <1>5, IterateEnvironment DEF Iterate, Proceed
  <2>. QED BY <1>5, <2>1 DEF Yield, Reach, Position
<1>6. ASSUME PageDone
      PROVE  /\ pc = "yielding" /\ page = <<>> /\ pc' \in {"fetching", "ended"}
             /\ results' = results /\ page' = page
             /\ pc' = "fetching" => Reach' = Reach
  <2>1. page_size' = page_size /\ FirstIndex' = FirstIndex
    BY <1>6, IterateEnvironment DEF Iterate, Proceed
  <2>2. /\ pc = "yielding" /\ page = <<>> /\ pc' \in {"fetching", "ended"}
        /\ results' = results /\ page' = page
        /\ pc' = "fetching" => offset' = offset + page_size
    BY <1>6 DEF PageDone, Advance
  <2>. QED BY <2>1, <2>2, Bounds DEF Reach, Position
<1>. QED BY <1>1, <1>2, <1>3, <1>4, <1>5, <1>6

-----------------------------------------------------------------------------
(* While other clients change the collection.                              *)

Active == pc \in {"fetching", "yielding"}

\* What the listing has taken from the server.
Taken == ToSet(results) \union ToSet(page)

\* Without insertions the rows stay in their order, and those that the listing
\* has not reached are all behind those it took.
OrderInv ==
  server # "stuck" /\ inserted = {} =>
    /\ Increasing(collection) /\ Increasing(results) /\ Increasing(page)
    /\ \A x \in ToSet(results), y \in ToSet(page) : x < y
    /\ Active => \A i \in DOMAIN collection : i > Reach => \A x \in Taken : x < collection[i]

\* Without deletions every row up to there was taken, or came later; and if there
\* are as many as a total announced, those are all.
FrontInv ==
  WholePages /\ hidden = {} /\ deleted = {} =>
    /\ Active => \A i \in DOMAIN collection :
                   i <= Reach => collection[i] \in inserted \union Taken
    /\ pc = "yielding" => \A n \in total :
                   Reach >= n => ToSet(collection) \subseteq inserted \union Taken
    /\ Complete => ToSet(collection) \subseteq inserted \union ToSet(results)

\* The rows served are those behind the listing's reach.
LEMMA ServedBehind ==
  ASSUME TypeInv, pc = "fetching", server # "stuck"
  PROVE  /\ Reach = Position
         /\ \A x \in ToSet(Served) :
              \E i \in DOMAIN collection : i > Reach /\ i <= Reach + page_size /\ x = collection[i]
<1>. DEFINE end == Min({Position + page_size, Position + listing.cap, Len(collection)})
<1>1. /\ collection \in Seq(Rows) /\ Len(collection) \in Nat
      /\ DOMAIN collection = 1 .. Len(collection) /\ Reach = Position
  BY DEF TypeInv, TypeOK, Reach
<1>2. ToSet(Served) = {collection[i] : i \in Position + 1 .. end}
  BY ServedProperties
<1>3. end \in Int /\ end <= Position + page_size /\ end <= Len(collection)
  <2>1. Position + page_size \in Int /\ Position + listing.cap \in Int /\ Len(collection) \in Int
    BY <1>1, Bounds
  <2>. QED BY <2>1, MinProperties
<1>. HIDE DEF end
<1>4. ASSUME NEW i \in Position + 1 .. end
      PROVE  i \in DOMAIN collection /\ i > Reach /\ i <= Reach + page_size
  <2>1. /\ Position \in Nat /\ page_size \in Nat /\ end \in Int /\ i \in Int
        /\ Position + 1 <= i /\ i <= end
    BY <1>3, Bounds
  <2>2. i <= Len(collection) /\ i <= Position + page_size /\ i > Position /\ i >= 1
    BY <1>1, <1>3, <2>1
  <2>. QED BY <1>1, <2>1, <2>2
<1>5. ASSUME NEW x \in ToSet(Served)
      PROVE  \E i \in DOMAIN collection : i > Reach /\ i <= Reach + page_size /\ x = collection[i]
  <2>1. PICK i \in Position + 1 .. end : x = collection[i]
    BY <1>2
  <2>. QED BY <1>4, <2>1
<1>. QED BY <1>1, <1>5

LEMMA OrderStep == ASSUME TypeInv, TypeInv', OrderInv, Next PROVE OrderInv'
<1>1. SUFFICES ASSUME server' # "stuck", inserted' = {}
      PROVE  /\ Increasing(collection') /\ Increasing(results') /\ Increasing(page')
             /\ \A x \in ToSet(results'), y \in ToSet(page') : x < y
             /\ Active' => \A i \in DOMAIN collection' :
                             i > Reach' => \A x \in Taken' : x < collection'[i]
  BY DEF OrderInv
<1>2. server # "stuck" /\ inserted = {}
  BY <1>1, StepHistory DEF arguments
<1>3. /\ Increasing(collection) /\ Increasing(results) /\ Increasing(page)
      /\ \A x \in ToSet(results), y \in ToSet(page) : x < y
      /\ Active => \A i \in DOMAIN collection : i > Reach => \A x \in Taken : x < collection[i]
  BY <1>2 DEF OrderInv
<1>4. /\ collection \in Seq(Rows) /\ results \in Seq(Rows) /\ page \in Seq(Rows)
      /\ Rows \in SUBSET Int /\ page_size \in Nat \ {0} /\ DOMAIN collection = 1 .. Len(collection)
      /\ Len(collection) \in Nat
  BY Bounds DEF TypeInv, TypeOK
<1>5. (\A i \in DOMAIN collection : collection[i] \in Int) /\ (\A x \in ToSet(results) : x \in Int)
  <2>1. Rows \subseteq Int /\ ToSet(results) \subseteq Rows
    BY <1>4 DEF ToSet
  <2>2. \A i \in 1 .. Len(collection) : collection[i] \in Rows
    BY <1>4
  <2>. QED BY <1>4, <2>1, <2>2
<1>6. CASE FetchRaises \/ FetchUndecodable \/ PagesExhausted
  <2>1. UNCHANGED <<collection, results, page>> /\ ~Active'
    BY <1>6 DEF FetchRaises, FetchUndecodable, PagesExhausted, RaiseInFetch, environment, Active
  <2>. QED BY <1>3, <2>1
<1>7. CASE FetchPage
  <2>1. /\ Active /\ page = <<>> /\ Reach' = Reach + page_size /\ page' = Items
        /\ results' = results /\ collection' = collection /\ Reach \in Nat /\ pc = "fetching"
    BY <1>7, ReachSteps, IterateEnvironment DEF Iterate, Proceed, Active
  <2>2. Increasing(page')
    BY <1>3, <2>1, ItemsProperties
  <2>3. \A x \in ToSet(page') :
          \E i \in DOMAIN collection : i > Reach /\ i <= Reach + page_size /\ x = collection[i]
    BY <1>2, <2>1, ItemsProperties, ServedBehind
  <2>4. \A x \in ToSet(results), y \in ToSet(page') : x < y
    BY <1>3, <2>1, <2>3 DEF Taken
  <2>5. ASSUME NEW i \in DOMAIN collection, i > Reach', NEW x \in ToSet(results) \union ToSet(page')
        PROVE  x < collection[i]
    <3>1. i > Reach
      BY <1>4, <2>1, <2>5
    <3>2. CASE x \in ToSet(results)
      BY <1>3, <2>1, <3>1, <3>2 DEF Taken
    <3>3. CASE x \in ToSet(page')
      <4>1. PICK j \in DOMAIN collection : j <= Reach + page_size /\ x = collection[j]
        BY <2>3, <3>3
      <4>2. j < i
        BY <1>4, <2>1, <2>5, <4>1
      <4>. QED BY <1>3, <4>1, <4>2 DEF Increasing
    <3>. QED BY <2>5, <3>2, <3>3
  <2>. QED BY <1>3, <2>1, <2>2, <2>4, <2>5 DEF Taken
<1>8. CASE FetchEmptyPage
  <2>1. /\ Active /\ page' = page /\ results' = results /\ collection' = collection /\ Reach \in Nat
        /\ Active' => Reach' = Reach + page_size
    BY <1>8, ReachSteps, IterateEnvironment DEF Iterate, Proceed, Active
  <2>2. Active' => \A i \in DOMAIN collection : i > Reach' => i > Reach
    BY <1>4, <2>1
  <2>. QED BY <1>3, <2>1, <2>2 DEF Taken
<1>9. CASE Yield
  <2>1. /\ Active /\ page # <<>> /\ results' = Append(results, Head(page)) /\ page' = Tail(page)
        /\ collection' = collection
        /\ Active' => Reach' = Reach
    BY <1>9, ReachSteps, IterateEnvironment DEF Iterate, Proceed, Active
  <2>2. /\ Head(page) \in Rows /\ Increasing(page')
        /\ ToSet(page) = {Head(page)} \union ToSet(page')
        /\ \A x \in ToSet(page') : Head(page) < x
    BY <1>3, <1>4, <2>1, HeadTailIncreasing
  <2>3. \A x \in ToSet(results) : x < Head(page)
    BY <1>3, <2>2
  <2>4. Increasing(results') /\ ToSet(results') = ToSet(results) \union {Head(page)}
    <3>1. PICK row : row = Head(page)
      OBVIOUS
    <3>2. row \in Rows /\ \A x \in ToSet(results) : x < row
      BY <2>2, <2>3, <3>1
    <3>3. Increasing(Append(results, row))
      BY <1>3, <1>4, <3>2, AppendIncreasing
    <3>4. ToSet(Append(results, row)) = ToSet(results) \union {row}
      BY <1>4, <3>2, AppendElements
    <3>. QED BY <2>1, <3>1, <3>3, <3>4
  <2>5. \A x \in ToSet(results'), y \in ToSet(page') : x < y
    BY <1>3, <2>2, <2>4
  <2>6. Taken' = Taken
    BY <2>2, <2>4 DEF Taken
  <2>. QED BY <1>3, <2>1, <2>2, <2>4, <2>5, <2>6
<1>10. CASE PageDone
  <2>1. /\ Active /\ page' = page /\ results' = results /\ collection' = collection
        /\ Active' => Reach' = Reach
    BY <1>10, ReachSteps, IterateEnvironment DEF Iterate, Proceed, Active
  <2>. QED BY <1>3, <2>1 DEF Taken
<1>11. CASE Insert
  BY <1>1, <1>11, InsertStep
<1>12. CASE Delete
  <2>1. PICK k \in 1 .. Len(collection) :
           /\ Len(collection') = Len(collection) - 1 /\ collection' \in Seq(Rows)
           /\ \A j \in 1 .. Len(collection) - 1 :
                collection'[j] = IF j < k THEN collection[j] ELSE collection[j + 1]
           /\ UNCHANGED <<arguments, generator>>
    BY <1>12, DeleteStep
  <2>2. /\ DOMAIN collection' = 1 .. Len(collection) - 1
        /\ UNCHANGED <<pc, offset, page, results>> /\ Active /\ Active' = Active
    BY <1>12, <2>1 DEF generator, Delete, Active
  <2>3. Reach' = Reach /\ Reach \in Nat
    BY <2>1, <2>2, Constants, ReachSteps DEF Reach, Position, Active
  <2>4. ASSUME NEW i \in DOMAIN collection'
        PROVE  \E m \in DOMAIN collection : /\ m >= i /\ collection'[i] = collection[m]
                                            /\ m = IF i < k THEN i ELSE i + 1
    <3>1. CASE i < k
      BY <1>4, <2>1, <2>2, <3>1
    <3>2. CASE ~(i < k)
      BY <1>4, <2>1, <2>2, <3>2
    <3>. QED BY <3>1, <3>2
  <2>5. ASSUME NEW i \in DOMAIN collection', NEW j \in DOMAIN collection', i < j
        PROVE  collection'[i] < collection'[j]
    <3>1. PICK m \in DOMAIN collection : collection'[i] = collection[m] /\ m = IF i < k THEN i ELSE i + 1
      BY <2>4
    <3>2. PICK n \in DOMAIN collection : collection'[j] = collection[n] /\ n = IF j < k THEN j ELSE j + 1
      BY <2>4
    <3>3. m < n
      BY <2>2, <2>5, <3>1, <3>2
    <3>. QED BY <1>3, <3>1, <3>2, <3>3 DEF Increasing
  <2>6. Increasing(collection')
    BY <2>5 DEF Increasing
  <2>7. ASSUME NEW i \in DOMAIN collection', i > Reach, NEW x \in Taken
        PROVE  x < collection'[i]
    <3>1. PICK m \in DOMAIN collection : m >= i /\ collection'[i] = collection[m]
      BY <2>4
    <3>2. m > Reach
      BY <1>4, <2>2, <2>3, <2>7, <3>1
    <3>. QED BY <1>3, <2>2, <2>7, <3>1, <3>2
  <2>8. Taken' = Taken
    BY <2>2 DEF Taken
  <2>. QED BY <1>3, <2>2, <2>3, <2>6, <2>7, <2>8
<1>. QED
  BY <1>6, <1>7, <1>8, <1>9, <1>10, <1>11, <1>12 DEF Next, Iterate, Proceed

LEMMA OrderAlways == Spec => []OrderInv
<1>1. Init => OrderInv
  <2>. SUFFICES ASSUME Init PROVE OrderInv
    OBVIOUS
  <2>1. collection = [i \in 1 .. listing.rows |-> i] /\ page = <<>> /\ results = <<>>
    BY DEF Init
  <2>2. listing.rows \in Nat
    BY ListingsAssumption DEF Init, ListingRecords
  <2>3. Increasing(collection)
    BY <2>1, <2>2 DEF Increasing
  <2>. QED BY <2>1, <2>3 DEF OrderInv, Increasing, ToSet, Taken
<1>2. TypeInv /\ TypeInv' /\ OrderInv /\ [Next]_vars => OrderInv'
  <2>1. ASSUME OrderInv, UNCHANGED vars PROVE OrderInv'
    <3>1. UNCHANGED arguments /\ UNCHANGED generator /\ UNCHANGED environment
      BY <2>1 DEF vars
    <3>2. Reach' = Reach /\ server' = server
      BY <3>1, Constants DEF generator, Reach, Position
    <3>. QED BY <2>1, <3>1, <3>2 DEF generator, environment, OrderInv, Active, Taken
  <2>. QED BY <2>1, OrderStep
<1>. QED BY <1>1, <1>2, TypesAlways, PTL DEF Spec

\* Whatever rows other clients delete during a listing, none is handed over twice
\* or out of order, as long as nobody inserts any.
THEOREM NothingTwice == Spec => []DeletionsRepeatNothing
<1>1. TypeInv /\ OrderInv => DeletionsRepeatNothing
  BY DEF OrderInv, DeletionsRepeatNothing, Increasing, TypeInv, TypeOK
<1>. QED BY <1>1, TypesAlways, OrderAlways, PTL

\* A page as long as it was asked for has all of the next rows.
LEMMA ServedFront ==
  ASSUME TypeInv, pc = "fetching", WholePages, hidden = {}
  PROVE  \A i \in DOMAIN collection :
           i > Reach /\ i <= Reach + page_size => collection[i] \in ToSet(Items)
<1>. DEFINE end == Min({Position + page_size, Position + listing.cap, Len(collection)})
<1>1. /\ collection \in Seq(Rows) /\ Len(collection) \in Nat
      /\ DOMAIN collection = 1 .. Len(collection) /\ Reach = Position
  BY DEF TypeInv, TypeOK, Reach
<1>2. ToSet(Items) = {collection[i] : i \in Position + 1 .. end}
  BY ServedProperties, ItemsProperties DEF WholePages
<1>3. end \in Int /\ end \in {Position + page_size, Position + listing.cap, Len(collection)}
  <2>1. Position + page_size \in Int /\ Position + listing.cap \in Int /\ Len(collection) \in Int
    BY <1>1, Bounds
  <2>. QED BY <2>1, MinProperties
<1>. HIDE DEF end
<1>4. ASSUME NEW i \in DOMAIN collection, i > Reach, i <= Reach + page_size
      PROVE  i \in Position + 1 .. end
  <2>1. i <= Position + page_size /\ i <= Position + listing.cap /\ i <= Len(collection)
    BY <1>1, <1>4, Bounds DEF WholePages
  <2>2. i <= end
    BY <1>3, <2>1
  <2>3. i \in Int /\ Position \in Int /\ i >= Position + 1
    BY <1>1, <1>4, Bounds
  <2>4. end \in Int
    BY <1>3
  <2>. QED BY <2>2, <2>3, <2>4
<1>. QED BY <1>2, <1>4

LEMMA FrontStep == ASSUME TypeInv, TypeInv', FrontInv, Next PROVE FrontInv'
<1>1. SUFFICES ASSUME WholePages', hidden' = {}, deleted' = {}
      PROVE  /\ Active' => \A i \in DOMAIN collection' :
                             i <= Reach' => collection'[i] \in inserted' \union Taken'
             /\ pc' = "yielding" => \A n \in total' :
                             Reach' >= n => ToSet(collection') \subseteq inserted' \union Taken'
             /\ Complete' => ToSet(collection') \subseteq inserted' \union ToSet(results')
  BY DEF FrontInv
<1>2. /\ page_size' = page_size /\ listing' = listing /\ max_items' = max_items
      /\ WholePages /\ hidden = {} /\ deleted = {}
  BY <1>1, StepHistory, Constants DEF WholePages
<1>3. /\ Active => \A i \in DOMAIN collection :
                     i <= Reach => collection[i] \in inserted \union Taken
      /\ pc = "yielding" => \A n \in total :
                     Reach >= n => ToSet(collection) \subseteq inserted \union Taken
  BY <1>2 DEF FrontInv
<1>4. /\ collection \in Seq(Rows) /\ results \in Seq(Rows) /\ page \in Seq(Rows)
      /\ Rows \in SUBSET Int /\ page_size \in Nat \ {0} /\ DOMAIN collection = 1 .. Len(collection)
      /\ Len(collection) \in Nat /\ total \subseteq Nat
      /\ ToSet(collection) = {collection[i] : i \in DOMAIN collection}
  BY Bounds, SMTT(30) DEF TypeInv, TypeOK, ToSet
<1>5. CASE FetchRaises \/ FetchUndecodable
  <2>1. pc' = "raised"
    BY <1>5 DEF FetchRaises, FetchUndecodable, RaiseInFetch
  <2>. QED BY <2>1 DEF Active, Complete
<1>6. CASE FetchPage
  <2>1. /\ Active /\ page = <<>> /\ Reach' = Reach + page_size /\ page' = Items /\ pc = "fetching"
        /\ results' = results /\ collection' = collection /\ inserted' = inserted /\ Reach \in Nat
        /\ pc' = "yielding"
    BY <1>6, ReachSteps, IterateEnvironment DEF Iterate, Proceed, Active
  <2>2. Taken = ToSet(results) /\ Taken' = ToSet(results) \union ToSet(Items)
    BY <2>1 DEF Taken, ToSet
  <2>3. ASSUME NEW i \in DOMAIN collection, i <= Reach'
        PROVE  collection[i] \in inserted \union Taken'
    <3>1. CASE i <= Reach
      BY <1>3, <2>1, <2>2, <3>1
    <3>2. CASE i > Reach
      BY <1>2, <2>1, <2>2, <2>3, <3>2, ServedFront
    <3>. QED BY <1>4, <2>1, <3>1, <3>2
  <2>4. total' \subseteq {Len(collection)}
    BY <1>6 DEF FetchPage
  <2>5. ASSUME Reach' >= Len(collection) PROVE ToSet(collection) \subseteq inserted \union Taken'
    <3>1. \A i \in DOMAIN collection : i <= Reach'
      BY <1>4, <2>1, <2>5
    <3>. QED BY <1>4, <2>3, <3>1
  <2>. QED BY <2>1, <2>3, <2>4, <2>5 DEF Complete
<1>7. CASE FetchEmptyPage
  <2>1. /\ Active /\ pc = "fetching" /\ page' = page /\ page = <<>> /\ results' = results
        /\ collection' = collection /\ inserted' = inserted /\ Reach \in Nat /\ Items = <<>>
        /\ pc' \in {"fetching", "ended"}
        /\ pc' = "fetching" => Reach' = Reach + page_size
    BY <1>7, ReachSteps, IterateEnvironment DEF Iterate, Proceed, Active
  <2>2. Taken = ToSet(results) /\ Taken' = ToSet(results)
    BY <2>1 DEF Taken, ToSet
  <2>3. Len(collection) <= Reach
    <3>1. ToSet(Items) = {}
      BY <2>1 DEF ToSet
    <3>2. Reach + 1 \notin DOMAIN collection
      <4>1. Reach + 1 > Reach /\ Reach + 1 <= Reach + page_size
        BY <1>4, <2>1
      <4>. QED BY <1>2, <2>1, <3>1, <4>1, ServedFront
    <3>. QED BY <1>4, <2>1, <3>2
  <2>4. \A i \in DOMAIN collection : collection[i] \in inserted \union Taken
    BY <1>3, <1>4, <2>1, <2>3
  <2>. QED BY <1>4, <2>1, <2>2, <2>4
<1>8. CASE PagesExhausted
  <2>1. /\ Active /\ pc = "fetching" /\ fetched = MaxPages /\ pc' = "ended" /\ results' = results
        /\ collection' = collection /\ inserted' = inserted
    BY <1>8, IterateEnvironment DEF PagesExhausted, Iterate, Proceed, Active
  <2>2. Taken = ToSet(results) /\ Reach = MaxPages * page_size /\ Reach \in Nat
    BY <2>1, ReachSteps DEF TypeInv, CountInv, Taken, ToSet
  <2>3. ASSUME Complete' PROVE ToSet(collection) \subseteq inserted \union ToSet(results)
    <3>1. Len(collection) <= Reach
      BY <1>2, <2>1, <2>2, <2>3 DEF Complete
    <3>2. \A i \in DOMAIN collection : i <= Reach
      BY <1>4, <2>2, <3>1
    <3>. QED BY <1>3, <1>4, <2>1, <2>2, <3>2
  <2>. QED BY <2>1, <2>3 DEF Active
<1>9. CASE Yield
  <2>1. /\ Active /\ pc = "yielding" /\ page # <<>> /\ results' = Append(results, Head(page))
        /\ page' = Tail(page) /\ pc' \in {"yielding", "ended"}
        /\ collection' = collection /\ inserted' = inserted /\ total' = total
        /\ pc' = "yielding" => Reach' = Reach
    BY <1>9, ReachSteps, IterateEnvironment DEF Iterate, Proceed, Active, Yield
  <2>2. Taken' = Taken
    <3>1. PICK row : row = Head(page)
      OBVIOUS
    <3>2. row \in Rows /\ ToSet(page) = {row} \union ToSet(page')
      BY <1>4, <2>1, <3>1, HeadTailIncreasing
    <3>3. ToSet(Append(results, row)) = ToSet(results) \union {row}
      BY <1>4, <3>2, AppendElements
    <3>. QED BY <2>1, <3>1, <3>2, <3>3 DEF Taken
  <2>3. ~Complete'
    <3>1. pc' = "ended" => Len(results') >= max_items
      BY <1>9, <2>1 DEF Yield
    <3>2. Len(results') \in Nat /\ max_items \in Nat
      BY Bounds DEF TypeInv, TypeOK
    <3>. QED BY <1>2, <3>1, <3>2 DEF Complete
  <2>. QED BY <1>3, <2>1, <2>2, <2>3 DEF Active
<1>10. CASE PageDone
  <2>1. /\ Active /\ pc = "yielding" /\ page = <<>> /\ page' = page /\ results' = results
        /\ collection' = collection /\ inserted' = inserted /\ pc' \in {"fetching", "ended"}
        /\ pc' = "fetching" => Reach' = Reach
    BY <1>10, ReachSteps, IterateEnvironment DEF Iterate, Proceed, Active
  <2>2. Taken' = Taken /\ Taken = ToSet(results)
    BY <2>1 DEF Taken, ToSet
  <2>3. ASSUME pc' = "ended" PROVE \E n \in total : Reach >= n
    <3>1. IsLast
      BY <1>10, <2>3 DEF PageDone
    <3>2. PICK n \in total :
            IF paginator = "scim" THEN offset + page_size > n ELSE offset + page_size >= n
      BY <3>1 DEF IsLast
    <3>3. Reach = offset - FirstIndex + page_size
      BY <2>1 DEF Reach, Position
    <3>. QED BY <1>4, <3>2, <3>3, Bounds DEF FirstIndex
  <2>4. pc' = "ended" => ToSet(collection) \subseteq inserted \union ToSet(results)
    BY <1>3, <2>1, <2>2, <2>3
  <2>5. CASE pc' = "ended"
    BY <2>1, <2>4, <2>5 DEF Active
  <2>6. CASE pc' = "fetching"
    BY <1>3, <2>1, <2>2, <2>6 DEF Active, Complete
  <2>. QED BY <2>1, <2>5, <2>6
<1>11. CASE Insert
  <2>1. PICK row \in Rows, k \in 1 .. Len(collection) + 1 :
           /\ collection' \in Seq(Rows) /\ Len(collection') = Len(collection) + 1
           /\ \A j \in 1 .. Len(collection) + 1 :
                collection'[j] = IF j < k THEN collection[j]
                                 ELSE IF j = k THEN row ELSE collection[j - 1]
           /\ inserted' = inserted \union {row}
           /\ UNCHANGED <<arguments, generator>>
    BY <1>11, InsertStep
  <2>2. /\ DOMAIN collection' = 1 .. Len(collection) + 1
        /\ ToSet(collection') = {collection'[j] : j \in 1 .. Len(collection) + 1}
        /\ UNCHANGED <<pc, offset, page, results, total>> /\ Active /\ pc \in {"fetching", "yielding"}
    BY <1>11, <2>1 DEF generator, Insert, Active, ToSet
  <2>3. Reach' = Reach /\ Reach \in Nat /\ Taken' = Taken
    BY <2>1, <2>2, Constants, ReachSteps DEF Reach, Position, Taken
  <2>4. ASSUME NEW j \in 1 .. Len(collection) + 1
        PROVE  \/ collection'[j] = row
               \/ \E i \in DOMAIN collection : i <= j /\ collection'[j] = collection[i]
    <3>1. CASE j < k
      BY <1>4, <2>1, <3>1
    <3>2. CASE j = k
      BY <2>1, <3>2
    <3>3. CASE j > k
      <4>1. j - 1 \in DOMAIN collection /\ j - 1 <= j /\ collection'[j] = collection[j - 1]
        BY <1>4, <2>1, <3>3
      <4>. QED BY <4>1
    <3>. QED BY <1>4, <3>1, <3>2, <3>3
  <2>5. ASSUME NEW j \in DOMAIN collection', j <= Reach
        PROVE  collection'[j] \in inserted' \union Taken
    <3>1. \A i \in DOMAIN collection : i <= j => i <= Reach
      BY <1>4, <2>2, <2>3, <2>5
    <3>. QED BY <1>3, <2>1, <2>2, <2>4, <3>1
  <2>6. ToSet(collection') \subseteq ToSet(collection) \union {row}
    BY <1>4, <2>2, <2>4
  <2>7. ~Complete'
    BY <2>2 DEF Complete
  <2>. QED BY <1>3, <2>1, <2>2, <2>3, <2>5, <2>6, <2>7
<1>12. CASE Delete
  <2>1. deleted' # {}
    BY <1>12, DeleteStep
  <2>. QED BY <1>1, <2>1
<1>. QED
  BY <1>5, <1>6, <1>7, <1>8, <1>9, <1>10, <1>11, <1>12 DEF Next, Iterate, Proceed

LEMMA FrontAlways == Spec => []FrontInv
<1>1. Init => FrontInv
  <2>. SUFFICES ASSUME Init PROVE FrontInv
    OBVIOUS
  <2>1. Reach = 0 /\ pc = "fetching"
    BY DEF Init, Reach, Position, FirstIndex
  <2>2. collection \in Seq(Rows)
    BY InitTypes DEF TypeInv, TypeOK
  <2>3. \A i \in DOMAIN collection : ~(i <= Reach)
    BY <2>1, <2>2
  <2>. QED BY <2>1, <2>3 DEF FrontInv, Complete
<1>2. TypeInv /\ TypeInv' /\ FrontInv /\ [Next]_vars => FrontInv'
  <2>1. ASSUME FrontInv, UNCHANGED vars PROVE FrontInv'
    <3>1. UNCHANGED arguments /\ UNCHANGED generator /\ UNCHANGED environment
      BY <2>1 DEF vars
    <3>2. /\ Reach' = Reach /\ Taken' = Taken /\ WholePages' = WholePages /\ hidden' = hidden
          /\ Complete' = Complete
      BY <3>1, Constants DEF generator, environment, Reach, Position, Taken, WholePages, Complete
    <3>. QED BY <2>1, <3>1, <3>2 DEF generator, environment, FrontInv, Active
  <2>. QED BY <2>1, FrontStep
<1>. QED BY <1>1, <1>2, TypesAlways, PTL DEF Spec

\* Whatever rows other clients insert during a listing, it ends with all that were
\* there at the start, as long as nobody deletes any.
THEOREM NothingHidden == Spec => []InsertionsHideNothing
<1>1. FrontInv => InsertionsHideNothing
  BY DEF FrontInv, InsertionsHideNothing
<1>. QED BY <1>1, FrontAlways, PTL

-----------------------------------------------------------------------------
(* A collection that nobody changes.                                       *)

Undisturbed == listing.changes = 0 /\ server # "stuck" /\ RowsFound

\* All that a listing may hand over.
AllShown == UNION {Shown(n) : n \in {k \in 0 .. MaxPages - 1 : ~EmptyRunBefore(k)}}

\* The pages so far were fetched for a reason, and what was shown on them was
\* taken; the last "empties" of them were empty, and the one before was not.
FetchedPages ==
  /\ Taken = UNION {Shown(n) : n \in 0 .. fetched - 1}
  /\ \A n \in 0 .. fetched - 1 : ~EmptyRunBefore(n)
  /\ empties <= fetched
  /\ \A n \in 0 .. fetched - 1 : n >= fetched - empties => Shown(n) = {}
  /\ \A n \in 0 .. fetched - 1 : n = fetched - empties - 1 => Shown(n) # {}
  /\ pc = "yielding" => empties = 0 /\ fetched > 0
  /\ results = <<>> \/ Len(results) < max_items

\* There is nothing more to fetch, or nothing more was wanted.
EndedPages ==
  /\ ToSet(results) \subseteq AllShown
  /\ \/ AllShown \subseteq ToSet(results)
     \/ results # <<>> /\ Len(results) >= max_items

PagesInv ==
  Undisturbed =>
    /\ inserted = {} /\ deleted = {} /\ total \subseteq {Len(collection)}
    /\ Active => FetchedPages
    /\ pc = "ended" => EndedPages

LEMMA TimesMonotone ==
  ASSUME NEW a \in Int, NEW b \in Int, a <= b, NEW c \in Nat
  PROVE  a * c <= b * c
<1>1. PICK d \in Nat : b = a + d
  <2>1. b - a \in Nat /\ b = a + (b - a)
    OBVIOUS
  <2>. QED BY <2>1
<1>2. b * c = a * c + d * c /\ d * c >= 0 /\ a * c \in Int /\ d * c \in Int
  BY <1>1
<1>. QED BY <1>2

\* The steps of a listing change nothing that is shown.
LEMMA ShownStays ==
  ASSUME UNCHANGED arguments, collection' = collection
  PROVE  /\ \A n \in Int : Shown(n)' = Shown(n)
         /\ \A n \in Int : EmptyRunBefore(n)' <=> EmptyRunBefore(n)
         /\ AllShown' = AllShown /\ Undisturbed' = Undisturbed
         /\ Regular' = Regular
<1>1. /\ page_size' = page_size /\ listing' = listing /\ hidden' = hidden
      /\ EmptyLimit' = EmptyLimit /\ RowsFound' = RowsFound /\ server' = server
      /\ max_items' = max_items
  BY Constants
<1>2. \A n \in Int : Shown(n)' = Shown(n)
  BY <1>1 DEF Shown
<1>3. EmptyLimit \in Int
  BY DEF EmptyLimit
<1>4. ASSUME NEW n \in Int PROVE EmptyRunBefore(n)' <=> EmptyRunBefore(n)
  <2>1. ASSUME NEW first \in 0 .. n - EmptyLimit
        PROVE  (\A k \in first .. first + EmptyLimit - 1 : Shown(k)' = {})
                 <=> (\A k \in first .. first + EmptyLimit - 1 : Shown(k) = {})
    <3>1. \A k \in first .. first + EmptyLimit - 1 : Shown(k)' = Shown(k)
      BY <1>2
    <3>. QED BY <3>1
  <2>2. EmptyRunBefore(n)' <=> \E first \in 0 .. n - EmptyLimit :
          \A k \in first .. first + EmptyLimit - 1 : Shown(k)' = {}
    BY <1>1 DEF EmptyRunBefore
  <2>3. EmptyRunBefore(n) <=> \E first \in 0 .. n - EmptyLimit :
          \A k \in first .. first + EmptyLimit - 1 : Shown(k) = {}
    BY DEF EmptyRunBefore
  <2>. QED BY <2>1, <2>2, <2>3
<1>5. AllShown' = AllShown
  <2>1. {k \in 0 .. MaxPages - 1 : ~EmptyRunBefore(k)'} = {k \in 0 .. MaxPages - 1 : ~EmptyRunBefore(k)}
    BY <1>4
  <2>2. {Shown(n)' : n \in {k \in 0 .. MaxPages - 1 : ~EmptyRunBefore(k)}}
          = {Shown(n) : n \in {k \in 0 .. MaxPages - 1 : ~EmptyRunBefore(k)}}
    BY <1>2
  <2>. QED BY <2>1, <2>2 DEF AllShown
<1>6. Undisturbed' = Undisturbed
  BY <1>1 DEF Undisturbed
<1>7. Regular' = Regular
  BY <1>1, <1>2, <1>4 DEF Regular, WholePages
<1>. QED BY <1>2, <1>4, <1>5, <1>6, <1>7

\* The page that is fetched is the one shown.
LEMMA ShownItems ==
  ASSUME TypeInv, pc = "fetching", Undisturbed
  PROVE  ToSet(Items) = Shown(fetched) /\ fetched \in Nat
<1>1. Position = fetched * page_size
  BY DEF TypeInv, CountInv, Reach
<1>2. ToSet(Items) = ToSet(Served) \ hidden
  BY ItemsProperties DEF Undisturbed
<1>3. ToSet(Served) =
        {collection[i] : i \in Position + 1 ..
           Min({Position + page_size, Position + listing.cap, Len(collection)})}
  BY ServedProperties DEF Undisturbed
<1>. QED BY <1>1, <1>2, <1>3, Bounds DEF Shown

\* Nothing is shown behind the last row.
LEMMA ShownWithin ==
  ASSUME TypeInv, NEW n \in Nat
  PROVE  /\ n * page_size \in Nat
         /\ n * page_size >= Len(collection) => Shown(n) = {}
<1>. DEFINE start == n * page_size
<1>1. start \in Nat /\ Len(collection) \in Nat
  BY Bounds DEF TypeInv, TypeOK
<1>2. start + page_size \in Int /\ start + listing.cap \in Int
  BY <1>1, Bounds
<1>. DEFINE end == Min({start + page_size, start + listing.cap, Len(collection)})
<1>3. end \in Int /\ end <= Len(collection)
  <2>1. Len(collection) \in Int
    BY <1>1
  <2>. HIDE DEF start
  <2>. QED BY <1>2, <2>1, MinProperties
<1>. HIDE DEF start
<1>4. Shown(n) = {collection[i] : i \in start + 1 .. end} \ hidden
  BY DEF Shown, start
<1>. HIDE DEF end
<1>5. start >= Len(collection) => start + 1 .. end = {}
  BY <1>1, <1>3
<1>. QED BY <1>1, <1>4, <1>5 DEF start

\* Empty pages end a listing before there are too many in a row.
LEMMA NoEmptyRun ==
  ASSUME TypeInv, PagesInv, Undisturbed, Active
  PROVE  \A n \in 0 .. fetched : ~EmptyRunBefore(n)
<1>1. /\ \A n \in 0 .. fetched - 1 : ~EmptyRunBefore(n)
      /\ empties <= fetched /\ empties < EmptyLimit
      /\ \A n \in 0 .. fetched - 1 : n = fetched - empties - 1 => Shown(n) # {}
  BY DEF PagesInv, FetchedPages, Active, TypeInv, CountInv
<1>2. fetched \in Nat /\ empties \in Nat /\ EmptyLimit \in {1, 2}
  BY Bounds DEF TypeInv, TypeOK
<1>3. ASSUME NEW first \in 0 .. fetched - EmptyLimit,
             \A k \in first .. first + EmptyLimit - 1 : Shown(k) = {}
      PROVE  FALSE
  <2>1. CASE first <= fetched - 1 - EmptyLimit
    <3>1. first \in 0 .. (fetched - 1) - EmptyLimit /\ fetched - 1 \in 0 .. fetched - 1
      BY <1>2, <2>1
    <3>. QED BY <1>1, <1>3, <3>1 DEF EmptyRunBefore
  <2>2. CASE first = fetched - EmptyLimit
    <3>. DEFINE n == fetched - empties - 1
    <3>1. n \in first .. first + EmptyLimit - 1 /\ n \in 0 .. fetched - 1
      BY <1>1, <1>2, <1>3, <2>2
    <3>. QED BY <1>1, <1>3, <3>1
  <2>. QED BY <1>2, <2>1, <2>2
<1>4. ~EmptyRunBefore(fetched)
  BY <1>3 DEF EmptyRunBefore
<1>5. \A n \in 0 .. fetched : n \in 0 .. fetched - 1 \/ n = fetched
  BY <1>2
<1>. QED BY <1>1, <1>4, <1>5

\* What was shown so far is part of all that is shown.
LEMMA TakenIsShown ==
  ASSUME TypeInv, PagesInv, Undisturbed, Active
  PROVE  Taken \subseteq AllShown
<1>1. fetched \in 0 .. MaxPages /\ MaxPages \in Nat
  BY Bounds DEF TypeInv, TypeOK
<1>2. \A n \in 0 .. fetched - 1 : n \in 0 .. MaxPages - 1 /\ ~EmptyRunBefore(n)
  BY <1>1 DEF PagesInv, FetchedPages
<1>3. Taken = UNION {Shown(n) : n \in 0 .. fetched - 1}
  BY DEF PagesInv, FetchedPages
<1>. QED BY <1>2, <1>3 DEF AllShown

LEMMA PagesStep == ASSUME TypeInv, TypeInv', PagesInv, Next PROVE PagesInv'
<1>1. SUFFICES ASSUME Undisturbed'
      PROVE  /\ inserted' = {} /\ deleted' = {} /\ total' \subseteq {Len(collection')}
             /\ Active' => FetchedPages'
             /\ pc' = "ended" => EndedPages'
  BY DEF PagesInv
<1>2. Undisturbed
  BY <1>1, StepHistory, Constants DEF Undisturbed
<1>3. /\ inserted = {} /\ deleted = {} /\ total \subseteq {Len(collection)}
      /\ Active => FetchedPages
  BY <1>2 DEF PagesInv
<1>4. ~Insert /\ ~Delete
  BY <1>2, FiniteHistory, Bounds DEF Insert, Delete, Changes, Undisturbed
<1>5. Iterate /\ Active
  BY <1>4 DEF Next, Iterate, Proceed, FetchRaises, FetchUndecodable, FetchPage,
     FetchEmptyPage, PagesExhausted, Yield, PageDone, Active
<1>6. /\ UNCHANGED <<collection, inserted, deleted>> /\ UNCHANGED arguments
      /\ page_size' = page_size /\ max_items' = max_items /\ EmptyLimit' = EmptyLimit
  BY <1>5, IterateEnvironment, StepHistory DEF Next
<1>7. /\ \A n \in Int : Shown(n)' = Shown(n)
      /\ \A n \in Int : EmptyRunBefore(n)' <=> EmptyRunBefore(n)
      /\ AllShown' = AllShown
  BY <1>6, ShownStays
<1>8. /\ fetched \in 0 .. MaxPages /\ fetched \in Nat /\ MaxPages \in Nat /\ empties \in Nat
      /\ EmptyLimit \in {1, 2} /\ empties < EmptyLimit /\ page_size \in Nat \ {0}
      /\ results \in Seq(Rows) /\ page \in Seq(Rows) /\ max_items \in Nat /\ Rows \in SUBSET Int
  <2>1. /\ fetched \in 0 .. MaxPages /\ empties \in 0 .. 2 /\ empties < EmptyLimit
        /\ results \in Seq(Rows) /\ page \in Seq(Rows)
    BY <1>5 DEF TypeInv, TypeOK, CountInv, Active
  <2>. QED BY <2>1, Bounds
<1>9. /\ Taken = UNION {Shown(n) : n \in 0 .. fetched - 1}
      /\ \A n \in 0 .. fetched : ~EmptyRunBefore(n)
      /\ empties <= fetched
      /\ \A n \in 0 .. fetched - 1 : n >= fetched - empties => Shown(n) = {}
      /\ \A n \in 0 .. fetched - 1 : n = fetched - empties - 1 => Shown(n) # {}
      /\ pc = "yielding" => empties = 0 /\ fetched > 0
      /\ results = <<>> \/ Len(results) < max_items
  BY <1>2, <1>3, <1>5, NoEmptyRun DEF FetchedPages
<1>10. CASE FetchRaises \/ FetchUndecodable
  <2>1. pc' = "raised" /\ total' = total
    BY <1>10 DEF FetchRaises, FetchUndecodable, RaiseInFetch
  <2>. QED BY <1>3, <1>6, <2>1 DEF Active
<1>11. CASE FetchPage
  <2>1. /\ pc = "fetching" /\ page = <<>> /\ pc' = "yielding" /\ fetched' = fetched + 1
        /\ empties' = 0 /\ page' = Items /\ Items # <<>> /\ results' = results
        /\ total' \subseteq {Len(collection)}
    BY <1>11, ReachSteps DEF FetchPage
  <2>2. ToSet(Items) = Shown(fetched) /\ Items \in Seq(Rows)
    BY <1>2, <2>1, ShownItems, ItemsProperties
  <2>3. Shown(fetched) # {}
    <3>1. 1 \in DOMAIN Items
      BY <2>1, <2>2
    <3>. QED BY <2>2, <3>1 DEF ToSet
  <2>4. Taken = ToSet(results) /\ Taken' = ToSet(results) \union Shown(fetched)
    BY <2>1, <2>2 DEF Taken, ToSet
  <2>5. 0 .. fetched = (0 .. fetched - 1) \union {fetched} /\ fetched' - 1 = fetched
    BY <1>8, <2>1
  <2>6. Taken' = UNION {Shown(n) : n \in 0 .. fetched}
    BY <1>9, <2>4, <2>5
  <2>7. ASSUME NEW n \in 0 .. fetched
        PROVE  /\ Shown(n)' = Shown(n) /\ ~EmptyRunBefore(n)'
               /\ ~(n >= fetched' - empties')
               /\ n = fetched' - empties' - 1 => Shown(n)' # {}
    <3>1. n \in Int
      OBVIOUS
    <3>2. n = fetched' - empties' - 1 => n = fetched
      BY <1>8, <2>1, <3>1
    <3>. QED BY <1>7, <1>8, <1>9, <2>1, <2>3, <3>1, <3>2
  <2>8. UNION {Shown(n) : n \in 0 .. fetched} = UNION {Shown(n)' : n \in 0 .. fetched}
    BY <2>7
  <2>9. empties' <= fetched' /\ fetched' > 0 /\ (results' = <<>> \/ Len(results') < max_items')
    BY <1>6, <1>8, <1>9, <2>1
  <2>10. FetchedPages'
    BY <2>1, <2>5, <2>6, <2>7, <2>8, <2>9 DEF FetchedPages
  <2>. QED BY <1>3, <1>6, <2>1, <2>10
<1>12. CASE FetchEmptyPage
  <2>1. /\ pc = "fetching" /\ page = <<>> /\ Items = <<>> /\ fetched' = fetched + 1
        /\ empties' = empties + 1 /\ page' = page /\ results' = results /\ total' = total
        /\ fetched < MaxPages
    BY <1>12, ReachSteps DEF FetchEmptyPage
  <2>2. Shown(fetched) = {}
    BY <1>2, <2>1, ShownItems DEF ToSet
  <2>3. Taken = ToSet(results) /\ Taken' = ToSet(results)
    BY <2>1 DEF Taken, ToSet
  <2>4. 0 .. fetched = (0 .. fetched - 1) \union {fetched}
    BY <1>8
  <2>5. Taken = UNION {Shown(n) : n \in 0 .. fetched}
    BY <1>9, <2>2, <2>4
  <2>6. \A n \in 0 .. fetched : n >= fetched - empties => Shown(n) = {}
    BY <1>9, <2>2, <2>4
  <2>7. CASE Tolerates
    <3>1. pc' = "fetching"
      BY <1>12, <2>1, <2>7 DEF FetchEmptyPage
    <3>2. /\ fetched' - 1 = fetched /\ fetched' - empties' = fetched - empties
          /\ fetched' - empties' - 1 = fetched - empties - 1 /\ empties' <= fetched'
      BY <1>8, <1>9, <2>1
    <3>3. ASSUME NEW n \in 0 .. fetched
          PROVE  /\ Shown(n)' = Shown(n) /\ ~EmptyRunBefore(n)'
                 /\ n >= fetched' - empties' => Shown(n)' = {}
                 /\ n = fetched' - empties' - 1 => Shown(n)' # {}
      <4>1. n \in Int
        OBVIOUS
      <4>2. n = fetched - empties - 1 => n \in 0 .. fetched - 1
        BY <1>8, <4>1
      <4>. QED BY <1>7, <1>9, <2>6, <3>2, <4>1, <4>2
    <3>4. UNION {Shown(n) : n \in 0 .. fetched} = UNION {Shown(n)' : n \in 0 .. fetched}
      BY <3>3
    <3>5. results' = <<>> \/ Len(results') < max_items'
      BY <1>6, <1>9, <2>1
    <3>6. FetchedPages'
      BY <2>3, <2>5, <3>1, <3>2, <3>3, <3>4, <3>5 DEF FetchedPages
    <3>. QED BY <1>3, <1>6, <2>1, <3>1, <3>6
  <2>8. CASE ~Tolerates
    <3>1. pc' = "ended"
      BY <1>12, <2>8 DEF FetchEmptyPage
    <3>2. EmptyLimit = empties + 1
      BY <1>8, <2>8 DEF Tolerates
    <3>3. ASSUME NEW n \in 0 .. MaxPages - 1, ~EmptyRunBefore(n) PROVE n \in 0 .. fetched
      <4>1. SUFFICES ASSUME n > fetched PROVE EmptyRunBefore(n)
        BY <1>8, <3>3
      <4>. DEFINE first == fetched - empties
      <4>2. first \in 0 .. n - EmptyLimit /\ first + EmptyLimit - 1 = fetched /\ first \in Nat
        BY <1>8, <1>9, <3>2, <4>1
      <4>3. \A k \in first .. first + EmptyLimit - 1 : k \in 0 .. fetched /\ k >= fetched - empties
        BY <1>8, <4>2
      <4>4. \A k \in first .. first + EmptyLimit - 1 : Shown(k) = {}
        BY <2>6, <4>3
      <4>. HIDE DEF first
      <4>. QED BY <4>2, <4>4 DEF EmptyRunBefore
    <3>4. \A n \in 0 .. fetched : n \in 0 .. MaxPages - 1 /\ ~EmptyRunBefore(n)
      BY <1>8, <1>9, <2>1
    <3>5. AllShown = UNION {Shown(n) : n \in 0 .. fetched}
      BY <3>3, <3>4 DEF AllShown
    <3>6. EndedPages'
      BY <1>7, <2>1, <2>3, <2>5, <3>5 DEF EndedPages
    <3>. QED BY <1>3, <1>6, <2>1, <3>1, <3>6 DEF Active
  <2>. QED BY <2>7, <2>8
<1>13. CASE PagesExhausted
  <2>1. /\ pc = "fetching" /\ fetched = MaxPages /\ pc' = "ended" /\ results' = results
        /\ total' = total
    BY <1>13 DEF PagesExhausted
  <2>2. Taken = ToSet(results)
    BY <2>1 DEF Taken, ToSet, TypeInv, CountInv
  <2>3. AllShown \subseteq Taken
    BY <1>9, <2>1 DEF AllShown
  <2>4. Taken \subseteq AllShown
    BY <1>2, <1>5, TakenIsShown
  <2>5. EndedPages'
    BY <1>7, <2>1, <2>2, <2>3, <2>4 DEF EndedPages
  <2>. QED BY <1>3, <1>6, <2>1, <2>5 DEF Active
<1>14. CASE Yield
  <2>1. /\ pc = "yielding" /\ page # <<>> /\ results' = Append(results, Head(page))
        /\ page' = Tail(page) /\ pc' \in {"yielding", "ended"}
        /\ UNCHANGED <<total, fetched, empties>>
        /\ pc' = IF Len(results') >= max_items THEN "ended" ELSE "yielding"
    BY <1>14, <1>6, ReachSteps DEF Yield
  <2>2. PICK row : row = Head(page)
    OBVIOUS
  <2>3. row \in Rows /\ ToSet(page) = {row} \union ToSet(page')
    BY <1>8, <2>1, <2>2, HeadTailIncreasing
  <2>4. ToSet(results') = ToSet(results) \union {row} /\ results' # <<>> /\ Len(results') \in Nat
    BY <1>8, <2>1, <2>2, <2>3, AppendElements
  <2>5. Taken' = Taken /\ ToSet(results') \subseteq Taken
    BY <2>3, <2>4 DEF Taken
  <2>6. CASE pc' = "ended"
    <3>1. ToSet(results') \subseteq AllShown
      BY <1>2, <1>5, <2>5, TakenIsShown
    <3>2. EndedPages'
      BY <1>6, <1>7, <2>1, <2>4, <2>6, <3>1 DEF EndedPages
    <3>. QED BY <1>3, <1>6, <2>1, <2>6, <3>2 DEF Active
  <2>7. CASE pc' = "yielding"
    <3>1. Len(results') < max_items
      BY <1>8, <2>1, <2>4, <2>7
    <3>2. ASSUME NEW n \in 0 .. fetched - 1
          PROVE  /\ Shown(n)' = Shown(n) /\ ~EmptyRunBefore(n)'
                 /\ n >= fetched - empties => Shown(n)' = {}
                 /\ n = fetched - empties - 1 => Shown(n)' # {}
      <4>1. n \in Int /\ n \in 0 .. fetched
        BY <1>8
      <4>. QED BY <1>7, <1>9, <4>1
    <3>3. UNION {Shown(n) : n \in 0 .. fetched - 1} = UNION {Shown(n)' : n \in 0 .. fetched - 1}
      BY <3>2
    <3>4. FetchedPages'
      BY <1>6, <1>9, <2>1, <2>5, <2>7, <3>1, <3>2, <3>3 DEF FetchedPages
    <3>. QED BY <1>3, <1>6, <2>1, <2>7, <3>4
  <2>. QED BY <2>1, <2>6, <2>7
<1>15. CASE PageDone
  <2>1. /\ pc = "yielding" /\ page = <<>> /\ page' = page /\ results' = results
        /\ UNCHANGED <<total, fetched, empties>> /\ pc' \in {"fetching", "ended"}
    BY <1>15, ReachSteps DEF PageDone
  <2>2. Taken' = Taken /\ Taken = ToSet(results)
    BY <2>1 DEF Taken, ToSet
  <2>3. CASE pc' = "ended"
    <3>1. PICK n \in total :
            IF paginator = "scim" THEN offset + page_size > n ELSE offset + page_size >= n
      BY <1>15, <2>3 DEF PageDone, IsLast
    <3>2. n = Len(collection) /\ Len(collection) \in Nat
      BY <1>3 DEF TypeInv, TypeOK
    <3>3. fetched * page_size = offset - FirstIndex + page_size
      BY <2>1 DEF Reach, Position, TypeInv, CountInv
    <3>4. fetched * page_size >= Len(collection)
      BY <1>8, <3>1, <3>2, <3>3, Bounds DEF FirstIndex
    <3>5. ASSUME NEW m \in 0 .. MaxPages - 1, Shown(m) # {} PROVE m \in 0 .. fetched - 1
      <4>1. m * page_size < Len(collection) /\ m * page_size \in Nat
        BY <3>2, <3>5, ShownWithin, SMTT(30)
      <4>2. fetched <= m => fetched * page_size <= m * page_size
        BY <1>8, TimesMonotone
      <4>3. fetched * page_size \in Nat
        BY <1>8
      <4>. QED BY <1>8, <3>2, <3>4, <4>1, <4>2, <4>3
    <3>6. AllShown \subseteq Taken
      BY <1>9, <3>5 DEF AllShown
    <3>7. Taken \subseteq AllShown
      BY <1>2, <1>5, TakenIsShown
    <3>8. EndedPages'
      BY <1>7, <2>1, <2>2, <3>6, <3>7 DEF EndedPages
    <3>. QED BY <1>3, <1>6, <2>1, <2>3, <3>8 DEF Active
  <2>4. CASE pc' = "fetching"
    <3>1. ASSUME NEW n \in 0 .. fetched - 1
          PROVE  /\ Shown(n)' = Shown(n) /\ ~EmptyRunBefore(n)'
                 /\ n >= fetched - empties => Shown(n)' = {}
                 /\ n = fetched - empties - 1 => Shown(n)' # {}
      <4>1. n \in Int /\ n \in 0 .. fetched
        BY <1>8
      <4>. QED BY <1>7, <1>9, <4>1
    <3>2. UNION {Shown(n) : n \in 0 .. fetched - 1} = UNION {Shown(n)' : n \in 0 .. fetched - 1}
      BY <3>1
    <3>3. FetchedPages'
      BY <1>6, <1>9, <2>1, <2>2, <2>4, <3>1, <3>2 DEF FetchedPages
    <3>. QED BY <1>3, <1>6, <2>1, <2>4, <3>3
  <2>. QED BY <2>1, <2>3, <2>4
<1>. QED
  BY <1>5, <1>10, <1>11, <1>12, <1>13, <1>14, <1>15 DEF Iterate, Proceed

LEMMA PagesAlways == Spec => []PagesInv
<1>1. Init => PagesInv
  <2>. SUFFICES ASSUME Init PROVE PagesInv
    OBVIOUS
  <2>1. /\ fetched = 0 /\ empties = 0 /\ pc = "fetching" /\ page = <<>> /\ results = <<>>
        /\ inserted = {} /\ deleted = {} /\ total = {}
    BY DEF Init
  <2>2. Taken = {} /\ UNION {Shown(n) : n \in 0 .. fetched - 1} = {}
    BY <2>1 DEF Taken, ToSet
  <2>. QED BY <2>1, <2>2 DEF PagesInv, FetchedPages
<1>2. TypeInv /\ TypeInv' /\ PagesInv /\ [Next]_vars => PagesInv'
  <2>1. ASSUME PagesInv, UNCHANGED vars PROVE PagesInv'
    <3>1. UNCHANGED arguments /\ UNCHANGED generator /\ UNCHANGED environment
      BY <2>1 DEF vars
    <3>2. /\ UNCHANGED <<pc, offset, empties, fetched, page, total, results>>
          /\ UNCHANGED <<collection, inserted, deleted>>
      BY <3>1 DEF generator, environment
    <3>3. page_size' = page_size /\ max_items' = max_items /\ EmptyLimit' = EmptyLimit
      BY <3>1, Constants
    <3>4. /\ FetchedPages' = FetchedPages /\ EndedPages' = EndedPages
          /\ Undisturbed' = Undisturbed
      BY <3>1, <3>2, <3>3, Constants
         DEF FetchedPages, EndedPages, AllShown, Shown, EmptyRunBefore, Taken, Undisturbed
    <3>. QED BY <2>1, <3>2, <3>4 DEF PagesInv, Active
  <2>. QED BY <2>1, PagesStep
<1>. QED BY <1>1, <1>2, TypesAlways, PTL DEF Spec

\* A listing that nobody disturbs hands over what the server shows, and nothing
\* else: all of it, up to a run of empty pages, unless it stops at max_items.
THEOREM ListingIsExact == Spec => []ExactlyTheShownRows
<1>1. TypeInv /\ PagesInv => ExactlyTheShownRows
  <2>1. TypeInv => max_items \in Nat /\ Len(results) \in Nat
    BY Bounds DEF TypeInv, TypeOK
  <2>. QED BY <2>1 DEF PagesInv, EndedPages, ExactlyTheShownRows, AllShown, Undisturbed
<1>. QED BY <1>1, TypesAlways, PagesAlways, PTL

\* The only list there is, is found.
LEMMA ExtractListFinds ==
  ASSUME NEW body, NEW e \in Places, body[e] = "list", e # "data.data",
         \A place \in Places : place # e => body[place] # "list"
  PROVE  ExtractList(body) = {e}
<1>. DEFINE places == <<"body", "result", "data", "data.key", "key", "Resources">>
<1>2. DOMAIN places = 1 .. 6 /\ \A n \in 1 .. 6 : places[n] \in Places
  BY DEF Places
<1>3. \E n \in 1 .. 6 : places[n] = e
  <2>1. e \in {places[1], places[2], places[3], places[4], places[5], places[6]}
    BY DEF Places
  <2>. QED BY <2>1
<1>4. \A m, n \in 1 .. 6 : places[m] = places[n] => m = n
  OBVIOUS
<1>. HIDE DEF places
<1>5. FirstList(body, places) = {e}
  <2>1. PICK n \in 1 .. 6 : places[n] = e
    BY <1>3
  <2>2. n \in {m \in DOMAIN places : /\ body[places[m]] = "list"
                                     /\ \A k \in 1 .. m - 1 : body[places[k]] # "list"}
    <3>1. \A k \in 1 .. n - 1 : k \in 1 .. 6 /\ k # n
      OBVIOUS
    <3>. QED BY <1>2, <1>4, <2>1, <3>1
  <2>3. FirstList(body, places) \subseteq {e}
    BY <1>2 DEF FirstList
  <2>4. e \in FirstList(body, places)
    BY <2>1, <2>2 DEF FirstList
  <2>. QED BY <2>3, <2>4
<1>. QED BY <1>5 DEF ExtractList, places

\* Where the reply has one list, a listing that ends with empty hands has looked
\* for its rows in that list, and the pages before its end showed none.
THEOREM EmptyIsEmpty == Spec => []EmptyMeansEmpty
<1>1. ASSUME TypeInv, PagesInv PROVE EmptyMeansEmpty
  <2>1. SUFFICES ASSUME pc = "ended", results = <<>>, listing.changes = 0, server # "stuck",
                        listing.extractor = "extract_list", listing.envelope # "data.data",
                        {place \in Places : listing.body[place] = "list"} = {listing.envelope},
                        NEW n \in 0 .. Min({EmptyLimit, MaxPages}) - 1
                 PROVE  Shown(n) = {}
    BY DEF EmptyMeansEmpty
  <2>2. RowsFound
    <3>1. /\ listing.envelope \in Places /\ listing.body[listing.envelope] = "list"
          /\ \A place \in Places : place # listing.envelope => listing.body[place] # "list"
      BY <2>1
    <3>2. ExtractList(listing.body) = {listing.envelope}
      BY <2>1, <3>1, ExtractListFinds
    <3>. QED BY <2>1, <3>2 DEF RowsFound, Extracted
  <2>3. AllShown \subseteq ToSet(results) /\ ToSet(results) = {}
    BY <1>1, <2>1, <2>2 DEF PagesInv, EndedPages, Undisturbed, ToSet
  <2>4. n < EmptyLimit /\ n \in 0 .. MaxPages - 1 /\ EmptyLimit \in Int
    <3>1. EmptyLimit \in Int /\ MaxPages \in Int
      BY <1>1, Bounds
    <3>2. Min({EmptyLimit, MaxPages, MaxPages}) \in Int
          /\ Min({EmptyLimit, MaxPages, MaxPages}) <= EmptyLimit
          /\ Min({EmptyLimit, MaxPages, MaxPages}) <= MaxPages
      <4>. HIDE DEF EmptyLimit
      <4>. QED BY <3>1, MinProperties
    <3>3. {EmptyLimit, MaxPages, MaxPages} = {EmptyLimit, MaxPages}
      OBVIOUS
    <3>4. PICK low \in Int : low = Min({EmptyLimit, MaxPages}) /\ low <= EmptyLimit /\ low <= MaxPages
      BY <3>2, <3>3
    <3>5. n \in 0 .. low - 1
      BY <2>1, <3>4
    <3>. HIDE DEF EmptyLimit
    <3>. QED BY <3>1, <3>4, <3>5
  <2>5. ~EmptyRunBefore(n)
    BY <2>4 DEF EmptyRunBefore
  <2>6. Shown(n) \subseteq AllShown
    BY <2>4, <2>5 DEF AllShown
  <2>. QED BY <2>3, <2>6
<1>. QED BY <1>1, TypesAlways, PagesAlways, PTL

\* No page is asked for that cannot be needed.
DemandInv ==
  Regular /\ hidden = {} =>
    /\ Active => Len(results) + Len(page) = IF Reach <= Len(collection) THEN Reach
                                           ELSE Len(collection)
    /\ pc = "fetching" /\ total # {} => Reach < Len(collection)
    /\ total # {} => (fetched - 1) * page_size < Len(collection)
    /\ (fetched - EmptyLimit - 1) * page_size < Len(collection)
    /\ \/ (fetched - 1) * page_size < max_items
       \/ Len(results) = Len(collection)

\* How long a page is when the server puts into it what was asked for.
LEMMA ItemsLength ==
  ASSUME TypeInv, pc = "fetching", WholePages, hidden = {}
  PROVE  /\ Items \in Seq(Rows) /\ Reach \in Nat /\ Reach = fetched * page_size
         /\ Reach >= Len(collection) => Len(Items) = 0
         /\ Reach < Len(collection) /\ Reach + page_size <= Len(collection) =>
              Len(Items) = page_size
         /\ Reach < Len(collection) /\ Reach + page_size > Len(collection) =>
              Len(Items) = Len(collection) - Reach
<1>. DEFINE end == Min({Position + page_size, Position + listing.cap, Len(collection)})
<1>1. /\ collection \in Seq(Rows) /\ Len(collection) \in Nat /\ Reach = Position
      /\ Position \in Nat /\ Position + page_size \in Int /\ Position + listing.cap \in Int
      /\ page_size \in Nat \ {0}
      /\ listing.cap \in Nat /\ listing.cap >= page_size /\ Reach = fetched * page_size
  BY Bounds DEF TypeInv, TypeOK, CountInv, Reach, WholePages
<1>2. /\ end \in Int /\ end \in {Position + page_size, Position + listing.cap, Len(collection)}
      /\ end <= Position + page_size /\ end <= Len(collection)
  <2>1. Len(collection) \in Int
    BY <1>1
  <2>. QED BY <1>1, <2>1, MinProperties
<1>3. Items = SubSeq(collection, Position + 1, end) /\ Items \in Seq(Rows)
  BY ItemsProperties DEF WholePages, Served, Position
<1>. HIDE DEF end
<1>4. end = IF Position + page_size <= Len(collection) THEN Position + page_size ELSE Len(collection)
  <2>1. CASE end = Position + page_size
    BY <1>1, <1>2, <2>1
  <2>2. CASE end = Position + listing.cap
    BY <1>1, <1>2, <2>2
  <2>3. CASE end = Len(collection)
    BY <1>1, <1>2, <2>3
  <2>. QED BY <1>2, <2>1, <2>2, <2>3
<1>5. \A i \in Position + 1 .. end : collection[i] \in Rows
  <2>1. \A i \in Position + 1 .. end : i \in 1 .. Len(collection)
    BY <1>1, <1>2
  <2>. QED BY <1>1, <2>1
<1>6. Len(Items) = IF Position + 1 <= end THEN end - (Position + 1) + 1 ELSE 0
  <2>1. PICK first \in Int : first = Position + 1
    BY <1>1
  <2>2. end \in Int
    BY <1>2
  <2>3. Len(SubSeq(collection, first, end)) = IF first <= end THEN end - first + 1 ELSE 0
    BY <1>5, <2>1, <2>2, SubSeqProperties
  <2>. QED BY <1>3, <2>1, <2>3
<1>7. /\ page_size \in Int /\ page_size > 0 /\ Position \in Int /\ Reach = Position
      /\ Len(collection) \in Int /\ end \in Int
  BY <1>1, <1>2
<1>8. Position >= Len(collection) => Len(Items) = 0
  <2>1. Position >= Len(collection) => end < Position + 1
    BY <1>4, <1>7
  <2>. QED BY <1>6, <1>7, <2>1
<1>9. Position < Len(collection) => Len(Items) = end - Position
  <2>1. Position < Len(collection) => Position + 1 <= end
    BY <1>4, <1>7
  <2>. QED BY <1>6, <1>7, <2>1
<1>10. /\ Position + page_size <= Len(collection) => end - Position = page_size
       /\ Position + page_size > Len(collection) => end - Position = Len(collection) - Position
  BY <1>4, <1>7
<1>. QED BY <1>1, <1>3, <1>8, <1>9, <1>10

\* The last page that was not empty began before the end of the collection.
LEMMA FewEmptyPages ==
  ASSUME TypeInv, PagesInv, Undisturbed, Active, NEW m \in Int, m < fetched - empties
  PROVE  m * page_size < Len(collection)
<1>1. /\ fetched \in Nat /\ empties \in Nat /\ page_size \in Nat \ {0} /\ Len(collection) \in Nat
      /\ empties <= fetched
      /\ \A n \in 0 .. fetched - 1 : n = fetched - empties - 1 => Shown(n) # {}
  BY Bounds DEF TypeInv, TypeOK, PagesInv, FetchedPages
<1>2. CASE empties = fetched
  <2>1. m <= -1
    BY <1>1, <1>2
  <2>2. m * page_size <= (-1) * page_size
    BY <1>1, <2>1, TimesMonotone
  <2>3. (-1) * page_size < 0 /\ m * page_size \in Int /\ (-1) * page_size \in Int
    BY <1>1
  <2>. QED BY <1>1, <2>2, <2>3
<1>3. CASE empties # fetched
  <2>1. PICK n \in Nat : n = fetched - empties - 1
    BY <1>1, <1>3
  <2>2. Shown(n) # {} /\ m <= n
    BY <1>1, <1>3, <2>1
  <2>3. n * page_size < Len(collection) /\ n * page_size \in Nat
    BY <1>1, <2>2, ShownWithin
  <2>4. m * page_size <= n * page_size
    BY <1>1, <2>2, TimesMonotone
  <2>5. m * page_size \in Int
    BY <1>1
  <2>. QED BY <1>1, <2>3, <2>4, <2>5
<1>. QED BY <1>2, <1>3

LEMMA DemandStep == ASSUME TypeInv, TypeInv', PagesInv, DemandInv, Next PROVE DemandInv'
<1>1. SUFFICES ASSUME Regular', hidden' = {}
      PROVE  /\ Active' => Len(results') + Len(page') =
                             IF Reach' <= Len(collection') THEN Reach' ELSE Len(collection')
             /\ pc' = "fetching" /\ total' # {} => Reach' < Len(collection')
             /\ total' # {} => (fetched' - 1) * page_size' < Len(collection')
             /\ (fetched' - EmptyLimit' - 1) * page_size' < Len(collection')
             /\ \/ (fetched' - 1) * page_size' < max_items'
                \/ Len(results') = Len(collection')
  BY DEF DemandInv
<1>2. UNCHANGED arguments /\ listing.changes = 0 /\ hidden = {}
  BY <1>1, StepHistory, Constants DEF Regular
<1>3. Iterate /\ Active
  <2>1. ~Insert /\ ~Delete
    BY <1>2, FiniteHistory, Bounds DEF Insert, Delete, Changes
  <2>. QED
    BY <2>1 DEF Next, Iterate, Proceed, FetchRaises, FetchUndecodable, FetchPage,
       FetchEmptyPage, PagesExhausted, Yield, PageDone, Active
<1>4. /\ collection' = collection /\ page_size' = page_size /\ max_items' = max_items
      /\ EmptyLimit' = EmptyLimit
  BY <1>3, IterateEnvironment
<1>5. Regular /\ WholePages /\ Undisturbed /\ max_items > 0
  BY <1>1, <1>2, <1>4, ShownStays DEF Regular, WholePages, Undisturbed
<1>6. /\ Len(results) + Len(page) = IF Reach <= Len(collection) THEN Reach ELSE Len(collection)
      /\ pc = "fetching" /\ total # {} => Reach < Len(collection)
      /\ total # {} => (fetched - 1) * page_size < Len(collection)
      /\ (fetched - 1) * page_size < max_items \/ Len(results) = Len(collection)
  BY <1>2, <1>3, <1>5 DEF DemandInv
<1>7. /\ total \subseteq {Len(collection)} /\ (results = <<>> \/ Len(results) < max_items)
  BY <1>3, <1>5 DEF PagesInv, FetchedPages
<1>8. /\ fetched \in Nat /\ empties \in Nat /\ EmptyLimit \in {1, 2} /\ empties < EmptyLimit
      /\ page_size \in Nat \ {0} /\ Len(collection) \in Nat /\ max_items \in Nat /\ offset \in Nat
      /\ results \in Seq(Rows) /\ page \in Seq(Rows) /\ Reach \in Nat /\ Rows \in SUBSET Int
      /\ Reach = fetched * page_size
  <2>1. /\ empties \in 0 .. 2 /\ empties < EmptyLimit /\ Len(collection) \in Nat
        /\ results \in Seq(Rows) /\ page \in Seq(Rows) /\ Reach = fetched * page_size
    BY <1>3 DEF TypeInv, TypeOK, CountInv, Active
  <2>2. Reach \in Nat
    BY <1>3, ReachSteps DEF Active
  <2>. QED BY <2>1, <2>2, Bounds
<1>9. (fetched' - EmptyLimit' - 1) * page_size' < Len(collection')
  <2>1. fetched' \in {fetched, fetched + 1}
    BY <1>3 DEF Iterate, Proceed, FetchRaises, FetchUndecodable, RaiseInFetch, FetchPage,
       FetchEmptyPage, PagesExhausted, Yield, PageDone
  <2>2. (fetched - EmptyLimit - 1) * page_size < Len(collection)
    <3>1. fetched - EmptyLimit - 1 \in Int /\ fetched - EmptyLimit - 1 < fetched - empties
      BY <1>8
    <3>. QED BY <1>3, <1>5, <3>1, FewEmptyPages
  <2>3. ((fetched + 1) - EmptyLimit - 1) * page_size < Len(collection)
    <3>1. (fetched + 1) - EmptyLimit - 1 \in Int /\ (fetched + 1) - EmptyLimit - 1 < fetched - empties
      BY <1>8
    <3>. QED BY <1>3, <1>5, <3>1, FewEmptyPages
  <2>. QED BY <1>4, <2>1, <2>2, <2>3
<1>10. pc = "fetching" => Reach < max_items \/ Len(results) = Len(collection)
  <2>1. SUFFICES ASSUME pc = "fetching", Reach < Len(collection) PROVE Reach < max_items
    <3>1. pc = "fetching" => page = <<>>
      BY DEF TypeInv, CountInv
    <3>. QED BY <1>6, <1>8, <3>1
  <2>2. page = <<>>
    BY <2>1 DEF TypeInv, CountInv
  <2>3. Len(results) = Reach
    BY <1>6, <1>8, <2>1, <2>2
  <2>. QED BY <1>5, <1>7, <1>8, <2>3
<1>11. ASSUME fetched' = fetched + 1
       PROVE  (fetched' - 1) * page_size' = Reach
  BY <1>4, <1>8, <1>11
<1>12. CASE FetchRaises \/ FetchUndecodable
  <2>1. /\ pc = "fetching" /\ pc' = "raised" /\ fetched' = fetched + 1 /\ UNCHANGED <<total, results>>
    BY <1>12 DEF FetchRaises, FetchUndecodable, RaiseInFetch
  <2>. QED BY <1>4, <1>6, <1>9, <1>10, <1>11, <2>1 DEF Active
<1>13. CASE FetchPage
  <2>1. /\ pc = "fetching" /\ page = <<>> /\ pc' = "yielding" /\ fetched' = fetched + 1
        /\ page' = Items /\ Items # <<>> /\ results' = results /\ Reach' = Reach + page_size
    BY <1>13, ReachSteps DEF FetchPage
  <2>2. Len(Items) # 0
    BY <1>2, <1>5, <2>1, ItemsLength
  <2>3. Reach < Len(collection)
    BY <1>2, <1>5, <1>8, <2>1, <2>2, ItemsLength
  <2>4. Len(results) = Reach
    BY <1>6, <1>8, <2>1, <2>3
  <2>5. Len(results) + Len(Items) =
          IF Reach + page_size <= Len(collection) THEN Reach + page_size ELSE Len(collection)
    BY <1>2, <1>5, <1>8, <2>1, <2>3, <2>4, ItemsLength
  <2>. QED BY <1>4, <1>9, <1>10, <1>11, <2>1, <2>3, <2>5
<1>14. CASE FetchEmptyPage
  <2>1. /\ pc = "fetching" /\ page = <<>> /\ Items = <<>> /\ fetched' = fetched + 1
        /\ page' = page /\ results' = results /\ total' = total /\ pc' \in {"fetching", "ended"}
        /\ pc' = "fetching" => Reach' = Reach + page_size
    BY <1>14, ReachSteps DEF FetchEmptyPage
  <2>2. Len(Items) = 0
    BY <2>1
  <2>3. Reach >= Len(collection)
    BY <1>2, <1>5, <1>8, <2>1, <2>2, ItemsLength
  <2>4. total = {}
    BY <1>6, <1>8, <2>1, <2>3
  <2>5. Len(results) + Len(page) = Len(collection)
    BY <1>6, <1>8, <2>3
  <2>6. pc' = "fetching" => Reach' > Len(collection)
    BY <1>8, <2>1, <2>3
  <2>7. Active' => Len(results') + Len(page') =
                     IF Reach' <= Len(collection') THEN Reach' ELSE Len(collection')
    <3>1. CASE pc' = "fetching"
      <4>1. Reach' \in Nat /\ ~(Reach' <= Len(collection))
        BY <1>8, <2>1, <2>6, <3>1
      <4>. QED BY <1>4, <2>1, <2>5, <4>1
    <3>2. CASE pc' = "ended"
      BY <3>2 DEF Active
    <3>. QED BY <2>1, <3>1, <3>2
  <2>. QED BY <1>4, <1>9, <1>10, <1>11, <2>1, <2>4, <2>7
<1>15. CASE PagesExhausted
  <2>1. pc' = "ended" /\ UNCHANGED <<fetched, total, results>>
    BY <1>15 DEF PagesExhausted
  <2>. QED BY <1>4, <1>6, <1>9, <2>1 DEF Active
<1>16. CASE Yield
  <2>1. /\ page # <<>> /\ results' = Append(results, Head(page))
        /\ page' = Tail(page) /\ pc' \in {"yielding", "ended"}
        /\ UNCHANGED <<total, fetched>>
        /\ pc' = "yielding" => Reach' = Reach
    BY <1>16, ReachSteps DEF Yield
  <2>2. /\ Len(results') = Len(results) + 1 /\ Len(page') = Len(page) - 1 /\ Len(page) > 0
        /\ Len(page) \in Nat /\ Len(results) \in Nat
    BY <1>8, <2>1
  <2>3. Len(results') + Len(page') = Len(results) + Len(page)
    BY <2>2
  <2>4. Len(results) # Len(collection)
    BY <1>6, <1>8, <2>2
  <2>5. Active' => Reach' = Reach
    BY <2>1 DEF Active
  <2>. QED BY <1>4, <1>6, <1>9, <2>1, <2>3, <2>4, <2>5
<1>17. CASE PageDone
  <2>1. /\ pc = "yielding" /\ page' = page /\ results' = results /\ UNCHANGED <<total, fetched>>
        /\ pc' \in {"fetching", "ended"}
        /\ pc' = "fetching" => Reach' = Reach
    BY <1>17, ReachSteps DEF PageDone
  <2>2. ASSUME pc' = "fetching", total # {} PROVE Reach < Len(collection)
    <3>1. ~IsLast
      BY <1>17, <2>2 DEF PageDone
    <3>2. Len(collection) \in total
      BY <1>7, <2>2
    <3>3. ~(IF paginator = "scim" THEN offset + page_size > Len(collection)
                                   ELSE offset + page_size >= Len(collection))
      BY <3>1, <3>2 DEF IsLast
    <3>4. Reach = offset - FirstIndex + page_size
      BY <2>1 DEF Reach, Position
    <3>. QED BY <1>8, <3>3, <3>4 DEF FirstIndex
  <2>3. Active' => Reach' = Reach
    BY <2>1 DEF Active
  <2>. QED BY <1>4, <1>6, <1>9, <2>1, <2>2, <2>3
<1>. QED
  BY <1>3, <1>12, <1>13, <1>14, <1>15, <1>16, <1>17 DEF Iterate, Proceed

LEMMA DemandAlways == Spec => []DemandInv
<1>1. Init => DemandInv
  <2>. SUFFICES ASSUME Init, Regular PROVE DemandInv
    BY DEF DemandInv
  <2>1. /\ fetched = 0 /\ pc = "fetching" /\ page = <<>> /\ results = <<>> /\ total = {}
        /\ Reach = 0
    BY DEF Init, Reach, Position, FirstIndex
  <2>2. page_size \in Nat \ {0} /\ EmptyLimit \in {1, 2} /\ Len(collection) \in Nat /\ max_items > 0
        /\ max_items \in Nat
    BY InitTypes, Bounds DEF TypeInv, TypeOK, Regular
  <2>3. (fetched - 1) * page_size < 0 /\ (fetched - EmptyLimit - 1) * page_size < 0
    <3>1. (0 - 1) * page_size <= (-1) * page_size
          /\ (0 - EmptyLimit - 1) * page_size <= (-1) * page_size
      BY <2>2, TimesMonotone
    <3>2. (-1) * page_size < 0 /\ (0 - EmptyLimit - 1) * page_size \in Int
      BY <2>2
    <3>. QED BY <2>1, <2>2, <3>1, <3>2
  <2>4. (fetched - 1) * page_size \in Int /\ (fetched - EmptyLimit - 1) * page_size \in Int
    BY <2>1, <2>2
  <2>. QED BY <2>1, <2>2, <2>3, <2>4 DEF DemandInv
<1>2. TypeInv /\ TypeInv' /\ PagesInv /\ DemandInv /\ [Next]_vars => DemandInv'
  <2>1. ASSUME DemandInv, UNCHANGED vars PROVE DemandInv'
    <3>1. UNCHANGED arguments /\ UNCHANGED generator /\ UNCHANGED environment
      BY <2>1 DEF vars
    <3>2. /\ UNCHANGED <<pc, offset, empties, fetched, page, total, results>>
          /\ collection' = collection
      BY <3>1 DEF generator, environment
    <3>3. /\ page_size' = page_size /\ max_items' = max_items /\ EmptyLimit' = EmptyLimit
          /\ Regular' = Regular /\ hidden' = hidden /\ Reach' = Reach
      BY <3>1, <3>2, Constants, ShownStays DEF Reach, Position
    <3>. QED BY <2>1, <3>2, <3>3 DEF DemandInv, Active
  <2>. QED BY <2>1, DemandStep
<1>. QED BY <1>1, <1>2, TypesAlways, PagesAlways, PTL DEF Spec

\* Pages are fetched on demand: none that a total rules out, none before the caller
\* wants an item of it, no more empty ones than the paginator insists on.
THEOREM PagesOnDemand == Spec => []NoNeedlessRequest
<1>1. DemandInv => NoNeedlessRequest
  BY DEF DemandInv, NoNeedlessRequest
<1>. QED BY <1>1, DemandAlways, PTL

-----------------------------------------------------------------------------
(* Pagination implements Listing.                                          *)

\* An increasing sequence of the first elements of another is a prefix of it.
LEMMA IncreasingPrefix ==
  ASSUME NEW s \in Seq(Int), NEW t \in Seq(Int), Increasing(s), Increasing(t),
         ToSet(s) \subseteq ToSet(t),
         \A x \in ToSet(s), y \in ToSet(t) : y \in ToSet(s) \/ x < y
  PROVE  Len(s) <= Len(t) /\ \A i \in 1 .. Len(s) : s[i] = t[i]
<1>1. /\ Len(s) \in Nat /\ DOMAIN s = 1 .. Len(s) /\ Len(t) \in Nat /\ DOMAIN t = 1 .. Len(t)
      /\ \A i \in 1 .. Len(s) : s[i] \in Int /\ s[i] \in ToSet(s)
      /\ \A i \in 1 .. Len(t) : t[i] \in Int /\ t[i] \in ToSet(t)
  BY DEF ToSet
<1>2. /\ \A i, j \in 1 .. Len(s) : i < j => s[i] < s[j]
      /\ \A i, j \in 1 .. Len(t) : i < j => t[i] < t[j]
  BY <1>1 DEF Increasing
<1>. DEFINE P == {n \in Nat : \A i \in 1 .. Len(s) : i <= n => i <= Len(t) /\ s[i] = t[i]}
<1>3. 0 \in P
  OBVIOUS
<1>4. ASSUME NEW n \in Nat, n \in P PROVE n + 1 \in P
  <2>1. SUFFICES ASSUME n + 1 \in 1 .. Len(s) PROVE n + 1 <= Len(t) /\ s[n + 1] = t[n + 1]
    BY <1>4
  <2>2. PICK e \in Int : e = s[n + 1] /\ e \in ToSet(s)
    BY <1>1, <2>1
  <2>3. \A i \in 1 .. n : i \in 1 .. Len(s) /\ i \in 1 .. Len(t) /\ s[i] = t[i] /\ s[i] < e
    BY <1>1, <1>2, <1>4, <2>1, <2>2
  <2>4. PICK k \in 1 .. Len(t) : e = t[k]
    BY <1>1, <2>2 DEF ToSet
  <2>5. k >= n + 1
    BY <1>1, <2>3, <2>4
  <2>6. n + 1 \in 1 .. Len(t)
    BY <1>1, <2>5
  <2>7. CASE k > n + 1
    <3>1. PICK d \in Int : d = t[n + 1] /\ d \in ToSet(t) /\ d < e
      BY <1>1, <1>2, <2>4, <2>6, <2>7
    <3>2. d \in ToSet(s)
      BY <2>2, <3>1
    <3>3. PICK m \in 1 .. Len(s) : d = s[m]
      BY <1>1, <3>2 DEF ToSet
    <3>4. m <= n
      BY <1>1, <1>2, <2>1, <2>2, <3>1, <3>3
    <3>5. m \in 1 .. n /\ m < n + 1 /\ m \in 1 .. Len(t)
      BY <1>1, <2>6, <3>4
    <3>6. d = t[m] /\ t[m] < t[n + 1]
      BY <1>2, <2>3, <2>6, <3>3, <3>5
    <3>. QED BY <3>1, <3>6
  <2>8. CASE k = n + 1
    BY <2>2, <2>4, <2>6, <2>8
  <2>. QED BY <2>5, <2>7, <2>8
<1>. HIDE DEF P
<1>5. Len(s) \in P
  <2>1. \A n \in Nat : n \in P
    BY <1>3, <1>4, Induction
  <2>. QED BY <1>1, <2>1
<1>6. \A i \in 1 .. Len(s) : i <= Len(t) /\ s[i] = t[i]
  BY <1>1, <1>5 DEF P
<1>. QED BY <1>1, <1>6

\* Only one increasing sequence has these elements.
LEMMA IncreasingEqual ==
  ASSUME NEW s \in Seq(Int), NEW t \in Seq(Int), Increasing(s), Increasing(t),
         ToSet(s) = ToSet(t)
  PROVE  s = t
<1>1. Len(s) <= Len(t) /\ \A i \in 1 .. Len(s) : s[i] = t[i]
  BY IncreasingPrefix
<1>2. Len(t) <= Len(s)
  BY IncreasingPrefix
<1>3. Len(s) = Len(t)
  BY <1>1, <1>2
<1>. QED BY <1>1, <1>3, SeqEqual

\* Every position is on a page.
LEMMA PageOf ==
  ASSUME NEW size \in Nat \ {0}, NEW i \in Nat \ {0}
  PROVE  \E k \in Nat : k * size < i /\ i <= k * size + size
<1>. DEFINE P == {m \in Nat : \E k \in Nat : k * size <= m /\ m < k * size + size}
<1>1. 0 \in P
  <2>1. 0 * size = 0
    OBVIOUS
  <2>. QED BY <2>1
<1>2. ASSUME NEW m \in Nat, m \in P PROVE m + 1 \in P
  <2>1. PICK k \in Nat : k * size <= m /\ m < k * size + size
    BY <1>2
  <2>2. k * size \in Nat /\ (k + 1) * size = k * size + size
    OBVIOUS
  <2>3. CASE m + 1 < k * size + size
    BY <2>1, <2>2, <2>3
  <2>4. CASE m + 1 = k * size + size
    <3>1. PICK n \in Nat : n = k + 1
      OBVIOUS
    <3>2. n * size <= m + 1 /\ m + 1 < n * size + size
      BY <2>2, <2>4, <3>1
    <3>. QED BY <3>2
  <2>. QED BY <2>1, <2>2, <2>3, <2>4
<1>. HIDE DEF P
<1>3. i - 1 \in P
  <2>1. \A m \in Nat : m \in P
    BY <1>1, <1>2, Induction
  <2>. QED BY <2>1
<1>4. PICK k \in Nat : k * size <= i - 1 /\ i - 1 < k * size + size
  BY <1>3 DEF P
<1>5. k * size \in Int
  OBVIOUS
<1>. QED BY <1>4, <1>5

\* Where pages are whole, one shows the rows of its positions, if they can be seen.
LEMMA ShownWhole ==
  ASSUME TypeInv, WholePages, NEW n \in Nat, NEW i \in DOMAIN collection,
         n * page_size < i, i <= n * page_size + page_size, collection[i] \notin hidden
  PROVE  collection[i] \in Shown(n)
<1>1. PICK start \in Nat : start = n * page_size
  <2>1. n * page_size \in Nat
    BY ShownWithin
  <2>. QED BY <2>1
<1>2. /\ Len(collection) \in Nat /\ i \in 1 .. Len(collection) /\ page_size \in Nat \ {0}
      /\ listing.cap \in Nat /\ listing.cap >= page_size
  <2>1. collection \in Seq(Rows)
    BY DEF TypeInv, TypeOK
  <2>2. Len(collection) \in Nat /\ i \in 1 .. Len(collection)
    BY <2>1
  <2>. QED BY <2>2, Bounds DEF WholePages
<1>3. PICK a \in Int, b \in Int, c \in Int :
             a = start + page_size /\ b = start + listing.cap /\ c = Len(collection)
  <2>1. start + page_size \in Int /\ start + listing.cap \in Int /\ Len(collection) \in Int
    BY <1>2
  <2>. QED BY <2>1
<1>4. PICK end \in Int : end = Min({a, b, c}) /\ end \in {a, b, c} /\ end <= c
  <2>1. Min({a, b, c}) \in {a, b, c} /\ Min({a, b, c}) <= c
    BY MinProperties
  <2>. QED BY <2>1
<1>5. i \in start + 1 .. end
  BY <1>1, <1>2, <1>3, <1>4
<1>6. Shown(n) = {collection[j] : j \in start + 1 .. end} \ hidden
  BY <1>1, <1>3, <1>4 DEF Shown
<1>. QED BY <1>5, <1>6

\* What a page shows are rows that can be seen.
LEMMA ShownVisible ==
  ASSUME TypeInv, NEW n \in Nat
  PROVE  Shown(n) \subseteq ToSet(collection) \ hidden
<1>1. PICK start \in Nat : start = n * page_size
  <2>1. n * page_size \in Nat
    BY ShownWithin
  <2>. QED BY <2>1
<1>2. /\ Len(collection) \in Nat /\ DOMAIN collection = 1 .. Len(collection)
      /\ page_size \in Nat \ {0} /\ listing.cap \in Nat
  <2>1. collection \in Seq(Rows)
    BY DEF TypeInv, TypeOK
  <2>2. Len(collection) \in Nat /\ DOMAIN collection = 1 .. Len(collection)
    BY <2>1
  <2>. QED BY <2>2, Bounds
<1>3. PICK a \in Int, b \in Int, c \in Int :
             a = start + page_size /\ b = start + listing.cap /\ c = Len(collection)
  <2>1. start + page_size \in Int /\ start + listing.cap \in Int /\ Len(collection) \in Int
    BY <1>2
  <2>. QED BY <2>1
<1>4. PICK end \in Int : end = Min({a, b, c}) /\ end \in {a, b, c} /\ end <= c
  <2>1. Min({a, b, c}) \in {a, b, c} /\ Min({a, b, c}) <= c
    BY MinProperties
  <2>. QED BY <2>1
<1>5. Shown(n) = {collection[j] : j \in start + 1 .. end} \ hidden
  BY <1>1, <1>3, <1>4 DEF Shown
<1>6. \A j \in start + 1 .. end : j \in DOMAIN collection
  BY <1>2, <1>3, <1>4
<1>. QED BY <1>5, <1>6 DEF ToSet

\* While a regular listing goes on, it has taken rows that can be seen, and all of
\* them up to where it is.
LEMMA TakenSoFar ==
  ASSUME TypeInv, PagesInv, Regular, Active
  PROVE  /\ Taken \subseteq ToSet(collection) \ hidden
         /\ \A i \in DOMAIN collection :
              i <= Reach /\ collection[i] \notin hidden => collection[i] \in Taken
<1>1. /\ Taken = UNION {Shown(n) : n \in 0 .. fetched - 1}
      /\ Reach = fetched * page_size
      /\ WholePages /\ fetched \in Nat /\ page_size \in Nat \ {0}
  <2>1. Undisturbed /\ WholePages
    BY DEF Regular, WholePages, Undisturbed
  <2>2. Reach = fetched * page_size
    BY DEF TypeInv, CountInv, Active
  <2>. QED BY <2>1, <2>2, Bounds DEF PagesInv, FetchedPages
<1>2. Taken \subseteq ToSet(collection) \ hidden
  <2>1. \A n \in 0 .. fetched - 1 : Shown(n) \subseteq ToSet(collection) \ hidden
    BY ShownVisible
  <2>. QED BY <1>1, <2>1
<1>3. ASSUME NEW i \in DOMAIN collection, i <= Reach, collection[i] \notin hidden
      PROVE  collection[i] \in Taken
  <2>1. i \in Nat \ {0}
    BY DEF TypeInv, TypeOK
  <2>2. PICK k \in Nat : k * page_size < i /\ i <= k * page_size + page_size
    BY <1>1, <2>1, PageOf
  <2>3. collection[i] \in Shown(k)
    BY <1>1, <1>3, <2>2, ShownWhole
  <2>4. k <= fetched - 1
    <3>1. CASE k >= fetched
      <4>1. fetched * page_size <= k * page_size
        BY <1>1, <3>1, TimesMonotone
      <4>2. fetched * page_size \in Int /\ k * page_size \in Int
        BY <1>1
      <4>. QED BY <1>1, <1>3, <2>1, <2>2, <4>1, <4>2
    <3>. QED BY <1>1, <3>1
  <2>5. k \in 0 .. fetched - 1
    BY <1>1, <2>4
  <2>. QED BY <1>1, <2>3, <2>5
<1>. QED BY <1>2, <1>3

\* A regular listing shows every row that can be seen.
LEMMA AllIsShown ==
  ASSUME TypeInv, Regular
  PROVE  ToSet(collection) \ hidden \subseteq AllShown
<1>1. /\ WholePages /\ MaxPages \in Nat /\ page_size \in Nat \ {0}
      /\ Len(collection) <= MaxPages * page_size /\ collection \in Seq(Rows)
      /\ \A n \in 0 .. MaxPages - 1 : Shown(n) # {} => ~EmptyRunBefore(n)
  BY Bounds DEF Regular, TypeInv, TypeOK
<1>2. ASSUME NEW i \in DOMAIN collection, collection[i] \notin hidden
      PROVE  collection[i] \in AllShown
  <2>1. i \in Nat \ {0} /\ i <= Len(collection) /\ Len(collection) \in Nat
    BY <1>1
  <2>2. PICK k \in Nat : k * page_size < i /\ i <= k * page_size + page_size
    BY <1>1, <2>1, PageOf
  <2>3. collection[i] \in Shown(k)
    BY <1>1, <1>2, <2>2, ShownWhole
  <2>4. k <= MaxPages - 1
    <3>1. CASE k >= MaxPages
      <4>1. MaxPages * page_size <= k * page_size
        BY <1>1, <3>1, TimesMonotone
      <4>2. MaxPages * page_size \in Int /\ k * page_size \in Int
        BY <1>1
      <4>. QED BY <1>1, <2>1, <2>2, <4>1, <4>2
    <3>. QED BY <1>1, <3>1
  <2>5. k \in 0 .. MaxPages - 1 /\ ~EmptyRunBefore(k)
    BY <1>1, <2>3, <2>4
  <2>. QED BY <2>3, <2>5 DEF AllShown
<1>. QED BY <1>2 DEF ToSet

-----------------------------------------------------------------------------
\* What the caller of a regular listing is entitled to see.
LEMMA VisibleCollection ==
  ASSUME TypeInv, PagesInv, OrderInv, Regular
  PROVE  /\ Visible(collection) \in Seq(Int) /\ Increasing(Visible(collection))
         /\ ToSet(Visible(collection)) = ToSet(collection) \ hidden
<1>1. inserted = {} /\ server # "stuck"
  BY DEF PagesInv, Regular, WholePages, Undisturbed
<1>2. collection \in Seq(Int)
  <2>1. collection \in Seq(Rows) /\ Rows \subseteq Int
    BY Bounds DEF TypeInv, TypeOK
  <2>. QED BY <2>1, SeqMonotonic
<1>3. Increasing(collection)
  BY <1>1 DEF OrderInv
<1>. QED BY <1>2, <1>3, VisibleProperties

\* An item that is handed over is the next of them.
LEMMA HandsTheNext ==
  ASSUME TypeInv, TypeInv', PagesInv, OrderInv, OrderInv', Regular, Yield
  PROVE  /\ Len(results) < Len(Visible(collection)) /\ Len(results) < max_items
         /\ results' = Append(results, Visible(collection)[Len(results) + 1])
<1>1. /\ pc = "yielding" /\ page # <<>> /\ results' = Append(results, Head(page))
      /\ page' = Tail(page) /\ collection' = collection /\ server' = server
      /\ inserted' = inserted
  BY ReachSteps, IterateEnvironment DEF Iterate, Proceed
<1>2. inserted = {} /\ server # "stuck" /\ Undisturbed /\ Active
  BY <1>1 DEF PagesInv, Regular, WholePages, Undisturbed, Active
<1>3. PICK t \in Seq(Int) : /\ t = Visible(collection) /\ Increasing(t)
                            /\ ToSet(t) = ToSet(collection) \ hidden
  BY VisibleCollection
<1>4. /\ results \in Seq(Rows) /\ page \in Seq(Rows) /\ Rows \subseteq Int /\ Rows \in SUBSET Int
      /\ collection \in Seq(Rows)
  BY Bounds DEF TypeInv, TypeOK
<1>5. PICK first \in Rows : first = Head(page) /\ ToSet(page) = {first} \union ToSet(Tail(page))
  BY <1>1, <1>4, HeadTailIncreasing
<1>6. PICK s \in Seq(Rows) : s = Append(results, first) /\ ToSet(s) = ToSet(results) \union {first}
  <2>1. /\ Append(results, first) \in Seq(Rows)
        /\ ToSet(Append(results, first)) = ToSet(results) \union {first}
    BY <1>4, AppendElements
  <2>. QED BY <2>1
<1>7. /\ s = results' /\ Increasing(s) /\ \A x \in ToSet(s), y \in ToSet(Tail(page)) : x < y
  BY <1>1, <1>2, <1>5, <1>6 DEF OrderInv
<1>8. ToSet(s) \subseteq Taken /\ Taken = ToSet(s) \union ToSet(Tail(page))
  BY <1>5, <1>6 DEF Taken
<1>9. ToSet(s) \subseteq ToSet(t)
  BY <1>2, <1>3, <1>8, TakenSoFar
<1>10. ASSUME NEW x \in ToSet(s), NEW y \in ToSet(t) PROVE y \in ToSet(s) \/ x < y
  <2>1. PICK i \in DOMAIN collection : y = collection[i] /\ y \notin hidden
    BY <1>3 DEF ToSet
  <2>2. CASE i <= Reach
    BY <1>2, <1>7, <1>8, <2>1, <2>2, TakenSoFar
  <2>3. CASE i > Reach
    BY <1>2, <1>8, <2>1, <2>3 DEF OrderInv
  <2>4. i <= Reach \/ i > Reach
    BY <1>2, <1>4, ReachSteps DEF Active
  <2>. QED BY <2>2, <2>3, <2>4
<1>11. s \in Seq(Int)
  BY <1>4, SeqMonotonic
<1>12. Len(s) <= Len(t) /\ \A i \in 1 .. Len(s) : s[i] = t[i]
  BY <1>3, <1>7, <1>9, <1>10, <1>11, IncreasingPrefix
<1>13. Len(s) = Len(results) + 1 /\ s[Len(results) + 1] = first /\ Len(results) \in Nat
  BY <1>4, <1>6
<1>14. Len(t) \in Nat
  BY <1>3
<1>15. first = t[Len(results) + 1] /\ Len(results) < Len(t)
  BY <1>12, <1>13, <1>14
<1>16. Len(results) < max_items
  <2>1. results = <<>> \/ Len(results) < max_items
    BY <1>2 DEF PagesInv, FetchedPages
  <2>2. max_items > 0 /\ max_items \in Nat
    BY Bounds DEF Regular
  <2>3. results = <<>> => Len(results) = 0
    OBVIOUS
  <2>. QED BY <2>1, <2>2, <2>3
<1>. QED BY <1>1, <1>3, <1>5, <1>15, <1>16

\* A regular listing that ends without an item has handed over all of them.
LEMMA EndsWithAll ==
  ASSUME TypeInv, PagesInv, PagesInv', OrderInv, Regular, Active,
         results' = results, pc' = "ended", UNCHANGED arguments, collection' = collection
  PROVE  results = Visible(collection)
<1>1. inserted = {} /\ server # "stuck" /\ Undisturbed /\ Undisturbed' /\ AllShown' = AllShown
  BY ShownStays DEF PagesInv, Regular, WholePages, Undisturbed
<1>2. max_items' = max_items /\ max_items \in Nat /\ results \in Seq(Rows) /\ Rows \subseteq Int
  BY Constants, Bounds DEF TypeInv, TypeOK
<1>3. AllShown \subseteq ToSet(results)
  <2>1. \/ AllShown \subseteq ToSet(results)
        \/ results # <<>> /\ Len(results) >= max_items
    BY <1>1, <1>2 DEF PagesInv, EndedPages
  <2>2. results = <<>> \/ Len(results) < max_items
    BY <1>1 DEF PagesInv, FetchedPages
  <2>3. Len(results) \in Nat
    BY <1>2
  <2>. QED BY <1>2, <2>1, <2>2, <2>3
<1>4. PICK t \in Seq(Int) : /\ t = Visible(collection) /\ Increasing(t)
                            /\ ToSet(t) = ToSet(collection) \ hidden
  BY VisibleCollection
<1>5. ToSet(results) = ToSet(t)
  <2>1. ToSet(t) \subseteq ToSet(results)
    BY <1>3, <1>4, AllIsShown
  <2>2. ToSet(results) \subseteq ToSet(t)
    BY <1>4, TakenSoFar DEF Taken
  <2>. QED BY <2>1, <2>2
<1>6. Increasing(results)
  BY <1>1 DEF OrderInv
<1>7. results \in Seq(Int)
  BY <1>2, SeqMonotonic
<1>. QED BY <1>4, <1>5, <1>6, <1>7, IncreasingEqual

\* The rows are what they were, as far as the caller of a regular listing can see.
LEMMA RowsStay ==
  ASSUME UNCHANGED arguments, collection' = collection
  PROVE  ListRows' = ListRows /\ max_items' = max_items /\ Regular' = Regular
<1>1. hidden' = hidden /\ max_items' = max_items /\ Regular' = Regular
  BY Constants, ShownStays
<1>2. Visible(collection)' = Visible(collection)
  BY <1>1 DEF Visible
<1>. QED BY <1>1, <1>2 DEF ListRows

LEMMA ListInit == Init => List!Init
BY DEF Init, List!Init, ListResults, ListEnded

\* The generator is running before its step, and changes no row.
LEMMA IterateFrame ==
  ASSUME Iterate
  PROVE  /\ Active /\ UNCHANGED arguments /\ UNCHANGED environment
         /\ pc' \in {"fetching", "yielding", "ended", "raised"}
BY DEF Iterate, Proceed, FetchRaises, FetchUndecodable, RaiseInFetch, FetchPage,
   FetchEmptyPage, PagesExhausted, Yield, PageDone, Active

\* To Listing, a listing that is not regular does nothing until it raises.
LEMMA IrregularSteps ==
  ASSUME ~Regular, Iterate
  PROVE  [List!Next]_(List!vars)
<1>1. ~Regular' /\ ListRows' = <<>> /\ ListRows = <<>> /\ max_items' = max_items
      /\ ListResults' = <<>> /\ ListResults = <<>>
  BY IterateFrame, RowsStay DEF environment, ListRows, ListResults
<1>2. /\ ListEnded = "no"
      /\ ListEnded' = IF pc' \in {"ended", "raised"} THEN "raised" ELSE "no"
  BY <1>1, IterateFrame DEF ListEnded, Active
<1>. QED BY <1>1, <1>2 DEF List!Next, List!Raise, List!vars

\* To Listing, a regular one hands over what it hands over, and ends when it ends.
LEMMA RegularSteps ==
  ASSUME TypeInv, TypeInv', PagesInv, PagesInv', OrderInv, OrderInv', Regular, Iterate
  PROVE  [List!Next]_(List!vars)
<1>1. /\ Active /\ Regular' /\ ListRows' = ListRows /\ max_items' = max_items
      /\ ListRows = Visible(collection) /\ ListResults = results /\ ListResults' = results'
      /\ ListEnded = "no" /\ UNCHANGED arguments /\ collection' = collection
  BY IterateFrame, RowsStay DEF environment, ListRows, ListResults, ListEnded, Active
<1>2. ListEnded' = CASE pc' = "raised" -> "raised"
                     [] pc' = "ended"  -> "end"
                     [] OTHER          -> "no"
  BY <1>1 DEF ListEnded
<1>3. CASE pc' = "raised" /\ results' = results
  BY <1>1, <1>2, <1>3 DEF List!Next, List!Raise
<1>4. CASE pc' = "ended" /\ results' = results
  <2>1. results = Visible(collection)
    BY <1>1, <1>4, EndsWithAll
  <2>. QED BY <1>1, <1>2, <1>4, <2>1 DEF List!Next, List!End
<1>5. CASE pc' \in {"fetching", "yielding"} /\ results' = results
  BY <1>1, <1>2, <1>5 DEF List!vars
<1>6. CASE Yield
  <2>1. /\ Len(results) < Len(Visible(collection)) /\ Len(results) < max_items
        /\ results' = Append(results, Visible(collection)[Len(results) + 1])
    BY <1>6, HandsTheNext
  <2>2. pc' = IF Len(results') >= max_items THEN "ended" ELSE "yielding"
    BY <1>6 DEF Yield
  <2>3. ListEnded' = IF Len(results') >= max_items THEN "end" ELSE "no"
    BY <1>2, <2>2
  <2>. QED BY <1>1, <2>1, <2>3 DEF List!Next, List!Hand
<1>7. Yield \/ results' = results
  BY DEF Iterate, Proceed, FetchRaises, FetchUndecodable, RaiseInFetch, FetchPage,
     FetchEmptyPage, PagesExhausted, PageDone
<1>. QED BY <1>3, <1>4, <1>5, <1>6, <1>7, IterateFrame

\* Where other clients make changes, no listing is regular.
LEMMA ChangesAreIrregular ==
  ASSUME TypeInv, Insert \/ Delete
  PROVE  UNCHANGED List!vars
<1>1. /\ UNCHANGED arguments /\ UNCHANGED generator /\ Changes < listing.changes
  BY DEF Insert, Delete
<1>2. ~Regular /\ ~Regular'
  <2>1. Changes \in Nat
    BY FiniteHistory, FS_CardinalityType DEF Changes
  <2>2. listing.changes # 0 /\ listing' = listing
    BY <1>1, <2>1 DEF arguments
  <2>. QED BY <2>2 DEF Regular
<1>3. max_items' = max_items /\ pc' = pc
  BY <1>1, Constants DEF generator
<1>. QED BY <1>2, <1>3 DEF List!vars, ListRows, ListResults, ListEnded

\* A step of a listing is a step of Listing, or none.
LEMMA ListStep ==
  ASSUME TypeInv, TypeInv', PagesInv, PagesInv', OrderInv, OrderInv', [Next]_vars
  PROVE  [List!Next]_(List!vars)
<1>1. CASE UNCHANGED vars
  <2>1. UNCHANGED arguments /\ UNCHANGED generator /\ UNCHANGED environment
    BY <1>1 DEF vars
  <2>2. /\ ListRows' = ListRows /\ max_items' = max_items /\ Regular' = Regular
        /\ pc' = pc /\ results' = results
    BY <2>1, RowsStay DEF environment, generator
  <2>. QED BY <2>2 DEF List!vars, ListResults, ListEnded
<1>2. CASE Iterate
  BY <1>2, IrregularSteps, RegularSteps
<1>3. CASE Insert \/ Delete
  BY <1>3, ChangesAreIrregular
<1>. QED BY <1>1, <1>2, <1>3 DEF Next

\* Pagination implements Listing, as far as safety goes: the caller of a listing
\* that can be listed in full is handed its rows one by one, in order, each once,
\* and is told that it ended when it has all of them, or those it asked for.
THEOREM ListingSteps == Spec => List!Init /\ [][List!Next]_(List!vars)
<1>1. Init => List!Init
  BY ListInit
<1>2. /\ TypeInv /\ TypeInv' /\ PagesInv /\ PagesInv' /\ OrderInv /\ OrderInv'
      /\ [Next]_vars
      => [List!Next]_(List!vars)
  BY ListStep
<1>. QED BY <1>1, <1>2, TypesAlways, PagesAlways, OrderAlways, PTL DEF Spec

=============================================================================
