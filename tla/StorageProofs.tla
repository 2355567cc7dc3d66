--------------------------- MODULE StorageProofs ---------------------------
(***************************************************************************)
(* The file storage keeps memory, indexes and file consistent, and         *)
(* implements the abstract session store, for any sets of names and any    *)
(* sequence of calls, failed saves and restarts.                           *)
(***************************************************************************)
EXTENDS Storage, WellFoundedInduction, TLAPS

(* A non-empty set of naturals has the least element that Min names.       *)
LEMMA MinInSet ==
  ASSUME NEW I, I \subseteq Nat, I # {}
  PROVE  Min(I) \in I
<1> DEFINE R == OpToRel(<, Nat)
<1>1. PICK x \in I : \A y \in I : ~(<<y, x>> \in R)
  BY NatLessThanWellFounded, WFMin
<1>2. ASSUME NEW y \in I PROVE x =< y
  <2>1. ~(<<y, x>> \in R)
    BY <1>1
  <2>2. ~(y < x)
    BY <2>1 DEF OpToRel
  <2> QED
    BY <2>2
<1> QED
  BY <1>2 DEF Min

(* Dropping the first occurrence of e keeps every other element, invents   *)
(* none, and leaves no e in a list without duplicates.                     *)
LEMMA RemoveFirstFacts ==
  ASSUME NEW S, NEW q \in Seq(S), NEW e
  PROVE  /\ RemoveFirst(q, e) \in Seq(S)
         /\ \A i \in 1..Len(RemoveFirst(q, e)) :
              \E j \in 1..Len(q) : RemoveFirst(q, e)[i] = q[j]
         /\ \A j \in 1..Len(q) : q[j] # e =>
              \E i \in 1..Len(RemoveFirst(q, e)) : RemoveFirst(q, e)[i] = q[j]
         /\ IsInjective(q) => /\ IsInjective(RemoveFirst(q, e))
                              /\ \A i \in 1..Len(RemoveFirst(q, e)) :
                                    RemoveFirst(q, e)[i] # e
<1>1. CASE ~\E i \in 1..Len(q) : q[i] = e
  BY <1>1 DEF RemoveFirst
<1>2. CASE \E i \in 1..Len(q) : q[i] = e
  <2> DEFINE I == {i \in 1..Len(q) : q[i] = e}
             n == Min(I)
             r == RemoveFirst(q, e)
  <2>1. n \in 1..Len(q) /\ q[n] = e
    <3>1. I \subseteq Nat /\ I # {}
      BY <1>2
    <3> HIDE DEF I
    <3>2. n \in I
      BY <3>1, MinInSet
    <3> QED
      BY <3>2 DEF I
  <2>2. r = SubSeq(q, 1, n-1) \o SubSeq(q, n+1, Len(q))
    BY <1>2 DEF RemoveFirst, RemoveAt, SelectInSeq
  <2>3. /\ r \in Seq(S)
        /\ Len(r) = Len(q) - 1
        /\ \A i \in 1..Len(r) : r[i] = IF i < n THEN q[i] ELSE q[i+1]
    <3> DEFINE a == SubSeq(q, 1, n-1)
               b == SubSeq(q, n+1, Len(q))
    <3> HIDE DEF n
    <3>1. /\ a \in Seq(S) /\ Len(a) = n - 1
          /\ \A i \in 1..Len(a) : a[i] = q[i]
      BY <2>1
    <3>2. /\ b \in Seq(S) /\ Len(b) = Len(q) - n
          /\ \A i \in 1..Len(b) : b[i] = q[n + i]
      BY <2>1
    <3>3. r = a \o b
      BY <2>2
    <3> HIDE DEF a, b, r
    <3>4. /\ r \in Seq(S) /\ Len(r) = Len(q) - 1
          /\ \A i \in 1..Len(r) :
               r[i] = IF i =< Len(a) THEN a[i] ELSE b[i - Len(a)]
      <4>1. r \in Seq(S) /\ Len(r) = Len(a) + Len(b)
        BY <3>1, <3>2, <3>3
      <4>2. Len(r) = Len(q) - 1
        BY <2>1, <3>1, <3>2, <4>1
      <4>3. ASSUME NEW i \in 1..Len(r)
            PROVE  r[i] = IF i =< Len(a) THEN a[i] ELSE b[i - Len(a)]
        BY <3>1, <3>2, <3>3, <4>1
      <4> QED
        BY <4>1, <4>2, <4>3
    <3>5. ASSUME NEW i \in 1..Len(r)
          PROVE  r[i] = IF i < n THEN q[i] ELSE q[i+1]
      <4>1. CASE i < n
        BY <2>1, <3>1, <3>4, <4>1
      <4>2. CASE ~(i < n)
        <5>1. i - Len(a) \in 1..Len(b)
          BY <2>1, <3>1, <3>2, <3>4, <4>2
        <5>2. b[i - Len(a)] = q[n + (i - Len(a))]
          BY <3>2, <5>1
        <5>3. n + (i - Len(a)) = i + 1
          BY <2>1, <3>1
        <5> QED
          BY <2>1, <3>1, <3>4, <4>2, <5>2, <5>3
      <4> QED
        BY <4>1, <4>2
    <3> QED
      BY <3>4, <3>5
  <2> HIDE DEF n, r
  <2>4. \A i \in 1..Len(r) : \E j \in 1..Len(q) : r[i] = q[j]
    BY <2>1, <2>3
  <2>5. ASSUME NEW j \in 1..Len(q), q[j] # e
        PROVE  \E i \in 1..Len(r) : r[i] = q[j]
    <3>1. CASE j < n
      BY <2>1, <2>3, <3>1
    <3>2. CASE j > n
      <4>1. j - 1 \in 1..Len(r) /\ r[j - 1] = q[j]
        BY <2>1, <2>3, <3>2
      <4> QED
        BY <4>1
    <3> QED
      BY <2>1, <2>5, <3>1, <3>2
  <2>6. ASSUME IsInjective(q)
        PROVE  IsInjective(r) /\ \A i \in 1..Len(r) : r[i] # e
    <3>1. DOMAIN r = 1..Len(r) /\ DOMAIN q = 1..Len(q)
      BY <2>3
    <3>2. \A a, b \in 1..Len(q) : q[a] = q[b] => a = b
      BY <2>6, <3>1 DEF IsInjective
    <3>3. ASSUME NEW a \in 1..Len(r), NEW b \in 1..Len(r), r[a] = r[b]
          PROVE  a = b
      <4> DEFINE up(i) == IF i < n THEN i ELSE i + 1
      <4>1. /\ up(a) \in 1..Len(q) /\ r[a] = q[up(a)]
            /\ up(b) \in 1..Len(q) /\ r[b] = q[up(b)]
        BY <2>1, <2>3
      <4>2. up(a) = up(b)
        BY <3>2, <3>3, <4>1
      <4> QED
        BY <2>1, <2>3, <4>2
    <3>4. \A i \in 1..Len(r) : r[i] # e
      BY <2>1, <2>3, <3>2
    <3> QED
      BY <3>1, <3>3, <3>4 DEF IsInjective
  <2> QED
    BY <2>3, <2>4, <2>5, <2>6 DEF r
<1> QED
  BY <1>1, <1>2
-----------------------------------------------------------------------------
(* A container or client row only ever carries the session of its name.    *)
OwnRows(d) == \A n \in OwnNames : d.row[n] \in {None, Owner[n]}

(* What every database the code builds satisfies, in memory or in the file.*)
GoodDB(d) == WellTyped(d) /\ RowsReachable(d) /\ ListsExact(d) /\ OwnRows(d)

(* The inductive invariant.                                                *)
IInv == /\ GoodDB(Snapshot)
        /\ disk # Torn => GoodDB(Loaded)
        /\ pc \in {"down", "idle", "saving"}
        /\ saveErr \in BOOLEAN

(* GoodDB of a record, spelt out on its three fields.                      *)
Good(S, r, ix) ==
  /\ S \subseteq SessionIds
  /\ r \in [Names -> SessionIds \cup {None}]
  /\ ix \in [Tables -> [SessionIds -> Seq(Names)]]
  /\ \A t \in Tables, s \in SessionIds :
       \A i \in 1..Len(ix[t][s]) : TableOf(ix[t][s][i]) = t
  /\ \A n \in Names : r[n] # None =>
       /\ r[n] \in S
       /\ \E i \in 1..Len(ix[TableOf(n)][r[n]]) : ix[TableOf(n)][r[n]][i] = n
  /\ \A t \in Tables \ {"windows"}, s \in SessionIds :
       /\ IsInjective(ix[t][s])
       /\ \A i \in 1..Len(ix[t][s]) : r[ix[t][s][i]] = s
  /\ \A n \in OwnNames : r[n] \in {None, Owner[n]}

(* Every name lives in one of the three tables.                            *)
LEMMA TableOfName == \A n : TableOf(n) \in Tables
BY DEF TableOf, Tables

(* Memory as a record is consistent exactly when its parts are.            *)
LEMMA GoodRecord ==
  ASSUME NEW S, NEW r, NEW ix
  PROVE  GoodDB([sessions |-> S, row |-> r, index |-> ix]) <=> Good(S, r, ix)
<1> DEFINE d == [sessions |-> S, row |-> r, index |-> ix]
<1>1. d.sessions = S /\ d.row = r /\ d.index = ix
  OBVIOUS
<1>2. d \in Snapshots <=> /\ S \subseteq SessionIds
                         /\ r \in [Names -> SessionIds \cup {None}]
                         /\ ix \in [Tables -> [SessionIds -> Seq(Names)]]
  BY DEF Snapshots
<1> SUFFICES GoodDB(d) <=> Good(S, r, ix)
  OBVIOUS
<1> HIDE DEF d
<1>3. CASE d \in Snapshots
  <2>1. \A n \in Names : r[n] # None =>
          (n \in Range(ix[TableOf(n)][r[n]]) <=>
           \E i \in 1..Len(ix[TableOf(n)][r[n]]) : ix[TableOf(n)][r[n]][i] = n)
    <3> TAKE n \in Names
    <3> HAVE r[n] # None
    <3> DEFINE q == ix[TableOf(n)][r[n]]
    <3>1. q \in Seq(Names)
      BY <1>2, <1>3, TableOfName
    <3> HIDE DEF q
    <3>2. Range(q) = {q[i] : i \in 1..Len(q)}
      <4>1. DOMAIN q = 1..Len(q)
        BY <3>1
      <4> QED
        BY <4>1 DEF Range
    <3> QED
      BY <3>2 DEF q
  <2>2. WellTyped(d) <=> \A t \in Tables, s \in SessionIds :
          \A i \in 1..Len(ix[t][s]) : TableOf(ix[t][s][i]) = t
    BY <1>1, <1>3 DEF WellTyped
  <2>3. RowsReachable(d) <=> \A n \in Names : r[n] # None =>
          /\ r[n] \in S
          /\ \E i \in 1..Len(ix[TableOf(n)][r[n]]) : ix[TableOf(n)][r[n]][i] = n
    BY <1>1, <2>1 DEF RowsReachable
  <2>4. ListsExact(d) <=> \A t \in Tables \ {"windows"}, s \in SessionIds :
          /\ IsInjective(ix[t][s])
          /\ \A i \in 1..Len(ix[t][s]) : r[ix[t][s][i]] = s
    BY <1>1 DEF ListsExact
  <2>5. OwnRows(d) <=> \A n \in OwnNames : r[n] \in {None, Owner[n]}
    BY <1>1 DEF OwnRows
  <2> QED
    BY <1>2, <1>3, <2>2, <2>3, <2>4, <2>5 DEF GoodDB, Good
<1>4. CASE d \notin Snapshots
  BY <1>2, <1>4 DEF GoodDB, Good, WellTyped
<1> QED
  BY <1>3, <1>4
-----------------------------------------------------------------------------
(* An empty database is consistent (storage.load without a file).          *)
LEMMA GoodEmpty == Good({}, NoRows, NoLists)
<1>1. \A t \in Tables, s \in SessionIds : NoLists[t][s] = <<>>
  BY DEF NoLists
<1>2. \A n \in Names : NoRows[n] = None
  BY DEF NoRows
<1>3. NoRows \in [Names -> SessionIds \cup {None}]
  BY DEF NoRows
<1>4. NoLists \in [Tables -> [SessionIds -> Seq(Names)]]
  BY DEF NoLists
<1>5. IsInjective(<<>>)
  BY DEF IsInjective
<1>6. OwnNames \subseteq Names
  BY DEF OwnNames, Names
<1> QED
  BY <1>1, <1>2, <1>3, <1>4, <1>5, <1>6 DEF Good

(* Replacing one list of an index changes no other list.                   *)
LEMMA OneList ==
  ASSUME NEW ix \in [Tables -> [SessionIds -> Seq(Names)]],
         NEW t0 \in Tables, NEW s0 \in SessionIds, NEW q \in Seq(Names)
  PROVE  LET jx == [ix EXCEPT ![t0][s0] = q] IN
           /\ jx \in [Tables -> [SessionIds -> Seq(Names)]]
           /\ \A t \in Tables, s \in SessionIds :
                jx[t][s] = IF t = t0 /\ s = s0 THEN q ELSE ix[t][s]
OBVIOUS

(* Deleting a row and its name from the index keeps a database consistent  *)
(* (InstanceDelete and its like).                                          *)
LEMMA GoodDelete ==
  ASSUME NEW S, NEW r, NEW ix, Good(S, r, ix), NEW n \in Names, r[n] # None
  PROVE  Good(S, [r EXCEPT ![n] = None],
              [ix EXCEPT ![TableOf(n)][r[n]] = RemoveFirst(@, n)])
<1> DEFINE t0 == TableOf(n)
           s0 == r[n]
           q0 == ix[t0][s0]
           q  == RemoveFirst(q0, n)
           r1 == [r EXCEPT ![n] = None]
           jx == [ix EXCEPT ![t0][s0] = q]
<1>1. t0 \in Tables /\ s0 \in SessionIds /\ q0 \in Seq(Names)
  BY TableOfName DEF Good
<1>2. /\ q \in Seq(Names)
      /\ \A i \in 1..Len(q) : \E j \in 1..Len(q0) : q[i] = q0[j]
      /\ \A j \in 1..Len(q0) : q0[j] # n => \E i \in 1..Len(q) : q[i] = q0[j]
      /\ IsInjective(q0) => /\ IsInjective(q)
                            /\ \A i \in 1..Len(q) : q[i] # n
  <2> HIDE DEF t0, s0, q0
  <2> QED
    BY <1>1, RemoveFirstFacts
<1>3. /\ jx \in [Tables -> [SessionIds -> Seq(Names)]]
      /\ \A t \in Tables, s \in SessionIds :
           jx[t][s] = IF t = t0 /\ s = s0 THEN q ELSE ix[t][s]
  BY <1>1, <1>2, OneList DEF Good
<1>4. /\ r1 \in [Names -> SessionIds \cup {None}]
      /\ \A m \in Names : r1[m] = IF m = n THEN None ELSE r[m]
  BY DEF Good
<1> HIDE DEF t0, s0, q0, q, r1, jx
<1>5. Good(S, r1, jx)
  <2>1. \A t \in Tables, s \in SessionIds :
          \A i \in 1..Len(jx[t][s]) : TableOf(jx[t][s][i]) = t
    <3> TAKE t \in Tables, s \in SessionIds
    <3>1. \A i \in 1..Len(ix[t][s]) : TableOf(ix[t][s][i]) = t
      BY DEF Good
    <3>2. CASE t = t0 /\ s = s0
      <4>1. jx[t][s] = q /\ q0 = ix[t][s]
        BY <1>1, <1>3, <3>2 DEF q0
      <4> QED
        BY <1>2, <3>1, <4>1
    <3>3. CASE ~(t = t0 /\ s = s0)
      BY <1>3, <3>1, <3>3
    <3> QED
      BY <3>2, <3>3
  <2>2. ASSUME NEW m \in Names, r1[m] # None
        PROVE  /\ r1[m] \in S
               /\ \E i \in 1..Len(jx[TableOf(m)][r1[m]]) :
                    jx[TableOf(m)][r1[m]][i] = m
    <3>1. m # n /\ r1[m] = r[m] /\ r[m] \in S /\ r[m] \in SessionIds
      BY <1>4, <2>2 DEF Good
    <3>2. PICK i \in 1..Len(ix[TableOf(m)][r[m]]) : ix[TableOf(m)][r[m]][i] = m
      BY <3>1, <2>2 DEF Good
    <3>3. CASE TableOf(m) = t0 /\ r[m] = s0
      <4>1. PICK k \in 1..Len(q) : q[k] = m
        BY <1>1, <1>2, <3>1, <3>2, <3>3 DEF q0
      <4>2. jx[TableOf(m)][r1[m]] = q
        BY <1>1, <1>3, <3>1, <3>3
      <4> QED
        BY <3>1, <4>1, <4>2
    <3>4. CASE ~(TableOf(m) = t0 /\ r[m] = s0)
      BY <1>3, <3>1, <3>2, <3>4, TableOfName
    <3> QED
      BY <3>1, <3>3, <3>4
  <2>3. ASSUME NEW t \in Tables \ {"windows"}, NEW s \in SessionIds
        PROVE  /\ IsInjective(jx[t][s])
               /\ \A i \in 1..Len(jx[t][s]) : r1[jx[t][s][i]] = s
    <3>1. /\ IsInjective(ix[t][s])
          /\ \A i \in 1..Len(ix[t][s]) : /\ ix[t][s][i] \in Names
                                         /\ TableOf(ix[t][s][i]) = t
                                         /\ r[ix[t][s][i]] = s
      BY DEF Good
    <3>2. CASE t = t0 /\ s = s0
      <4>1. jx[t][s] = q /\ q0 = ix[t][s]
        BY <1>1, <1>3, <3>2 DEF q0
      <4>2. IsInjective(q) /\ \A i \in 1..Len(q) : q[i] # n
        BY <1>2, <3>1, <4>1
      <4>3. ASSUME NEW i \in 1..Len(q) PROVE r1[q[i]] = s
        <5>1. PICK j \in 1..Len(q0) : q[i] = q0[j]
          BY <1>2
        <5> QED
          BY <1>4, <3>1, <4>1, <4>2, <5>1
      <4> QED
        BY <4>1, <4>2, <4>3
    <3>3. CASE ~(t = t0 /\ s = s0)
      <4>1. \A i \in 1..Len(ix[t][s]) : ix[t][s][i] # n
        BY <3>1, <3>3 DEF t0, s0
      <4> QED
        BY <1>3, <1>4, <3>1, <3>3, <4>1
    <3> QED
      BY <3>2, <3>3
  <2>4. \A m \in OwnNames : r1[m] \in {None, Owner[m]}
    BY <1>4 DEF Good, OwnNames, Names
  <2> QED
    BY <1>3, <1>4, <2>1, <2>2, <2>3, <2>4 DEF Good
<1> QED
  BY <1>5 DEF t0, s0, q0, q, r1, jx

(* What append to an index list gives, as the provers need it.             *)
LEMMA AppendFacts ==
  ASSUME NEW q \in Seq(Names), NEW n \in Names
  PROVE  /\ Append(q, n) \in Seq(Names)
         /\ Len(Append(q, n)) = Len(q) + 1
         /\ \A i \in 1..Len(q) : Append(q, n)[i] = q[i]
         /\ Append(q, n)[Len(q) + 1] = n
OBVIOUS

(* A Put may only name a stored session, and only the session its own name *)
(* carries when the name has one.                                          *)
LEMMA GoodPut ==
  ASSUME NEW S, NEW r, NEW ix, Good(S, r, ix),
         NEW n \in Names, NEW s0 \in S, n \in OwnNames => s0 = Owner[n]
  PROVE  Good(S, [r EXCEPT ![n] = s0],
              IF n \in Range(ix[TableOf(n)][s0]) THEN ix
              ELSE [ix EXCEPT ![TableOf(n)][s0] = Append(@, n)])
<1> DEFINE t0 == TableOf(n)
           q0 == ix[t0][s0]
           r1 == [r EXCEPT ![n] = s0]
           jx == IF n \in Range(q0) THEN ix
                 ELSE [ix EXCEPT ![t0][s0] = Append(q0, n)]
           q  == jx[t0][s0]
<1>1. t0 \in Tables /\ s0 \in SessionIds /\ q0 \in Seq(Names)
  BY TableOfName DEF Good
<1>2. /\ r1 \in [Names -> SessionIds \cup {None}]
      /\ \A m \in Names : r1[m] = IF m = n THEN s0 ELSE r[m]
  BY <1>1 DEF Good
<1>3. n \in Range(q0) <=> \E i \in 1..Len(q0) : q0[i] = n
  <2> HIDE DEF q0
  <2>1. DOMAIN q0 = 1..Len(q0)
    BY <1>1
  <2> QED
    BY <2>1 DEF Range
<1>4. t0 # "windows" => n \in OwnNames /\ s0 = Owner[n]
  BY DEF TableOf, OwnNames
<1>5. /\ jx \in [Tables -> [SessionIds -> Seq(Names)]]
      /\ \A t \in Tables, s \in SessionIds :
           ~(t = t0 /\ s = s0) => jx[t][s] = ix[t][s]
      /\ q = IF n \in Range(q0) THEN q0 ELSE Append(q0, n)
  <2>1. ix \in [Tables -> [SessionIds -> Seq(Names)]]
    BY DEF Good
  <2>2. Append(q0, n) \in Seq(Names)
    BY <1>1
  <2> DEFINE kx == [ix EXCEPT ![t0][s0] = Append(q0, n)]
  <2>3. /\ kx \in [Tables -> [SessionIds -> Seq(Names)]]
        /\ \A t \in Tables, s \in SessionIds :
             kx[t][s] = IF t = t0 /\ s = s0 THEN Append(q0, n) ELSE ix[t][s]
    <3> HIDE DEF t0, q0
    <3> QED
      BY <1>1, <2>1, <2>2, OneList
  <2> HIDE DEF kx, t0, q0
  <2>4. CASE n \in Range(q0)
    BY <1>1, <2>1, <2>4 DEF q0
  <2>5. CASE n \notin Range(q0)
    BY <1>1, <2>3, <2>5 DEF kx
  <2> QED
    BY <2>4, <2>5
<1> HIDE DEF t0, q0, r1, jx, q
<1>6. /\ q \in Seq(Names)
      /\ \A i \in 1..Len(q) : q[i] = n \/ \E j \in 1..Len(q0) : q[i] = q0[j]
      /\ \A j \in 1..Len(q0) : j \in 1..Len(q) /\ q[j] = q0[j]
      /\ \E i \in 1..Len(q) : q[i] = n
      /\ IsInjective(q0) => IsInjective(q)
  <2>1. CASE n \in Range(q0)
    BY <1>1, <1>3, <1>5, <2>1
  <2>2. CASE n \notin Range(q0)
    <3>1. /\ q \in Seq(Names) /\ Len(q) = Len(q0) + 1
          /\ \A i \in 1..Len(q0) : q[i] = q0[i]
          /\ q[Len(q0) + 1] = n
      BY <1>1, <1>5, <2>2, AppendFacts
    <3>2. \A i \in 1..Len(q) : i \in 1..Len(q0) \/ i = Len(q0) + 1
      BY <1>1, <3>1
    <3>3. Len(q0) \in Nat /\ Len(q0) + 1 \in 1..Len(q)
      BY <1>1, <3>1
    <3>4. ASSUME IsInjective(q0) PROVE IsInjective(q)
      <4>1. DOMAIN q = 1..Len(q) /\ DOMAIN q0 = 1..Len(q0)
        BY <1>1, <3>1
      <4>2. \A a, b \in 1..Len(q0) : q0[a] = q0[b] => a = b
        BY <3>4, <4>1 DEF IsInjective
      <4>3. \A a \in 1..Len(q0) : q0[a] # n
        BY <1>3, <2>2
      <4>4. \A a, b \in 1..Len(q) : q[a] = q[b] => a = b
        BY <3>1, <3>2, <4>2, <4>3
      <4> QED
        BY <4>1, <4>4 DEF IsInjective
    <3> QED
      BY <3>1, <3>2, <3>3, <3>4
  <2> QED
    BY <2>1, <2>2
<1>7. Good(S, r1, jx)
  <2>1. ASSUME NEW t \in Tables, NEW s \in SessionIds
        PROVE  \A i \in 1..Len(jx[t][s]) : TableOf(jx[t][s][i]) = t
    <3>1. \A i \in 1..Len(ix[t][s]) : TableOf(ix[t][s][i]) = t
      BY DEF Good
    <3>2. CASE t = t0 /\ s = s0
      <4>1. jx[t][s] = q /\ q0 = ix[t][s] /\ TableOf(n) = t
        BY <3>2 DEF q, q0, t0
      <4> QED
        BY <1>6, <3>1, <4>1
    <3>3. CASE ~(t = t0 /\ s = s0)
      BY <1>5, <3>1, <3>3
    <3> QED
      BY <3>2, <3>3
  <2>2. ASSUME NEW m \in Names, r1[m] # None
        PROVE  /\ r1[m] \in S
               /\ \E i \in 1..Len(jx[TableOf(m)][r1[m]]) :
                    jx[TableOf(m)][r1[m]][i] = m
    <3>1. CASE m = n
      BY <1>2, <1>6, <3>1 DEF q, t0
    <3>2. CASE m # n
      <4>1. r1[m] = r[m] /\ r[m] \in S /\ r[m] \in SessionIds
        BY <1>2, <2>2, <3>2 DEF Good
      <4>2. PICK i \in 1..Len(ix[TableOf(m)][r[m]]) : ix[TableOf(m)][r[m]][i] = m
        BY <2>2, <4>1 DEF Good
      <4>3. CASE TableOf(m) = t0 /\ r[m] = s0
        <5>1. jx[TableOf(m)][r1[m]] = q /\ q0 = ix[TableOf(m)][r[m]]
          BY <4>1, <4>3 DEF q, q0
        <5> QED
          BY <1>6, <4>1, <4>2, <5>1
      <4>4. CASE ~(TableOf(m) = t0 /\ r[m] = s0)
        BY <1>5, <4>1, <4>2, <4>4, TableOfName
      <4> QED
        BY <4>3, <4>4
    <3> QED
      BY <3>1, <3>2
  <2>3. ASSUME NEW t \in Tables \ {"windows"}, NEW s \in SessionIds
        PROVE  /\ IsInjective(jx[t][s])
               /\ \A i \in 1..Len(jx[t][s]) : r1[jx[t][s][i]] = s
    <3>1. /\ IsInjective(ix[t][s])
          /\ \A i \in 1..Len(ix[t][s]) : /\ ix[t][s][i] \in Names
                                         /\ TableOf(ix[t][s][i]) = t
                                         /\ r[ix[t][s][i]] = s
      BY DEF Good
    <3>2. CASE t = t0 /\ s = s0
      <4>1. jx[t][s] = q /\ q0 = ix[t][s]
        BY <3>2 DEF q, q0
      <4> QED
        BY <1>2, <1>6, <3>1, <3>2, <4>1
    <3>3. CASE ~(t = t0 /\ s = s0)
      <4>1. \A i \in 1..Len(ix[t][s]) : ix[t][s][i] = n => r1[n] = s
        <5> TAKE i \in 1..Len(ix[t][s])
        <5> HAVE ix[t][s][i] = n
        <5>1. t = t0 /\ r[n] = s
          BY <3>1 DEF t0
        <5>2. r[n] = Owner[n] /\ s0 = Owner[n]
          BY <1>4, <5>1, StorageAssumption DEF Good
        <5> QED
          BY <1>2, <5>1, <5>2
      <4> QED
        BY <1>2, <1>5, <3>1, <3>3, <4>1
    <3> QED
      BY <3>2, <3>3
  <2>4. \A m \in OwnNames : r1[m] \in {None, Owner[m]}
    BY <1>2 DEF Good, OwnNames, Names
  <2> QED
    BY <1>2, <1>5, <2>1, <2>2, <2>3, <2>4 DEF Good
<1> QED
  BY <1>7 DEF t0, q0, r1, jx

(* SessionDelete, as operators on the fields of a database.                *)
ListedIn(ix, s0) == UNION {Range(ix[t][s0]) : t \in Tables}
RowsWithout(r, ix, s0) ==
  [n \in Names |-> IF n \in ListedIn(ix, s0) THEN None ELSE r[n]]
ListsWithout(ix, s0) == [t \in Tables |-> [ix[t] EXCEPT ![s0] = <<>>]]

(* A session's deletion takes every name its lists hold, and no other row. *)
LEMMA GoodSessionDelete ==
  ASSUME NEW S, NEW r, NEW ix, Good(S, r, ix), NEW s0 \in S
  PROVE  Good(S \ {s0}, RowsWithout(r, ix, s0), ListsWithout(ix, s0))
<1> DEFINE r1 == RowsWithout(r, ix, s0)
           jx == ListsWithout(ix, s0)
           L == ListedIn(ix, s0)
<1>1. /\ r1 \in [Names -> SessionIds \cup {None}]
      /\ \A n \in Names : r1[n] = IF n \in L THEN None ELSE r[n]
  BY DEF Good, RowsWithout
<1>2. /\ jx \in [Tables -> [SessionIds -> Seq(Names)]]
      /\ \A t \in Tables, s \in SessionIds :
           jx[t][s] = IF s = s0 THEN <<>> ELSE ix[t][s]
  BY DEF Good, ListsWithout
<1>0. \A n : n \in L <=> \E t \in Tables : n \in Range(ix[t][s0])
  BY DEF ListedIn
<1> SUFFICES Good(S \ {s0}, r1, jx)
  OBVIOUS
<1> HIDE DEF r1, jx, L
<1>3. ASSUME NEW t \in Tables, NEW s \in SessionIds
      PROVE  /\ ix[t][s] \in Seq(Names)
             /\ Range(ix[t][s]) = {ix[t][s][i] : i \in 1..Len(ix[t][s])}
  <2>1. ix[t][s] \in Seq(Names)
    BY DEF Good
  <2>2. DOMAIN ix[t][s] = 1..Len(ix[t][s])
    BY <2>1
  <2> QED
    BY <2>1, <2>2 DEF Range
<1>4. s0 \in SessionIds
  BY DEF Good
(* A row of s0 is listed under it, so the cascade reaches it.              *)
<1>5. \A n \in Names : r[n] = s0 => n \in L
  <2> TAKE n \in Names
  <2> HAVE r[n] = s0
  <2>1. PICK i \in 1..Len(ix[TableOf(n)][s0]) : ix[TableOf(n)][s0][i] = n
    BY <1>4, StorageAssumption DEF Good
  <2> DEFINE q == ix[TableOf(n)][s0]
  <2>2. n \in Range(q)
    <3>1. TableOf(n) \in Tables
      BY TableOfName
    <3>2. DOMAIN q = 1..Len(q)
      BY <1>3, <1>4, <3>1
    <3> HIDE DEF q
    <3>3. Range(q) = {q[j] : j \in 1..Len(q)}
      BY <3>2 DEF Range
    <3> QED
      BY <2>1, <3>3 DEF q
  <2> QED
    BY <1>0, <2>2, TableOfName
(* An own name listed under another session is not in the cascade.         *)
<1>6. ASSUME NEW t \in Tables \ {"windows"}, NEW s \in SessionIds, s # s0,
             NEW i \in 1..Len(ix[t][s])
      PROVE  ix[t][s][i] \notin L
  <2>1. /\ r[ix[t][s][i]] = s
        /\ TableOf(ix[t][s][i]) = t
    BY DEF Good
  <2>2. ASSUME ix[t][s][i] \in L PROVE FALSE
    <3>1. PICK u \in Tables : ix[t][s][i] \in Range(ix[u][s0])
      BY <1>0, <2>2
    <3>2. PICK j \in 1..Len(ix[u][s0]) : ix[u][s0][j] = ix[t][s][i]
      <4> DEFINE q == ix[u][s0]
      <4>1. Range(q) = {q[j] : j \in 1..Len(q)}
        BY <1>3, <1>4
      <4> QED
        BY <3>1, <4>1
    <3>3. TableOf(ix[u][s0][j]) = u
      BY <1>4 DEF Good
    <3>4. u = t
      BY <2>1, <3>2, <3>3
    <3>5. r[ix[u][s0][j]] = s0
      BY <1>4, <3>4 DEF Good
    <3> QED
      BY <1>6, <2>1, <3>2, <3>5
  <2> QED
    BY <2>2
<1>7. Good(S \ {s0}, r1, jx)
  <2>1. S \ {s0} \subseteq SessionIds
    BY DEF Good
  <2>2. ASSUME NEW t \in Tables, NEW s \in SessionIds
        PROVE  \A i \in 1..Len(jx[t][s]) : TableOf(jx[t][s][i]) = t
    <3>1. CASE s = s0
      BY <1>2, <3>1
    <3>2. CASE s # s0
      BY <1>2, <3>2 DEF Good
    <3> QED
      BY <3>1, <3>2
  <2>3. ASSUME NEW n \in Names, r1[n] # None
        PROVE  /\ r1[n] \in S \ {s0}
               /\ \E i \in 1..Len(jx[TableOf(n)][r1[n]]) :
                    jx[TableOf(n)][r1[n]][i] = n
    <3>1. r1[n] = r[n] /\ r[n] # s0 /\ r[n] # None
      BY <1>1, <1>5, <2>3
    <3>2. r[n] \in S /\ r[n] \in SessionIds
      BY <3>1 DEF Good
    <3>3. jx[TableOf(n)][r1[n]] = ix[TableOf(n)][r[n]]
      BY <1>2, <3>1, <3>2, TableOfName
    <3>4. \E i \in 1..Len(ix[TableOf(n)][r[n]]) : ix[TableOf(n)][r[n]][i] = n
      BY <3>1 DEF Good
    <3> QED
      BY <3>1, <3>2, <3>3, <3>4
  <2>4. ASSUME NEW t \in Tables \ {"windows"}, NEW s \in SessionIds
        PROVE  /\ IsInjective(jx[t][s])
               /\ \A i \in 1..Len(jx[t][s]) : r1[jx[t][s][i]] = s
    <3>1. CASE s = s0
      <4>1. jx[t][s] = <<>> /\ IsInjective(<<>>)
        BY <1>2, <3>1 DEF IsInjective
      <4> QED
        BY <4>1
    <3>2. CASE s # s0
      <4>1. jx[t][s] = ix[t][s]
        BY <1>2, <3>2
      <4>2. /\ IsInjective(ix[t][s])
            /\ \A i \in 1..Len(ix[t][s]) : r[ix[t][s][i]] = s
        BY DEF Good
      <4>3. ASSUME NEW i \in 1..Len(ix[t][s]) PROVE r1[ix[t][s][i]] = s
        <5>1. ix[t][s][i] \in Names
          BY <1>3
        <5> QED
          BY <1>1, <1>6, <3>2, <4>2, <5>1
      <4> QED
        BY <4>1, <4>2, <4>3
    <3> QED
      BY <3>1, <3>2
  <2>5. \A n \in OwnNames : r1[n] \in {None, Owner[n]}
    BY <1>1 DEF Good, OwnNames, Names
  <2> QED
    BY <1>1, <1>2, <2>1, <2>2, <2>3, <2>4, <2>5 DEF Good
<1> QED
  BY <1>7

(* Storing a session keeps a database consistent.                          *)
LEMMA GoodSessionPut ==
  ASSUME NEW S, NEW r, NEW ix, Good(S, r, ix), NEW s0 \in SessionIds
  PROVE  Good(S \cup {s0}, r, ix)
BY DEF Good
-----------------------------------------------------------------------------
(* The invariant holds initially.                                          *)
LEMMA InitIInv == Init => IInv
<1> SUFFICES ASSUME Init PROVE IInv
  OBVIOUS
<1>1. GoodDB(EmptyDB)
  BY GoodEmpty, GoodRecord DEF EmptyDB
<1>2. Snapshot = EmptyDB /\ Loaded = EmptyDB
  BY DEF Init, Snapshot, EmptyDB, Loaded
<1> QED
  BY <1>1, <1>2 DEF IInv, Init

(* save() keeps the database and only tears the file.                      *)
LEMMA SaveKeeps ==
  ASSUME IInv, Save, pc = "idle", GoodDB(Snapshot)'
  PROVE  IInv'
<1>1. /\ disk' \in {Torn, disk}
      /\ pc' \in {"saving", "idle"}
      /\ saveErr' \in BOOLEAN
  BY DEF Save, IInv
<1>2. disk' # Torn => Loaded' = Loaded /\ disk = disk'
  BY <1>1 DEF Loaded
<1> QED
  BY <1>1, <1>2 DEF IInv

(* A put of an instance, client or Windows machine keeps the invariant.    *)
LEMMA ChildPutIInv ==
  ASSUME IInv, NEW n \in Names, NEW s, n \in OwnNames => s = Owner[n],
         ChildPut(n, s)
  PROVE  IInv'
<1>1. Good(sessions, row, index)
  BY GoodRecord DEF IInv, Snapshot
<1>2. Good(sessions', row', index')
  BY <1>1, GoodPut DEF ChildPut
<1> QED
  BY <1>2, GoodRecord, SaveKeeps DEF Snapshot, ChildPut

(* So does a delete of one.                                                *)
LEMMA ChildDeleteIInv ==
  ASSUME IInv, NEW n \in Names, ChildDelete(n)
  PROVE  IInv'
<1>1. Good(sessions, row, index)
  BY GoodRecord DEF IInv, Snapshot
<1>2. Good(sessions', row', index')
  BY <1>1, GoodDelete DEF ChildDelete
<1> QED
  BY <1>2, GoodRecord, SaveKeeps DEF Snapshot, ChildDelete

(* So do SessionPut and SessionDelete, with its cascade.                   *)
LEMMA SessionOpsIInv ==
  ASSUME IInv, SessionOps
  PROVE  IInv'
<1>1. Good(sessions, row, index)
  BY GoodRecord DEF IInv, Snapshot
<1>2. PICK s \in SessionIds : SessionPut(s) \/ SessionDelete(s)
  BY DEF SessionOps
<1>3. CASE SessionPut(s)
  <2>1. Good(sessions', row', index')
    BY <1>1, <1>3, GoodSessionPut DEF SessionPut
  <2> QED
    BY <1>3, <2>1, GoodRecord, SaveKeeps DEF Snapshot, SessionPut
<1>4. CASE SessionDelete(s)
  <2>1. /\ row' = RowsWithout(row, index, s)
        /\ index' = ListsWithout(index, s)
    BY <1>4 DEF SessionDelete, RowsWithout, ListsWithout, Listed, ListedIn
  <2>2. Good(sessions', row', index')
    BY <1>1, <1>4, <2>1, GoodSessionDelete DEF SessionDelete
  <2> QED
    BY <1>4, <2>2, GoodRecord, SaveKeeps DEF Snapshot, SessionDelete
<1> QED
  BY <1>2, <1>3, <1>4

(* So does the second half of save, whether or not it fails.               *)
LEMMA EncodeIInv == IInv /\ Encode => IInv'
<1> SUFFICES ASSUME IInv, Encode PROVE IInv'
  OBVIOUS
<1>1. Snapshot' = Snapshot
  BY DEF Encode, db, Snapshot
<1>2. pc' = "idle" /\ saveErr' \in BOOLEAN
  BY DEF Encode
<1>3. disk' # Torn => GoodDB(Loaded')
  <2>1. CASE disk' = Snapshot
    <3>1. Snapshot # NoFile
      BY StorageAssumption DEF IInv, GoodDB, WellTyped
    <3> QED
      BY <2>1, <3>1 DEF IInv, Loaded
  <2>2. CASE disk' = disk
    BY <2>2 DEF IInv, Loaded
  <2> QED
    BY <2>1, <2>2 DEF Encode
<1>4. GoodDB(Snapshot')
  BY <1>1 DEF IInv
<1> QED
  BY <1>2, <1>3, <1>4 DEF IInv

(* So does the death of the process, with the file as it is.               *)
LEMMA CrashIInv == IInv /\ Crash => IInv'
<1> SUFFICES ASSUME IInv, Crash PROVE IInv'
  OBVIOUS
<1>1. GoodDB(Snapshot')
  BY GoodEmpty, GoodRecord DEF Crash, Snapshot
<1>2. Loaded' = Loaded
  BY DEF Crash, Loaded
<1> QED
  BY <1>1, <1>2 DEF IInv, Crash

(* So does reading the file back.                                          *)
LEMMA LoadIInv == IInv /\ Load => IInv'
<1> SUFFICES ASSUME IInv, Load PROVE IInv'
  OBVIOUS
<1>1. GoodDB(Loaded)
  BY DEF IInv, Load
<1>2. Loaded = [sessions |-> Loaded.sessions, row |-> Loaded.row,
                index |-> Loaded.index]
  BY <1>1 DEF GoodDB, WellTyped, Snapshots
<1>3. Snapshot' = Loaded /\ Loaded' = Loaded
  BY <1>2 DEF Load, Snapshot, Loaded
<1> QED
  BY <1>1, <1>3 DEF IInv, Load

(* Every step of the storage keeps the invariant.                          *)
LEMMA NextIInv == IInv /\ [Next]_vars => IInv'
<1> SUFFICES ASSUME IInv, [Next]_vars PROVE IInv'
  OBVIOUS
<1>1. CASE SessionOps
  BY <1>1, SessionOpsIInv
<1>2. CASE InstanceOps
  <2>1. PICK n \in InstanceNames : InstancePut(n) \/ InstanceDelete(n)
    BY <1>2 DEF InstanceOps
  <2>2. n \in Names
    BY DEF Names
  <2> QED
    BY <2>1, <2>2, ChildPutIInv, ChildDeleteIInv DEF InstancePut, InstanceDelete
<1>3. CASE ClientOps
  <2>1. PICK n \in ClientIds : ClientPut(n) \/ ClientDelete(n)
    BY <1>3 DEF ClientOps
  <2>2. n \in Names
    BY DEF Names
  <2> QED
    BY <2>1, <2>2, ChildPutIInv, ChildDeleteIInv DEF ClientPut, ClientDelete
<1>4. CASE WindowsOps
  <2>1. PICK n \in WindowsIds :
          (\E s \in SessionIds : WindowsInstancePut(n, s)) \/ WindowsInstanceDelete(n)
    BY <1>4 DEF WindowsOps
  <2>2. n \in Names /\ n \notin OwnNames
    BY StorageAssumption DEF Names
  <2> QED
    BY <2>1, <2>2, ChildPutIInv, ChildDeleteIInv
       DEF WindowsInstancePut, WindowsInstanceDelete
<1>5. CASE Encode
  BY <1>5, EncodeIInv
<1>6. CASE Crash
  BY <1>6, CrashIInv
<1>7. CASE Load
  BY <1>7, LoadIInv
<1>8. CASE UNCHANGED vars
  BY <1>8 DEF vars, IInv, Snapshot, Loaded
<1> QED
  BY <1>1, <1>2, <1>3, <1>4, <1>5, <1>6, <1>7, <1>8 DEF Next

(* Every reachable state of the store satisfies the inductive invariant.   *)
THEOREM StorageInvariant == Spec => []IInv
<1> QED
  BY InitIInv, NextIInv, PTL DEF Spec

(* Type correctness of the store, for every set of names and sessions.     *)
THEOREM TypeCorrect == Spec => []TypeOK
<1>1. IInv => TypeOK
  BY DEF IInv, GoodDB, TypeOK
<1> QED
  BY <1>1, StorageInvariant, PTL

(* No order of puts, deletes, failed saves, crashes and restarts leaves a  *)
(* row that deleting its session would miss.                               *)
THEOREM NoOrphans == Spec => []NoOrphanRows
<1>1. IInv => NoOrphanRows
  BY DEF IInv, GoodDB, NoOrphanRows
<1> QED
  BY <1>1, StorageInvariant, PTL

(* The lookups by session return exactly the session's rows, none of them  *)
(* nil.                                                                    *)
THEOREM ExactLookups == Spec => []FindIsExact
<1>1. IInv => FindIsExact
  BY DEF IInv, GoodDB, FindIsExact
<1> QED
  BY <1>1, StorageInvariant, PTL

(* A file that decodes holds a consistent database.                        *)
THEOREM ConsistentFile == Spec => []FileIsConsistent
<1>1. IInv => FileIsConsistent
  BY DEF IInv, GoodDB, FileIsConsistent
<1> QED
  BY <1>1, StorageInvariant, PTL

(* Once a save has succeeded, a restart restores what memory holds.        *)
THEOREM SavedIsRestored == Spec => []SavedWhenIdle
<1>1. Init => SavedWhenIdle
  BY StorageAssumption
     DEF Init, SavedWhenIdle, Loaded, EmptyDB, Snapshot
<1>2. IInv /\ SavedWhenIdle /\ [Next]_vars => SavedWhenIdle'
  <2> SUFFICES ASSUME IInv, SavedWhenIdle, [Next]_vars PROVE SavedWhenIdle'
    OBVIOUS
  <2>1. CASE pc = "idle" /\ Save
    <3>1. ~(pc' = "idle" /\ ~saveErr')
      BY <2>1 DEF Save
    <3> QED
      BY <3>1 DEF SavedWhenIdle
  <2>2. CASE Encode
    <3>1. Snapshot' = Snapshot
      BY <2>2 DEF Encode, db, Snapshot
    <3>2. Snapshot # NoFile /\ Snapshot # Torn
      BY StorageAssumption DEF IInv, GoodDB, WellTyped
    <3> QED
      BY <2>2, <3>1, <3>2 DEF Encode, SavedWhenIdle, Loaded
  <2>3. CASE Crash
    BY <2>3 DEF Crash, SavedWhenIdle
  <2>4. CASE Load
    <3>1. GoodDB(Loaded)
      BY <2>4 DEF IInv, Load
    <3>2. Loaded = [sessions |-> Loaded.sessions, row |-> Loaded.row,
                    index |-> Loaded.index]
      BY <3>1 DEF GoodDB, WellTyped, Snapshots
    <3> QED
      BY <2>4, <3>2 DEF Load, SavedWhenIdle, Snapshot, Loaded
  <2>5. CASE UNCHANGED vars
    BY <2>5 DEF vars, SavedWhenIdle, Loaded, Snapshot
  <2>6. SessionOps \/ InstanceOps \/ ClientOps \/ WindowsOps => pc = "idle" /\ Save
    BY DEF SessionOps, InstanceOps, ClientOps, WindowsOps, SessionPut,
           SessionDelete, InstancePut, InstanceDelete, ClientPut, ClientDelete,
           WindowsInstancePut, WindowsInstanceDelete, ChildPut, ChildDelete
  <2> QED
    BY <2>1, <2>2, <2>3, <2>4, <2>5, <2>6 DEF Next
<1> QED
  BY <1>1, <1>2, StorageInvariant, PTL DEF Spec
-----------------------------------------------------------------------------
(* Own names that a session's lists hold are exactly the rows it owns.     *)
LEMMA ListedIsOwned ==
  ASSUME IInv, NEW s \in SessionIds, NEW n \in OwnNames
  PROVE  n \in Listed(s) <=> row[n] = s
<1>1. Good(sessions, row, index)
  BY GoodRecord DEF IInv, Snapshot
<1>2. \A t \in Tables : Range(index[t][s]) = {index[t][s][i] : i \in 1..Len(index[t][s])}
  <2> TAKE t \in Tables
  <2> DEFINE q == index[t][s]
  <2>1. q \in Seq(Names)
    BY <1>1 DEF Good
  <2>2. DOMAIN q = 1..Len(q)
    BY <2>1
  <2> HIDE DEF q
  <2>3. Range(q) = {q[i] : i \in 1..Len(q)}
    BY <2>2 DEF Range
  <2> QED
    BY <2>3 DEF q
<1>3. n \in Listed(s) <=> \E t \in Tables : \E i \in 1..Len(index[t][s]) : index[t][s][i] = n
  BY <1>2 DEF Listed
<1>4. n \in Names /\ TableOf(n) # "windows" /\ TableOf(n) \in Tables
  BY StorageAssumption DEF OwnNames, Names, TableOf, Tables
<1>5. ASSUME row[n] = s PROVE n \in Listed(s)
  <2>1. \E i \in 1..Len(index[TableOf(n)][s]) : index[TableOf(n)][s][i] = n
    BY <1>1, <1>4, <1>5, StorageAssumption DEF Good
  <2> QED
    BY <1>3, <1>4, <2>1
<1>6. ASSUME n \in Listed(s) PROVE row[n] = s
  <2>1. PICK t \in Tables : \E i \in 1..Len(index[t][s]) : index[t][s][i] = n
    BY <1>3, <1>6
  <2>2. PICK i \in 1..Len(index[t][s]) : index[t][s][i] = n
    BY <2>1
  <2>3. t = TableOf(n)
    BY <1>1, <2>2 DEF Good
  <2> QED
    BY <1>1, <1>4, <2>2, <2>3 DEF Good
<1> QED
  BY <1>5, <1>6

(* The names with an owner of their own are names.                         *)
LEMMA OwnNamesAreNames == OwnNames \subseteq Names
BY DEF OwnNames, Names

(* The abstract durable copy of a torn file is Lost, of any other file the *)
(* owners and sessions in it.                                              *)
DurableCopy == IF disk = Torn THEN Torn
               ELSE [live |-> Loaded.sessions, owner |-> Owned(Loaded.row)]

(* A step of save() starts an abstract write.                              *)
LEMMA SaveStartsWrite ==
  ASSUME IInv, Save, pc = "idle"
  PROVE  /\ (pc # "down") /\ (pc # "down")'
         /\ DurableCopy' \in {DurableCopy, Torn}
<1>1. disk' \in {disk, Torn} /\ pc' \in {"saving", "idle"}
  BY DEF Save
<1>2. disk' = disk => DurableCopy' = DurableCopy
  BY DEF DurableCopy, Loaded
<1>3. disk' = Torn => DurableCopy' = Torn
  BY DEF DurableCopy
<1> QED
  BY <1>1, <1>2, <1>3

(* The empty storage is the empty abstract store.                          *)
LEMMA InitRefines == Init => Abstract!Init
<1> SUFFICES ASSUME Init PROVE Abstract!Init
  OBVIOUS
<1>1. Owned(NoRows) = [c \in OwnNames |-> None]
  BY OwnNamesAreNames DEF Owned, NoRows
<1>2. Loaded = EmptyDB /\ disk # Torn
  BY StorageAssumption DEF Init, Loaded
<1> QED
  BY <1>1, <1>2 DEF Init, EmptyDB, Abstract!Init, Abstract!NoChildren, Abstract!Empty

(* The abstract write that a change of sessions and rows makes.            *)
AbstractChange ==
  \/ \E s \in SessionIds : Abstract!CreateSession(s) \/ Abstract!DropSession(s)
  \/ \E c \in OwnNames, s \in SessionIds : Abstract!Attach(c, s)
  \/ \E c \in OwnNames : Abstract!Detach(c)
  \/ UNCHANGED <<sessions, Owned(row)>>

(* A change followed by the start of a save is a write of the store.       *)
LEMMA WriteRefines ==
  ASSUME IInv, Save, pc = "idle", AbstractChange
  PROVE  Abstract!Write
BY SaveStartsWrite
   DEF AbstractChange, Abstract!Write, Abstract!StartsWrite, DurableCopy

(* A put of a row is a write, or changes nothing the store sees.           *)
LEMMA ChildPutRefines ==
  ASSUME IInv, NEW n \in Names, NEW s, n \in OwnNames => s = Owner[n],
         ChildPut(n, s)
  PROVE  Abstract!Write
<1>1. row \in [Names -> SessionIds \cup {None}] /\ s \in SessionIds
  BY GoodRecord DEF IInv, Snapshot, Good, ChildPut
<1>2. CASE n \in OwnNames
  <2>1. Owned(row') = [Owned(row) EXCEPT ![n] = s]
    BY <1>1, <1>2, OwnNamesAreNames DEF ChildPut, Owned
  <2>2. Abstract!Attach(n, s)
    BY <2>1 DEF ChildPut, Abstract!Attach
  <2> QED
    BY <1>1, <1>2, <2>2, WriteRefines DEF AbstractChange, ChildPut
<1>3. CASE n \notin OwnNames
  <2>1. Owned(row') = Owned(row)
    BY <1>1, <1>3, OwnNamesAreNames DEF ChildPut, Owned
  <2> QED
    BY <2>1, WriteRefines DEF AbstractChange, ChildPut
<1> QED
  BY <1>2, <1>3

(* A delete of a row likewise.                                             *)
LEMMA ChildDeleteRefines ==
  ASSUME IInv, NEW n \in Names, ChildDelete(n)
  PROVE  Abstract!Write
<1>1. row \in [Names -> SessionIds \cup {None}]
  BY GoodRecord DEF IInv, Snapshot, Good
<1>2. CASE n \in OwnNames
  <2>1. Owned(row') = [Owned(row) EXCEPT ![n] = None]
    BY <1>1, <1>2, OwnNamesAreNames DEF ChildDelete, Owned
  <2>2. Abstract!Detach(n)
    BY <2>1 DEF ChildDelete, Abstract!Detach
  <2> QED
    BY <1>2, <2>2, WriteRefines DEF AbstractChange, ChildDelete
<1>3. CASE n \notin OwnNames
  <2>1. Owned(row') = Owned(row)
    BY <1>1, <1>3, OwnNamesAreNames DEF ChildDelete, Owned
  <2> QED
    BY <2>1, WriteRefines DEF AbstractChange, ChildDelete
<1> QED
  BY <1>2, <1>3

(* The cascade through the index lists drops exactly the abstract children.*)
LEMMA SessionOpsRefine ==
  ASSUME IInv, SessionOps
  PROVE  Abstract!Write
<1>1. PICK s \in SessionIds : SessionPut(s) \/ SessionDelete(s)
  BY DEF SessionOps
<1>2. CASE SessionPut(s)
  <2>1. Abstract!CreateSession(s)
    BY <1>2 DEF SessionPut, Abstract!CreateSession, Owned
  <2> QED
    BY <1>2, <2>1, WriteRefines DEF AbstractChange, SessionPut
<1>3. CASE SessionDelete(s)
  <2>1. ASSUME NEW c \in OwnNames
        PROVE  row'[c] = IF row[c] = s THEN None ELSE row[c]
    BY <1>3, ListedIsOwned, OwnNamesAreNames DEF SessionDelete
  <2>2. Owned(row') = [c \in OwnNames |->
                         IF Owned(row)[c] = s THEN None ELSE Owned(row)[c]]
    BY <2>1 DEF Owned
  <2>3. Abstract!DropSession(s)
    BY <1>3, <2>2 DEF SessionDelete, Abstract!DropSession
  <2> QED
    BY <1>3, <2>3, WriteRefines DEF AbstractChange, SessionDelete
<1> QED
  BY <1>1, <1>2, <1>3

(* The end of a save makes the write durable, or loses the file.           *)
LEMMA EncodeRefines ==
  ASSUME IInv, Encode
  PROVE  Abstract!Saved \/ UNCHANGED Abstract!vars
<1>1. UNCHANGED db /\ pc = "saving" /\ pc' = "idle"
  BY DEF Encode
<1>2. CASE disk' = Snapshot
  <2>1. Snapshot # NoFile /\ Snapshot # Torn
    BY StorageAssumption DEF IInv, GoodDB, WellTyped
  <2>2. DurableCopy' = [live |-> sessions, owner |-> Owned(row)]
    BY <1>2, <2>1 DEF DurableCopy, Loaded, Snapshot
  <2> QED
    BY <1>1, <2>2 DEF Abstract!Saved, Abstract!Current, DurableCopy, db
<1>3. CASE disk' = disk
  BY <1>1, <1>3 DEF Abstract!vars, db, Loaded
<1> QED
  BY <1>2, <1>3 DEF Encode

(* The death of the process is a crash of the store.                       *)
LEMMA CrashRefines ==
  ASSUME IInv, Crash
  PROVE  Abstract!Crash
<1>1. Owned(NoRows) = [c \in OwnNames |-> None]
  BY OwnNamesAreNames DEF Owned, NoRows
<1> QED
  BY <1>1 DEF Crash, Abstract!Crash, Abstract!NoChildren, Loaded

(* Reading the file back is the store's restart.                           *)
LEMMA LoadRefines ==
  ASSUME IInv, Load
  PROVE  Abstract!Restart
<1>1. GoodDB(Loaded)
  BY DEF IInv, Load
<1>2. /\ Loaded.sessions \subseteq SessionIds
      /\ Loaded.row \in [Names -> SessionIds \cup {None}]
  BY <1>1 DEF GoodDB, WellTyped, Snapshots
<1>3. DurableCopy = [live |-> Loaded.sessions, owner |-> Owned(Loaded.row)]
  BY DEF DurableCopy, Load
<1>4. Owned(Loaded.row) \in [OwnNames -> SessionIds \cup {None}]
  BY <1>2, OwnNamesAreNames DEF Owned
<1>5. DurableCopy # Torn
  BY <1>2, <1>3, <1>4, StorageAssumption
<1>6. Loaded' = Loaded /\ disk' = disk
  BY DEF Load, Loaded
<1> QED
  BY <1>3, <1>5, <1>6 DEF Load, Abstract!Restart, DurableCopy

(* Every step of the storage is a step of the store or a stutter.          *)
LEMMA NextRefines ==
  ASSUME IInv, [Next]_vars
  PROVE  [Abstract!Next]_(Abstract!vars)
<1>1. CASE SessionOps
  BY <1>1, SessionOpsRefine DEF Abstract!Next
<1>2. CASE InstanceOps
  <2>1. PICK n \in InstanceNames : InstancePut(n) \/ InstanceDelete(n)
    BY <1>2 DEF InstanceOps
  <2> QED
    BY <2>1, ChildPutRefines, ChildDeleteRefines
       DEF Names, InstancePut, InstanceDelete, Abstract!Next
<1>3. CASE ClientOps
  <2>1. PICK n \in ClientIds : ClientPut(n) \/ ClientDelete(n)
    BY <1>3 DEF ClientOps
  <2> QED
    BY <2>1, ChildPutRefines, ChildDeleteRefines
       DEF Names, ClientPut, ClientDelete, Abstract!Next
<1>4. CASE WindowsOps
  <2>1. PICK n \in WindowsIds :
          (\E s \in SessionIds : WindowsInstancePut(n, s)) \/ WindowsInstanceDelete(n)
    BY <1>4 DEF WindowsOps
  <2>2. n \in Names /\ n \notin OwnNames
    BY StorageAssumption DEF Names
  <2> QED
    BY <2>1, <2>2, ChildPutRefines, ChildDeleteRefines
       DEF WindowsInstancePut, WindowsInstanceDelete, Abstract!Next
<1>5. CASE Encode
  BY <1>5, EncodeRefines DEF Abstract!Next
<1>6. CASE Crash
  BY <1>6, CrashRefines DEF Abstract!Next
<1>7. CASE Load
  BY <1>7, LoadRefines DEF Abstract!Next
<1>8. CASE UNCHANGED vars
  BY <1>8 DEF vars, Abstract!vars, Loaded
<1> QED
  BY <1>1, <1>2, <1>3, <1>4, <1>5, <1>6, <1>7, <1>8 DEF Next

(* The store with its indexes and its file implements the abstract store.  *)
THEOREM StorageRefines == Spec => ImplementsSessionStore
<1> QED
  BY InitRefines, NextRefines, StorageInvariant, PTL
     DEF Spec, ImplementsSessionStore, Abstract!Spec
=============================================================================
