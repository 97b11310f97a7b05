-------------------------- MODULE PagedListingProofs --------------------------
(***************************************************************************)
(* Theorems about PagedListing for any page sizes, any number of rows and  *)
(* any number of changes.                                                  *)
(*                                                                         *)
(* A change of the list is described position by position, in the order    *)
(* the client reads it: an insert puts a row in at some position           *)
(* (Inserted), an update or an exchange moves one (Moved), from whichever  *)
(* end the list is read.  A page takes the rows behind the offset (Reads). *)
(* Walk is the inductive invariant.  Two of its parts carry the argument:  *)
(* what lies before the offset was received or moved (SettledRead), and    *)
(* every repeated row, and every received row that can still be repeated   *)
(* (Ahead), is paid for by a change (RepeatsCovered).                      *)
(***************************************************************************)
EXTENDS PagedListing, SequenceTheorems, FiniteSetTheorems, FunctionTheorems, TLAPS

(***************************************************************************)
(* How an insert and an update change a list, position by position.        *)
(***************************************************************************)
\* The list u is s with row x put in at position q.
Inserted(s, u, q, x) ==
    /\ Len(u) = Len(s) + 1
    /\ \A i \in 1..Len(u) : u[i] = IF i < q THEN s[i] ELSE IF i = q THEN x ELSE s[i - 1]

\* Where the row at position i was before the one at f moved to t.
Source(f, t, i) ==
    IF i = t THEN f
    ELSE IF f <= i /\ i < t THEN i + 1
    ELSE IF t < i /\ i <= f THEN i - 1
    ELSE i

\* The list u is s with the row at f moved to t.
Moved(s, u, f, t) ==
    /\ Len(u) = Len(s)
    /\ \A i \in 1..Len(u) : u[i] = s[Source(f, t, i)]

\* InsertAt puts one row in.
LEMMA InsertAtInserts ==
    ASSUME NEW s \in Seq(Nat), NEW q \in 1..Len(s) + 1, NEW x \in Nat
    PROVE  InsertAt(s, q, x) \in Seq(Nat) /\ Inserted(s, InsertAt(s, q, x), q, x)
  <1> DEFINE n == Len(s)
             a == SubSeq(s, 1, q - 1)
             c == SubSeq(s, q, n)
             ab == a \o <<x>>
             u == ab \o c
  <1>1. n \in Nat /\ \A i \in 1..n : s[i] \in Nat
    OBVIOUS
  <1>2. a \in Seq(Nat) /\ Len(a) = q - 1 /\ \A i \in 1..q - 1 : a[i] = s[i]
    <2>1. \A i \in 1..q - 1 : s[i] \in Nat
      BY <1>1
    <2>2. QED
      BY <1>1, <2>1, SubSeqProperties
  <1>3. c \in Seq(Nat) /\ Len(c) = n - q + 1 /\ \A i \in 1..n - q + 1 : c[i] = s[q + i - 1]
    <2>1. \A i \in q..n : s[i] \in Nat
      BY <1>1
    <2>2. QED
      BY <1>1, <2>1, SubSeqProperties
  <1>4. <<x>> \in Seq(Nat) /\ Len(<<x>>) = 1 /\ <<x>>[1] = x
    OBVIOUS
  <1> HIDE DEF a, c
  <1>5. /\ ab \in Seq(Nat) /\ Len(ab) = q
        /\ \A i \in 1..q : ab[i] = IF i <= q - 1 THEN a[i] ELSE <<x>>[i - (q - 1)]
    BY <1>2, <1>4, ConcatProperties
  <1> HIDE DEF ab
  <1>6. /\ u \in Seq(Nat) /\ Len(u) = n + 1
        /\ \A i \in 1..n + 1 : u[i] = IF i <= q THEN ab[i] ELSE c[i - q]
    <2>1. /\ u \in Seq(Nat) /\ Len(u) = Len(ab) + Len(c)
          /\ \A i \in 1..Len(ab) + Len(c) : u[i] = IF i <= Len(ab) THEN ab[i] ELSE c[i - Len(ab)]
      BY <1>3, <1>5, ConcatProperties
    <2>2. Len(ab) = q /\ Len(ab) + Len(c) = n + 1
      BY <1>1, <1>3, <1>5
    <2> HIDE DEF u
    <2>3. QED
      BY <2>1, <2>2
  <1>7. InsertAt(s, q, x) = u
    BY DEF InsertAt, ab, a, c
  <1> HIDE DEF u
  <1>8. ASSUME NEW i \in 1..n + 1
        PROVE  u[i] = IF i < q THEN s[i] ELSE IF i = q THEN x ELSE s[i - 1]
    <2>1. CASE i < q
      <3>1. i \in 1..q - 1 /\ i \in 1..q
        BY <1>1, <2>1
      <3>2. u[i] = ab[i] /\ ab[i] = a[i] /\ a[i] = s[i]
        BY <1>2, <1>5, <1>6, <3>1
      <3>3. QED
        BY <2>1, <3>2
    <2>2. CASE i = q
      BY <1>4, <1>5, <1>6, <2>2
    <2>3. CASE i > q
      <3>1. u[i] = c[i - q]
        BY <1>6, <2>3
      <3>2. i - q \in 1..n - q + 1 /\ q + (i - q) - 1 = i - 1
        BY <1>1, <2>3
      <3>3. QED
        BY <1>3, <2>3, <3>1, <3>2
    <2>4. QED
      BY <2>1, <2>2, <2>3
  <1>9. QED
    BY <1>6, <1>7, <1>8 DEF Inserted

\* RemoveAt closes the gap a row leaves.
LEMMA RemoveAtRemoves ==
    ASSUME NEW s \in Seq(Nat), NEW f \in 1..Len(s)
    PROVE  /\ RemoveAt(s, f) \in Seq(Nat)
           /\ Len(RemoveAt(s, f)) = Len(s) - 1
           /\ \A i \in 1..Len(s) - 1 : RemoveAt(s, f)[i] = IF i < f THEN s[i] ELSE s[i + 1]
  <1> DEFINE n == Len(s)
             a == SubSeq(s, 1, f - 1)
             c == SubSeq(s, f + 1, n)
             u == a \o c
  <1>1. n \in Nat /\ \A i \in 1..n : s[i] \in Nat
    OBVIOUS
  <1>2. a \in Seq(Nat) /\ Len(a) = f - 1 /\ \A i \in 1..f - 1 : a[i] = s[i]
    <2>1. \A i \in 1..f - 1 : s[i] \in Nat
      BY <1>1
    <2>2. QED
      BY <1>1, <2>1, SubSeqProperties
  <1>3. c \in Seq(Nat) /\ Len(c) = n - f /\ \A i \in 1..n - f : c[i] = s[f + i]
    <2>1. \A i \in f + 1..n : s[i] \in Nat
      BY <1>1
    <2>2. QED
      BY <1>1, <2>1, SubSeqProperties
  <1> HIDE DEF a, c
  <1>4. /\ u \in Seq(Nat) /\ Len(u) = n - 1
        /\ \A i \in 1..n - 1 : u[i] = IF i <= f - 1 THEN a[i] ELSE c[i - (f - 1)]
    <2>1. /\ u \in Seq(Nat) /\ Len(u) = Len(a) + Len(c)
          /\ \A i \in 1..Len(a) + Len(c) : u[i] = IF i <= Len(a) THEN a[i] ELSE c[i - Len(a)]
      BY <1>2, <1>3, ConcatProperties
    <2>2. Len(a) = f - 1 /\ Len(a) + Len(c) = n - 1
      BY <1>1, <1>2, <1>3
    <2> HIDE DEF u
    <2>3. QED
      BY <2>1, <2>2
  <1>5. RemoveAt(s, f) = u
    BY DEF RemoveAt, a, c
  <1> HIDE DEF u
  <1>6. ASSUME NEW i \in 1..n - 1
        PROVE  u[i] = IF i < f THEN s[i] ELSE s[i + 1]
    <2>1. CASE i < f
      BY <1>2, <1>4, <2>1
    <2>2. CASE ~ (i < f)
      <3>1. u[i] = c[i - (f - 1)]
        BY <1>4, <2>2
      <3>2. i - (f - 1) \in 1..n - f /\ f + (i - (f - 1)) = i + 1
        BY <1>1, <2>2
      <3>3. QED
        BY <1>3, <2>2, <3>1, <3>2
    <2>3. QED
      BY <2>1, <2>2
  <1>7. QED
    BY <1>4, <1>5, <1>6

\* Taking a row out and putting it in elsewhere moves it.
LEMMA SaveMoves ==
    ASSUME NEW s \in Seq(Nat), NEW f \in 1..Len(s), NEW t \in 1..Len(s)
    PROVE  LET u == InsertAt(RemoveAt(s, f), t, s[f])
           IN  u \in Seq(Nat) /\ Moved(s, u, f, t)
  <1> DEFINE n == Len(s)
             r == RemoveAt(s, f)
             u == InsertAt(r, t, s[f])
  <1>1. n \in Nat /\ s[f] \in Nat
    OBVIOUS
  <1>2. /\ r \in Seq(Nat) /\ Len(r) = n - 1
        /\ \A i \in 1..n - 1 : r[i] = IF i < f THEN s[i] ELSE s[i + 1]
    BY RemoveAtRemoves
  <1> HIDE DEF r
  <1>3. t \in 1..Len(r) + 1
    BY <1>1, <1>2
  <1>4. u \in Seq(Nat) /\ Inserted(r, u, t, s[f])
    BY <1>1, <1>2, <1>3, InsertAtInserts
  <1> HIDE DEF u
  <1>5. /\ Len(u) = n
        /\ \A i \in 1..n : u[i] = IF i < t THEN r[i] ELSE IF i = t THEN s[f] ELSE r[i - 1]
    BY <1>1, <1>2, <1>4 DEF Inserted
  <1>6. ASSUME NEW i \in 1..n
        PROVE  u[i] = s[Source(f, t, i)]
    <2>1. CASE i = t
      BY <1>5, <2>1 DEF Source
    <2>2. CASE i < t
      <3>1. i \in 1..n - 1 /\ u[i] = r[i]
        BY <1>1, <1>5, <2>2
      <3>2. QED
        BY <1>2, <2>2, <3>1 DEF Source
    <2>3. CASE i > t
      <3>1. i - 1 \in 1..n - 1 /\ u[i] = r[i - 1] /\ (i - 1) + 1 = i
        BY <1>1, <1>5, <2>3
      <3>2. r[i - 1] = IF i - 1 < f THEN s[i - 1] ELSE s[i]
        BY <1>2, <3>1
      <3>3. i - 1 < f <=> i <= f
        OBVIOUS
      <3>4. QED
        BY <2>3, <3>1, <3>2, <3>3 DEF Source
    <2>4. QED
      BY <2>1, <2>2, <2>3
  <1>7. QED
    BY <1>4, <1>5, <1>6 DEF Moved, u, r

(***************************************************************************)
(* A list of rows holds each row once, from whichever end it is read.      *)
(***************************************************************************)
HoldsRowsOnce(s) ==
    /\ s \in Seq(Nat)
    /\ \A i \in 1..Len(s) : s[i] \in 1..Len(s)
    /\ \A i, j \in 1..Len(s) : s[i] = s[j] => i = j
    /\ \A r \in 1..Len(s) : \E i \in 1..Len(s) : s[i] = r

\* A reversed list is read from the other end.
LEMMA ReverseReads ==
    ASSUME NEW s \in Seq(Nat)
    PROVE  /\ Reverse(s) \in Seq(Nat)
           /\ Len(Reverse(s)) = Len(s)
           /\ \A i \in 1..Len(s) : Reverse(s)[i] = s[Len(s) - i + 1]
  BY DEF Reverse

\* An insert seen from the other end is an insert.
LEMMA ReverseInserted ==
    ASSUME NEW s \in Seq(Nat), NEW u \in Seq(Nat), NEW q \in 1..Len(s) + 1, NEW x,
           Inserted(s, u, q, x)
    PROVE  /\ Len(s) + 2 - q \in 1..Len(s) + 1
           /\ Inserted(Reverse(s), Reverse(u), Len(s) + 2 - q, x)
  <1> DEFINE n == Len(s)
             p == n + 2 - q
  <1>1. n \in Nat /\ p \in 1..n + 1 /\ Len(u) = n + 1
    BY DEF Inserted
  <1>2. /\ Len(Reverse(u)) = n + 1 /\ Len(Reverse(s)) = n
        /\ \A i \in 1..n + 1 : Reverse(u)[i] = u[(n + 1) - i + 1]
        /\ \A i \in 1..n : Reverse(s)[i] = s[n - i + 1]
    <2>1. /\ Len(Reverse(u)) = Len(u)
          /\ \A i \in 1..Len(u) : Reverse(u)[i] = u[Len(u) - i + 1]
      BY ReverseReads
    <2>2. /\ Len(Reverse(s)) = Len(s)
          /\ \A i \in 1..Len(s) : Reverse(s)[i] = s[Len(s) - i + 1]
      BY ReverseReads
    <2>3. QED
      BY <1>1, <2>1, <2>2
  <1>3. ASSUME NEW i \in 1..n + 1
        PROVE  Reverse(u)[i] = IF i < p THEN Reverse(s)[i] ELSE IF i = p THEN x ELSE Reverse(s)[i - 1]
    <2> DEFINE k == (n + 1) - i + 1
    <2>1. k \in 1..n + 1 /\ Reverse(u)[i] = u[k]
      <3>1. k \in 1..n + 1
        BY <1>1
      <3>2. QED
        BY <1>2, <3>1
    <2>2. u[k] = IF k < q THEN s[k] ELSE IF k = q THEN x ELSE s[k - 1]
      BY <1>1, <2>1 DEF Inserted
    <2>3. (k > q <=> i < p) /\ (k = q <=> i = p) /\ (k < q <=> i > p)
      BY <1>1
    <2>4. i < p => Reverse(s)[i] = s[k - 1]
      <3> SUFFICES ASSUME i < p PROVE Reverse(s)[i] = s[k - 1]
        OBVIOUS
      <3>1. i \in 1..n /\ n - i + 1 = k - 1
        BY <1>1
      <3>2. QED
        BY <1>2, <3>1
    <2>5. i > p => Reverse(s)[i - 1] = s[k]
      <3> SUFFICES ASSUME i > p PROVE Reverse(s)[i - 1] = s[k]
        OBVIOUS
      <3>1. i - 1 \in 1..n /\ n - (i - 1) + 1 = k
        BY <1>1
      <3>2. QED
        BY <1>2, <3>1
    <2>6. i < p \/ i = p \/ i > p
      BY <1>1
    <2> HIDE DEF k, p
    <2>7. QED
      BY <2>1, <2>2, <2>3, <2>4, <2>5, <2>6
  <1>4. QED
    BY <1>1, <1>2, <1>3 DEF Inserted

\* Where a row was, counted from the other end.
LEMMA SourceMirrors ==
    ASSUME NEW n \in Nat, NEW f \in 1..n, NEW t \in 1..n, NEW i \in 1..n
    PROVE  LET mirrored == Source(n + 1 - f, n + 1 - t, i)
           IN  /\ mirrored \in 1..n
               /\ n - mirrored + 1 = Source(f, t, n - i + 1)
  <1>1. PICK g \in 1..n : g = n + 1 - f
    OBVIOUS
  <1>2. PICK v \in 1..n : v = n + 1 - t
    OBVIOUS
  <1>3. PICK k \in 1..n : k = n - i + 1
    OBVIOUS
  <1>4. /\ k = t <=> i = v
        /\ t < k /\ k <= f <=> g <= i /\ i < v
        /\ f <= k /\ k < t <=> v < i /\ i <= g
    BY <1>1, <1>2, <1>3
  <1>5. CASE i = v
    <2>1. Source(g, v, i) = g /\ Source(f, t, k) = f
      BY <1>4, <1>5 DEF Source
    <2>2. QED
      BY <1>1, <1>2, <1>3, <2>1
  <1>6. CASE g <= i /\ i < v
    <2>1. i # v /\ k # t /\ ~ (f <= k /\ k < t)
      BY <1>4, <1>6
    <2>2. Source(g, v, i) = i + 1 /\ Source(f, t, k) = k - 1
      BY <1>4, <1>6, <2>1 DEF Source
    <2>3. i + 1 \in 1..n /\ n - (i + 1) + 1 = k - 1
      BY <1>3, <1>6
    <2>4. QED
      BY <1>1, <1>2, <1>3, <2>2, <2>3
  <1>7. CASE v < i /\ i <= g
    <2>1. i # v /\ k # t /\ ~ (g <= i /\ i < v)
      BY <1>4, <1>7
    <2>2. Source(g, v, i) = i - 1 /\ Source(f, t, k) = k + 1
      BY <1>4, <1>7, <2>1 DEF Source
    <2>3. i - 1 \in 1..n /\ n - (i - 1) + 1 = k + 1
      BY <1>3, <1>7
    <2>4. QED
      BY <1>1, <1>2, <1>3, <2>2, <2>3
  <1>8. CASE i # v /\ ~ (g <= i /\ i < v) /\ ~ (v < i /\ i <= g)
    <2>1. Source(g, v, i) = i /\ Source(f, t, k) = k
      BY <1>4, <1>8 DEF Source
    <2>2. QED
      BY <1>1, <1>2, <1>3, <2>1
  <1>9. QED
    BY <1>5, <1>6, <1>7, <1>8

\* A move seen from the other end is a move.
LEMMA ReverseMoved ==
    ASSUME NEW s \in Seq(Nat), NEW u \in Seq(Nat), NEW f \in 1..Len(s), NEW t \in 1..Len(s),
           Moved(s, u, f, t)
    PROVE  Moved(Reverse(s), Reverse(u), Len(s) + 1 - f, Len(s) + 1 - t)
  <1> DEFINE n == Len(s)
             g == n + 1 - f
             v == n + 1 - t
  <1>1. n \in Nat /\ g \in 1..n /\ v \in 1..n /\ Len(u) = n
    BY DEF Moved
  <1>2. /\ Len(Reverse(u)) = n /\ Len(Reverse(s)) = n
        /\ \A i \in 1..n : Reverse(u)[i] = u[n - i + 1]
        /\ \A i \in 1..n : Reverse(s)[i] = s[n - i + 1]
    BY <1>1, ReverseReads
  <1>3. ASSUME NEW i \in 1..n
        PROVE  Reverse(u)[i] = Reverse(s)[Source(g, v, i)]
    <2> DEFINE k == n - i + 1
    <2>1. k \in 1..n /\ Reverse(u)[i] = u[k] /\ u[k] = s[Source(f, t, k)]
      BY <1>1, <1>2 DEF Moved
    <2>2. /\ Source(g, v, i) \in 1..n
          /\ n - Source(g, v, i) + 1 = Source(f, t, k)
      BY <1>1, SourceMirrors
    <2>3. QED
      BY <1>2, <2>1, <2>2
  <1>4. QED
    BY <1>1, <1>2, <1>3 DEF Moved

\* A list with a new row put in still holds each row once.
LEMMA InsertedKeepsRows ==
    ASSUME NEW s, NEW u \in Seq(Nat), NEW q \in 1..Len(s) + 1,
           HoldsRowsOnce(s), Inserted(s, u, q, Len(s) + 1)
    PROVE  HoldsRowsOnce(u)
  <1> DEFINE n == Len(s)
  <1>1. n \in Nat /\ Len(u) = n + 1
    BY DEF HoldsRowsOnce, Inserted
  <1>2. \A i \in 1..n + 1 :
          \/ i < q /\ i \in 1..n /\ u[i] = s[i]
          \/ i = q /\ u[i] = n + 1
          \/ i > q /\ i - 1 \in 1..n /\ u[i] = s[i - 1]
    BY <1>1 DEF Inserted
  <1>3. \A i \in 1..n : s[i] \in 1..n /\ s[i] # n + 1
    <2>1. \A i \in 1..n : s[i] \in 1..n
      BY DEF HoldsRowsOnce
    <2>2. \A v \in 1..n : v # n + 1
      BY <1>1
    <2>3. QED
      BY <2>1, <2>2
  <1>4. ASSUME NEW i \in 1..n + 1
        PROVE  u[i] \in 1..n + 1
    <2>1. u[i] \in 1..n \/ u[i] = n + 1
      BY <1>2, <1>3
    <2>2. QED
      BY <1>1, <2>1
  <1>5. ASSUME NEW i \in 1..n + 1, NEW j \in 1..n + 1, u[i] = u[j]
        PROVE  i = j
    <2>1. \A a, b \in 1..n : s[a] = s[b] => a = b
      BY DEF HoldsRowsOnce
    <2>2. CASE i = q \/ j = q
      BY <1>2, <1>3, <1>5, <2>2
    <2>3. CASE i # q /\ j # q
      <3> DEFINE a == IF i < q THEN i ELSE i - 1
                 b == IF j < q THEN j ELSE j - 1
      <3>1. a \in 1..n /\ b \in 1..n /\ u[i] = s[a] /\ u[j] = s[b]
        BY <1>2, <2>3
      <3>2. a = b
        BY <1>5, <2>1, <3>1
      <3>3. QED
        BY <2>3, <3>2
    <2>4. QED
      BY <2>2, <2>3
  <1>6. ASSUME NEW r \in 1..n + 1
        PROVE  \E i \in 1..n + 1 : u[i] = r
    <2>1. CASE r = n + 1
      <3>1. q \in 1..n + 1 /\ u[q] = n + 1
        BY <1>1, <1>2
      <3>2. QED
        BY <2>1, <3>1
    <2>2. CASE r # n + 1
      <3>1. PICK i \in 1..n : s[i] = r
        <4>1. r \in 1..n
          BY <1>1, <2>2
        <4>2. QED
          BY <4>1 DEF HoldsRowsOnce
      <3>2. CASE i < q
        <4>1. i \in 1..n + 1 /\ u[i] = s[i]
          BY <1>1, <3>2 DEF Inserted
        <4>2. QED
          BY <3>1, <4>1
      <3>3. CASE i >= q
        <4>1. i + 1 \in 1..n + 1 /\ i + 1 > q /\ (i + 1) - 1 = i
          BY <1>1, <3>3
        <4>2. u[i + 1] = s[i]
          BY <1>1, <4>1 DEF Inserted
        <4>3. QED
          BY <3>1, <4>1, <4>2
      <3>4. QED
        BY <3>2, <3>3
    <2>3. QED
      BY <2>1, <2>2
  <1>7. QED
    BY <1>1, <1>4, <1>5, <1>6 DEF HoldsRowsOnce

\* A list with a row moved still holds each row once.
LEMMA MovedKeepsRows ==
    ASSUME NEW s, NEW u \in Seq(Nat), NEW f \in 1..Len(s), NEW t \in 1..Len(s),
           HoldsRowsOnce(s), Moved(s, u, f, t)
    PROVE  HoldsRowsOnce(u)
  <1> DEFINE n == Len(s)
  <1>1. n \in Nat /\ Len(u) = n
    BY DEF HoldsRowsOnce, Moved
  <1>2. \A i \in 1..n : Source(f, t, i) \in 1..n /\ u[i] = s[Source(f, t, i)]
    BY <1>1 DEF Moved, Source
  <1>3. \A i, j \in 1..n : Source(f, t, i) = Source(f, t, j) => i = j
    BY <1>1 DEF Source
  <1>4. \A j \in 1..n : Source(t, f, j) \in 1..n /\ Source(f, t, Source(t, f, j)) = j
    BY <1>1 DEF Source
  <1>5. \A i \in 1..n : u[i] \in 1..n
    BY <1>2 DEF HoldsRowsOnce
  <1>6. ASSUME NEW i \in 1..n, NEW j \in 1..n, u[i] = u[j]
        PROVE  i = j
    <2>1. \A a, b \in 1..n : s[a] = s[b] => a = b
      BY DEF HoldsRowsOnce
    <2>2. s[Source(f, t, i)] = s[Source(f, t, j)]
      BY <1>2, <1>6
    <2>3. Source(f, t, i) = Source(f, t, j)
      BY <1>2, <2>1, <2>2
    <2>4. QED
      BY <1>3, <2>3
  <1>7. ASSUME NEW r \in 1..n
        PROVE  \E i \in 1..n : u[i] = r
    <2>1. PICK j \in 1..n : s[j] = r
      BY DEF HoldsRowsOnce
    <2>2. u[Source(t, f, j)] = r
      BY <1>2, <1>4, <2>1
    <2>3. QED
      BY <1>4, <2>2
  <1>8. QED
    BY <1>1, <1>5, <1>6, <1>7 DEF HoldsRowsOnce

\* A reversed list still holds each row once.
LEMMA ReverseKeepsRows ==
    ASSUME NEW s, HoldsRowsOnce(s)
    PROVE  HoldsRowsOnce(Reverse(s))
  <1> DEFINE n == Len(s)
             u == Reverse(s)
  <1>1. s \in Seq(Nat) /\ n \in Nat
    BY DEF HoldsRowsOnce
  <1>2. u \in Seq(Nat) /\ Len(u) = n /\ \A i \in 1..n : u[i] = s[n - i + 1]
    BY <1>1, ReverseReads
  <1> HIDE DEF u
  <1>3. \A i \in 1..n : n - i + 1 \in 1..n /\ n - (n - i + 1) + 1 = i
    BY <1>1
  <1>4. \A i \in 1..n : u[i] \in 1..n
    BY <1>2, <1>3 DEF HoldsRowsOnce
  <1>5. ASSUME NEW i \in 1..n, NEW j \in 1..n, u[i] = u[j]
        PROVE  i = j
    <2>1. \A a, b \in 1..n : s[a] = s[b] => a = b
      BY DEF HoldsRowsOnce
    <2>2. n - i + 1 = n - j + 1
      BY <1>2, <1>3, <1>5, <2>1
    <2>3. QED
      BY <1>1, <2>2
  <1>6. ASSUME NEW r \in 1..n
        PROVE  \E i \in 1..n : u[i] = r
    <2>1. PICK j \in 1..n : s[j] = r
      BY DEF HoldsRowsOnce
    <2>2. n - j + 1 \in 1..n /\ u[n - j + 1] = s[j]
      BY <1>2, <1>3
    <2>3. QED
      BY <2>1, <2>2
  <1>7. QED
    BY <1>2, <1>4, <1>5, <1>6 DEF HoldsRowsOnce, u

(***************************************************************************)
(* What a page holds.                                                      *)
(***************************************************************************)
\* q holds the rows of s that follow position a, b of them if s has so many.
Taken(q, s, a, b) ==
    /\ q \in Seq(Nat)
    /\ Len(q) <= b
    /\ Len(q) = 0 \/ a + Len(q) <= Len(s)
    /\ Len(q) < b => Len(s) <= a + Len(q)
    /\ \A k \in 1..Len(q) : q[k] = s[a + k]

\* skip and take, by positions: the rows behind the offset, if there are any.
LEMMA QueryReads ==
    ASSUME NEW s \in Seq(Nat), NEW a \in Nat, NEW b \in Nat
    PROVE  Taken(SubSeq(s, a + 1, Lesser(a + b, Len(s))), s, a, b)
  <1> DEFINE n == Len(s)
             z == Lesser(a + b, n)
             q == SubSeq(s, a + 1, z)
  <1>1. n \in Nat /\ z \in Nat /\ z <= n /\ z <= a + b /\ (z = n \/ z = a + b)
    BY DEF Lesser
  <1> HIDE DEF z
  <1>2. \A i \in (a + 1)..z : s[i] \in Nat
    BY <1>1
  <1>3. /\ q \in Seq(Nat)
        /\ Len(q) = IF a + 1 <= z THEN z - (a + 1) + 1 ELSE 0
        /\ \A k \in 1..z - (a + 1) + 1 : q[k] = s[(a + 1) + k - 1]
    BY <1>1, <1>2, SubSeqProperties
  <1> HIDE DEF q
  <1>4. Len(q) \in Nat
    BY <1>3
  <1>5. Len(q) <= b /\ (Len(q) = 0 \/ a + Len(q) <= n) /\ (Len(q) < b => n <= a + Len(q))
    BY <1>1, <1>3, <1>4
  <1>6. ASSUME NEW k \in 1..Len(q)
        PROVE  q[k] = s[a + k]
    <2>1. k \in 1..z - (a + 1) + 1 /\ (a + 1) + k - 1 = a + k
      BY <1>1, <1>3, <1>4
    <2>2. QED
      BY <1>3, <2>1
  <1>7. QED
    BY <1>3, <1>5, <1>6 DEF q, z, Taken

(***************************************************************************)
(* The inductive invariant.                                                *)
(***************************************************************************)
Received == ToSet(seen)

\* The types of the variables; nothing depends on the values of createdAt.
Typed ==
    /\ listing \in Listings
    /\ order \in Seq(Nat)
    /\ offset \in Nat
    /\ seen \in Seq(Nat)
    /\ done \in BOOLEAN
    /\ changes \in Nat

\* The list holds the rows 1..n, and the client received such rows only.
Rows ==
    /\ \A i \in 1..Len(order) : order[i] \in 1..Len(order)
    /\ \A i, j \in 1..Len(order) : order[i] = order[j] => i = j
    /\ \A r \in 1..Len(order) : \E i \in 1..Len(order) : order[i] = r
    /\ Len(order) >= InitialRows
    /\ Received \subseteq 1..Len(order)

\* Where rows only move away from the reader, what lies before the offset and
\* was there from the start was received or moved; a walk ends at the end.
SettledRead ==
    /\ PushesBack =>
         \A i \in 1..Len(Ordered) :
            i <= offset /\ Ordered[i] \in 1..InitialRows =>
                Ordered[i] \in Received \cup moved
    /\ done => Len(Ordered) <= offset

\* The rows received already that a later page can bring again.
Ahead == {r \in Received : \E i \in 1..Len(Ordered) : offset < i /\ Ordered[i] = r}

\* Repeats past and repeats to come are both paid for by changes.
RepeatsCovered == Len(seen) + Cardinality(Ahead) <= Cardinality(Received) + changes

\* Of attempts recorded in order the client has those in front of the offset,
\* in that order.
AttemptsInOrder ==
    listing.sort = <<"attemptedAt", "asc">> /\ RecordedInOrder =>
        /\ Len(seen) = offset /\ offset <= Len(order)
        /\ \A i \in 1..Len(seen) : seen[i] = order[i]

\* The inductive invariant.
Walk == Typed /\ Rows /\ SettledRead /\ RepeatsCovered /\ AttemptsInOrder

(***************************************************************************)
(* What the actions do to the list as it is read.                          *)
(***************************************************************************)
LEMMA ListedRows ==
    ASSUME Typed, Rows
    PROVE  /\ HoldsRowsOnce(Ordered)
           /\ Len(Ordered) = Len(order)
           /\ listing.sort[2] = "asc" => Ordered = order
  <1>1. HoldsRowsOnce(order)
    BY DEF Typed, Rows, HoldsRowsOnce
  <1>2. HoldsRowsOnce(Reverse(order)) /\ Len(Reverse(order)) = Len(order)
    BY <1>1, ReverseKeepsRows, ReverseReads DEF Typed
  <1>3. QED
    BY <1>1, <1>2 DEF Ordered

\* An insert puts a new row at some position of the list as it is read.
LEMMA InsertInserts ==
    ASSUME Typed, Rows, Insert
    PROVE  /\ order' \in Seq(Nat) /\ HoldsRowsOnce(order')
           /\ Len(order') = Len(order) + 1
           /\ \E q \in 1..Len(Ordered) + 1 : Inserted(Ordered, Ordered', q, Len(Ordered) + 1)
           /\ Ordered' \in Seq(Nat)
  <1>1. PICK place \in 1..Len(order) + 1 : order' = InsertAt(order, place, Len(order) + 1)
    BY DEF Insert
  <1>2. order \in Seq(Nat) /\ Len(order) + 1 \in Nat
    BY DEF Typed
  <1>3. order' \in Seq(Nat) /\ Inserted(order, order', place, Len(order) + 1)
    BY <1>1, <1>2, InsertAtInserts
  <1>4. HoldsRowsOnce(order)
    BY DEF Typed, Rows, HoldsRowsOnce
  <1>5. HoldsRowsOnce(order')
    BY <1>3, <1>4, InsertedKeepsRows
  <1>6. Len(order') = Len(order) + 1
    BY <1>3 DEF Inserted
  <1>7. CASE listing.sort[2] = "asc"
    <2>1. Ordered = order /\ Ordered' = order'
      BY <1>7 DEF Ordered, Insert
    <2>2. QED
      BY <1>3, <1>5, <1>6, <2>1
  <1>8. CASE listing.sort[2] # "asc"
    <2>1. Ordered = Reverse(order) /\ Ordered' = Reverse(order')
      BY <1>8 DEF Ordered, Insert
    <2>2. /\ Len(order) + 2 - place \in 1..Len(order) + 1
          /\ Inserted(Reverse(order), Reverse(order'), Len(order) + 2 - place, Len(order) + 1)
      BY <1>2, <1>3, ReverseInserted
    <2>3. Len(Reverse(order)) = Len(order) /\ Reverse(order') \in Seq(Nat)
      BY <1>2, <1>3, ReverseReads
    <2>4. QED
      BY <1>5, <1>3, <1>6, <2>1, <2>2, <2>3
  <1>9. QED
    BY <1>7, <1>8

\* Between two pages one row of the list changes its place: away from the
\* reader, where rows only move that way.
MovesOne ==
    /\ UNCHANGED <<listing, offset, seen, done>>
    /\ ~ done
    /\ changes' = changes + 1
    /\ order' \in Seq(Nat) /\ HoldsRowsOnce(order')
    /\ Len(order') = Len(order)
    /\ Column \notin {"acceptedAt", "attemptedAt"}
    /\ \E f, t \in 1..Len(Ordered) :
         /\ Moved(Ordered, Ordered', f, t)
         /\ moved \cup {Ordered[f]} \subseteq moved'
         /\ PushesBack => t <= f

\* A save moves one row, in a list by updatedAt, newest first, to the front.
LEMMA SaveMovesOne ==
    ASSUME Typed, Rows, Save
    PROVE  MovesOne
  <1>1. PICK from \in 1..Len(order), to \in 1..Len(order) :
           /\ Column = "updatedAt" => from <= to
           /\ order' = InsertAt(RemoveAt(order, from), to, order[from])
           /\ moved' = moved \cup {order[from]}
    BY DEF Save
  <1>2. order \in Seq(Nat) /\ Len(order) \in Nat
    BY DEF Typed
  <1>3. order' \in Seq(Nat) /\ Moved(order, order', from, to)
    BY <1>1, <1>2, SaveMoves
  <1>4. HoldsRowsOnce(order)
    BY DEF Typed, Rows, HoldsRowsOnce
  <1>5. /\ UNCHANGED <<listing, offset, seen, done>> /\ ~ done /\ changes' = changes + 1
        /\ order' \in Seq(Nat) /\ HoldsRowsOnce(order') /\ Len(order') = Len(order)
        /\ Column \notin {"acceptedAt", "attemptedAt"}
    BY <1>3, <1>4, MovedKeepsRows DEF Save, Change, Moved
  <1>6. PushesBack => Column = "updatedAt" /\ listing.sort[2] # "asc"
    BY DEF PushesBack, Save, Column
  <1>7. CASE listing.sort[2] = "asc"
    <2>1. Ordered = order /\ Ordered' = order'
      BY <1>7 DEF Ordered, Save
    <2>2. QED
      BY <1>1, <1>3, <1>5, <1>6, <1>7, <2>1 DEF MovesOne
  <1>8. CASE listing.sort[2] # "asc"
    <2> DEFINE f == Len(order) + 1 - from
               t == Len(order) + 1 - to
    <2>1. Ordered = Reverse(order) /\ Ordered' = Reverse(order')
      BY <1>8 DEF Ordered, Save
    <2>2. Moved(Reverse(order), Reverse(order'), f, t)
      BY <1>2, <1>3, ReverseMoved
    <2>3. /\ Len(Reverse(order)) = Len(order)
          /\ \A i \in 1..Len(order) : Reverse(order)[i] = order[Len(order) - i + 1]
      BY <1>2, ReverseReads
    <2>4. f \in 1..Len(order) /\ t \in 1..Len(order) /\ Len(order) - f + 1 = from
      BY <1>2
    <2>5. Reverse(order)[f] = order[from]
      BY <2>3, <2>4
    <2>6. PushesBack => t <= f
      BY <1>1, <1>2, <1>6
    <2> HIDE DEF f, t
    <2>7. QED
      BY <1>1, <1>5, <2>1, <2>2, <2>3, <2>4, <2>5, <2>6 DEF MovesOne
  <1>9. QED
    BY <1>7, <1>8

\* So does an exchange of two neighbours: the later one moves to the front.
LEMMA ExchangeMovesOne ==
    ASSUME Typed, Rows, Exchange
    PROVE  MovesOne
  <1>1. PICK i \in 1..Len(order) - 1 :
           /\ order' = [order EXCEPT ![i] = order[i + 1], ![i + 1] = order[i]]
           /\ moved' = moved \cup {order[i], order[i + 1]}
    BY DEF Exchange
  <1>2. /\ order \in Seq(Nat) /\ Len(order) \in Nat /\ i \in 1..Len(order) /\ i + 1 \in 1..Len(order)
    BY DEF Typed
  <1>3. order' \in Seq(Nat) /\ Len(order') = Len(order)
    <2>1. order[i] \in Nat /\ order[i + 1] \in Nat
      BY <1>2
    <2>2. QED
      BY <1>1, <1>2, <2>1
  <1>4. Moved(order, order', i, i + 1)
    <2>1. \A k \in 1..Len(order) :
            order'[k] = IF k = i + 1 THEN order[i] ELSE IF k = i THEN order[i + 1] ELSE order[k]
      BY <1>1, <1>2
    <2>2. \A k \in 1..Len(order) :
            Source(i, i + 1, k) = IF k = i + 1 THEN i ELSE IF k = i THEN i + 1 ELSE k
      BY <1>2 DEF Source
    <2>3. QED
      BY <1>3, <2>1, <2>2 DEF Moved
  <1>5. HoldsRowsOnce(order)
    BY DEF Typed, Rows, HoldsRowsOnce
  <1>6. /\ UNCHANGED <<listing, offset, seen, done>> /\ ~ done /\ changes' = changes + 1
        /\ order' \in Seq(Nat) /\ HoldsRowsOnce(order') /\ Len(order') = Len(order)
    BY <1>2, <1>3, <1>4, <1>5, MovedKeepsRows DEF Exchange, Change
  <1>7. Column = "createdAt" /\ listing.sort[2] # "asc"
    BY DEF Exchange, TiesAreOpen, Typed, Listings, SubscriptionSorts, Column
  <1>8. Ordered = Reverse(order) /\ Ordered' = Reverse(order')
    BY <1>6, <1>7 DEF Ordered
  <1> DEFINE n == Len(order)
             f == n + 1 - i
             t == n + 1 - (i + 1)
  <1>9. Moved(Reverse(order), Reverse(order'), f, t)
    BY <1>2, <1>3, <1>4, ReverseMoved
  <1>10. f \in 1..n /\ t \in 1..n /\ t <= f /\ n - f + 1 = i
    BY <1>2
  <1>11. Len(Reverse(order)) = n /\ Reverse(order)[f] = order[i]
    BY <1>2, <1>10, ReverseReads
  <1> HIDE DEF f, t
  <1>12. QED
    BY <1>1, <1>6, <1>7, <1>8, <1>9, <1>10, <1>11 DEF MovesOne

\* A page appends the next m rows of the list and moves the offset past them.
Reads(m) ==
    /\ UNCHANGED <<listing, order, createdAt, moved, changes>>
    /\ m \in Nat
    /\ m = 0 \/ offset + m <= Len(Ordered)
    /\ seen' \in Seq(Nat) /\ Len(seen') = Len(seen) + m
    /\ \A k \in 1..Len(seen) : seen'[k] = seen[k]
    /\ \A k \in 1..m : seen'[Len(seen) + k] = Ordered[offset + k]
    /\ offset' \in Nat /\ offset + m <= offset'
    /\ offset' # offset + m => Len(Ordered) <= offset + m
    /\ listing.by = "cursor" => offset' = offset + m
    /\ done' \in BOOLEAN
    /\ done' => Len(Ordered) <= offset'

\* Appending a page keeps what was received, and adds the page behind it.
LEMMA AppendReads ==
    ASSUME NEW s \in Seq(Nat), NEW q \in Seq(Nat)
    PROVE  /\ s \o q \in Seq(Nat) /\ Len(s \o q) = Len(s) + Len(q)
           /\ \A k \in 1..Len(s) : (s \o q)[k] = s[k]
           /\ \A k \in 1..Len(q) : (s \o q)[Len(s) + k] = q[k]
  <1>1. /\ s \o q \in Seq(Nat) /\ Len(s \o q) = Len(s) + Len(q)
        /\ \A i \in 1..Len(s) + Len(q) :
             (s \o q)[i] = IF i <= Len(s) THEN s[i] ELSE q[i - Len(s)]
    BY ConcatProperties
  <1>2. Len(s) \in Nat /\ Len(q) \in Nat
    OBVIOUS
  <1>3. \A k \in 1..Len(s) : k \in 1..Len(s) + Len(q) /\ k <= Len(s)
    BY <1>2
  <1>4. \A k \in 1..Len(q) :
          /\ Len(s) + k \in 1..Len(s) + Len(q)
          /\ ~ (Len(s) + k <= Len(s))
          /\ (Len(s) + k) - Len(s) = k
    BY <1>2
  <1>5. QED
    BY <1>1, <1>3, <1>4

\* A page by cursor: the extra row is left for the next page.
LEMMA CursorPageReads ==
    ASSUME Typed, Rows, ReadCursorPage
    PROVE  \E m : Reads(m)
  <1> DEFINE limit == listing.limit
             rows == Query(offset, TakeOf(limit))
             items == SubSeq(rows, 1, Lesser(limit, Len(rows)))
             m == Len(items)
  <1>1. limit \in Nat /\ TakeOf(limit) = limit + 1
    BY ListingAssumption DEF Typed, Listings, TakeOf
  <1>2. Ordered \in Seq(Nat) /\ offset \in Nat /\ seen \in Seq(Nat)
    BY ListedRows DEF HoldsRowsOnce, Typed
  <1>3. /\ rows \in Seq(Nat)
        /\ Len(rows) <= limit + 1
        /\ Len(rows) = 0 \/ offset + Len(rows) <= Len(Ordered)
        /\ Len(rows) < limit + 1 => Len(Ordered) <= offset + Len(rows)
        /\ \A k \in 1..Len(rows) : rows[k] = Ordered[offset + k]
    <2> DEFINE take == TakeOf(limit)
    <2>1. take \in Nat /\ take = limit + 1
      BY <1>1
    <2> HIDE DEF take
    <2>2. Taken(Query(offset, take), Ordered, offset, take)
      BY <1>2, <2>1, QueryReads DEF Query
    <2>3. QED
      BY <2>1, <2>2 DEF Taken, take
  <1>4. seen' = seen \o items /\ offset' = offset + m /\ done' = ~ (Len(rows) > limit)
    BY DEF ReadCursorPage, Receive, FinalizePage
  <1> HIDE DEF rows, limit
  <1>5. /\ items \in Seq(Nat)
        /\ Len(items) <= limit
        /\ Len(items) = 0 \/ Len(items) <= Len(rows)
        /\ Len(items) < limit => Len(rows) <= Len(items)
        /\ \A k \in 1..Len(items) : items[k] = rows[k]
    <2>1. 0 + 1 = 1 /\ 0 + limit = limit
      BY <1>1
    <2>2. Taken(SubSeq(rows, 0 + 1, Lesser(0 + limit, Len(rows))), rows, 0, limit)
      BY <1>1, <1>3, QueryReads
    <2>3. /\ items \in Seq(Nat)
          /\ Len(items) <= limit
          /\ Len(items) = 0 \/ 0 + Len(items) <= Len(rows)
          /\ Len(items) < limit => Len(rows) <= 0 + Len(items)
          /\ \A k \in 1..Len(items) : items[k] = rows[0 + k]
      BY <2>1, <2>2 DEF Taken
    <2> HIDE DEF items
    <2>4. Len(items) \in Nat /\ \A k \in 1..Len(items) : 0 + k = k
      BY <2>3
    <2>5. QED
      BY <2>3, <2>4
  <1> HIDE DEF items
  <1>6. m \in Nat /\ Len(rows) \in Nat /\ Len(Ordered) \in Nat /\ Len(seen) \in Nat
    BY <1>2, <1>3, <1>5
  <1>7. \A k \in 1..m : k \in 1..Len(rows) /\ items[k] = Ordered[offset + k]
    <2>1. \A k \in 1..m : k \in 1..Len(rows)
      BY <1>5, <1>6
    <2>2. QED
      BY <1>3, <1>5, <2>1
  <1>8. /\ seen' \in Seq(Nat) /\ Len(seen') = Len(seen) + m
        /\ \A k \in 1..Len(seen) : seen'[k] = seen[k]
        /\ \A k \in 1..m : seen'[Len(seen) + k] = items[k]
    BY <1>2, <1>4, <1>5, AppendReads
  <1>9. m = 0 \/ offset + m <= Len(Ordered)
    BY <1>1, <1>2, <1>3, <1>5, <1>6
  <1>10. done' => Len(Ordered) <= offset + m
    <2>1. CASE Len(rows) > limit
      BY <1>4, <2>1
    <2>2. CASE Len(rows) <= limit
      <3>1. Len(Ordered) <= offset + Len(rows)
        BY <1>1, <1>3, <1>6, <2>2
      <3>2. m = Len(rows)
        BY <1>1, <1>5, <1>6, <2>2
      <3>3. QED
        BY <3>1, <3>2
    <2>3. QED
      BY <1>1, <1>6, <2>1, <2>2
  <1>11. UNCHANGED <<listing, order, createdAt, moved, changes>>
    BY DEF ReadCursorPage
  <1>12. offset' \in Nat /\ offset + m <= offset' /\ done' \in BOOLEAN
    BY <1>2, <1>4, <1>6
  <1> HIDE DEF m
  <1>13. Reads(m)
    BY <1>4, <1>6, <1>7, <1>8, <1>9, <1>10, <1>11, <1>12 DEF Reads
  <1>14. QED
    BY <1>13

\* A page by number: the offset may run past the end of the list.
LEMMA NumberedPageReads ==
    ASSUME Typed, Rows, ReadNumberedPage
    PROVE  \E m : Reads(m)
  <1> DEFINE limit == listing.limit
             items == Query(offset, limit)
             m == Len(items)
  <1>1. limit \in Nat /\ listing.by = "page"
    BY ListingAssumption DEF Typed, Listings, ReadNumberedPage
  <1>2. /\ Ordered \in Seq(Nat) /\ offset \in Nat /\ seen \in Seq(Nat)
        /\ Len(order) = Len(Ordered)
    BY ListedRows DEF HoldsRowsOnce, Typed
  <1>3. /\ items \in Seq(Nat)
        /\ Len(items) <= limit
        /\ Len(items) = 0 \/ offset + Len(items) <= Len(Ordered)
        /\ Len(items) < limit => Len(Ordered) <= offset + Len(items)
        /\ \A k \in 1..Len(items) : items[k] = Ordered[offset + k]
    <2>1. Taken(items, Ordered, offset, limit)
      BY <1>1, <1>2, QueryReads DEF Query
    <2> HIDE DEF items
    <2>2. QED
      BY <2>1 DEF Taken
  <1>4. /\ seen' = seen \o items /\ offset' = offset + limit
        /\ done' = ~ (offset + limit < Len(Ordered))
    BY <1>2 DEF ReadNumberedPage, Receive
  <1> HIDE DEF items, limit
  <1>5. m \in Nat /\ Len(Ordered) \in Nat
    BY <1>2, <1>3
  <1>6. /\ seen' \in Seq(Nat) /\ Len(seen') = Len(seen) + m
        /\ \A k \in 1..Len(seen) : seen'[k] = seen[k]
        /\ \A k \in 1..m : seen'[Len(seen) + k] = items[k]
    BY <1>2, <1>3, <1>4, AppendReads
  <1>7. /\ offset' \in Nat /\ offset + m <= offset'
        /\ offset' # offset + m => Len(Ordered) <= offset + m
    <2>1. m <= limit /\ (m < limit => Len(Ordered) <= offset + m)
      BY <1>3
    <2> HIDE DEF m
    <2>2. QED
      BY <1>1, <1>2, <1>4, <1>5, <2>1
  <1>8. done' \in BOOLEAN /\ (done' => Len(Ordered) <= offset')
    <2>1. limit \in Nat /\ offset \in Nat /\ Len(Ordered) \in Nat
      BY <1>1, <1>2, <1>5
    <2>2. ~ (offset + limit < Len(Ordered)) => Len(Ordered) <= offset + limit
      BY <2>1
    <2>3. QED
      BY <1>4, <2>2
  <1>9. UNCHANGED <<listing, order, createdAt, moved, changes>>
    BY DEF ReadNumberedPage
  <1>10. Reads(m)
    BY <1>1, <1>3, <1>5, <1>6, <1>7, <1>8, <1>9 DEF Reads
  <1>11. QED
    BY <1>10

\* The rows of a page of m.
PageRows(m) == {Ordered[offset + k] : k \in 1..m}

\* A page adds its rows to those received.
LEMMA ReceivedGrows ==
    ASSUME Typed, NEW m, Reads(m)
    PROVE  Received' = Received \cup PageRows(m)
  <1>1. /\ seen \in Seq(Nat) /\ seen' \in Seq(Nat) /\ m \in Nat
        /\ Len(seen) \in Nat /\ Len(seen') = Len(seen) + m
    BY DEF Typed, Reads
  <1>2. /\ Received = {seen[k] : k \in 1..Len(seen)}
        /\ Received' = {seen'[k] : k \in 1..Len(seen')}
    <2>1. DOMAIN seen = 1..Len(seen) /\ DOMAIN seen' = 1..Len(seen')
      BY <1>1
    <2>2. /\ Received = {seen[k] : k \in DOMAIN seen}
          /\ Received' = {seen'[k] : k \in DOMAIN seen'}
      BY Zenon DEF Received, ToSet
    <2>3. QED
      BY <2>1, <2>2
  <1>3. /\ \A k \in 1..Len(seen) : k \in 1..Len(seen') /\ seen'[k] = seen[k]
        /\ \A k \in 1..m : Len(seen) + k \in 1..Len(seen') /\ seen'[Len(seen) + k] = Ordered[offset + k]
    BY <1>1 DEF Reads
  <1>4. Received \cup PageRows(m) \subseteq Received'
    BY <1>2, <1>3 DEF PageRows
  <1>5. ASSUME NEW j \in 1..Len(seen')
        PROVE  seen'[j] \in Received \cup PageRows(m)
    <2>1. CASE j <= Len(seen)
      <3>1. j \in 1..Len(seen)
        BY <1>1, <2>1
      <3>2. QED
        BY <1>2, <1>3, <3>1
    <2>2. CASE ~ (j <= Len(seen))
      <3>1. PICK k \in 1..m : j = Len(seen) + k
        <4>1. j - Len(seen) \in 1..m /\ j = Len(seen) + (j - Len(seen))
          BY <1>1, <2>2
        <4>2. QED
          BY <4>1
      <3>2. QED
        BY <1>3, <3>1 DEF PageRows
    <2>3. QED
      BY <2>1, <2>2
  <1>6. QED
    BY <1>2, <1>4, <1>5

\* A step is a page, an insert, a move or none of these.
LEMMA StepKinds ==
    ASSUME Typed, Rows, [Next]_vars
    PROVE  (\E m : Reads(m)) \/ Insert \/ MovesOne \/ UNCHANGED vars
  BY CursorPageReads, NumberedPageReads, SaveMovesOne, ExchangeMovesOne DEF Next, Rest

\* Each step keeps the types, and every row in the list once.
LEMMA NextKeepsRows ==
    ASSUME Typed, Rows, [Next]_vars
    PROVE  Typed' /\ Rows'
  <1>1. ASSUME NEW m, Reads(m)
        PROVE  Typed' /\ Rows'
    <2>1. PageRows(m) \subseteq 1..Len(order)
      <3>1. \A k \in 1..m : offset + k \in 1..Len(Ordered)
        <4>1. Len(Ordered) \in Nat /\ offset \in Nat
          BY ListedRows DEF Typed
        <4>2. m \in Nat /\ (m = 0 \/ offset + m <= Len(Ordered))
          BY <1>1 DEF Reads
        <4>3. QED
          BY <4>1, <4>2
      <3>2. \A i \in 1..Len(Ordered) : Ordered[i] \in 1..Len(order)
        BY ListedRows DEF HoldsRowsOnce
      <3>3. QED
        BY <3>1, <3>2 DEF PageRows
    <2>2. Received' \subseteq 1..Len(order)
      BY <1>1, <2>1, ReceivedGrows DEF Rows
    <2>3. QED
      BY <1>1, <2>2 DEF Typed, Rows, Reads
  <1>2. ASSUME Insert
        PROVE  Typed' /\ Rows'
    <2>1. /\ order' \in Seq(Nat) /\ HoldsRowsOnce(order')
          /\ Len(order') = Len(order) + 1
      BY <1>2, InsertInserts
    <2>2. Typed'
      BY <1>2, <2>1 DEF Typed, Insert, Change
    <2>3. Received' = Received
      BY <1>2 DEF Insert, Received
    <2>4. Len(order) \in Nat /\ InitialRows \in Nat
      BY ListingAssumption DEF Typed
    <2>5. 1..Len(order) \subseteq 1..Len(order') /\ Len(order') >= InitialRows
      BY <2>1, <2>4 DEF Rows
    <2>6. Rows'
      BY <2>1, <2>3, <2>5 DEF Rows, HoldsRowsOnce
    <2>7. QED
      BY <2>2, <2>6
  <1>3. ASSUME MovesOne
        PROVE  Typed' /\ Rows'
    <2>1. /\ order' \in Seq(Nat) /\ HoldsRowsOnce(order')
          /\ Len(order') = Len(order)
      BY <1>3 DEF MovesOne
    <2>2. Typed'
      BY <1>3, <2>1 DEF Typed, MovesOne
    <2>3. Received' = Received
      BY <1>3 DEF MovesOne, Received
    <2>4. Rows'
      BY <2>1, <2>3 DEF Rows, HoldsRowsOnce
    <2>5. QED
      BY <2>2, <2>4
  <1>4. ASSUME UNCHANGED vars
        PROVE  Typed' /\ Rows'
    BY <1>4 DEF Typed, Rows, Received, vars
  <1>5. QED
    BY <1>1, <1>2, <1>3, <1>4, StepKinds

\* Each step keeps everything before the offset received or moved.
LEMMA NextKeepsSettled ==
    ASSUME Typed, Rows, SettledRead, [Next]_vars
    PROVE  SettledRead'
  <1> DEFINE n == Len(Ordered)
             old == 1..InitialRows
  <1>1. /\ n \in Nat /\ n = Len(order) /\ InitialRows \in Nat /\ InitialRows <= n
        /\ offset \in Nat /\ Ordered \in Seq(Nat)
    BY ListedRows, ListingAssumption DEF Typed, Rows, HoldsRowsOnce
  <1>2. ASSUME NEW m, Reads(m)
        PROVE  SettledRead'
    <2>1. Ordered' = Ordered /\ (PushesBack' <=> PushesBack) /\ moved' = moved
      BY <1>2 DEF Reads, Ordered, PushesBack, Column
    <2>2. done' => n <= offset'
      BY <1>2 DEF Reads
    <2>3. /\ m \in Nat /\ offset' \in Nat
          /\ offset' # offset + m => n <= offset + m
      BY <1>2 DEF Reads
    <2>4. ASSUME PushesBack, NEW i \in 1..n, i <= offset', Ordered[i] \in old
          PROVE  Ordered[i] \in Received' \cup moved
      <3>1. CASE i <= offset
        <4>1. Ordered[i] \in Received \cup moved
          BY <2>4, <3>1 DEF SettledRead
        <4>2. QED
          BY <1>2, <4>1, ReceivedGrows
      <3>2. CASE ~ (i <= offset)
        <4>1. PICK k \in 1..m : offset + k = i
          <5>1. i - offset \in 1..m /\ offset + (i - offset) = i
            BY <1>1, <2>3, <2>4, <3>2
          <5>2. QED
            BY <5>1
        <4>2. Ordered[i] \in PageRows(m)
          BY <4>1 DEF PageRows
        <4>3. QED
          BY <1>2, <4>2, ReceivedGrows
      <3>3. QED
        BY <3>1, <3>2
    <2>5. QED
      BY <2>1, <2>2, <2>4 DEF SettledRead
  <1>3. ASSUME Insert
        PROVE  SettledRead'
    <2>1. PICK q \in 1..n + 1 : Inserted(Ordered, Ordered', q, n + 1)
      BY <1>3, InsertInserts
    <2>2. /\ (PushesBack' <=> PushesBack) /\ moved' = moved /\ Received' = Received
          /\ offset' = offset /\ ~ done'
      BY <1>3 DEF Insert, Change, PushesBack, Column, Received
    <2>3. Len(Ordered') = n + 1
      BY <2>1 DEF Inserted
    <2>4. ASSUME PushesBack, NEW i \in 1..n + 1, i <= offset, Ordered'[i] \in old
          PROVE  Ordered'[i] \in Received \cup moved
      <3>1. i # q
        <4>1. i = q => Ordered'[i] = n + 1
          BY <2>1, <2>3 DEF Inserted
        <4>2. n + 1 \notin old
          BY <1>1
        <4>3. QED
          BY <2>4, <4>1, <4>2
      <3>2. PICK j \in 1..n : j <= offset /\ Ordered'[i] = Ordered[j]
        <4>1. CASE i < q
          <5>1. i \in 1..n /\ Ordered'[i] = Ordered[i]
            BY <1>1, <2>1, <2>3, <4>1 DEF Inserted
          <5>2. QED
            BY <2>4, <5>1
        <4>2. CASE i > q
          <5>1. i - 1 \in 1..n /\ i - 1 <= offset
            BY <1>1, <2>4, <4>2
          <5>2. Ordered'[i] = Ordered[i - 1]
            BY <1>1, <2>1, <2>3, <4>2 DEF Inserted
          <5>3. QED
            BY <5>1, <5>2
        <4>3. QED
          BY <1>1, <3>1, <4>1, <4>2
      <3>3. QED
        BY <2>4, <3>2 DEF SettledRead
    <2>5. QED
      BY <2>2, <2>3, <2>4 DEF SettledRead
  <1>4. ASSUME MovesOne
        PROVE  SettledRead'
    <2>1. PICK f \in 1..n, t \in 1..n :
             /\ Moved(Ordered, Ordered', f, t)
             /\ moved \cup {Ordered[f]} \subseteq moved'
             /\ PushesBack => t <= f
      BY <1>4 DEF MovesOne
    <2>2. /\ (PushesBack' <=> PushesBack) /\ Received' = Received
          /\ offset' = offset /\ ~ done'
      BY <1>4 DEF MovesOne, PushesBack, Column, Received
    <2>3. Len(Ordered') = n /\ \A i \in 1..n : Ordered'[i] = Ordered[Source(f, t, i)]
      BY <2>1 DEF Moved
    <2>4. ASSUME PushesBack, NEW i \in 1..n, i <= offset, Ordered'[i] \in old
          PROVE  Ordered'[i] \in Received \cup moved'
      <3>1. CASE i = t
        <4>1. Source(f, t, i) = f
          BY <3>1 DEF Source
        <4>2. QED
          BY <2>1, <2>3, <4>1
      <3>2. CASE i # t
        <4>1. Source(f, t, i) \in 1..n /\ Source(f, t, i) <= offset
          BY <1>1, <2>1, <2>4, <3>2 DEF Source
        <4>2. Ordered[Source(f, t, i)] \in Received \cup moved
          BY <2>3, <2>4, <4>1 DEF SettledRead
        <4>3. QED
          BY <2>1, <2>3, <4>2
      <3>3. QED
        BY <3>1, <3>2
    <2>5. QED
      BY <2>2, <2>3, <2>4 DEF SettledRead
  <1>5. ASSUME UNCHANGED vars
        PROVE  SettledRead'
    BY <1>5 DEF SettledRead, Ordered, PushesBack, Column, Received, vars
  <1>6. QED
    BY <1>2, <1>3, <1>4, <1>5, StepKinds

(***************************************************************************)
(* Counting the rows that can come again.                                  *)
(***************************************************************************)
\* The rows of s from behind position a on that are in G.
Behind(s, a, G) == {r \in G : \E i \in 1..Len(s) : a < i /\ s[i] = r}

\* An insert brings at most the row before the offset behind it.
LEMMA InsertedBehind ==
    ASSUME NEW s, NEW u, NEW q \in 1..Len(s) + 1, NEW a \in Nat, NEW G,
           HoldsRowsOnce(s), Inserted(s, u, q, Len(s) + 1), Len(s) + 1 \notin G
    PROVE  Behind(u, a, G) \subseteq Behind(s, a, G) \cup {s[a]}
  <1> DEFINE n == Len(s)
  <1>1. n \in Nat /\ Len(u) = n + 1
    BY DEF HoldsRowsOnce, Inserted
  <1>2. ASSUME NEW r \in G, NEW i \in 1..n + 1, a < i, u[i] = r
        PROVE  r \in Behind(s, a, G) \cup {s[a]}
    <2>1. CASE i < q
      <3>1. i \in 1..n /\ s[i] = r
        BY <1>1, <1>2, <2>1 DEF Inserted
      <3>2. QED
        BY <1>2, <3>1 DEF Behind
    <2>2. CASE i = q
      BY <1>1, <1>2, <2>2 DEF Inserted
    <2>3. CASE i > q
      <3>1. i - 1 \in 1..n /\ s[i - 1] = r /\ (a < i - 1 \/ i - 1 = a)
        BY <1>1, <1>2, <2>3 DEF Inserted
      <3>2. QED
        BY <3>1 DEF Behind
    <2>4. QED
      BY <1>1, <2>1, <2>2, <2>3
  <1>3. QED
    BY <1>1, <1>2 DEF Behind

\* A move brings at most one row behind the offset.
LEMMA MovedBehind ==
    ASSUME NEW s, NEW u, NEW f \in 1..Len(s), NEW t \in 1..Len(s), NEW a \in Nat, NEW G,
           HoldsRowsOnce(s), Moved(s, u, f, t)
    PROVE  \E x : Behind(u, a, G) \subseteq Behind(s, a, G) \cup {x}
  <1> DEFINE n == Len(s)
             x == IF f <= a THEN s[f] ELSE s[a]
  <1>1. n \in Nat /\ Len(u) = n
    BY DEF HoldsRowsOnce, Moved
  <1>2. ASSUME NEW r \in G, NEW i \in 1..n, a < i, u[i] = r
        PROVE  r \in Behind(s, a, G) \cup {x}
    <2>1. Source(f, t, i) \in 1..n /\ s[Source(f, t, i)] = r
      BY <1>1, <1>2 DEF Moved, Source
    <2>2. CASE a < Source(f, t, i)
      BY <2>1, <2>2 DEF Behind
    <2>3. CASE ~ (a < Source(f, t, i))
      <3>1. (f <= a /\ Source(f, t, i) = f) \/ (~ (f <= a) /\ Source(f, t, i) = a)
        BY <1>1, <1>2, <2>3 DEF Source
      <3>2. s[Source(f, t, i)] = x
        BY <3>1
      <3>3. QED
        BY <2>1, <3>2
    <2>4. QED
      BY <2>2, <2>3
  <1>3. Behind(u, a, G) \subseteq Behind(s, a, G) \cup {x}
    BY <1>1, <1>2 DEF Behind
  <1>4. QED
    BY <1>3

\* One more row to come again is one more change.
LEMMA OneMore ==
    ASSUME NEW A, NEW B, NEW x, IsFiniteSet(A), B \subseteq A \cup {x}
    PROVE  /\ Cardinality(A) \in Nat /\ Cardinality(B) \in Nat
           /\ Cardinality(B) <= Cardinality(A) + 1
  <1> DEFINE C == A \cup {x}
  <1>1. /\ IsFiniteSet(C)
        /\ Cardinality(C) = IF x \in A THEN Cardinality(A) ELSE Cardinality(A) + 1
    BY FS_AddElement
  <1>2. IsFiniteSet(B) /\ Cardinality(B) <= Cardinality(C)
    BY <1>1, FS_Subset
  <1>3. Cardinality(A) \in Nat /\ Cardinality(B) \in Nat /\ Cardinality(C) \in Nat
    BY <1>1, <1>2, FS_CardinalityType
  <1> HIDE DEF C
  <1>4. QED
    BY <1>1, <1>2, <1>3

\* Received rows that a page brings again stop lying ahead.
LEMMA PageCount ==
    ASSUME NEW n \in Nat, NEW R \in SUBSET (1..n), NEW I \in SUBSET (1..n),
           NEW A \in SUBSET R, NEW B \in SUBSET A, R \cap I \subseteq A, B \cap I = {},
           NEW m \in Nat, m <= Cardinality(I)
    PROVE  /\ Cardinality(A) \in Nat /\ Cardinality(B) \in Nat
           /\ Cardinality(R) \in Nat /\ Cardinality(R \cup I) \in Nat
           /\ m + Cardinality(B) + Cardinality(R) <= Cardinality(A) + Cardinality(R \cup I)
  <1> DEFINE O == R \cap I
             RI == R \cup I
             BO == B \cup O
             N == B \cap O
  <1>1. /\ IsFiniteSet(1..n)
        /\ R \subseteq 1..n /\ I \subseteq 1..n /\ A \subseteq 1..n /\ B \subseteq 1..n
        /\ O \subseteq 1..n /\ RI \subseteq 1..n /\ BO \subseteq 1..n
    <2>1. IsFiniteSet(1..n)
      BY FS_Interval
    <2>2. A \subseteq 1..n /\ B \subseteq 1..n
      OBVIOUS
    <2>3. O \subseteq 1..n /\ RI \subseteq 1..n
      OBVIOUS
    <2>4. QED
      BY <2>1, <2>2, <2>3
  <1>2. /\ IsFiniteSet(R) /\ IsFiniteSet(I) /\ IsFiniteSet(A) /\ IsFiniteSet(B)
        /\ IsFiniteSet(O) /\ IsFiniteSet(RI) /\ IsFiniteSet(BO)
    BY <1>1, FS_Subset
  <1>3. Cardinality(RI) = Cardinality(R) + Cardinality(I) - Cardinality(O)
    BY <1>2, FS_Union
  <1>4. Cardinality(BO) = Cardinality(B) + Cardinality(O) - Cardinality(N)
    BY <1>2, FS_Union
  <1>5. N = {}
    OBVIOUS
  <1>6. Cardinality(N) = 0
    BY <1>5, FS_EmptySet
  <1>7. BO \subseteq A
    OBVIOUS
  <1>8. Cardinality(BO) <= Cardinality(A)
    BY <1>2, <1>7, FS_Subset
  <1>9. /\ Cardinality(R) \in Nat /\ Cardinality(I) \in Nat /\ Cardinality(A) \in Nat
        /\ Cardinality(B) \in Nat /\ Cardinality(O) \in Nat /\ Cardinality(RI) \in Nat
        /\ Cardinality(BO) \in Nat
    BY <1>2, FS_CardinalityType
  <1> HIDE DEF O, RI, BO, N
  <1>10. m + Cardinality(B) + Cardinality(R) <= Cardinality(A) + Cardinality(RI)
    BY <1>3, <1>4, <1>6, <1>8, <1>9
  <1>11. QED
    BY <1>9, <1>10 DEF RI

\* A page of m has m different rows.
LEMMA PageRowsCount ==
    ASSUME NEW s, HoldsRowsOnce(s), NEW a \in Nat, NEW m \in Nat,
           m = 0 \/ a + m <= Len(s)
    PROVE  m <= Cardinality({s[a + k] : k \in 1..m})
  <1> DEFINE I == {s[a + k] : k \in 1..m}
             h == [k \in 1..m |-> s[a + k]]
  <1>1. Len(s) \in Nat /\ \A k \in 1..m : a + k \in 1..Len(s)
    BY DEF HoldsRowsOnce
  <1>2. \A j, k \in 1..m : h[j] = h[k] => j = k
    <2> SUFFICES ASSUME NEW j \in 1..m, NEW k \in 1..m, h[j] = h[k]
                 PROVE  j = k
      OBVIOUS
    <2>1. s[a + j] = s[a + k]
      OBVIOUS
    <2>2. a + j = a + k
      BY <1>1, <2>1 DEF HoldsRowsOnce
    <2>3. QED
      BY <2>2
  <1>3. h \in [1..m -> I] /\ \A r \in I : \E k \in 1..m : h[k] = r
    OBVIOUS
  <1> HIDE DEF h, I
  <1>4. h \in Bijection(1..m, I)
    BY <1>2, <1>3, Fun_IsBij
  <1>5. Cardinality(I) = m
    BY <1>4, FS_CountingElements DEF ExistsBijection
  <1>6. QED
    BY <1>5 DEF I

\* Each step keeps repeats paid for by changes.
LEMMA NextKeepsRepeatsCovered ==
    ASSUME Typed, Rows, RepeatsCovered, [Next]_vars
    PROVE  RepeatsCovered'
  <1>1. /\ HoldsRowsOnce(Ordered) /\ Len(Ordered) = Len(order) /\ Len(order) \in Nat
        /\ offset \in Nat /\ changes \in Nat /\ Len(seen) \in Nat
        /\ Received \subseteq 1..Len(order)
    <2>1. Len(order) \in Nat /\ offset \in Nat /\ changes \in Nat /\ Len(seen) \in Nat
      BY DEF Typed
    <2>2. Received \subseteq 1..Len(order)
      BY DEF Rows
    <2>3. QED
      BY <2>1, <2>2, ListedRows
  <1>2. Ahead = Behind(Ordered, offset, Received)
    BY DEF Ahead, Behind
  <1>3. Ahead' = Behind(Ordered', offset', Received')
    BY DEF Ahead, Behind
  <1>4. IsFiniteSet(Received) /\ IsFiniteSet(Ahead)
    <2>1. Ahead \subseteq Received
      BY DEF Ahead
    <2>2. IsFiniteSet(1..Len(order))
      BY <1>1, FS_Interval
    <2>3. QED
      BY <1>1, <2>1, <2>2, FS_Subset
  <1>5. Cardinality(Received) \in Nat /\ Cardinality(Ahead) \in Nat
    BY <1>4, FS_CardinalityType
  <1>6. ASSUME NEW m, Reads(m)
        PROVE  RepeatsCovered'
    <2> DEFINE I == PageRows(m)
    <2>1. /\ m \in Nat /\ (m = 0 \/ offset + m <= Len(Ordered))
          /\ Len(seen') = Len(seen) + m /\ changes' = changes
          /\ offset' \in Nat /\ offset + m <= offset'
      BY <1>6 DEF Reads
    <2>2. Ordered' = Ordered /\ Received' = Received \cup I
      BY <1>6, ReceivedGrows DEF Reads, Ordered
    <2>3. m <= Cardinality(I)
      BY <1>1, <2>1, PageRowsCount DEF PageRows
    <2>4. \A k \in 1..m : /\ offset + k \in 1..Len(Ordered)
                          /\ offset < offset + k
                          /\ ~ (offset' < offset + k)
      BY <1>1, <2>1
    <2>5. I \subseteq 1..Len(order)
      <3>1. \A i \in 1..Len(Ordered) : Ordered[i] \in 1..Len(order)
        BY <1>1 DEF HoldsRowsOnce
      <3>2. QED
        BY <2>4, <3>1 DEF PageRows
    <2>6. \A r \in I : ~ \E i \in 1..Len(Ordered) : offset' < i /\ Ordered[i] = r
      <3>1. SUFFICES ASSUME NEW k \in 1..m, NEW i \in 1..Len(Ordered), offset' < i,
                            Ordered[i] = Ordered[offset + k]
                     PROVE  FALSE
        BY DEF PageRows
      <3>2. i = offset + k
        BY <1>1, <2>4, <3>1 DEF HoldsRowsOnce
      <3>3. QED
        BY <2>4, <3>1, <3>2
    <2>7. Ahead' \cap I = {}
      BY <1>3, <2>2, <2>6 DEF Behind
    <2>8. Ahead' \subseteq Ahead
      <3>1. \A i \in 1..Len(Ordered) : offset' < i => offset < i
        BY <1>1, <2>1
      <3>2. QED
        BY <1>2, <1>3, <2>2, <2>7, <3>1 DEF Behind
    <2>9. Received \cap I \subseteq Ahead
      BY <1>2, <2>4 DEF Behind, PageRows
    <2>10. Ahead \subseteq Received
      BY DEF Ahead
    <2> HIDE DEF I
    <2>11. /\ Cardinality(Ahead') \in Nat /\ Cardinality(Received \cup I) \in Nat
           /\ m + Cardinality(Ahead') + Cardinality(Received)
                <= Cardinality(Ahead) + Cardinality(Received \cup I)
      BY <1>1, <2>1, <2>3, <2>5, <2>7, <2>8, <2>9, <2>10, PageCount
    <2>12. Len(seen) + Cardinality(Ahead) <= Cardinality(Received) + changes
      BY DEF RepeatsCovered
    <2>13. Len(seen') + Cardinality(Ahead') <= Cardinality(Received') + changes'
      BY <1>1, <1>5, <2>1, <2>2, <2>11, <2>12
    <2>14. QED
      BY <2>13 DEF RepeatsCovered
  <1>7. ASSUME NEW x, Ahead' \subseteq Ahead \cup {x}, Received' = Received,
               seen' = seen, changes' = changes + 1
        PROVE  RepeatsCovered'
    <2>1. Cardinality(Ahead') \in Nat /\ Cardinality(Ahead') <= Cardinality(Ahead) + 1
      BY <1>4, <1>7, OneMore
    <2>2. Len(seen) + Cardinality(Ahead) <= Cardinality(Received) + changes
      BY DEF RepeatsCovered
    <2>3. Len(seen') + Cardinality(Ahead') <= Cardinality(Received') + changes'
      BY <1>1, <1>5, <1>7, <2>1, <2>2
    <2>4. QED
      BY <2>3 DEF RepeatsCovered
  <1>8. ASSUME Insert
        PROVE  RepeatsCovered'
    <2>1. PICK q \in 1..Len(Ordered) + 1 : Inserted(Ordered, Ordered', q, Len(Ordered) + 1)
      BY <1>8, InsertInserts
    <2>2. /\ Received' = Received /\ seen' = seen /\ offset' = offset
          /\ changes' = changes + 1
      BY <1>8 DEF Insert, Change, Received
    <2>3. Len(Ordered) + 1 \notin Received
      BY <1>1
    <2>4. Ahead' \subseteq Ahead \cup {Ordered[offset]}
      BY <1>1, <1>2, <1>3, <2>1, <2>2, <2>3, InsertedBehind
    <2>5. QED
      BY <1>7, <2>2, <2>4
  <1>9. ASSUME MovesOne
        PROVE  RepeatsCovered'
    <2>1. PICK f \in 1..Len(Ordered), t \in 1..Len(Ordered) : Moved(Ordered, Ordered', f, t)
      BY <1>9 DEF MovesOne
    <2>2. /\ Received' = Received /\ seen' = seen /\ offset' = offset
          /\ changes' = changes + 1
      BY <1>9 DEF MovesOne, Received
    <2>3. PICK x : Ahead' \subseteq Ahead \cup {x}
      BY <1>1, <1>2, <1>3, <2>1, <2>2, MovedBehind
    <2>4. QED
      BY <1>7, <2>2, <2>3
  <1>10. ASSUME UNCHANGED vars
         PROVE  RepeatsCovered'
    BY <1>10 DEF RepeatsCovered, Ahead, Ordered, Received, vars
  <1>11. QED
    BY <1>6, <1>8, <1>9, <1>10, StepKinds

\* Each step keeps a list of attempts read as recorded.  A list that is in
\* order after an insert was in order before, and the row went to its end.
LEMMA NextKeepsAttemptsInOrder ==
    ASSUME Typed, Rows, AttemptsInOrder, [Next]_vars
    PROVE  AttemptsInOrder'
  <1> SUFFICES ASSUME listing'.sort = <<"attemptedAt", "asc">>, RecordedInOrder'
               PROVE  /\ Len(seen') = offset' /\ offset' <= Len(order')
                      /\ \A i \in 1..Len(seen') : seen'[i] = order'[i]
    BY DEF AttemptsInOrder
  <1>1. listing' = listing
    BY StepKinds DEF Reads, Insert, MovesOne, vars
  <1>2. listing.sort = <<"attemptedAt", "asc">> /\ Column = "attemptedAt"
    BY <1>1 DEF Column
  <1>3. listing.by = "cursor"
    BY <1>2 DEF Typed, Listings, SubscriptionSorts
  <1>4. Ordered = order
    BY <1>2 DEF Ordered
  <1>5. ASSUME RecordedInOrder
        PROVE  /\ Len(seen) = offset /\ offset <= Len(order)
               /\ \A i \in 1..Len(seen) : seen[i] = order[i]
    BY <1>2, <1>5 DEF AttemptsInOrder
  <1>6. Len(order) \in Nat /\ offset \in Nat
    BY DEF Typed
  <1>7. ASSUME NEW m, Reads(m)
        PROVE  /\ Len(seen') = offset' /\ offset' <= Len(order')
               /\ \A i \in 1..Len(seen') : seen'[i] = order'[i]
    <2>0. /\ Len(seen) = offset /\ offset <= Len(order)
          /\ \A i \in 1..Len(seen) : seen[i] = order[i]
      BY <1>5, <1>7 DEF Reads, RecordedInOrder
    <2>1. /\ m \in Nat /\ (m = 0 \/ offset + m <= Len(order)) /\ order' = order
          /\ Len(seen') = Len(seen) + m /\ offset' = offset + m
      BY <1>3, <1>4, <1>7 DEF Reads
    <2>2. ASSUME NEW i \in 1..offset + m
          PROVE  seen'[i] = order[i]
      <3>1. CASE i <= offset
        <4>1. i \in 1..Len(seen)
          BY <2>0, <1>6, <2>1, <3>1
        <4>2. QED
          BY <2>0, <1>7, <4>1 DEF Reads
      <3>2. CASE ~ (i <= offset)
        <4>1. PICK k \in 1..m : i = offset + k
          <5>1. i - offset \in 1..m /\ i = offset + (i - offset)
            BY <1>6, <2>1, <3>2
          <5>2. QED
            BY <5>1
        <4>2. seen'[Len(seen) + k] = Ordered[offset + k]
          BY <1>7 DEF Reads
        <4>3. QED
          BY <1>4, <2>0, <4>1, <4>2
      <3>3. QED
        BY <3>1, <3>2
    <2>3. QED
      BY <2>0, <1>6, <2>1, <2>2
  <1>8. CASE Insert
    <2>1. seen' = seen /\ offset' = offset
      BY <1>8 DEF Insert
    <2>2. Ordered' = order'
      BY <1>1, <1>2 DEF Ordered
    <2>3. PICK q \in 1..Len(order) + 1 : Inserted(order, order', q, Len(order) + 1)
      BY <1>4, <1>8, <2>2, InsertInserts
    <2>4. Len(order') = Len(order) + 1 /\ order'[q] = Len(order) + 1
      BY <1>6, <2>3 DEF Inserted
    <2>5. q = Len(order) + 1
      BY <2>4 DEF RecordedInOrder
    <2>6. \A i \in 1..Len(order) : order'[i] = order[i]
      BY <1>6, <2>3, <2>4, <2>5 DEF Inserted
    <2>7. RecordedInOrder
      <3>1. \A i \in 1..Len(order) : i \in 1..Len(order')
        BY <1>6, <2>4
      <3>2. QED
        BY <2>6, <3>1 DEF RecordedInOrder
    <2>8. \A i \in 1..Len(seen) : i \in 1..Len(order)
      BY <1>5, <1>6, <2>7
    <2>9. offset' <= Len(order')
      BY <1>5, <1>6, <2>1, <2>4, <2>7
    <2>10. QED
      BY <1>5, <2>1, <2>6, <2>7, <2>8, <2>9
  <1>9. CASE MovesOne
    BY <1>2, <1>9 DEF MovesOne
  <1>10. CASE UNCHANGED vars
    BY <1>5, <1>10 DEF vars, RecordedInOrder
  <1>11. QED
    BY <1>7, <1>8, <1>9, <1>10, StepKinds

(***************************************************************************)
(* The theorems.                                                           *)
(***************************************************************************)
LEMMA InitEstablishesWalk == Init => Walk
  <1> SUFFICES ASSUME Init PROVE Walk
    OBVIOUS
  <1>1. /\ listing \in Listings /\ order = [i \in 1..InitialRows |-> i] /\ offset = 0
        /\ seen = <<>> /\ ~ done /\ done \in BOOLEAN /\ changes = 0 /\ InitialRows \in Nat
    BY ListingAssumption DEF Init
  <1>2. /\ order \in Seq(Nat) /\ Len(order) = InitialRows
        /\ \A i \in 1..InitialRows : order[i] = i
    BY <1>1
  <1>3. seen \in Seq(Nat) /\ Len(seen) = 0
    BY <1>1
  <1>4. Received = {}
    <2>1. DOMAIN seen = {}
      BY <1>1
    <2>2. Received = {seen[i] : i \in DOMAIN seen}
      BY Zenon DEF Received, ToSet
    <2>3. QED
      BY <2>1, <2>2
  <1>5. Typed
    BY <1>1, <1>2, <1>3 DEF Typed
  <1>6. Rows
    BY <1>1, <1>2, <1>4 DEF Rows
  <1>7. SettledRead
    <2>1. Len(Ordered) \in Nat
      BY <1>5, <1>6, ListedRows DEF Typed
    <2>2. \A i \in 1..Len(Ordered) : ~ (i <= offset)
      BY <1>1, <2>1
    <2>3. QED
      BY <1>1, <2>2 DEF SettledRead
  <1>8. RepeatsCovered
    <2>1. Ahead = {}
      BY <1>4 DEF Ahead
    <2>2. Cardinality(Ahead) = 0 /\ Cardinality(Received) = 0
      BY <1>4, <2>1, FS_EmptySet
    <2>3. QED
      BY <1>1, <1>3, <2>2 DEF RepeatsCovered
  <1>9. AttemptsInOrder
    BY <1>1, <1>2, <1>3 DEF AttemptsInOrder
  <1>10. QED
    BY <1>5, <1>6, <1>7, <1>8, <1>9 DEF Walk

\* The invariant of the walk, whatever the limits, the rows and the changes.
THEOREM WalkHolds == Spec => []Walk
  <1>1. Init => Walk
    BY InitEstablishesWalk
  <1>2. Walk /\ [Next]_vars => Walk'
    BY NextKeepsRows, NextKeepsSettled, NextKeepsRepeatsCovered, NextKeepsAttemptsInOrder DEF Walk
  <1>3. QED
    BY <1>1, <1>2, PTL DEF Spec

\* Stale offsets lose no row that was there from the start and was neither
\* updated nor exchanged with one of equal createdAt: finalizeCursorPagination
\* ends a walk at the end only.
THEOREM NothingIsMissed == Spec => []NothingSettledIsMissed
  <1>1. Walk => NothingSettledIsMissed
    <2> SUFFICES ASSUME Walk, done, PushesBack, NEW r \in 1..InitialRows
                 PROVE  r \in ToSet(seen) \cup moved
      BY DEF NothingSettledIsMissed
    <2>1. HoldsRowsOnce(Ordered) /\ Len(Ordered) = Len(order)
      BY ListedRows DEF Walk
    <2>2. r \in 1..Len(Ordered)
      BY <2>1, ListingAssumption DEF Walk, Typed, Rows
    <2>3. PICK i \in 1..Len(Ordered) : Ordered[i] = r
      BY <2>1, <2>2 DEF HoldsRowsOnce
    <2>4. i <= offset
      BY <2>1 DEF Walk, SettledRead, Typed
    <2>5. Ordered[i] \in Received \cup moved
      BY <2>3, <2>4 DEF Walk, SettledRead
    <2>6. QED
      BY <2>3, <2>5 DEF Received
  <1>2. QED
    BY <1>1, WalkHolds, PTL

\* In every order of every list, a client gets at most one repeated row for
\* each insert, update and exchange of neighbours during its walk.
THEOREM RepeatsAreFew == Spec => []RepeatsAreAccountedFor
  <1>1. Walk => RepeatsAreAccountedFor
    <2> SUFFICES ASSUME Walk PROVE RepeatsAreAccountedFor
      OBVIOUS
    <2>1. IsFiniteSet(1..Len(order)) /\ Received \subseteq 1..Len(order)
      BY FS_Interval DEF Walk, Rows, Typed
    <2>2. Ahead \subseteq Received
      BY DEF Ahead
    <2>3. IsFiniteSet(Received) /\ IsFiniteSet(Ahead)
      BY <2>1, <2>2, FS_Subset
    <2>4. Cardinality(Received) \in Nat /\ Cardinality(Ahead) \in Nat
      BY <2>3, FS_CardinalityType
    <2>5. Len(seen) + Cardinality(Ahead) <= Cardinality(Received) + changes
      BY DEF Walk, RepeatsCovered
    <2>6. Len(seen) \in Nat /\ changes \in Nat
      BY DEF Walk, Typed
    <2>7. Len(seen) <= Cardinality(Received) + changes
      BY <2>4, <2>5, <2>6
    <2>8. QED
      BY <2>7 DEF RepeatsAreAccountedFor, Received
  <1>2. QED
    BY <1>1, WalkHolds, PTL

\* Attempts recorded in the order of attemptedAt are listed as recorded: in
\* order, none twice, none left out.
THEOREM HistoriesAreExact == Spec => []AttemptHistoryIsExact
  <1>1. Walk => AttemptHistoryIsExact
    <2> SUFFICES ASSUME Walk, listing.sort = <<"attemptedAt", "asc">>, RecordedInOrder
                 PROVE  IsPrefix(seen, order) /\ (done => Len(seen) >= InitialRows)
      BY DEF AttemptHistoryIsExact
    <2>1. /\ Len(seen) = offset /\ offset <= Len(order)
          /\ \A i \in 1..Len(seen) : seen[i] = order[i]
      BY DEF Walk, AttemptsInOrder
    <2>2. /\ seen \in Seq(Nat) /\ order \in Seq(Nat)
          /\ Len(seen) \in Nat /\ Len(order) \in Nat /\ InitialRows \in Nat
      BY ListingAssumption DEF Walk, Typed
    <2>3. SubSeq(seen, 1, Len(seen)) = SubSeq(order, 1, Len(seen))
      <3> DEFINE a == SubSeq(seen, 1, Len(seen))
                 b == SubSeq(order, 1, Len(seen))
      <3>1. \A i \in 1..Len(seen) : seen[i] \in Nat /\ order[i] \in Nat
        BY <2>1, <2>2
      <3>2. /\ a \in Seq(Nat) /\ Len(a) = IF 1 <= Len(seen) THEN Len(seen) - 1 + 1 ELSE 0
            /\ \A i \in 1..Len(seen) - 1 + 1 : a[i] = seen[1 + i - 1]
        BY <2>2, <3>1, SubSeqProperties
      <3>3. /\ b \in Seq(Nat) /\ Len(b) = IF 1 <= Len(seen) THEN Len(seen) - 1 + 1 ELSE 0
            /\ \A i \in 1..Len(seen) - 1 + 1 : b[i] = order[1 + i - 1]
        BY <2>2, <3>1, SubSeqProperties
      <3> HIDE DEF a, b
      <3>4. Len(a) = Len(seen) /\ Len(b) = Len(a)
        BY <2>2, <3>2, <3>3
      <3>5. \A i \in 1..Len(seen) : i \in 1..Len(seen) - 1 + 1 /\ 1 + i - 1 = i
        BY <2>2
      <3>6. \A i \in 1..Len(a) : a[i] = b[i]
        BY <2>1, <3>2, <3>3, <3>4, <3>5
      <3>7. a = b
        BY <3>2, <3>3, <3>4, <3>6, SeqEqual
      <3>8. QED
        BY <3>7 DEF a, b
    <2>4. done => Len(seen) >= InitialRows
      <3>1. Ordered = order
        BY DEF Ordered
      <3>2. QED
        BY <2>1, <2>2, <3>1 DEF Walk, SettledRead, Rows
    <2>5. QED
      BY <2>1, <2>3, <2>4 DEF IsPrefix
  <1>2. QED
    BY <1>1, WalkHolds, PTL
=============================================================================
