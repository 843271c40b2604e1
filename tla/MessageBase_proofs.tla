------------------------ MODULE MessageBase_proofs ------------------------
(***************************************************************************)
(* Proofs about the JAM message base of MessageBase, for any number of     *)
(* sessions and of programs that post, any number of messages and packs.   *)
(*                                                                         *)
(* The properties are about counts, numbers and pointers that each step    *)
(* changes relative to what it finds, so the inductive invariant says what *)
(* every base is made of: messages with different ids and a count that     *)
(* adds up (Whole); as long as no base ran empty, numbers that are places  *)
(* (Placed) and opened files known to hold messages; as long as no base    *)
(* was packed while in use, what the sessions remember is true of the base *)
(* they have open (Remembered), and packed files that wait for their names *)
(* hold what the base holds that nobody uses (Undisturbed); and as long as *)
(* no pack was broken off, the pointers of the base that counts cover what *)
(* they covered when they were set (Pointed).                              *)
(*                                                                         *)
(* What the loop of JAM_Pack computes is proved for every base: with the   *)
(* principle of induction for sets of naturals the loop has a value after  *)
(* every turn, and a turn keeps what the turns before have achieved.       *)
(***************************************************************************)
EXTENDS MessageBase, FiniteSetTheorems, SequenceTheorems, WellFoundedInduction, TLAPS

(***************************************************************************)
(* The inductive invariant.                                                *)
(***************************************************************************)
Msg == [id : Nat, num : Nat, deleted : BOOLEAN]

Base == [msgs : Seq(Msg), active : Int, extra : Nat, high : [Users -> Int]]

Distinct(s) == \A i, j \in 1..Len(s) : s[i].id = s[j].id => i = j

Placed(b) == \A i \in 1..Len(b.msgs) : b.msgs[i].num = i

Whole(b) == b \in Base /\ Distinct(b.msgs) /\ b.active = Cardinality(Live(b)) + b.extra

LiveIds(b) == {m.id : m \in Live(b)}

IdsOf(B) == UNION {Ids(b) : b \in ToSet(B)}

(* Bases made of whole bases; the ids given so far are 1, 2, 3 and so on. *)
Library(B) ==
    /\ B \in Seq(Base) /\ B # <<>>
    /\ \A g \in 1..Len(B) : Whole(B[g])
    /\ Cardinality(IdsOf(B)) \in Nat /\ IdsOf(B) = 1..Cardinality(IdsOf(B))

(* Files a process may have open when there are n generations of them. *)
File(n) == [gen : 1..n, some : BOOLEAN]

Session(n) == [st : {"away", "panel", "read", "delete"}, gen : 0..n, num : Nat, id : Nat,
               highest : Nat]

Holds(s, n) == s.st \in {"read", "delete"} => s.gen \in 1..n

Tended(m, B) ==
    /\ m.st \in {"rest", "kill", "open", "pack", "rename"}
    /\ m.st \in {"kill", "pack"} => m.file.gen = Len(B) /\ m.file.some \in BOOLEAN
    /\ m.st = "rename" => /\ m.base = <<m.base[1]>>
                          /\ Whole(m.base[1]) /\ Ids(m.base[1]) \subseteq IdsOf(B)

Processes ==
    /\ writer \in [Writers -> File(Current) \cup {Closed}]
    /\ session \in [Users -> Session(Current)]
    /\ \A u \in Users : Holds(session[u], Current)
    /\ Tended(mbmsg, bases)
    /\ known \in [Users -> SUBSET IdsOf(bases)]
    /\ emptied \in BOOLEAN /\ raced \in BOOLEAN /\ cut \in BOOLEAN

(* As long as no base ran empty. *)
Filled(b) == Placed(b) /\ b.active > 0

Numbered ==
    /\ \A g \in 1..Current : Filled(bases[g])
    /\ \A w \in Writers : writer[w] # Closed => writer[w].some = TRUE
    /\ mbmsg.st = "rename" => Filled(mbmsg.base[1])

(* What a session knows of base b, the last of n: how many messages there  *)
(* are at least, and which one it read last.                               *)
Remembered(s, b, n) ==
    s # Away =>
        /\ s.highest <= Len(b.msgs) /\ s.num <= s.highest
        /\ s.st \in {"read", "delete"} => s.gen = n
        /\ s.st = "read" => s.num > 0
        /\ s.num > 0 /\ s.id = 0 => b.msgs[s.num].deleted = TRUE
        /\ s.num > 0 /\ s.id # 0 => b.msgs[s.num].id = s.id

(* A pointer h points into base b and covers the messages in ids. *)
Covered(h, b, ids) ==
    h # Never => /\ h \in 0..Len(b.msgs)
                 /\ \A i \in 1..Len(b.msgs) : i <= h <=> b.msgs[i].id \in ids

Gathered(B, gone) == \A g \in 1..Len(B) : Ids(B[g]) \subseteq LiveIds(B[Len(B)]) \cup gone

(* The packed files of base b wait for their names, and nobody uses it. *)
Waiting(m, b) ==
    m.st = "rename" => ~InUse /\ Ids(m.base[1]) = LiveIds(b) /\ LiveIds(m.base[1]) = LiveIds(b)

(* As long as no base was packed while somebody used it, either. *)
Undisturbed ==
    /\ \A w \in Writers : writer[w] # Closed => writer[w].gen = Current
    /\ \A u \in Users : Remembered(session[u], bases[Current], Current)
    /\ Gathered(bases, removed)
    /\ Waiting(mbmsg, bases[Current])

(* Pointers that cover what the users know. *)
Pointed(b, ids) == \A u \in Users : Covered(b.high[u], b, ids[u])

(* The base that counts. *)
Awaited(m, b) == IF m.st = "rename" THEN m.base[1] ELSE b

MessageInv ==
    /\ Library(bases)
    /\ Processes
    /\ ~emptied => Numbered
    /\ ~emptied /\ ~raced => Undisturbed
    /\ ~emptied /\ ~raced /\ ~cut => Pointed(Awaited(mbmsg, bases[Current]), known)

-----------------------------------------------------------------------------
(* Induction over the naturals, for a set in place of a predicate. *)
LEMMA SetInduction ==
    ASSUME NEW T, 0 \in T, \A n \in Nat : n \in T => n + 1 \in T
    PROVE  \A n \in Nat : n \in T
<1> SUFFICES ASSUME \E n \in Nat : n \notin T PROVE FALSE
  OBVIOUS
<1> DEFINE S == {n \in Nat : n \notin T}
           R == {ss \in Nat \X Nat : ss[1] < ss[2]}
<1>1. IsWellFoundedOn(R, Nat)
  BY NatLessThanWellFounded DEF OpToRel
<1> HIDE DEF R
<1>2. PICK x \in S : \A y \in S : <<y, x>> \notin R
  BY <1>1, WFMin
<1>3. x \in Nat /\ x \notin T /\ x # 0
  BY <1>2
<1>4. x - 1 \in Nat /\ x - 1 < x /\ (x - 1) + 1 = x
  BY <1>3
<1>5. <<x - 1, x>> \in R
  BY <1>3, <1>4 DEF R
<1>6. x - 1 \in T
  BY <1>2, <1>4, <1>5
<1>7. QED
  BY <1>3, <1>4, <1>6

(* The loop of JAM_Pack: what it starts with and what a turn does. *)
Turn(b, acc, i) ==
    IF i = 0 THEN [msgs |-> <<>>, high |-> b.high] ELSE Packed(acc[i - 1], b.msgs[i])

LEMMA TurnsExist ==
    ASSUME NEW b, NEW n \in Nat
    PROVE  \E acc : acc = [i \in 0..n |-> Turn(b, acc, i)]
<1> DEFINE T == {k \in Nat : \E acc : acc = [i \in 0..k |-> Turn(b, acc, i)]}
<1>1. 0 \in T
  <2> DEFINE f == [i \in 0..0 |-> [msgs |-> <<>>, high |-> b.high]]
  <2>1. f = [i \in 0..0 |-> Turn(b, f, i)]
    BY DEF Turn
  <2>2. QED
    BY <2>1
<1>2. ASSUME NEW k \in Nat, k \in T PROVE k + 1 \in T
  <2>1. PICK g : g = [i \in 0..k |-> Turn(b, g, i)]
    BY <1>2
  <2> DEFINE f == [i \in 0..k + 1 |-> IF i = k + 1 THEN Turn(b, g, k + 1) ELSE g[i]]
  <2>2. f[k + 1] = Turn(b, g, k + 1) /\ \A i \in 0..k : f[i] = g[i]
    OBVIOUS
  <2>3. f = [i \in 0..k + 1 |-> f[i]]
    OBVIOUS
  <2> HIDE DEF f
  <2>4. ASSUME NEW i \in 0..k + 1 PROVE f[i] = Turn(b, f, i)
    <3>1. f[i] = Turn(b, g, i)
      <4>1. CASE i = k + 1
        BY <2>2, <4>1
      <4>2. CASE i \in 0..k
        BY <2>1, <2>2, <4>2
      <4>3. QED
        BY <4>1, <4>2
    <3>2. CASE i = 0
      BY <3>1, <3>2 DEF Turn
    <3>3. CASE i # 0
      <4>1. i - 1 \in 0..k
        BY <3>3
      <4>2. f[i - 1] = g[i - 1]
        BY <2>2, <4>1
      <4>3. QED
        BY <3>1, <3>3, <4>2 DEF Turn
    <3>4. QED
      BY <3>2, <3>3
  <2>5. f = [i \in 0..k + 1 |-> Turn(b, f, i)]
    BY <2>3, <2>4
  <2>6. QED
    BY <2>5
<1>3. \A k \in Nat : k \in T
  <2> HIDE DEF T
  <2>1. QED
    BY <1>1, <1>2, SetInduction
<1>4. QED
  BY <1>3

LEMMA TurnsDef ==
    ASSUME NEW b, Len(b.msgs) \in Nat
    PROVE  \A i \in 0..Len(b.msgs) :
              Turns(b)[i] = IF i = 0 THEN [msgs |-> <<>>, high |-> b.high]
                            ELSE Packed(Turns(b)[i - 1], b.msgs[i])
<1> DEFINE n == Len(b.msgs)
<1>1. \E acc : acc = [i \in 0..n |-> Turn(b, acc, i)]
  BY TurnsExist
<1>2. Turns(b) = CHOOSE acc : acc = [i \in 0..n |-> Turn(b, acc, i)]
  BY DEF Turns, Turn
<1>3. Turns(b) = [i \in 0..n |-> Turn(b, Turns(b), i)]
  <2> DEFINE P(acc) == acc = [i \in 0..n |-> Turn(b, acc, i)]
  <2>1. \E acc : P(acc)
    BY <1>1
  <2>2. P(CHOOSE acc : P(acc))
    <3> HIDE DEF P
    <3>1. QED
      BY <2>1
  <2>3. QED
    BY <1>2, <2>2
<1>4. ASSUME NEW i \in 0..n
      PROVE  Turns(b)[i] = Turn(b, Turns(b), i)
  BY <1>3
<1>5. QED
  BY <1>4 DEF Turn

(* What the messages s written after i turns are: the messages among the   *)
(* first i that are not deleted, in order, numbered by their places.       *)
Kept(b, s, i) ==
    /\ s \in Seq(Msg) /\ Len(s) <= i /\ Distinct(s)
    /\ \A k \in 1..Len(s) : s[k].num = k /\ s[k].deleted = FALSE
    /\ \A k \in 1..Len(s) : \E j \in 1..i : s[k].id = b.msgs[j].id /\ b.msgs[j].deleted = FALSE
    /\ \A j \in 1..i : b.msgs[j].deleted = FALSE => \E k \in 1..Len(s) : s[k].id = b.msgs[j].id

(* Where the pointer that was at h is after i turns: it moved, and covers  *)
(* of the messages written those it covered before.                        *)
Moved(b, h, a, s, i) ==
    IF h > i THEN a = h
    ELSE /\ a \in 0..Len(s)
         /\ \A k \in 1..Len(s), j \in 1..i : s[k].id = b.msgs[j].id => (k <= a <=> j <= h)

LEMMA PackedMsgs ==
    ASSUME NEW acc, NEW m
    PROVE  Packed(acc, m).msgs = IF m.deleted THEN acc.msgs
                                 ELSE Append(acc.msgs, [m EXCEPT !.num = Len(acc.msgs) + 1])
BY DEF Packed

LEMMA PackedHigh ==
    ASSUME NEW acc, NEW m
    PROVE  Packed(acc, m).high = [u \in Users |-> IF acc.high[u] = m.num
                                                  THEN Len(Packed(acc, m).msgs)
                                                  ELSE acc.high[u]]
BY DEF Packed

LEMMA Appended ==
    ASSUME NEW s \in Seq(Msg), NEW m \in Msg
    PROVE  LET r == Append(s, [m EXCEPT !.num = Len(s) + 1]) IN
           /\ r \in Seq(Msg) /\ Len(s) \in Nat /\ Len(r) = Len(s) + 1
           /\ \A k \in 1..Len(s) : r[k] = s[k]
           /\ r[Len(s) + 1].id = m.id /\ r[Len(s) + 1].num = Len(s) + 1
           /\ r[Len(s) + 1].deleted = m.deleted
<1> DEFINE x == [m EXCEPT !.num = Len(s) + 1]
<1>1. Len(s) \in Nat
  BY LenProperties
<1>2. x \in Msg /\ x.id = m.id /\ x.num = Len(s) + 1 /\ x.deleted = m.deleted
  BY <1>1 DEF Msg
<1> HIDE DEF x
<1>3. /\ Append(s, x) \in Seq(Msg) /\ Len(Append(s, x)) = Len(s) + 1
      /\ Append(s, x)[Len(s) + 1] = x
      /\ \A k \in 1..Len(s) : Append(s, x)[k] = s[k]
  BY <1>2, AppendProperties
<1>4. QED
  BY <1>1, <1>2, <1>3 DEF x

(* A turn keeps the messages it should. *)
LEMMA TurnKeeps ==
    ASSUME NEW b, b.msgs \in Seq(Msg), Distinct(b.msgs), NEW i \in 1..Len(b.msgs),
           NEW acc, Kept(b, acc.msgs, i - 1)
    PROVE  Kept(b, Packed(acc, b.msgs[i]).msgs, i)
<1> DEFINE m == b.msgs[i]
           s == acc.msgs
           r == Packed(acc, m).msgs
           n == Len(s)
<1>1. Len(b.msgs) \in Nat /\ m \in Msg
  BY LenProperties, ElementOfSeq
<1>2. m.deleted \in BOOLEAN /\ m.id \in Nat
  BY <1>1 DEF Msg
<1>3. i \in Nat /\ i - 1 \in Nat /\ \A j \in 1..i : j \in 1..i - 1 \/ j = i
  BY <1>1
<1>4. \A j \in 1..i - 1 : j \in 1..i /\ j \in 1..Len(b.msgs) /\ j # i
  BY <1>1
<1>5. /\ s \in Seq(Msg) /\ n <= i - 1 /\ Distinct(s) /\ n \in Nat
      /\ \A k \in 1..n : s[k].num = k /\ s[k].deleted = FALSE
      /\ \A k \in 1..n : \E j \in 1..i - 1 : s[k].id = b.msgs[j].id /\ b.msgs[j].deleted = FALSE
      /\ \A j \in 1..i - 1 : b.msgs[j].deleted = FALSE => \E k \in 1..n : s[k].id = b.msgs[j].id
  BY LenProperties DEF Kept
<1>6. r = IF m.deleted THEN s ELSE Append(s, [m EXCEPT !.num = n + 1])
  BY PackedMsgs
<1>7. CASE m.deleted = TRUE
  <2>1. r = s
    BY <1>6, <1>7
  <2> HIDE DEF r, s, n
  <2>2. n <= i
    BY <1>3, <1>5
  <2>3. \A j \in 1..i : b.msgs[j].deleted = FALSE => \E k \in 1..n : s[k].id = b.msgs[j].id
    BY <1>3, <1>5, <1>7
  <2>4. \A k \in 1..n : \E j \in 1..i : s[k].id = b.msgs[j].id /\ b.msgs[j].deleted = FALSE
    BY <1>4, <1>5
  <2>5. Kept(b, s, i)
    BY <1>5, <2>2, <2>3, <2>4 DEF Kept, n
  <2>6. QED
    BY <2>1, <2>5 DEF r
<1>8. CASE m.deleted = FALSE
  <2>1. r = Append(s, [m EXCEPT !.num = n + 1])
    BY <1>6, <1>8
  <2>2. /\ r \in Seq(Msg) /\ Len(r) = n + 1
        /\ \A k \in 1..n : r[k] = s[k]
        /\ r[n + 1].id = m.id /\ r[n + 1].num = n + 1 /\ r[n + 1].deleted = m.deleted
    BY <1>1, <1>5, <2>1, Appended, SMTT(60)
  <2>3. \A k \in 1..n : s[k].id # m.id
    BY <1>4, <1>5 DEF Distinct
  <2> HIDE DEF r, s, n, m
  <2>4. \A k \in 1..n + 1 : k \in 1..n \/ k = n + 1
    BY <1>5
  <2>5. Distinct(r)
    <3>1. ASSUME NEW k \in 1..n + 1, NEW l \in 1..n + 1, r[k].id = r[l].id PROVE k = l
      <4>1. CASE k \in 1..n /\ l \in 1..n
        BY <1>5, <2>2, <3>1, <4>1 DEF Distinct, n
      <4>2. CASE k = n + 1 \/ l = n + 1
        BY <2>2, <2>3, <2>4, <3>1, <4>2
      <4>3. QED
        BY <2>4, <4>1, <4>2
    <3>2. QED
      BY <2>2, <3>1 DEF Distinct
  <2>6. n + 1 <= i
    BY <1>3, <1>5
  <2>7. \A k \in 1..n + 1 : r[k].num = k /\ r[k].deleted = FALSE
    BY <1>5, <1>8, <2>2, <2>4
  <2>8. ASSUME NEW k \in 1..n + 1
        PROVE  \E j \in 1..i : r[k].id = b.msgs[j].id /\ b.msgs[j].deleted = FALSE
    <3>1. CASE k \in 1..n
      <4>1. PICK j \in 1..i - 1 : s[k].id = b.msgs[j].id /\ b.msgs[j].deleted = FALSE
        BY <1>5, <3>1
      <4>2. j \in 1..i /\ r[k] = s[k]
        BY <1>4, <2>2, <3>1
      <4>3. QED
        BY <4>1, <4>2
    <3>2. CASE k = n + 1
      <4>1. i \in 1..i
        BY <1>3
      <4>2. r[k].id = b.msgs[i].id /\ b.msgs[i].deleted = FALSE
        BY <1>8, <2>2, <3>2 DEF m
      <4>3. QED
        BY <4>1, <4>2
    <3>3. QED
      BY <2>4, <3>1, <3>2
  <2>9. ASSUME NEW j \in 1..i, b.msgs[j].deleted = FALSE
        PROVE  \E k \in 1..n + 1 : r[k].id = b.msgs[j].id
    <3>1. CASE j \in 1..i - 1
      <4>1. PICK k \in 1..n : s[k].id = b.msgs[j].id
        BY <1>5, <2>9, <3>1
      <4>2. n \in Nat /\ k \in 1..n + 1
        BY <1>5
      <4>3. r[k] = s[k]
        BY <2>2
      <4>4. QED
        BY <4>1, <4>2, <4>3
    <3>2. CASE j = i
      <4>1. n + 1 \in 1..n + 1
        BY <1>5
      <4>2. QED
        BY <2>2, <3>2, <4>1 DEF m
    <3>3. QED
      BY <1>3, <3>1, <3>2
  <2>10. Kept(b, r, i)
    BY <2>2, <2>5, <2>6, <2>7, <2>8, <2>9 DEF Kept
  <2>11. QED
    BY <2>10 DEF r, m
<1>9. QED
  BY <1>2, <1>7, <1>8

(* A turn moves the pointers at its message, and leaves the others. *)
LEMMA TurnMoves ==
    ASSUME NEW b, b.msgs \in Seq(Msg), Distinct(b.msgs), Placed(b), NEW i \in 1..Len(b.msgs),
           NEW acc, Kept(b, acc.msgs, i - 1), NEW u \in Users, NEW h \in Nat,
           Moved(b, h, acc.high[u], acc.msgs, i - 1)
    PROVE  LET p == Packed(acc, b.msgs[i]) IN Moved(b, h, p.high[u], p.msgs, i)
<1> DEFINE m == b.msgs[i]
           s == acc.msgs
           r == Packed(acc, m).msgs
           a == acc.high[u]
           c == Packed(acc, m).high[u]
           n == Len(s)
<1>1. Len(b.msgs) \in Nat /\ m \in Msg /\ m.num = i
  BY LenProperties, ElementOfSeq DEF Placed
<1>2. m.deleted \in BOOLEAN
  BY <1>1 DEF Msg
<1>3. /\ s \in Seq(Msg) /\ n <= i - 1 /\ n \in Nat
      /\ \A k \in 1..n : \E j \in 1..i - 1 : s[k].id = b.msgs[j].id
  BY LenProperties DEF Kept
<1>4. r = IF m.deleted THEN s ELSE Append(s, [m EXCEPT !.num = n + 1])
  BY PackedMsgs
<1>5. c = IF a = i THEN Len(r) ELSE a
  <2> HIDE DEF m
  <2>1. Packed(acc, m).high = [v \in Users |-> IF acc.high[v] = m.num THEN Len(r)
                                               ELSE acc.high[v]]
    BY PackedHigh
  <2>2. QED
    BY <1>1, <2>1
<1>6. Len(r) \in Nat /\ n <= Len(r) /\ \A k \in 1..n : r[k] = s[k]
  <2>1. CASE m.deleted = TRUE
    BY <1>3, <1>4, <2>1
  <2>2. CASE m.deleted = FALSE
    <3>1. r = Append(s, [m EXCEPT !.num = n + 1])
      BY <1>4, <2>2
    <3>2. QED
      BY <1>1, <1>3, <3>1, Appended
  <2>3. QED
    BY <1>2, <2>1, <2>2
<1>7. \A k \in 1..Len(r) : k \in 1..n \/ (k = n + 1 /\ r[k].id = m.id)
  <2>1. CASE m.deleted = TRUE
    BY <1>3, <1>4, <2>1
  <2>2. CASE m.deleted = FALSE
    <3>1. r = Append(s, [m EXCEPT !.num = n + 1])
      BY <1>4, <2>2
    <3>2. Len(r) = n + 1 /\ r[n + 1].id = m.id
      BY <1>1, <1>3, <3>1, Appended
    <3>3. QED
      BY <1>3, <3>2
  <2>3. QED
    BY <1>2, <2>1, <2>2
<1>8. i \in Nat /\ i >= 1
  BY <1>1
<1>9. \A j, l \in 1..i : b.msgs[j].id = b.msgs[l].id => j = l
  BY <1>1 DEF Distinct
<1>10. /\ h > i - 1 => a = h
       /\ h <= i - 1 => /\ a \in 0..n
                        /\ \A k \in 1..n, j \in 1..i - 1 :
                              s[k].id = b.msgs[j].id => (k <= a <=> j <= h)
  <2>1. ~(h > i - 1) <=> h <= i - 1
    BY <1>8
  <2>2. QED
    BY <2>1 DEF Moved
<1>11. m.id = b.msgs[i].id
  OBVIOUS
<1> HIDE DEF m, s, r, a, c, n
<1>12. CASE h > i
  BY <1>5, <1>8, <1>10, <1>12 DEF Moved, m, r, c
<1>13. CASE h = i
  <2>1. c = Len(r)
    BY <1>5, <1>8, <1>10, <1>13
  <2>2. \A k \in 1..Len(r), j \in 1..i : k <= c /\ j <= h
    BY <1>6, <1>8, <1>13, <2>1
  <2>3. c \in 0..Len(r) /\ ~(h > i)
    BY <1>6, <1>8, <1>13, <2>1
  <2>4. QED
    BY <2>2, <2>3 DEF Moved, m, r, c
<1>14. CASE h < i
  <2>1. h <= i - 1 /\ ~(h > i)
    BY <1>8, <1>14
  <2>2. a \in 0..n /\ a # i
    BY <1>3, <1>8, <1>10, <2>1
  <2>3. c = a /\ c \in 0..Len(r)
    BY <1>3, <1>5, <1>6, <2>2
  <2>4. ASSUME NEW k \in 1..Len(r), NEW j \in 1..i, r[k].id = b.msgs[j].id
        PROVE  k <= c <=> j <= h
    <3>1. CASE k \in 1..n
      <4>1. PICK l \in 1..i - 1 : s[k].id = b.msgs[l].id
        BY <1>3, <3>1
      <4>2. l \in 1..i /\ l = j
        <5>1. l \in 1..i
          BY <1>8
        <5>2. b.msgs[l].id = b.msgs[j].id
          BY <1>6, <2>4, <3>1, <4>1
        <5>3. QED
          BY <1>9, <5>1, <5>2
      <4>3. QED
        BY <1>10, <2>1, <2>3, <3>1, <4>1, <4>2
    <3>2. CASE k = n + 1 /\ r[k].id = m.id
      <4>1. i \in 1..i
        BY <1>8
      <4>2. j = i
        BY <1>9, <1>11, <2>4, <3>2, <4>1
      <4>3. QED
        BY <1>3, <1>8, <1>14, <2>2, <2>3, <3>2, <4>2
    <3>3. QED
      BY <1>7, <3>1, <3>2
  <2>5. QED
    BY <2>1, <2>3, <2>4 DEF Moved, m, r, c
<1>15. QED
  BY <1>8, <1>12, <1>13, <1>14

(* After all turns of the loop. *)
LEMMA AllTurns ==
    ASSUME NEW b, b.msgs \in Seq(Msg), Distinct(b.msgs), b.high \in [Users -> Int]
    PROVE  LET acc == Turns(b)[Len(b.msgs)] IN
           /\ Kept(b, acc.msgs, Len(b.msgs)) /\ acc.high \in [Users -> Int]
           /\ Placed(b) => \A u \in Users :
                 /\ b.high[u] \in Nat => Moved(b, b.high[u], acc.high[u], acc.msgs, Len(b.msgs))
                 /\ b.high[u] = Never => acc.high[u] = Never
           /\ \A i \in 0..Len(b.msgs) : Turns(b)[i].high \in [Users -> Int]
<1> DEFINE n == Len(b.msgs)
           Good(acc, i) ==
               /\ Kept(b, acc.msgs, i) /\ acc.high \in [Users -> Int]
               /\ Placed(b) => \A u \in Users :
                     /\ b.high[u] \in Nat => Moved(b, b.high[u], acc.high[u], acc.msgs, i)
                     /\ b.high[u] = Never => acc.high[u] = Never
           T == {i \in Nat : i <= n => Good(Turns(b)[i], i)}
<1>1. n \in Nat
  BY LenProperties
<1>2. Good(Turns(b)[0], 0)
  <2> DEFINE acc == [msgs |-> <<>>, high |-> b.high]
  <2>1. Turns(b)[0] = acc
    BY <1>1, TurnsDef
  <2>2. acc.msgs = <<>> /\ acc.high = b.high
    OBVIOUS
  <2> HIDE DEF acc
  <2>3. Kept(b, acc.msgs, 0)
    BY <2>2 DEF Kept, Distinct
  <2>4. ASSUME NEW u \in Users, b.high[u] \in Nat
        PROVE  Moved(b, b.high[u], acc.high[u], acc.msgs, 0)
    BY <2>2, <2>4 DEF Moved
  <2>5. QED
    BY <2>1, <2>2, <2>3, <2>4
<1>3. ASSUME NEW k \in Nat, k \in T PROVE k + 1 \in T
  <2> SUFFICES ASSUME k + 1 <= n PROVE Good(Turns(b)[k + 1], k + 1)
    OBVIOUS
  <2> DEFINE acc == Turns(b)[k]
             p == Turns(b)[k + 1]
             i == k + 1
             m == b.msgs[i]
  <2>1. k <= n /\ i \in 1..n /\ i - 1 = k /\ i \in 0..n /\ i # 0
    BY <1>1
  <2>2. Good(acc, k)
    BY <1>3, <2>1
  <2>3. p = Packed(acc, m)
    <3> HIDE DEF i
    <3>1. Turns(b)[i] = Packed(Turns(b)[i - 1], b.msgs[i])
      BY <1>1, <2>1, TurnsDef
    <3>2. QED
      BY <2>1, <3>1 DEF i
  <2>4. Kept(b, p.msgs, i)
    <3>1. Kept(b, acc.msgs, i - 1)
      BY <2>1, <2>2
    <3> HIDE DEF acc
    <3>2. Kept(b, Packed(acc, b.msgs[i]).msgs, i)
      BY <2>1, <3>1, TurnKeeps
    <3>3. QED
      BY <2>3, <3>2
  <2>5. p.high = [u \in Users |-> IF acc.high[u] = m.num THEN Len(p.msgs) ELSE acc.high[u]]
    <3> HIDE DEF acc, m, p
    <3>1. QED
      BY <2>3, PackedHigh
  <2>6. Len(p.msgs) \in Int /\ acc.high \in [Users -> Int]
    BY <2>2, <2>4, LenProperties DEF Kept
  <2>7. p.high \in [Users -> Int]
    BY <2>5, <2>6
  <2>8. ASSUME Placed(b), NEW u \in Users, b.high[u] \in Nat
        PROVE  Moved(b, b.high[u], p.high[u], p.msgs, i)
    <3>1. Kept(b, acc.msgs, i - 1) /\ Moved(b, b.high[u], acc.high[u], acc.msgs, i - 1)
      BY <2>1, <2>2, <2>8
    <3> HIDE DEF acc
    <3> DEFINE q == Packed(acc, b.msgs[i])
    <3>2. Moved(b, b.high[u], q.high[u], q.msgs, i)
      BY <2>1, <2>8, <3>1, TurnMoves
    <3>3. QED
      BY <2>3, <3>2
  <2>9. ASSUME Placed(b), NEW u \in Users, b.high[u] = Never
        PROVE  p.high[u] = Never
    <3>1. acc.high[u] = Never /\ m.num = i
      BY <2>1, <2>2, <2>9 DEF Placed
    <3>2. Never # i
      BY <2>1 DEF Never
    <3>3. QED
      BY <2>5, <3>1, <3>2
  <2>10. QED
    BY <2>4, <2>7, <2>8, <2>9
<1>4. 0 \in T
  BY <1>2
<1>5. \A k \in Nat : k \in T
  <2> HIDE DEF T
  <2>1. QED
    BY <1>3, <1>4, SetInduction
<1>6. Good(Turns(b)[n], n)
  BY <1>1, <1>5
<1>7. ASSUME NEW i \in 0..n PROVE Turns(b)[i].high \in [Users -> Int]
  BY <1>1, <1>5
<1>8. QED
  BY <1>6, <1>7

-----------------------------------------------------------------------------
(* The messages of a base, its ids and the messages that are not deleted. *)
LEMMA Members ==
    ASSUME NEW b, b.msgs \in Seq(Msg)
    PROVE  /\ Len(b.msgs) \in Nat /\ \A i \in 1..Len(b.msgs) : b.msgs[i] \in Msg
           /\ \A i \in 1..Len(b.msgs) : b.msgs[i].id \in Nat /\ b.msgs[i].deleted \in BOOLEAN
           /\ \A x : x \in Ids(b) <=> \E i \in 1..Len(b.msgs) : x = b.msgs[i].id
           /\ \A x : x \in Live(b) <=>
                 \E i \in 1..Len(b.msgs) : x = b.msgs[i] /\ b.msgs[i].deleted = FALSE
           /\ \A x : x \in LiveIds(b) <=>
                 \E i \in 1..Len(b.msgs) : x = b.msgs[i].id /\ b.msgs[i].deleted = FALSE
<1>1. Len(b.msgs) \in Nat /\ DOMAIN b.msgs = 1..Len(b.msgs)
      /\ \A i \in 1..Len(b.msgs) : b.msgs[i] \in Msg
  BY LenProperties, ElementOfSeq
<1>2. \A i \in 1..Len(b.msgs) : b.msgs[i].id \in Nat /\ b.msgs[i].deleted \in BOOLEAN
  BY <1>1 DEF Msg
<1>3. ToSet(b.msgs) = {b.msgs[i] : i \in 1..Len(b.msgs)}
  BY <1>1 DEF ToSet
<1>4. \A x : x \in Ids(b) <=> \E i \in 1..Len(b.msgs) : x = b.msgs[i].id
  BY <1>3 DEF Ids
<1>5. ASSUME NEW x
      PROVE  x \in Live(b) <=>
                 \E i \in 1..Len(b.msgs) : x = b.msgs[i] /\ b.msgs[i].deleted = FALSE
  <2>1. x \in Live(b) <=> \E i \in 1..Len(b.msgs) : x = b.msgs[i] /\ ~b.msgs[i].deleted
    BY <1>3 DEF Live
  <2>2. \A i \in 1..Len(b.msgs) : ~b.msgs[i].deleted <=> b.msgs[i].deleted = FALSE
    BY <1>2
  <2>3. QED
    BY <2>1, <2>2
<1>6. ASSUME NEW x
      PROVE  x \in LiveIds(b) <=>
                 \E i \in 1..Len(b.msgs) : x = b.msgs[i].id /\ b.msgs[i].deleted = FALSE
  <2>1. x \in LiveIds(b) <=> \E y \in Live(b) : x = y.id
    BY DEF LiveIds
  <2>2. ASSUME NEW y \in Live(b), x = y.id
        PROVE  \E i \in 1..Len(b.msgs) : x = b.msgs[i].id /\ b.msgs[i].deleted = FALSE
    <3>1. PICK i \in 1..Len(b.msgs) : y = b.msgs[i] /\ b.msgs[i].deleted = FALSE
      BY <1>5
    <3>2. QED
      BY <2>2, <3>1
  <2>3. ASSUME NEW i \in 1..Len(b.msgs), x = b.msgs[i].id, b.msgs[i].deleted = FALSE
        PROVE  \E y \in Live(b) : x = y.id
    <3>1. b.msgs[i] \in Live(b)
      BY <1>5, <2>3
    <3>2. QED
      BY <2>3, <3>1
  <2>4. QED
    BY <2>1, <2>2, <2>3
<1>7. QED
  BY <1>1, <1>2, <1>4, <1>5, <1>6

(* Different places hold different messages: counting one is counting the other. *)
LEMMA PlaceCount ==
    ASSUME NEW s \in Seq(Msg), Distinct(s), NEW D, D \subseteq 1..Len(s)
    PROVE  LET M == {s[i] : i \in D} IN
           IsFiniteSet(D) /\ IsFiniteSet(M) /\ Cardinality(M) = Cardinality(D)
           /\ Cardinality(D) \in Nat
<1> DEFINE M == {s[i] : i \in D}
           f == [i \in D |-> s[i]]
<1>1. Len(s) \in Nat
  BY LenProperties
<1>2. IsFiniteSet(D) /\ Cardinality(D) \in Nat
  <2>1. IsFiniteSet(1..Len(s))
    BY <1>1, FS_Interval
  <2>2. IsFiniteSet(D)
    BY <2>1, FS_Subset
  <2>3. QED
    BY <2>2, FS_CardinalityType
<1>3. \A i, j \in D : s[i] = s[j] => i = j
  BY DEF Distinct
<1>4. f \in Bijection(D, M)
  BY <1>3 DEF Bijection, Injection, Surjection, IsInjective
<1>5. ExistsBijection(D, M)
  BY <1>4 DEF ExistsBijection
<1>6. QED
  BY <1>2, <1>5, FS_Bijection

LEMMA LiveCount ==
    ASSUME NEW b, b.msgs \in Seq(Msg), Distinct(b.msgs)
    PROVE  /\ IsFiniteSet(Live(b)) /\ Cardinality(Live(b)) \in Nat
           /\ Cardinality(Live(b)) = 0 <=> LiveIds(b) = {}
           /\ (\A i \in 1..Len(b.msgs) : b.msgs[i].deleted = FALSE) =>
                 Cardinality(Live(b)) = Len(b.msgs)
<1> DEFINE D == {i \in 1..Len(b.msgs) : b.msgs[i].deleted = FALSE}
           M == {b.msgs[i] : i \in D}
<1>1. Len(b.msgs) \in Nat /\ Live(b) = M
  <2>1. /\ Len(b.msgs) \in Nat
        /\ \A x : x \in Live(b) <=>
              \E i \in 1..Len(b.msgs) : x = b.msgs[i] /\ b.msgs[i].deleted = FALSE
    BY Members
  <2>2. \A x : x \in M <=> \E i \in 1..Len(b.msgs) : x = b.msgs[i] /\ b.msgs[i].deleted = FALSE
    OBVIOUS
  <2> HIDE DEF M
  <2>3. QED
    BY <2>1, <2>2
<1>2. IsFiniteSet(D) /\ IsFiniteSet(M) /\ Cardinality(M) = Cardinality(D) /\ Cardinality(D) \in Nat
  BY PlaceCount
<1>3. Cardinality(Live(b)) = 0 <=> Live(b) = {}
  BY <1>1, <1>2, FS_EmptySet
<1>4. Live(b) = {} <=> LiveIds(b) = {}
  BY DEF LiveIds
<1>5. ASSUME \A i \in 1..Len(b.msgs) : b.msgs[i].deleted = FALSE
      PROVE  Cardinality(Live(b)) = Len(b.msgs)
  <2>1. D = 1..Len(b.msgs)
    BY <1>5
  <2>2. Cardinality(1..Len(b.msgs)) = Len(b.msgs)
    BY <1>1, FS_Interval
  <2>3. QED
    BY <1>1, <1>2, <2>1, <2>2
<1>6. QED
  BY <1>1, <1>2, <1>3, <1>4, <1>5

(***************************************************************************)
(* JAM_Pack, for every base: the messages that are not deleted, and only   *)
(* they, are in the new base, numbered by their places, and a pointer      *)
(* covers of them what it covered before.                                  *)
(***************************************************************************)
LEMMA PackBase ==
    ASSUME NEW b, Whole(b)
    PROVE  LET c == JAM_Pack(b) IN
           /\ Whole(c) /\ Placed(c) /\ Ids(c) = LiveIds(b) /\ LiveIds(c) = LiveIds(b)
           /\ b.active > 0 => c.active > 0
           /\ Placed(b) => \A u \in Users, ids \in SUBSET Nat :
                 Covered(b.high[u], b, ids) => Covered(c.high[u], c, ids)
<1> DEFINE c == JAM_Pack(b)
           n == Len(b.msgs)
           acc == Turns(b)[n]
           s == acc.msgs
           active == IF s # <<>> THEN Len(s) ELSE b.active
           extra == IF s # <<>> THEN 0 ELSE b.extra
<1>1. b.msgs \in Seq(Msg) /\ Distinct(b.msgs) /\ b.high \in [Users -> Int]
      /\ b.active = Cardinality(Live(b)) + b.extra /\ b.extra \in Nat
  BY DEF Whole, Base
<1>2. /\ Kept(b, s, n) /\ acc.high \in [Users -> Int]
      /\ Placed(b) => \A u \in Users :
            /\ b.high[u] \in Nat => Moved(b, b.high[u], acc.high[u], s, n)
            /\ b.high[u] = Never => acc.high[u] = Never
  BY <1>1, AllTurns
<1>3. c = [msgs |-> s, active |-> active, extra |-> extra,
           high |-> [u \in Users |-> Least(acc.high[u], active)]]
  BY DEF JAM_Pack
<1>4. c.msgs = s /\ c.active = active /\ c.extra = extra
      /\ c.high = [u \in Users |-> Least(acc.high[u], active)]
  BY <1>3
<1> HIDE DEF c, acc
<1>5. n \in Nat /\ Len(s) \in Nat /\ s \in Seq(Msg) /\ Distinct(s)
      /\ \A k \in 1..Len(s) : s[k].num = k /\ s[k].deleted = FALSE
  BY <1>1, <1>2, LenProperties DEF Kept
<1>6. \A x : x \in LiveIds(b) <=> \E k \in 1..Len(s) : x = s[k].id
  <2>1. \A x : x \in LiveIds(b) <=> \E i \in 1..n : x = b.msgs[i].id /\ b.msgs[i].deleted = FALSE
    BY <1>1, Members
  <2>2. /\ \A k \in 1..Len(s) : \E j \in 1..n : s[k].id = b.msgs[j].id /\ b.msgs[j].deleted = FALSE
        /\ \A j \in 1..n : b.msgs[j].deleted = FALSE => \E k \in 1..Len(s) : s[k].id = b.msgs[j].id
    BY <1>2 DEF Kept
  <2> HIDE DEF n, s
  <2>3. ASSUME NEW x \in LiveIds(b) PROVE \E k \in 1..Len(s) : x = s[k].id
    <3>1. PICK i \in 1..n : x = b.msgs[i].id /\ b.msgs[i].deleted = FALSE
      BY <2>1
    <3>2. PICK k \in 1..Len(s) : s[k].id = b.msgs[i].id
      BY <2>2, <3>1
    <3>3. QED
      BY <3>1, <3>2
  <2>4. ASSUME NEW k \in 1..Len(s) PROVE s[k].id \in LiveIds(b)
    <3>1. PICK i \in 1..n : s[k].id = b.msgs[i].id /\ b.msgs[i].deleted = FALSE
      BY <2>2
    <3>2. QED
      BY <2>1, <3>1
  <2>5. QED
    BY <2>3, <2>4
<1>7. \A x : (x \in Ids(c) <=> \E k \in 1..Len(s) : x = s[k].id)
             /\ (x \in LiveIds(c) <=> \E k \in 1..Len(s) : x = s[k].id)
  <2>1. /\ \A x : x \in Ids(c) <=> \E i \in 1..Len(c.msgs) : x = c.msgs[i].id
        /\ \A x : x \in LiveIds(c) <=>
              \E i \in 1..Len(c.msgs) : x = c.msgs[i].id /\ c.msgs[i].deleted = FALSE
    BY <1>4, <1>5, Members
  <2> HIDE DEF s
  <2>2. QED
    BY <1>4, <1>5, <2>1
<1>8. Ids(c) = LiveIds(b) /\ LiveIds(c) = LiveIds(b)
  BY <1>6, <1>7
<1>9. Cardinality(Live(c)) = Len(s)
  BY <1>4, <1>5, LiveCount
<1>10. s = <<>> <=> LiveIds(b) = {}
  <2>1. s = <<>> <=> Len(s) = 0
    BY <1>5, EmptySeq
  <2> HIDE DEF s
  <2>2. Len(s) = 0 <=> LiveIds(b) = {}
    <3>1. Len(s) # 0 => 1 \in 1..Len(s)
      BY <1>5
    <3>2. Len(s) = 0 => 1..Len(s) = {}
      OBVIOUS
    <3>3. QED
      BY <1>6, <3>1, <3>2
  <2>3. QED
    BY <2>1, <2>2
<1>11. Cardinality(Live(b)) \in Nat /\ (Cardinality(Live(b)) = 0 <=> LiveIds(b) = {})
  BY <1>1, LiveCount
<1>12. s = <<>> <=> Len(s) = 0
  BY <1>5, EmptySeq
<1>13. active = Len(s) + extra /\ active \in Nat /\ extra \in Nat
  BY <1>1, <1>5, <1>10, <1>11, <1>12
<1>14. b.active > 0 => active > 0
  BY <1>5, <1>12
<1> HIDE DEF s, active, extra
<1>15. c \in Base
  <2>1. [u \in Users |-> Least(acc.high[u], active)] \in [Users -> Int]
    BY <1>2, <1>5, <1>13 DEF Least
  <2>2. QED
    BY <1>3, <1>5, <1>13, <2>1 DEF Base
<1>16. Whole(c) /\ Placed(c)
  BY <1>4, <1>5, <1>9, <1>13, <1>15 DEF Whole, Placed
<1>17. ASSUME Placed(b), NEW u \in Users, NEW ids \in SUBSET Nat, Covered(b.high[u], b, ids)
       PROVE  Covered(c.high[u], c, ids)
  <2>1. c.high[u] = Least(acc.high[u], active) /\ Len(s) <= active
    BY <1>4, <1>5, <1>13
  <2>2. CASE b.high[u] = Never
    <3>1. acc.high[u] = Never
      BY <1>2, <1>17, <2>2
    <3>2. Never < active
      BY <1>13 DEF Never
    <3>3. c.high[u] = Never
      BY <2>1, <3>1, <3>2 DEF Least
    <3>4. QED
      BY <3>3 DEF Covered
  <2>3. CASE b.high[u] # Never
    <3> DEFINE h == b.high[u]
               a == acc.high[u]
    <3>1. h \in 0..n /\ \A i \in 1..n : i <= h <=> b.msgs[i].id \in ids
      BY <1>17, <2>3 DEF Covered
    <3>2. h \in Nat /\ ~(h > n)
      BY <1>5, <3>1
    <3>3. Moved(b, h, a, s, n)
      BY <1>2, <1>17, <3>2
    <3> HIDE DEF h, a, n
    <3>4. a \in 0..Len(s)
          /\ \A k \in 1..Len(s), j \in 1..n : s[k].id = b.msgs[j].id => (k <= a <=> j <= h)
      BY <3>2, <3>3 DEF Moved
    <3>5. c.high[u] = a
      <4>1. a \in Int /\ a <= active
        BY <1>5, <1>13, <2>1, <3>4
      <4>2. QED
        BY <1>13, <2>1, <4>1 DEF Least, a
    <3>6. ASSUME NEW k \in 1..Len(s) PROVE k <= a <=> s[k].id \in ids
      <4>1. PICK j \in 1..n : s[k].id = b.msgs[j].id
        BY <1>2 DEF Kept
      <4>2. QED
        BY <3>1, <3>4, <4>1
    <3>7. QED
      BY <1>4, <3>4, <3>5, <3>6 DEF Covered
  <2>4. QED
    BY <2>2, <2>3
<1>18. QED
  BY <1>4, <1>8, <1>14, <1>16, <1>17 DEF c

(* The new base c is b with another message at the end. *)
Extended(b, c, id) ==
    /\ c.high = b.high /\ Len(c.msgs) = Len(b.msgs) + 1
    /\ \A i \in 1..Len(b.msgs) : c.msgs[i] = b.msgs[i]
    /\ c.msgs[Len(b.msgs) + 1].id = id /\ c.msgs[Len(b.msgs) + 1].deleted = FALSE

(* JAM_AddMsg. *)
LEMMA AddBase ==
    ASSUME NEW b, Whole(b), NEW some \in BOOLEAN, NEW id \in Nat, id \notin Ids(b)
    PROVE  LET c == JAM_AddMsg(b, some, id) IN
           /\ Whole(c) /\ Extended(b, c, id)
           /\ Ids(c) = Ids(b) \cup {id} /\ LiveIds(c) = LiveIds(b) \cup {id}
           /\ c.active > 0
           /\ some /\ Placed(b) => Placed(c)
<1> DEFINE c == JAM_AddMsg(b, some, id)
           n == Len(b.msgs)
           num == JAM_Highest(b, some) + 1
           m == Message(id, num)
<1>1. /\ b \in Base /\ b.msgs \in Seq(Msg) /\ Distinct(b.msgs) /\ b.high \in [Users -> Int]
      /\ b.active = Cardinality(Live(b)) + b.extra /\ b.extra \in Nat /\ n \in Nat
  BY LenProperties DEF Whole, Base
<1>2. /\ \A i \in 1..n : b.msgs[i] \in Msg
      /\ \A x : x \in Ids(b) <=> \E i \in 1..n : x = b.msgs[i].id
      /\ \A x : x \in Live(b) <=> \E i \in 1..n : x = b.msgs[i] /\ b.msgs[i].deleted = FALSE
      /\ \A x : x \in LiveIds(b) <=> \E i \in 1..n : x = b.msgs[i].id /\ b.msgs[i].deleted = FALSE
  BY <1>1, Members
<1>3. b.msgs = <<>> <=> n = 0
  BY <1>1, EmptySeq
<1>4. num \in Nat
  <2>1. b.msgs # <<>> => Last(b.msgs) \in Msg
    BY <1>1, <1>2, <1>3 DEF Last
  <2>2. JAM_Highest(b, some) \in Nat
    BY <2>1 DEF JAM_Highest, Msg
  <2>3. QED
    BY <2>2
<1>5. m \in Msg /\ m.id = id /\ m.num = num /\ m.deleted = FALSE
  BY <1>4 DEF Message, Msg
<1>6. c = [b EXCEPT !.msgs = Append(b.msgs, m), !.active = b.active + 1]
  BY DEF JAM_AddMsg
<1>7. c.msgs = Append(b.msgs, m) /\ c.active = b.active + 1 /\ c.high = b.high /\ c.extra = b.extra
  BY <1>1, <1>6 DEF Base
<1> HIDE DEF c, m, num
<1>8. /\ c.msgs \in Seq(Msg) /\ Len(c.msgs) = n + 1 /\ c.msgs[n + 1] = m
      /\ \A k \in 1..n : c.msgs[k] = b.msgs[k]
  BY <1>1, <1>5, <1>7, AppendProperties
<1>9. \A k \in 1..n + 1 : k \in 1..n \/ k = n + 1
  BY <1>1
<1>10. n + 1 \in 1..n + 1 /\ \A k \in 1..n : k \in 1..n + 1
  BY <1>1
<1>11. \A k \in 1..n : b.msgs[k].id # id
  BY <1>2
<1>12. Distinct(c.msgs)
  <2>1. ASSUME NEW k \in 1..n + 1, NEW l \in 1..n + 1, c.msgs[k].id = c.msgs[l].id PROVE k = l
    <3>1. CASE k \in 1..n /\ l \in 1..n
      BY <1>1, <1>8, <2>1, <3>1 DEF Distinct
    <3>2. CASE k = n + 1 \/ l = n + 1
      BY <1>5, <1>8, <1>9, <1>11, <2>1, <3>2
    <3>3. QED
      BY <1>9, <3>1, <3>2
  <2>2. QED
    BY <1>8, <2>1 DEF Distinct
<1>13. /\ \A x : x \in Ids(c) <=> \E i \in 1..n + 1 : x = c.msgs[i].id
       /\ \A x : x \in Live(c) <=> \E i \in 1..n + 1 : x = c.msgs[i] /\ c.msgs[i].deleted = FALSE
       /\ \A x : x \in LiveIds(c) <=> \E i \in 1..n + 1 : x = c.msgs[i].id /\ c.msgs[i].deleted = FALSE
  <2> DEFINE l == Len(c.msgs)
  <2>1. /\ \A x : x \in Ids(c) <=> \E i \in 1..l : x = c.msgs[i].id
        /\ \A x : x \in Live(c) <=> \E i \in 1..l : x = c.msgs[i] /\ c.msgs[i].deleted = FALSE
        /\ \A x : x \in LiveIds(c) <=> \E i \in 1..l : x = c.msgs[i].id /\ c.msgs[i].deleted = FALSE
    BY <1>8, Members
  <2> HIDE DEF l, n
  <2>2. l = n + 1
    BY <1>8 DEF l
  <2>3. QED
    BY <2>1, <2>2
<1>14. Extended(b, c, id)
  BY <1>5, <1>7, <1>8 DEF Extended
<1> HIDE DEF n
<1>15. Live(c) = Live(b) \cup {m}
  <2>1. ASSUME NEW x \in Live(c) PROVE x \in Live(b) \cup {m}
    <3>1. PICK i \in 1..n + 1 : x = c.msgs[i] /\ c.msgs[i].deleted = FALSE
      BY <1>13
    <3>2. QED
      BY <1>2, <1>8, <1>9, <3>1
  <2>2. ASSUME NEW x \in Live(b) PROVE x \in Live(c)
    <3>1. PICK i \in 1..n : x = b.msgs[i] /\ b.msgs[i].deleted = FALSE
      BY <1>2
    <3>2. QED
      BY <1>8, <1>10, <1>13, <3>1
  <2>3. m \in Live(c)
    BY <1>5, <1>8, <1>10, <1>13
  <2>4. QED
    BY <2>1, <2>2, <2>3
<1>16. m \notin Live(b)
  BY <1>2, <1>5, <1>11
<1>17. IsFiniteSet(Live(b)) /\ Cardinality(Live(b)) \in Nat
  BY <1>1, LiveCount
<1>18. c.active = Cardinality(Live(c)) + c.extra /\ c.active > 0
  <2>1. Cardinality(Live(c)) = Cardinality(Live(b)) + 1
    BY <1>15, <1>16, <1>17, FS_AddElement
  <2>2. QED
    BY <1>1, <1>7, <1>17, <2>1
<1>19. c \in Base
  <2>1. c = [msgs |-> c.msgs, active |-> c.active, extra |-> c.extra, high |-> c.high]
    BY <1>1, <1>6 DEF Base
  <2>2. c.msgs \in Seq(Msg) /\ c.active \in Int /\ c.extra \in Nat /\ c.high \in [Users -> Int]
    BY <1>1, <1>7, <1>8, <1>17
  <2>3. QED
    BY <2>1, <2>2 DEF Base
<1>20. LiveIds(c) = LiveIds(b) \cup {id}
  BY <1>5, <1>15 DEF LiveIds
<1>21. Ids(c) = Ids(b) \cup {id}
  <2>1. ASSUME NEW x \in Ids(c) PROVE x \in Ids(b) \cup {id}
    <3>1. PICK i \in 1..n + 1 : x = c.msgs[i].id
      BY <1>13
    <3>2. QED
      BY <1>2, <1>5, <1>8, <1>9, <3>1
  <2>2. ASSUME NEW x \in Ids(b) PROVE x \in Ids(c)
    <3>1. PICK i \in 1..n : x = b.msgs[i].id
      BY <1>2
    <3>2. QED
      BY <1>8, <1>10, <1>13, <3>1
  <2>3. id \in Ids(c)
    BY <1>5, <1>8, <1>10, <1>13
  <2>4. QED
    BY <2>1, <2>2, <2>3
<1>22. ASSUME some, Placed(b) PROVE Placed(c)
  <2>1. n \in Nat
    BY <1>1 DEF n
  <2>2. CASE n # 0
    <3>1. n \in 1..n
      BY <2>1, <2>2
    <3>2. JAM_Highest(b, some) = b.msgs[n].num
      BY <1>3, <1>22, <2>2 DEF JAM_Highest, Last, n
    <3>3. num = n + 1
      BY <1>22, <3>1, <3>2 DEF num, Placed, n
    <3>4. QED
      BY <1>5, <1>8, <1>9, <1>22, <3>3 DEF Placed, n
  <2>3. CASE n = 0
    <3>1. JAM_Highest(b, some) = 0
      BY <1>3, <2>3 DEF JAM_Highest
    <3>2. num = n + 1
      BY <2>3, <3>1 DEF num
    <3>3. QED
      BY <1>5, <1>8, <1>9, <1>22, <3>2 DEF Placed, n
  <2>4. QED
    BY <2>2, <2>3
<1>23. QED
  BY <1>12, <1>14, <1>18, <1>19, <1>20, <1>21, <1>22 DEF Whole, c

(* The base c is b with the messages at the places D deleted. *)
Dropped(b, c, D) ==
    /\ c \in Base /\ c.high = b.high /\ Len(c.msgs) = Len(b.msgs)
    /\ c.active - c.extra = b.active - b.extra - Cardinality(D)
    /\ \A i \in 1..Len(b.msgs) : /\ c.msgs[i].id = b.msgs[i].id /\ c.msgs[i].num = b.msgs[i].num
                                 /\ i \in D => c.msgs[i].deleted = TRUE
                                 /\ i \notin D => c.msgs[i] = b.msgs[i]

(* JAM_Delete, JAM_WriteHeader and KillArea delete messages that were not deleted before. *)
LEMMA DropBase ==
    ASSUME NEW b, Whole(b), NEW c, NEW D, Dropped(b, c, D), D \subseteq 1..Len(b.msgs),
           \A i \in D : b.msgs[i].deleted = FALSE
    PROVE  /\ Whole(c) /\ Ids(c) = Ids(b) /\ c.active \in Nat
           /\ LiveIds(b) \subseteq LiveIds(c) \cup {b.msgs[i].id : i \in D}
           /\ Placed(b) => Placed(c)
<1> DEFINE n == Len(b.msgs)
           M == {b.msgs[i] : i \in D}
<1>1. /\ b.msgs \in Seq(Msg) /\ Distinct(b.msgs) /\ b.active = Cardinality(Live(b)) + b.extra
      /\ c \in Base /\ c.msgs \in Seq(Msg) /\ Len(c.msgs) = n /\ b.extra \in Nat
      /\ c.extra \in Nat /\ c.active \in Int
      /\ c.active - c.extra = b.active - b.extra - Cardinality(D)
  BY DEF Whole, Base, Dropped
<1>2. \A i \in 1..n : /\ c.msgs[i].id = b.msgs[i].id /\ c.msgs[i].num = b.msgs[i].num
                      /\ i \in D => c.msgs[i].deleted = TRUE
                      /\ i \notin D => c.msgs[i] = b.msgs[i]
  BY DEF Dropped
<1>3. Distinct(c.msgs)
  BY <1>1, <1>2 DEF Distinct
<1>4. /\ \A x : x \in Ids(b) <=> \E i \in 1..n : x = b.msgs[i].id
      /\ \A x : x \in Live(b) <=> \E i \in 1..n : x = b.msgs[i] /\ b.msgs[i].deleted = FALSE
      /\ \A x : x \in LiveIds(b) <=> \E i \in 1..n : x = b.msgs[i].id /\ b.msgs[i].deleted = FALSE
  BY <1>1, Members
<1>5. /\ \A x : x \in Ids(c) <=> \E i \in 1..n : x = c.msgs[i].id
      /\ \A x : x \in Live(c) <=> \E i \in 1..n : x = c.msgs[i] /\ c.msgs[i].deleted = FALSE
      /\ \A x : x \in LiveIds(c) <=> \E i \in 1..n : x = c.msgs[i].id /\ c.msgs[i].deleted = FALSE
  <2> DEFINE l == Len(c.msgs)
  <2>1. /\ \A x : x \in Ids(c) <=> \E i \in 1..l : x = c.msgs[i].id
        /\ \A x : x \in Live(c) <=> \E i \in 1..l : x = c.msgs[i] /\ c.msgs[i].deleted = FALSE
        /\ \A x : x \in LiveIds(c) <=> \E i \in 1..l : x = c.msgs[i].id /\ c.msgs[i].deleted = FALSE
    BY <1>1, Members
  <2> HIDE DEF l, n
  <2>2. l = n
    BY <1>1 DEF l
  <2>3. QED
    BY <2>1, <2>2
<1>6. Ids(c) = Ids(b)
  BY <1>2, <1>4, <1>5
<1>7. IsFiniteSet(Live(b)) /\ Cardinality(Live(b)) \in Nat
      /\ IsFiniteSet(Live(c)) /\ Cardinality(Live(c)) \in Nat
  BY <1>1, <1>3, LiveCount
<1>8. IsFiniteSet(M) /\ Cardinality(M) = Cardinality(D) /\ Cardinality(D) \in Nat
  BY <1>1, PlaceCount
<1>9. \A i, j \in 1..n : b.msgs[i] = b.msgs[j] => i = j
  BY <1>1 DEF Distinct
<1>10. Live(c) = Live(b) \ M
  <2>1. ASSUME NEW x \in Live(c) PROVE x \in Live(b) /\ x \notin M
    <3>1. PICK i \in 1..n : x = c.msgs[i] /\ c.msgs[i].deleted = FALSE
      BY <1>5
    <3>2. i \notin D /\ x = b.msgs[i]
      BY <1>2, <3>1
    <3>3. QED
      BY <1>4, <1>9, <3>1, <3>2
  <2>2. ASSUME NEW x \in Live(b), x \notin M PROVE x \in Live(c)
    <3>1. PICK i \in 1..n : x = b.msgs[i] /\ b.msgs[i].deleted = FALSE
      BY <1>4
    <3>2. i \notin D
      BY <2>2, <3>1
    <3>3. QED
      BY <1>2, <1>5, <3>1, <3>2
  <2>3. QED
    BY <2>1, <2>2
<1>11. M \subseteq Live(b)
  BY <1>4
<1> HIDE DEF M
<1>12. Cardinality(Live(c)) = Cardinality(Live(b)) - Cardinality(M)
  <2>1. Live(b) \cap M = M
    BY <1>11
  <2>2. Cardinality(Live(b) \ M) = Cardinality(Live(b)) - Cardinality(Live(b) \cap M)
    BY <1>7, FS_Difference
  <2>3. QED
    BY <1>10, <2>1, <2>2
<1>13. c.active = Cardinality(Live(c)) + c.extra
  <2>1. b.active \in Int
    BY DEF Whole, Base
  <2>2. Cardinality(Live(c)) = Cardinality(Live(b)) - Cardinality(D)
    BY <1>8, <1>12
  <2>3. QED
    BY <1>1, <1>7, <1>8, <2>1, <2>2
<1>14. ASSUME NEW x \in LiveIds(b) PROVE x \in LiveIds(c) \cup {b.msgs[i].id : i \in D}
  <2>1. PICK i \in 1..n : x = b.msgs[i].id /\ b.msgs[i].deleted = FALSE
    BY <1>4
  <2>2. CASE i \in D
    BY <2>1, <2>2
  <2>3. CASE i \notin D
    <3>1. c.msgs[i] = b.msgs[i]
      BY <1>2, <2>3
    <3>2. x \in LiveIds(c)
      BY <1>5, <2>1, <3>1
    <3>3. QED
      BY <3>2
  <2>4. QED
    BY <2>2, <2>3
<1>15. Placed(b) => Placed(c)
  BY <1>1, <1>2 DEF Placed
<1>16. QED
  BY <1>1, <1>3, <1>6, <1>7, <1>13, <1>14, <1>15 DEF Whole

(* The base c is b with another pointer of user u. *)
Marked(b, c, u) ==
    /\ Whole(c) /\ c.msgs = b.msgs /\ c.active = b.active
    /\ Ids(c) = Ids(b) /\ LiveIds(c) = LiveIds(b) /\ (Placed(b) => Placed(c))
    /\ \A v \in Users : v # u => c.high[v] = b.high[v]

(* JAM_SetLastRead leaves the messages alone. *)
LEMMA MarkBase ==
    ASSUME NEW b, Whole(b), NEW u \in Users, NEW num \in Nat, NEW highest \in Nat
    PROVE  LET c == JAM_SetLastRead(b, u, num, highest) IN
           /\ Marked(b, c, u)
           /\ c.high[u] = IF b.high[u] = Never THEN num
                          ELSE Least(Greatest(b.high[u], num), highest)
<1> DEFINE c == JAM_SetLastRead(b, u, num, highest)
           h == IF b.high[u] = Never THEN num ELSE Least(Greatest(b.high[u], num), highest)
<1>1. b \in Base /\ b.high \in [Users -> Int] /\ b.msgs \in Seq(Msg) /\ Distinct(b.msgs)
      /\ b.active = Cardinality(Live(b)) + b.extra /\ b.active \in Int /\ b.extra \in Nat
  BY DEF Whole, Base
<1>2. h \in Int
  BY <1>1 DEF Least, Greatest
<1>3. c = [b EXCEPT !.high = [b.high EXCEPT ![u] = h]]
  BY <1>1 DEF JAM_SetLastRead, Base
<1> HIDE DEF h, c
<1>4. c.msgs = b.msgs /\ c.active = b.active /\ c.extra = b.extra
      /\ c.high = [b.high EXCEPT ![u] = h] /\ c \in Base
  BY <1>1, <1>2, <1>3 DEF Base
<1>5. Ids(c) = Ids(b) /\ Live(c) = Live(b) /\ LiveIds(c) = LiveIds(b)
  BY <1>4 DEF Ids, Live, LiveIds
<1>6. c.high[u] = h /\ \A v \in Users : v # u => c.high[v] = b.high[v]
  BY <1>1, <1>4
<1>7. QED
  BY <1>1, <1>4, <1>5, <1>6 DEF Marked, Whole, Placed, c, h

(* JAM_Pack moves the pointers of the old base and leaves the rest alone. *)
LEMMA MoveBase ==
    ASSUME NEW b, Whole(b), NEW i \in 0..Len(b.msgs)
    PROVE  LET c == MovedTo(b, i) IN
           /\ Whole(c) /\ c.msgs = b.msgs /\ c.active = b.active
           /\ Ids(c) = Ids(b) /\ LiveIds(c) = LiveIds(b)
<1> DEFINE h == Turns(b)[i].high
           c == MovedTo(b, i)
<1>1. b \in Base /\ b.high \in [Users -> Int] /\ b.msgs \in Seq(Msg) /\ Distinct(b.msgs)
      /\ b.active = Cardinality(Live(b)) + b.extra
  BY DEF Whole, Base
<1>2. h \in [Users -> Int]
  BY <1>1, AllTurns
<1>3. c = [b EXCEPT !.high = h]
  BY DEF MovedTo
<1> HIDE DEF h, c
<1>4. c.msgs = b.msgs /\ c.active = b.active /\ c.extra = b.extra /\ c \in Base
  BY <1>1, <1>2, <1>3 DEF Base
<1>5. Ids(c) = Ids(b) /\ Live(c) = Live(b) /\ LiveIds(c) = LiveIds(b)
  BY <1>4 DEF Ids, Live, LiveIds
<1>6. Whole(c)
  BY <1>1, <1>4, <1>5 DEF Whole
<1>7. QED
  BY <1>4, <1>5, <1>6 DEF c

-----------------------------------------------------------------------------
(* The sequence of bases. *)
LEMMA LibraryIs ==
    ASSUME NEW B, Library(B)
    PROVE  /\ B \in Seq(Base) /\ Len(B) \in Nat /\ Len(B) >= 1 /\ Len(B) \in 1..Len(B)
           /\ \A g \in 1..Len(B) : B[g] \in Base /\ Whole(B[g]) /\ B[g].msgs \in Seq(Msg)
           /\ \A g \in 1..Len(B) : Distinct(B[g].msgs) /\ Len(B[g].msgs) \in Nat
           /\ \A g \in 1..Len(B) : B[g].high \in [Users -> Int]
<1>1. B \in Seq(Base) /\ Len(B) \in Nat /\ B # <<>> /\ \A g \in 1..Len(B) : Whole(B[g])
  BY LenProperties DEF Library
<1>2. Len(B) # 0
  BY <1>1, EmptySeq
<1>3. \A g \in 1..Len(B) : B[g] \in Base
  BY <1>1 DEF Whole
<1>4. \A g \in 1..Len(B) : Distinct(B[g].msgs)
  BY <1>1 DEF Whole
<1>5. \A g \in 1..Len(B) : B[g].msgs \in Seq(Msg) /\ B[g].high \in [Users -> Int]
  BY <1>3 DEF Base
<1>6. \A g \in 1..Len(B) : Len(B[g].msgs) \in Nat
  BY <1>5, LenProperties
<1>7. Len(B) >= 1 /\ Len(B) \in 1..Len(B)
  BY <1>1, <1>2
<1>8. QED
  BY <1>1, <1>3, <1>4, <1>5, <1>6, <1>7

LEMMA IdsOfIs ==
    ASSUME NEW B \in Seq(Base)
    PROVE  \A x : x \in IdsOf(B) <=> \E g \in 1..Len(B) : x \in Ids(B[g])
<1>1. DOMAIN B = 1..Len(B)
  BY LenProperties
<1>2. ToSet(B) = {B[g] : g \in 1..Len(B)}
  BY <1>1 DEF ToSet
<1>3. QED
  BY <1>2 DEF IdsOf

LEMMA CountIds ==
    ASSUME NEW S, NEW k \in Nat, S = 1..k
    PROVE  Cardinality(S) = k
BY FS_Interval

(* Ids are given in order. *)
Issued(S) == \E k \in Nat : S = 1..k

(* Base g became c, which has the ids in X besides. *)
Replaced(B, C, g, c, X) ==
    /\ Library(C) /\ Len(C) = Len(B) /\ C[g] = c
    /\ \A h \in 1..Len(B) : h # g => C[h] = B[h]
    /\ IdsOf(C) = IdsOf(B) \cup X

(* One base is rewritten and the ids in X are added to it. *)
LEMMA Rewritten ==
    ASSUME NEW B, Library(B), NEW g \in 1..Len(B), NEW c, Whole(c),
           NEW X, Ids(c) = Ids(B[g]) \cup X, Issued(IdsOf(B) \cup X)
    PROVE  Replaced(B, [B EXCEPT ![g] = c], g, c, X)
<1> DEFINE C == [B EXCEPT ![g] = c]
           n == Len(B)
<1>1. B \in Seq(Base) /\ n \in Nat /\ B # <<>> /\ (\A h \in 1..n : Whole(B[h]))
      /\ DOMAIN B = 1..n /\ c \in Base
  BY LenProperties DEF Library, Whole
<1>2. C \in Seq(Base) /\ Len(C) = n
  BY <1>1, ExceptSeq
<1>3. C[g] = c /\ \A h \in 1..n : h # g => C[h] = B[h]
  BY <1>1
<1> HIDE DEF C, n
<1>4. \A h \in 1..n : Whole(C[h])
  BY <1>1, <1>3
<1>5. /\ \A x : x \in IdsOf(B) <=> \E h \in 1..n : x \in Ids(B[h])
      /\ \A x : x \in IdsOf(C) <=> \E h \in 1..n : x \in Ids(C[h])
  BY <1>1, <1>2, IdsOfIs DEF n
<1>6. g \in 1..n
  BY DEF n
<1>7. IdsOf(C) = IdsOf(B) \cup X
  <2>1. ASSUME NEW x \in IdsOf(C) PROVE x \in IdsOf(B) \cup X
    <3>1. PICK h \in 1..n : x \in Ids(C[h])
      BY <1>5
    <3>2. QED
      BY <1>3, <1>5, <1>6, <3>1
  <2>2. ASSUME NEW x \in IdsOf(B) PROVE x \in IdsOf(C)
    <3>1. PICK h \in 1..n : x \in Ids(B[h])
      BY <1>5
    <3>2. x \in Ids(C[h])
      BY <1>3, <3>1
    <3>3. QED
      BY <1>5, <3>2
  <2>3. X \subseteq IdsOf(C)
    BY <1>3, <1>5, <1>6
  <2>4. QED
    BY <2>1, <2>2, <2>3
<1>8. Cardinality(IdsOf(C)) \in Nat /\ IdsOf(C) = 1..Cardinality(IdsOf(C))
  <2>1. PICK k \in Nat : IdsOf(C) = 1..k
    BY <1>7 DEF Issued
  <2>2. QED
    BY <2>1, CountIds
<1>9. C # <<>>
  <2>1. n # 0
    BY <1>1, EmptySeq DEF n
  <2>2. QED
    BY <1>2, <2>1, EmptySeq
<1>10. Library(C)
  BY <1>2, <1>4, <1>8, <1>9 DEF Library, n
<1>11. QED
  BY <1>2, <1>3, <1>7, <1>10 DEF Replaced, C, n

(* A new base gets the names. *)
LEMMA Renamed ==
    ASSUME NEW B, Library(B), NEW c, Whole(c), Ids(c) \subseteq IdsOf(B)
    PROVE  LET C == B \o <<c>> IN
           /\ Library(C) /\ Len(C) = Len(B) + 1 /\ C[Len(B) + 1] = c
           /\ \A h \in 1..Len(B) : C[h] = B[h]
           /\ IdsOf(C) = IdsOf(B)
<1> DEFINE C == B \o <<c>>
           n == Len(B)
<1>1. B \in Seq(Base) /\ n \in Nat /\ B # <<>> /\ (\A h \in 1..n : Whole(B[h])) /\ c \in Base
  BY LenProperties DEF Library, Whole
<1>2. C = Append(B, c)
  BY <1>1, AppendIsConcat
<1>3. C \in Seq(Base) /\ Len(C) = n + 1 /\ C[n + 1] = c /\ \A h \in 1..n : C[h] = B[h]
  BY <1>1, <1>2, AppendProperties
<1> HIDE DEF C, n
<1>4. \A h \in 1..n + 1 : h \in 1..n \/ h = n + 1
  BY <1>1
<1>5. \A h \in 1..n : h \in 1..n + 1
  BY <1>1
<1>6. \A h \in 1..n + 1 : Whole(C[h])
  BY <1>1, <1>3, <1>4
<1>7. \A x : x \in IdsOf(B) <=> \E h \in 1..n : x \in Ids(B[h])
  BY <1>1, IdsOfIs DEF n
<1>8. \A x : x \in IdsOf(C) <=> \E h \in 1..n + 1 : x \in Ids(C[h])
  <2>1. \A x : x \in IdsOf(C) <=> \E h \in 1..Len(C) : x \in Ids(C[h])
    BY <1>3, IdsOfIs
  <2>2. QED
    BY <1>3, <2>1
<1>9. IdsOf(C) = IdsOf(B)
  <2>1. ASSUME NEW x \in IdsOf(C) PROVE x \in IdsOf(B)
    <3>1. PICK h \in 1..n + 1 : x \in Ids(C[h])
      BY <1>8
    <3>2. QED
      BY <1>3, <1>4, <1>7, <3>1
  <2>2. ASSUME NEW x \in IdsOf(B) PROVE x \in IdsOf(C)
    <3>1. PICK h \in 1..n : x \in Ids(B[h])
      BY <1>7
    <3>2. x \in Ids(C[h])
      BY <1>3, <3>1
    <3>3. QED
      BY <1>5, <1>8, <3>2
  <2>3. QED
    BY <2>1, <2>2
<1>10. C # <<>>
  <2>1. n + 1 # 0
    BY <1>1
  <2>2. QED
    BY <1>3, <2>1, EmptySeq
<1>11. Library(C)
  BY <1>3, <1>6, <1>9, <1>10 DEF Library
<1>12. QED
  BY <1>3, <1>9, <1>11 DEF C, n

-----------------------------------------------------------------------------
(* The invariant holds at the beginning. *)
LEMMA MessageStart == Init => MessageInv
<1> SUFFICES ASSUME Init PROVE MessageInv
  OBVIOUS
<1> DEFINE s == [i \in 1..First |-> Message(i, i)]
           b == [msgs |-> s, active |-> First, extra |-> 0, high |-> [u \in Users |-> Never]]
<1>1. First \in Nat /\ First > 0
  BY MessageAssumption
<1>2. bases = <<b>> /\ removed = {} /\ emptied = FALSE /\ raced = FALSE /\ cut = FALSE
      /\ writer = [w \in Writers |-> Closed] /\ session = [u \in Users |-> Away]
      /\ mbmsg = Rest /\ known = [u \in Users |-> {}]
  BY DEF Init
<1>3. \A i \in 1..First : Message(i, i) \in Msg /\ Message(i, i).id = i /\ Message(i, i).num = i
                          /\ Message(i, i).deleted = FALSE
  BY <1>1 DEF Message, Msg
<1>4. s \in Seq(Msg) /\ Len(s) = First /\ \A i \in 1..First : s[i] = Message(i, i)
  BY <1>1, <1>3, SeqDef
<1>5. b.msgs = s /\ b.active = First /\ b.extra = 0 /\ b.high = [u \in Users |-> Never] /\ b \in Base
  BY <1>1, <1>4 DEF Base, Never
<1> HIDE DEF s, b
<1>6. \A i \in 1..First : s[i].id = i /\ s[i].num = i /\ s[i].deleted = FALSE
  BY <1>3, <1>4
<1>7. Distinct(s)
  BY <1>4, <1>6 DEF Distinct
<1>8. Cardinality(Live(b)) = First
  BY <1>4, <1>5, <1>6, <1>7, LiveCount
<1>9. Whole(b) /\ Filled(b)
  BY <1>1, <1>4, <1>5, <1>6, <1>7, <1>8 DEF Whole, Filled, Placed
<1>10. /\ \A x : x \in Ids(b) <=> \E i \in 1..First : x = s[i].id
       /\ \A x : x \in LiveIds(b) <=> \E i \in 1..First : x = s[i].id /\ s[i].deleted = FALSE
  <2>1. /\ \A x : x \in Ids(b) <=> \E i \in 1..Len(b.msgs) : x = b.msgs[i].id
        /\ \A x : x \in LiveIds(b) <=>
              \E i \in 1..Len(b.msgs) : x = b.msgs[i].id /\ b.msgs[i].deleted = FALSE
    BY <1>4, <1>5, Members
  <2>2. QED
    BY <1>4, <1>5, <2>1
<1>11. Ids(b) = 1..First /\ LiveIds(b) = 1..First
  <2>1. ASSUME NEW x PROVE x \in Ids(b) <=> x \in 1..First
    BY <1>6, <1>10
  <2>2. ASSUME NEW x PROVE x \in LiveIds(b) <=> x \in 1..First
    BY <1>6, <1>10
  <2>3. QED
    BY <2>1, <2>2
<1>12. bases \in Seq(Base) /\ Len(bases) = 1 /\ bases[1] = b /\ bases # <<>>
  BY <1>2, <1>5
<1>13. \A g \in 1..Len(bases) : g = 1
  BY <1>12
<1>14. IdsOf(bases) = 1..First
  <2>1. \A x : x \in IdsOf(bases) <=> \E g \in 1..Len(bases) : x \in Ids(bases[g])
    BY <1>12, IdsOfIs
  <2>2. 1 \in 1..Len(bases)
    BY <1>12
  <2>3. QED
    BY <1>11, <1>12, <1>13, <2>1, <2>2
<1>15. Library(bases)
  <2>1. Cardinality(IdsOf(bases)) = First
    BY <1>1, <1>14, CountIds
  <2>2. QED
    BY <1>1, <1>9, <1>12, <1>13, <1>14, <2>1 DEF Library
<1>16. mbmsg.st = "rest"
  BY <1>2 DEF Rest, Maintenance
<1>17. Away \in Session(Current) /\ Holds(Away, Current)
  BY <1>12 DEF Away, Session, Holds, Current
<1>18. Processes
  BY <1>2, <1>16, <1>17 DEF Processes, Tended
<1>19. Numbered
  BY <1>2, <1>9, <1>12, <1>13, <1>16 DEF Numbered, Current
<1>20. Undisturbed
  <2>1. \A u \in Users : Remembered(session[u], bases[Current], Current)
    BY <1>2 DEF Remembered
  <2>2. Gathered(bases, removed)
    BY <1>11, <1>12, <1>13 DEF Gathered
  <2>3. QED
    BY <1>2, <1>16, <2>1, <2>2 DEF Undisturbed, Waiting
<1>21. Pointed(Awaited(mbmsg, bases[Current]), known)
  <2>1. \A u \in Users : Covered(b.high[u], b, known[u])
    BY <1>5 DEF Covered
  <2>2. Awaited(mbmsg, bases[Current]) = b
    BY <1>12, <1>16 DEF Awaited, Current
  <2>3. QED
    BY <2>1, <2>2 DEF Pointed
<1>22. QED
  BY <1>15, <1>18, <1>19, <1>20, <1>21 DEF MessageInv

-----------------------------------------------------------------------------
(* Steps that leave the bases alone. *)
LEMMA OpenedFile ==
    ASSUME Library(bases)
    PROVE  /\ Opened \in File(Current) /\ Opened.gen = Current
           /\ Opened.some = (bases[Current].active > 0) /\ Opened # Closed
<1>1. Current \in 1..Current
  BY LibraryIs DEF Current
<1>2. Opened.gen = Current /\ Opened.some = (bases[Current].active > 0)
      /\ Opened \in File(Current)
  BY <1>1 DEF Opened, File
<1>3. Closed.gen = 0
  BY DEF Closed
<1>4. QED
  BY <1>1, <1>2, <1>3

(* While packed files wait for their names nobody has the base open. *)
LEMMA NobodyWaits ==
    ASSUME MessageInv, ~emptied, ~raced, InUse
    PROVE  mbmsg.st # "rename"
BY DEF MessageInv, Undisturbed, Waiting

LEMMA PointedNow ==
    ASSUME MessageInv, ~emptied, ~raced, ~cut, mbmsg.st # "rename"
    PROVE  Pointed(bases[Current], known)
BY DEF MessageInv, Awaited

LEMMA WriterSteps ==
    ASSUME MessageInv, NEW w \in Writers, PostOpen(w) \/ PostFails(w)
    PROVE  MessageInv'
<1>1. Library(bases) /\ Processes
  BY DEF MessageInv
<1>2. UNCHANGED <<bases, session, mbmsg, known, removed, emptied, cut>>
  BY DEF PostOpen, PostFails
<1>3. writer' = [writer EXCEPT ![w] = writer'[w]] /\ writer'[w] \in {Opened, Closed}
  BY <1>1 DEF PostOpen, PostFails, Processes
<1>4. Current' = Current
  BY <1>2 DEF Current
<1>5. writer \in [Writers -> File(Current) \cup {Closed}] /\ raced \in BOOLEAN
  BY <1>1 DEF Processes
<1>6. writer' \in [Writers -> File(Current) \cup {Closed}]
  BY <1>1, <1>3, <1>5, OpenedFile
<1>7. \A v \in Writers : v # w => writer'[v] = writer[v]
  BY <1>3, <1>5
<1>8. raced' \in BOOLEAN /\ (~emptied /\ ~raced' => ~raced /\ mbmsg.st # "rename")
  <2>1. CASE PostOpen(w)
    BY <1>5, <2>1 DEF PostOpen, Races
  <2>2. CASE PostFails(w)
    <3>1. raced' = raced /\ InUse
      BY <2>2 DEF PostFails, InUse
    <3>2. QED
      BY <1>5, <3>1, NobodyWaits
  <2>3. QED
    BY <2>1, <2>2
<1>9. Library(bases)' /\ Processes'
  BY <1>1, <1>2, <1>4, <1>6, <1>8 DEF Processes
<1>10. ASSUME ~emptied' PROVE Numbered'
  <2>1. Numbered
    BY <1>2, <1>10 DEF MessageInv
  <2>2. bases[Current].active > 0
    BY <1>1, <2>1, LibraryIs DEF Numbered, Filled, Current
  <2>3. \A v \in Writers : writer'[v] # Closed => writer'[v].some = TRUE
    BY <1>1, <1>3, <1>7, <2>1, <2>2, OpenedFile DEF Numbered
  <2>4. QED
    BY <1>2, <1>4, <2>1, <2>3 DEF Numbered
<1>11. ASSUME ~emptied', ~raced' PROVE Undisturbed'
  <2>1. Undisturbed /\ mbmsg'.st # "rename"
    BY <1>2, <1>8, <1>11 DEF MessageInv
  <2>2. \A v \in Writers : writer'[v] # Closed => writer'[v].gen = Current
    BY <1>1, <1>3, <1>7, <2>1, OpenedFile DEF Undisturbed
  <2>3. QED
    BY <1>2, <1>4, <2>1, <2>2 DEF Undisturbed, Waiting
<1>12. ASSUME ~emptied', ~raced', ~cut' PROVE Pointed(Awaited(mbmsg, bases[Current]), known)'
  BY <1>2, <1>4, <1>8, <1>12 DEF MessageInv
<1>13. QED
  BY <1>9, <1>10, <1>11, <1>12 DEF MessageInv

LEMMA SessionStep ==
    ASSUME MessageInv, NEW u \in Users, session' = [session EXCEPT ![u] = session'[u]],
           session'[u] \in Session(Current), Holds(session'[u], Current),
           raced' \in BOOLEAN,
           ~emptied /\ ~raced' => /\ ~raced /\ mbmsg.st # "rename"
                                 /\ Remembered(session'[u], bases[Current], Current),
           UNCHANGED <<bases, writer, mbmsg, known, removed, emptied, cut>>
    PROVE  MessageInv'
<1>1. Library(bases) /\ Processes
  BY DEF MessageInv
<1>2. session \in [Users -> Session(Current)] /\ \A v \in Users : Holds(session[v], Current)
  BY <1>1 DEF Processes
<1>3. session' \in [Users -> Session(Current)] /\ \A v \in Users : v # u => session'[v] = session[v]
  BY <1>2
<1>4. Current' = Current
  BY DEF Current
<1>5. \A v \in Users : Holds(session'[v], Current)
  BY <1>2, <1>3
<1>6. Library(bases)' /\ Processes'
  BY <1>1, <1>3, <1>4, <1>5 DEF Processes
<1>7. ASSUME ~emptied' PROVE Numbered'
  BY <1>4, <1>7 DEF MessageInv, Numbered
<1>8. ASSUME ~emptied', ~raced' PROVE Undisturbed'
  <2>1. Undisturbed /\ Remembered(session'[u], bases[Current], Current) /\ mbmsg'.st # "rename"
    BY <1>8 DEF MessageInv
  <2>2. \A v \in Users : Remembered(session'[v], bases[Current], Current)
    BY <1>3, <2>1 DEF Undisturbed
  <2>3. QED
    BY <1>4, <2>1, <2>2 DEF Undisturbed, Waiting
<1>9. ASSUME ~emptied', ~raced', ~cut' PROVE Pointed(Awaited(mbmsg, bases[Current]), known)'
  BY <1>4, <1>9 DEF MessageInv
<1>10. QED
  BY <1>6, <1>7, <1>8, <1>9 DEF MessageInv

LEMMA HighestIs ==
    ASSUME NEW b, Whole(b), NEW some \in BOOLEAN
    PROVE  /\ JAM_Highest(b, some) \in Nat
           /\ Placed(b) => JAM_Highest(b, some) <= Len(b.msgs)
<1>1. b.msgs \in Seq(Msg) /\ Len(b.msgs) \in Nat
  BY LenProperties DEF Whole, Base
<1>2. CASE some /\ b.msgs # <<>>
  <2>1. Len(b.msgs) \in 1..Len(b.msgs)
    BY <1>1, <1>2, EmptySeq
  <2>2. b.msgs[Len(b.msgs)] \in Msg
    BY <1>1, <2>1, ElementOfSeq
  <2>3. JAM_Highest(b, some) = b.msgs[Len(b.msgs)].num
    BY <1>2 DEF JAM_Highest, Last
  <2>4. b.msgs[Len(b.msgs)].num \in Nat
    BY <2>2 DEF Msg
  <2>5. QED
    BY <1>1, <2>1, <2>3, <2>4 DEF Placed
<1>3. CASE ~(some /\ b.msgs # <<>>)
  BY <1>1, <1>3 DEF JAM_Highest
<1>4. QED
  BY <1>2, <1>3

(* JAM_ReadHeader finds messages that are not deleted. *)
LEMMA FoundIs ==
    ASSUME NEW b, Whole(b), NEW num
    PROVE  \A i : i \in Found(b, num) <=>
              i \in 1..Len(b.msgs) /\ b.msgs[i].num = num /\ b.msgs[i].deleted = FALSE
<1>1. b.msgs \in Seq(Msg)
  BY DEF Whole, Base
<1>2. DOMAIN b.msgs = 1..Len(b.msgs)
  BY <1>1, LenProperties
<1>3. \A i \in 1..Len(b.msgs) : b.msgs[i].deleted \in BOOLEAN
  BY <1>1, Members
<1>4. QED
  BY <1>2, <1>3 DEF Found

LEMMA IdsPositive ==
    ASSUME NEW B, Library(B), NEW g \in 1..Len(B), NEW i \in 1..Len(B[g].msgs)
    PROVE  B[g].msgs[i].id \in Nat /\ B[g].msgs[i].id # 0 /\ B[g].msgs[i].id \in IdsOf(B)
<1>1. B \in Seq(Base) /\ B[g].msgs \in Seq(Msg)
  BY LibraryIs
<1>2. B[g].msgs[i].id \in Ids(B[g])
  BY <1>1, Members
<1>3. B[g].msgs[i].id \in IdsOf(B)
  BY <1>1, <1>2, IdsOfIs
<1>4. IdsOf(B) = 1..Cardinality(IdsOf(B)) /\ Cardinality(IdsOf(B)) \in Nat
  BY DEF Library
<1>5. \A x \in 1..Cardinality(IdsOf(B)) : x \in Nat /\ x # 0
  BY <1>4
<1>6. QED
  BY <1>3, <1>4, <1>5

LEMMA SessionSteps ==
    ASSUME MessageInv, NEW u \in Users,
           \/ SetMsgArea(u) \/ Leave(u) \/ DeleteOpen(u)
           \/ \E num \in 1..session[u].highest : ReadOpen(u, num)
    PROVE  MessageInv'
<1> DEFINE s == session[u]
           t == session'[u]
           b == bases[Current]
           n == Current
<1>1. Library(bases) /\ Processes
  BY DEF MessageInv
<1>2. session \in [Users -> Session(n)] /\ s \in Session(n)
  BY <1>1 DEF Processes
<1>3. /\ n \in Nat /\ n \in 1..n /\ n \in 0..n /\ 0 \in 0..n /\ Whole(b)
      /\ b.msgs \in Seq(Msg) /\ Len(b.msgs) \in Nat
      /\ n = Len(bases)
  BY <1>1, LibraryIs DEF Current
<1>4. s.num \in Nat /\ s.id \in Nat /\ s.highest \in Nat
  BY <1>2 DEF Session
<1>5. ~emptied => Placed(b)
  BY <1>3 DEF MessageInv, Numbered, Filled
<1>6. ~emptied /\ ~raced => Remembered(s, b, n)
  BY DEF MessageInv, Undisturbed
<1>7. s.st = "panel" => s # Away
  BY DEF Away
<1>8. UNCHANGED <<bases, writer, mbmsg, known, removed, emptied, cut>> /\ raced' \in BOOLEAN
      /\ (~emptied /\ ~raced' => ~raced /\ mbmsg.st # "rename")
  <2>1. raced \in BOOLEAN
    BY <1>1 DEF Processes
  <2>2. CASE SetMsgArea(u)
    BY <2>1, <2>2 DEF SetMsgArea, Races
  <2>3. CASE Leave(u) \/ DeleteOpen(u) \/ \E num \in 1..session[u].highest : ReadOpen(u, num)
    <3>1. UNCHANGED <<bases, writer, mbmsg, known, removed, emptied, raced, cut>> /\ s.st = "panel"
      BY <2>3 DEF Leave, DeleteOpen, ReadOpen
    <3>2. InUse
      BY <1>7, <3>1 DEF InUse
    <3>3. QED
      BY <2>1, <3>1, <3>2, NobodyWaits
  <2>4. QED
    BY <2>2, <2>3
<1>9. \A x : SetSession(u, x) => session' = [session EXCEPT ![u] = t] /\ t = x
  BY <1>2 DEF SetSession
<1>10. CASE SetMsgArea(u)
  <2> DEFINE h == JAM_Highest(b, b.active > 0)
             x == [Away EXCEPT !.st = "panel", !.highest = h]
  <2>1. h \in Nat /\ (Placed(b) => h <= Len(b.msgs))
    <3> DEFINE some == b.active > 0
    <3>1. some \in BOOLEAN
      OBVIOUS
    <3> HIDE DEF some
    <3>2. JAM_Highest(b, some) \in Nat /\ (Placed(b) => JAM_Highest(b, some) <= Len(b.msgs))
      BY <1>3, <3>1, HighestIs
    <3>3. QED
      BY <3>2 DEF some
  <2>2. SetSession(u, x)
    BY <1>10 DEF SetMsgArea
  <2> HIDE DEF h
  <2>3. x \in Session(n) /\ x.st = "panel" /\ x.highest = h /\ x.num = 0
    BY <1>3, <2>1 DEF Away, Session
  <2> HIDE DEF x
  <2>4. session' = [session EXCEPT ![u] = t] /\ t = x
    BY <1>9, <2>2
  <2>5. ~emptied => Remembered(x, b, n)
    BY <1>5, <2>1, <2>3 DEF Remembered
  <2>6. Holds(x, n)
    BY <2>3 DEF Holds
  <2>7. QED
    BY <1>8, <2>3, <2>4, <2>5, <2>6, SessionStep
<1>11. CASE Leave(u)
  <2>1. session' = [session EXCEPT ![u] = t] /\ t = Away
    BY <1>9, <1>11 DEF Leave
  <2>2. Away \in Session(n) /\ Holds(Away, n) /\ Remembered(Away, b, n)
    BY <1>3 DEF Away, Session, Holds, Remembered
  <2>3. QED
    BY <1>8, <2>1, <2>2, SessionStep
<1>12. CASE DeleteOpen(u)
  <2> DEFINE x == [s EXCEPT !.st = "delete", !.gen = n]
  <2>1. SetSession(u, x) /\ s.st = "panel" /\ s.num > 0
    BY <1>12 DEF DeleteOpen
  <2>2. x \in Session(n) /\ x.st = "delete" /\ x.gen = n /\ x.num = s.num /\ x.id = s.id
        /\ x.highest = s.highest
    BY <1>2, <1>3 DEF Session
  <2> HIDE DEF x
  <2>3. session' = [session EXCEPT ![u] = t] /\ t = x
    BY <1>9, <2>1
  <2>4. ~emptied /\ ~raced => Remembered(x, b, n)
    BY <1>6, <1>7, <2>1, <2>2 DEF Remembered
  <2>5. Holds(x, n)
    BY <1>3, <2>2 DEF Holds
  <2>6. QED
    BY <1>8, <2>2, <2>3, <2>4, <2>5, SessionStep
<1>13. ASSUME NEW num \in 1..s.highest, ReadOpen(u, num) PROVE MessageInv'
  <2>1. s.st = "panel" /\ num \in Nat /\ num > 0 /\ num <= s.highest
    <3>1. num \in Nat /\ num > 0 /\ num <= s.highest
      BY <1>4
    <3>2. s.st = "panel"
      BY <1>13 DEF ReadOpen
    <3>3. QED
      BY <3>1, <3>2
  <2>2. \A i : i \in Found(b, num) <=>
              i \in 1..Len(b.msgs) /\ b.msgs[i].num = num /\ b.msgs[i].deleted = FALSE
    BY <1>3, FoundIs
  <2>3. ~emptied /\ ~raced => s.highest <= Len(b.msgs)
    BY <1>6, <1>7, <2>1 DEF Remembered
  <2>4. CASE \E i \in Found(b, num) :
                 SetSession(u, [s EXCEPT !.st = "read", !.gen = n, !.num = num,
                                         !.id = b.msgs[i].id])
    <3>1. PICK i \in Found(b, num) :
                 SetSession(u, [s EXCEPT !.st = "read", !.gen = n, !.num = num,
                                         !.id = b.msgs[i].id])
      BY <2>4
    <3> DEFINE id == b.msgs[i].id
               x == [s EXCEPT !.st = "read", !.gen = n, !.num = num, !.id = id]
    <3>2. i \in 1..Len(b.msgs) /\ b.msgs[i].num = num
      BY <2>2
    <3>3. id \in Nat /\ id # 0
      BY <1>1, <1>3, <3>2, IdsPositive
    <3> HIDE DEF id
    <3>4. x \in Session(n) /\ x.st = "read" /\ x.gen = n /\ x.num = num /\ x.id = id
          /\ x.highest = s.highest
      BY <1>2, <1>3, <2>1, <3>3 DEF Session
    <3>5. SetSession(u, x)
      BY <3>1 DEF id
    <3> HIDE DEF x
    <3>6. session' = [session EXCEPT ![u] = t] /\ t = x
      BY <1>9, <3>5
    <3>7. Placed(b) => i = num
      BY <3>2 DEF Placed
    <3>8. ~emptied /\ ~raced => Remembered(x, b, n)
      BY <1>5, <2>1, <2>3, <3>3, <3>4, <3>7 DEF Remembered, id
    <3>9. Holds(x, n)
      BY <1>3, <3>4 DEF Holds
    <3>10. QED
      BY <1>8, <3>4, <3>6, <3>8, <3>9, SessionStep
  <2>5. CASE Found(b, num) = {} /\ SetSession(u, [s EXCEPT !.num = num, !.id = 0])
    <3> DEFINE x == [s EXCEPT !.num = num, !.id = 0]
    <3>1. x \in Session(n) /\ x.st = "panel" /\ x.num = num /\ x.id = 0 /\ x.highest = s.highest
      BY <1>2, <2>1 DEF Session
    <3> HIDE DEF x
    <3>2. session' = [session EXCEPT ![u] = t] /\ t = x
      BY <1>9, <2>5 DEF x
    <3>3. ASSUME ~emptied, ~raced PROVE b.msgs[num].deleted = TRUE
      <4>1. num \in 1..Len(b.msgs)
        BY <1>3, <1>4, <2>1, <2>3, <3>3
      <4>2. b.msgs[num].num = num
        BY <1>5, <3>3, <4>1 DEF Placed
      <4>3. b.msgs[num].deleted \in BOOLEAN
        BY <1>3, <4>1, Members
      <4>4. QED
        BY <2>2, <2>5, <4>1, <4>2, <4>3
    <3>4. ~emptied /\ ~raced => Remembered(x, b, n)
      BY <2>1, <2>3, <3>1, <3>3 DEF Remembered
    <3>5. Holds(x, n)
      BY <3>1 DEF Holds
    <3>6. QED
      BY <1>8, <3>1, <3>2, <3>4, <3>5, SessionStep
  <2>6. QED
    BY <1>13, <2>4, <2>5 DEF ReadOpen
<1>14. QED
  BY <1>10, <1>11, <1>12, <1>13

-----------------------------------------------------------------------------
(* Steps of mbmsg that leave the messages alone. *)
LEMMA IssuedAll ==
    ASSUME NEW B, Library(B)
    PROVE  Issued(IdsOf(B) \cup {}) /\ \A S : S \cup {} = S
<1>1. IdsOf(B) \cup {} = IdsOf(B)
  OBVIOUS
<1>2. Issued(IdsOf(B))
  BY DEF Issued, Library
<1>3. QED
  BY <1>1, <1>2

(* What sessions remember and pointers cover when the messages stay. *)
LEMMA SameKeeps ==
    ASSUME NEW b, NEW c, c.msgs = b.msgs
    PROVE  /\ \A s, n : Remembered(s, b, n) => Remembered(s, c, n)
           /\ \A h, ids : Covered(h, b, ids) => Covered(h, c, ids)
BY DEF Remembered, Covered

(* mbmsg goes on, and has moved pointers in the base of the names at most. *)
LEMMA MbmsgStep ==
    ASSUME MessageInv, NEW c, Whole(c), c.msgs = bases[Current].msgs,
           c.active = bases[Current].active, Ids(c) = Ids(bases[Current]),
           LiveIds(c) = LiveIds(bases[Current]),
           bases' = [bases EXCEPT ![Current] = c], Tended(mbmsg', bases),
           ~emptied /\ mbmsg'.st = "rename" => Filled(mbmsg'.base[1]),
           raced' \in BOOLEAN, cut' \in BOOLEAN,
           UNCHANGED <<writer, session, known, removed, emptied>>,
           ~emptied /\ ~raced' => ~raced /\ Waiting(mbmsg', bases[Current]),
           ~emptied /\ ~raced' /\ ~cut' => Pointed(Awaited(mbmsg', c), known)
    PROVE  MessageInv'
<1> DEFINE n == Current
           b == bases[n]
<1>1. Library(bases) /\ Processes
  BY DEF MessageInv
<1>2. n = Len(bases) /\ n \in Nat /\ n \in 1..n
  BY <1>1, LibraryIs DEF Current
<1>3. /\ Library(bases') /\ Len(bases') = n /\ bases'[n] = c
      /\ \A h \in 1..n : h # n => bases'[h] = bases[h]
      /\ IdsOf(bases') = IdsOf(bases)
  <2>1. Issued(IdsOf(bases) \cup {}) /\ \A S : S \cup {} = S
    BY <1>1, IssuedAll
  <2>2. n \in 1..Len(bases) /\ Ids(c) = Ids(bases[n]) \cup {}
    BY <1>2, <2>1
  <2>3. Replaced(bases, [bases EXCEPT ![n] = c], n, c, {})
    BY <1>1, <2>1, <2>2, Rewritten
  <2>4. Replaced(bases, bases', n, c, {})
    BY <2>3
  <2>5. QED
    BY <1>2, <2>1, <2>4 DEF Replaced
<1>4. Current' = n
  BY <1>3 DEF Current
<1>5. Tended(mbmsg', bases')
  BY <1>2, <1>3 DEF Tended
<1> HIDE DEF n
<1>6. Processes'
  BY <1>1, <1>3, <1>4, <1>5 DEF Processes, n
<1>7. ASSUME ~emptied' PROVE Numbered'
  <2>1. Numbered
    BY <1>7 DEF MessageInv
  <2>2. Filled(c)
    BY <1>2, <2>1 DEF Numbered, Filled, Placed, n
  <2>3. \A h \in 1..n : Filled(bases'[h])
    BY <1>3, <2>1, <2>2 DEF Numbered, n
  <2>4. QED
    BY <1>4, <1>7, <2>1, <2>3 DEF Numbered
<1>8. ASSUME ~emptied', ~raced' PROVE Undisturbed'
  <2>1. Undisturbed /\ Waiting(mbmsg', b)
    BY <1>8 DEF MessageInv, n
  <2>2. \A w \in Writers : writer'[w] # Closed => writer'[w].gen = n
    BY <2>1 DEF Undisturbed, n
  <2>3. \A u \in Users : Remembered(session'[u], c, n)
    <3>1. \A u \in Users : Remembered(session[u], b, n)
      BY <2>1 DEF Undisturbed, n
    <3>2. c.msgs = b.msgs
      BY DEF n
    <3> HIDE DEF b
    <3>3. QED
      BY <3>1, <3>2, SameKeeps
  <2>4. Gathered(bases', removed')
    <3>1. \A h \in 1..n : Ids(bases[h]) \subseteq LiveIds(b) \cup removed
      BY <1>2, <2>1 DEF Undisturbed, Gathered, n
    <3>2. \A h \in 1..n : Ids(bases'[h]) = Ids(bases[h])
      BY <1>3 DEF n
    <3>3. LiveIds(bases'[n]) = LiveIds(b)
      BY <1>3 DEF n
    <3>4. QED
      BY <1>3, <3>1, <3>2, <3>3 DEF Gathered
  <2>5. Waiting(mbmsg, bases[Current])'
    <3>1. LiveIds(bases'[n]) = LiveIds(b) /\ (InUse <=> InUse')
      BY <1>3 DEF n, InUse
    <3>2. QED
      BY <1>4, <2>1, <3>1 DEF Waiting
  <2>6. QED
    BY <1>3, <1>4, <2>2, <2>3, <2>4, <2>5 DEF Undisturbed
<1>9. ASSUME ~emptied', ~raced', ~cut' PROVE Pointed(Awaited(mbmsg, bases[Current]), known)'
  BY <1>3, <1>4, <1>9 DEF n
<1>10. QED
  BY <1>3, <1>6, <1>7, <1>8, <1>9 DEF MessageInv

(* mbmsg goes on and leaves the bases alone. *)
LEMMA MbmsgQuiet ==
    ASSUME MessageInv, Tended(mbmsg', bases), mbmsg'.st # "rename",
           UNCHANGED <<bases, writer, session, known, removed, emptied, raced>>,
           cut' = (cut \/ mbmsg.st = "rename")
    PROVE  MessageInv'
<1> DEFINE c == bases[Current]
<1>1. Library(bases) /\ Processes
  BY DEF MessageInv
<1>2. bases \in Seq(Base) /\ Current \in 1..Len(bases) /\ Whole(c)
  BY <1>1, LibraryIs DEF Current
<1>3. bases' = [bases EXCEPT ![Current] = c]
  BY <1>2
<1>4. raced' \in BOOLEAN /\ raced' = raced /\ cut' \in BOOLEAN
  BY <1>1 DEF Processes
<1>5. Waiting(mbmsg', c)
  BY DEF Waiting
<1>6. ASSUME ~emptied, ~raced', ~cut' PROVE Pointed(Awaited(mbmsg', c), known)
  <2>1. Pointed(c, known)
    BY <1>6, PointedNow
  <2>2. QED
    BY <2>1 DEF Awaited
<1>7. /\ ~emptied /\ ~raced' => ~raced /\ Waiting(mbmsg', bases[Current])
      /\ ~emptied /\ ~raced' /\ ~cut' => Pointed(Awaited(mbmsg', c), known)
  BY <1>4, <1>5, <1>6
<1>8. c.msgs = bases[Current].msgs /\ c.active = bases[Current].active
      /\ Ids(c) = Ids(bases[Current]) /\ LiveIds(c) = LiveIds(bases[Current])
  OBVIOUS
<1> HIDE DEF c
<1>9. QED
  BY <1>2, <1>3, <1>4, <1>7, <1>8, MbmsgStep

LEMMA MbmsgSteps ==
    ASSUME MessageInv, MbmsgStart \/ PackOpen \/ PackFails
    PROVE  MessageInv'
<1>1. Library(bases) /\ Processes
  BY DEF MessageInv
<1>2. UNCHANGED <<bases, writer, session, known, removed, emptied, raced, cut>>
      /\ mbmsg.st # "rename"
  BY DEF MbmsgStart, PackOpen, PackFails
<1>3. Opened.gen = Len(bases) /\ Opened.some \in BOOLEAN
  BY <1>1, OpenedFile DEF Current, File
<1>4. \/ mbmsg' = Maintenance("kill", Opened, <<>>) \/ mbmsg' = Maintenance("pack", Opened, <<>>)
      \/ mbmsg' = Maintenance("open", Closed, <<>>) \/ mbmsg' = Rest
  BY DEF MbmsgStart, PackOpen, PackFails
<1>5. /\ mbmsg'.st \in {"rest", "kill", "open", "pack"}
      /\ mbmsg'.st \in {"kill", "pack"} => mbmsg'.file = Opened
  BY <1>4 DEF Maintenance, Rest
<1>6. Tended(mbmsg', bases) /\ mbmsg'.st # "rename"
  BY <1>3, <1>5 DEF Tended
<1>7. cut' = (cut \/ mbmsg.st = "rename")
  BY <1>1, <1>2 DEF Processes
<1>8. QED
  BY <1>2, <1>6, <1>7, MbmsgQuiet

LEMMA PackAreaStep ==
    ASSUME MessageInv, PackArea
    PROVE  MessageInv'
<1> DEFINE b == bases[Current]
           d == MovedTo(b, Len(b.msgs))
           c == JAM_Pack(b)
<1>1. Library(bases) /\ Processes
  BY DEF MessageInv
<1>2. mbmsg.file.gen = Current /\ mbmsg.st = "pack"
  BY <1>1 DEF PackArea, Processes, Tended, Current
<1>3. /\ bases' = [bases EXCEPT ![Current] = d] /\ mbmsg' = Maintenance("rename", Closed, <<c>>)
      /\ raced' = (raced \/ InUse) /\ UNCHANGED <<writer, session, known, removed, emptied, cut>>
  BY <1>2 DEF PackArea
<1>4. Current \in 1..Current /\ Whole(b) /\ b.msgs \in Seq(Msg) /\ bases \in Seq(Base)
      /\ Len(b.msgs) \in 0..Len(b.msgs)
  BY <1>1, LibraryIs DEF Current
<1> HIDE DEF b
<1>5. /\ Whole(d) /\ d.msgs = b.msgs /\ d.active = b.active
      /\ Ids(d) = Ids(b) /\ LiveIds(d) = LiveIds(b)
  BY <1>4, MoveBase
<1>6. /\ Whole(c) /\ Placed(c) /\ Ids(c) = LiveIds(b) /\ LiveIds(c) = LiveIds(b)
      /\ (b.active > 0 => c.active > 0)
      /\ Placed(b) => \A u \in Users, ids \in SUBSET Nat :
            Covered(b.high[u], b, ids) => Covered(c.high[u], c, ids)
  BY <1>4, PackBase
<1> HIDE DEF c, d
<1>7. mbmsg'.st = "rename" /\ mbmsg'.base = <<c>> /\ mbmsg'.base[1] = c
  BY <1>3 DEF Maintenance
<1>8. LiveIds(b) \subseteq Ids(b)
  <2>1. /\ \A x : x \in Ids(b) <=> \E i \in 1..Len(b.msgs) : x = b.msgs[i].id
        /\ \A x : x \in LiveIds(b) <=>
              \E i \in 1..Len(b.msgs) : x = b.msgs[i].id /\ b.msgs[i].deleted = FALSE
    BY <1>4, Members
  <2>2. QED
    BY <2>1
<1>9. Ids(b) \subseteq IdsOf(bases)
  BY <1>4, IdsOfIs DEF Current, b
<1>10. Tended(mbmsg', bases)
  BY <1>6, <1>7, <1>8, <1>9 DEF Tended
<1>11. ASSUME ~emptied PROVE Filled(b) /\ Filled(mbmsg'.base[1])
  <2>1. Filled(b)
    BY <1>4, <1>11 DEF MessageInv, Numbered, b
  <2>2. QED
    BY <1>6, <1>7, <2>1 DEF Filled
<1>12. raced' \in BOOLEAN /\ cut' \in BOOLEAN /\ cut' = cut /\ (~raced' => ~raced /\ ~InUse)
  BY <1>1, <1>3 DEF Processes
<1>13. ~emptied /\ ~raced' => ~raced /\ Waiting(mbmsg', b)
  BY <1>6, <1>7, <1>12 DEF Waiting
<1>14. ASSUME ~emptied, ~raced', ~cut' PROVE Pointed(Awaited(mbmsg', d), known)
  <2>1. Pointed(b, known)
    BY <1>2, <1>12, <1>14, PointedNow DEF b
  <2>2. \A v \in Users : known[v] \in SUBSET Nat
    <3>1. IdsOf(bases) \subseteq Nat
      BY <1>1 DEF Library
    <3>2. known \in [Users -> SUBSET IdsOf(bases)]
      BY <1>1 DEF Processes
    <3>3. QED
      BY <3>1, <3>2
  <2>3. Placed(b)
    BY <1>11, <1>14 DEF Filled
  <2>4. \A v \in Users : Covered(c.high[v], c, known[v])
    BY <1>6, <2>1, <2>2, <2>3 DEF Pointed
  <2>5. Awaited(mbmsg', d) = c
    BY <1>7 DEF Awaited
  <2>6. QED
    BY <2>4, <2>5 DEF Pointed
<1>15. QED
  BY <1>3, <1>5, <1>10, <1>11, <1>12, <1>13, <1>14, MbmsgStep DEF b

LEMMA MbmsgDiesStep ==
    ASSUME MessageInv, MbmsgDies
    PROVE  MessageInv'
<1>1. Library(bases) /\ Processes /\ Tended(mbmsg, bases)
  BY DEF MessageInv, Processes
<1>2. mbmsg'.st = "rest" /\ Tended(mbmsg', bases)
  BY DEF MbmsgDies, Rest, Maintenance, Tended
<1>3. CASE mbmsg.st # "pack"
  <2>1. UNCHANGED <<bases, writer, session, known, removed, emptied, raced>>
        /\ cut' = (cut \/ mbmsg.st = "rename")
    BY <1>3 DEF MbmsgDies
  <2>2. QED
    BY <1>2, <2>1, MbmsgQuiet
<1>4. CASE mbmsg.st = "pack"
  <2> DEFINE b == bases[Current]
  <2>1. mbmsg.file.gen = Current
    BY <1>1, <1>4 DEF Tended, Current
  <2>2. /\ UNCHANGED <<writer, session, known, removed, emptied, raced>>
        /\ cut' = (cut \/ bases' # bases)
    BY <1>4 DEF MbmsgDies
  <2>3. PICK i \in 0..Len(b.msgs) : bases' = [bases EXCEPT ![Current] = MovedTo(b, i)]
    BY <1>4, <2>1 DEF MbmsgDies
  <2> DEFINE c == MovedTo(b, i)
  <2>4. Current \in 1..Len(bases) /\ Whole(b) /\ bases \in Seq(Base)
    BY <1>1, LibraryIs DEF Current
  <2>5. bases' = [bases EXCEPT ![Current] = c]
    BY <2>3
  <2> HIDE DEF b
  <2>6. /\ Whole(c) /\ c.msgs = b.msgs /\ c.active = b.active
        /\ Ids(c) = Ids(b) /\ LiveIds(c) = LiveIds(b)
    BY <2>3, <2>4, MoveBase
  <2> HIDE DEF c
  <2>7. raced' \in BOOLEAN /\ raced' = raced /\ cut' \in BOOLEAN /\ (~cut' => ~cut /\ bases' = bases)
    BY <1>1, <2>2 DEF Processes
  <2>8. Waiting(mbmsg', b)
    BY <1>2 DEF Waiting
  <2>9. ASSUME ~emptied, ~raced', ~cut' PROVE Pointed(Awaited(mbmsg', c), known)
    <3>1. Pointed(b, known)
      BY <1>4, <2>7, <2>9, PointedNow DEF b
    <3>2. c = b
      <4>1. bases'[Current] = c
        BY <2>4, <2>5
      <4>2. QED
        BY <2>7, <2>9, <4>1 DEF b
    <3>3. QED
      BY <1>2, <3>1, <3>2 DEF Awaited
  <2>10. /\ ~emptied /\ ~raced' => ~raced /\ Waiting(mbmsg', bases[Current])
         /\ ~emptied /\ ~raced' /\ ~cut' => Pointed(Awaited(mbmsg', c), known)
    BY <2>7, <2>8, <2>9 DEF b
  <2>11. c.msgs = bases[Current].msgs /\ c.active = bases[Current].active
         /\ Ids(c) = Ids(bases[Current]) /\ LiveIds(c) = LiveIds(bases[Current])
    BY <2>6 DEF b
  <2>12. raced' \in BOOLEAN /\ cut' \in BOOLEAN /\ mbmsg'.st # "rename"
         /\ UNCHANGED <<writer, session, known, removed, emptied>>
    BY <1>2, <2>2, <2>7
  <2>13. QED
    BY <1>2, <2>5, <2>6, <2>10, <2>11, <2>12, MbmsgStep
<1>5. QED
  BY <1>3, <1>4

-----------------------------------------------------------------------------
(* Steps that rewrite one base. *)
LEMMA BaseStep ==
    ASSUME MessageInv, NEW g \in 1..Current, NEW c, Whole(c),
           NEW X, Ids(c) = Ids(bases[g]) \cup X, Issued(IdsOf(bases) \cup X),
           bases' = [bases EXCEPT ![g] = c],
           writer' \in [Writers -> File(Current) \cup {Closed}],
           \A w \in Writers : writer'[w] # Closed => writer'[w] = writer[w],
           session' \in [Users -> Session(Current)], \A u \in Users : Holds(session'[u], Current),
           Tended(mbmsg', bases), mbmsg'.st = "rename" => mbmsg' = mbmsg,
           known' \in [Users -> SUBSET (IdsOf(bases) \cup X)],
           emptied' \in BOOLEAN, ~emptied' => ~emptied /\ Filled(c), raced' = raced, cut' = cut,
           ~emptied' /\ ~raced =>
              /\ g = Current /\ mbmsg'.st # "rename"
              /\ \A u \in Users : Remembered(session'[u], c, Current)
              /\ LiveIds(bases[Current]) \cup removed \subseteq LiveIds(c) \cup removed'
              /\ X \subseteq LiveIds(c),
           ~emptied' /\ ~raced /\ ~cut => Pointed(c, known')
    PROVE  MessageInv'
<1> DEFINE n == Current
<1>1. Library(bases) /\ Processes
  BY DEF MessageInv
<1>2. n = Len(bases) /\ n \in Nat /\ n \in 1..n
  BY <1>1, LibraryIs DEF Current
<1>3. /\ Library(bases') /\ Len(bases') = n /\ bases'[g] = c
      /\ \A h \in 1..n : h # g => bases'[h] = bases[h]
      /\ IdsOf(bases') = IdsOf(bases) \cup X
  <2>1. g \in 1..Len(bases)
    BY <1>2
  <2>2. Replaced(bases, [bases EXCEPT ![g] = c], g, c, X)
    BY <1>1, <2>1, Rewritten
  <2>3. Replaced(bases, bases', g, c, X)
    BY <2>2
  <2>4. QED
    BY <1>2, <2>3 DEF Replaced
<1>4. Current' = n
  BY <1>3 DEF Current
<1>5. Tended(mbmsg', bases')
  BY <1>2, <1>3 DEF Tended
<1>6. raced' \in BOOLEAN /\ cut' \in BOOLEAN
  BY <1>1 DEF Processes
<1> HIDE DEF n
<1>7. Processes'
  BY <1>3, <1>4, <1>5, <1>6 DEF Processes, n
<1>8. ASSUME ~emptied' PROVE Numbered'
  <2>1. Numbered /\ Filled(c)
    BY <1>8 DEF MessageInv
  <2>2. \A h \in 1..n : Filled(bases'[h])
    BY <1>3, <2>1 DEF Numbered, n
  <2>3. \A w \in Writers : writer'[w] # Closed => writer'[w].some = TRUE
    BY <2>1 DEF Numbered
  <2>4. mbmsg'.st = "rename" => Filled(mbmsg'.base[1])
    BY <2>1 DEF Numbered
  <2>5. QED
    BY <1>4, <2>2, <2>3, <2>4 DEF Numbered
<1>9. ASSUME ~emptied', ~raced' PROVE Undisturbed'
  <2>1. Undisturbed /\ ~raced
    BY <1>9 DEF MessageInv
  <2>2. /\ g = n /\ bases'[n] = c /\ mbmsg'.st # "rename"
        /\ \A u \in Users : Remembered(session'[u], c, n)
        /\ LiveIds(bases[n]) \cup removed \subseteq LiveIds(c) \cup removed'
        /\ X \subseteq LiveIds(c)
    BY <1>3, <1>9, <2>1 DEF n
  <2>3. \A w \in Writers : writer'[w] # Closed => writer'[w].gen = n
    BY <2>1 DEF Undisturbed, n
  <2>4. \A h \in 1..n : Ids(bases[h]) \subseteq LiveIds(bases[n]) \cup removed
    BY <1>2, <2>1 DEF Undisturbed, Gathered, n
  <2>5. ASSUME NEW h \in 1..n PROVE Ids(bases'[h]) \subseteq LiveIds(c) \cup removed'
    <3>1. CASE h = n
      BY <2>2, <2>4, <3>1
    <3>2. CASE h # n
      BY <1>3, <2>2, <2>4, <3>2
    <3>3. QED
      BY <3>1, <3>2
  <2>6. Gathered(bases', removed')
    BY <1>3, <2>2, <2>5 DEF Gathered
  <2>7. QED
    BY <1>4, <2>2, <2>3, <2>6 DEF Undisturbed, Waiting
<1>10. ASSUME ~emptied', ~raced', ~cut' PROVE Pointed(Awaited(mbmsg, bases[Current]), known)'
  <2>1. Pointed(c, known') /\ mbmsg'.st # "rename" /\ bases'[n] = c
    BY <1>3, <1>10 DEF n
  <2>2. QED
    BY <1>4, <2>1 DEF Awaited
<1>11. QED
  BY <1>3, <1>7, <1>8, <1>9, <1>10 DEF MessageInv

(* What sessions remember and pointers cover when a message is added. *)
LEMMA ExtendedKeeps ==
    ASSUME NEW b, NEW c, NEW id, Len(b.msgs) \in Nat, Extended(b, c, id)
    PROVE  /\ \A s, n : s.num \in Nat /\ s.highest \in Nat /\ Remembered(s, b, n) => Remembered(s, c, n)
           /\ \A h, ids : id \notin ids /\ Covered(h, b, ids) => Covered(h, c, ids)
<1> DEFINE l == Len(b.msgs)
<1>1. /\ Len(c.msgs) = l + 1 /\ c.msgs[l + 1].id = id
      /\ \A i \in 1..l : c.msgs[i] = b.msgs[i]
  BY DEF Extended
<1>2. ASSUME NEW s, NEW n, s.num \in Nat, s.highest \in Nat, Remembered(s, b, n)
      PROVE  Remembered(s, c, n)
  <2> SUFFICES ASSUME s # Away PROVE Remembered(s, c, n)
    BY DEF Remembered
  <2>1. s.highest <= l /\ s.num <= s.highest
    BY <1>2 DEF Remembered
  <2>2. s.num > 0 => s.num \in 1..l
    BY <1>2, <2>1
  <2>3. s.highest <= l + 1
    BY <1>2, <2>1
  <2>4. QED
    BY <1>1, <1>2, <2>2, <2>3 DEF Remembered
<1>3. ASSUME NEW h, NEW ids, id \notin ids, Covered(h, b, ids)
      PROVE  Covered(h, c, ids)
  <2> SUFFICES ASSUME h # Never PROVE Covered(h, c, ids)
    BY DEF Covered
  <2>1. h \in 0..l /\ \A i \in 1..l : i <= h <=> b.msgs[i].id \in ids
    BY <1>3 DEF Covered
  <2> HIDE DEF l
  <2>2. l \in Nat
    BY DEF l
  <2>3. h \in 0..l + 1 /\ ~(l + 1 <= h) /\ \A i \in 1..l + 1 : i \in 1..l \/ i = l + 1
    BY <2>1, <2>2
  <2>4. ASSUME NEW i \in 1..l + 1 PROVE i <= h <=> c.msgs[i].id \in ids
    <3>1. CASE i \in 1..l
      BY <1>1, <2>1, <3>1
    <3>2. CASE i = l + 1
      BY <1>1, <1>3, <2>3, <3>2
    <3>3. QED
      BY <2>3, <3>1, <3>2
  <2>5. QED
    BY <1>1, <2>3, <2>4 DEF Covered
<1>4. QED
  BY <1>2, <1>3

LEMMA PostAddStep ==
    ASSUME MessageInv, NEW w \in Writers, PostAdd(w)
    PROVE  MessageInv'
<1> DEFINE g == writer[w].gen
           some == writer[w].some
           id == Posted + 1
           b == bases[g]
           c == JAM_AddMsg(b, some, id)
<1>1. Library(bases) /\ Processes
  BY DEF MessageInv
<1>2. /\ writer \in [Writers -> File(Current) \cup {Closed}]
      /\ session \in [Users -> Session(Current)] /\ \A u \in Users : Holds(session[u], Current)
      /\ Tended(mbmsg, bases) /\ known \in [Users -> SUBSET IdsOf(bases)]
      /\ emptied \in BOOLEAN
  BY <1>1 DEF Processes
<1>3. /\ writer[w] # Closed /\ bases' = [bases EXCEPT ![g] = c]
      /\ writer' = [writer EXCEPT ![w] = Closed]
      /\ UNCHANGED <<session, mbmsg, known, removed, emptied, raced, cut>>
  BY DEF PostAdd
<1>4. g \in 1..Current /\ some \in BOOLEAN
  BY <1>2, <1>3 DEF File
<1>5. Posted = Cardinality(IdsOf(bases)) /\ Posted \in Nat /\ IdsOf(bases) = 1..Posted
  BY <1>1 DEF Posted, IdsOf, Library
<1>6. id \in Nat /\ id \notin IdsOf(bases) /\ Issued(IdsOf(bases) \cup {id})
  <2>1. id \in Nat /\ \A x : x \in 1..id <=> x \in 1..Posted \/ x = id
    BY <1>5
  <2>2. id \notin 1..Posted
    BY <1>5
  <2> HIDE DEF id
  <2>3. IdsOf(bases) \cup {id} = 1..id
    BY <1>5, <2>1
  <2>4. QED
    BY <1>5, <2>1, <2>2, <2>3 DEF Issued
<1>7. /\ bases \in Seq(Base) /\ Whole(b) /\ Len(b.msgs) \in Nat /\ g \in 1..Len(bases)
  BY <1>1, <1>4, LibraryIs DEF Current
<1>8. id \notin Ids(b)
  BY <1>6, <1>7, IdsOfIs
<1> HIDE DEF id, some, g, b
<1>9. /\ Whole(c) /\ Extended(b, c, id) /\ Ids(c) = Ids(b) \cup {id}
      /\ LiveIds(c) = LiveIds(b) \cup {id} /\ c.active > 0
      /\ some /\ Placed(b) => Placed(c)
  BY <1>4, <1>6, <1>7, <1>8, AddBase
<1> HIDE DEF c
<1>10. /\ writer' \in [Writers -> File(Current) \cup {Closed}]
       /\ \A v \in Writers : writer'[v] # Closed => writer'[v] = writer[v]
  BY <1>2, <1>3
<1>11. known' \in [Users -> SUBSET (IdsOf(bases) \cup {id})]
  BY <1>2, <1>3
<1>12. ASSUME ~emptied' PROVE ~emptied /\ Filled(c)
  <2>1. Numbered /\ ~emptied
    BY <1>3, <1>12 DEF MessageInv
  <2>2. Filled(b) /\ some = TRUE
    BY <1>3, <1>4, <2>1 DEF Numbered, b, some
  <2>3. QED
    BY <1>9, <2>1, <2>2 DEF Filled
<1>13. ASSUME ~emptied', ~raced
       PROVE  /\ g = Current /\ mbmsg'.st # "rename"
              /\ \A u \in Users : Remembered(session'[u], c, Current)
              /\ LiveIds(bases[Current]) \cup removed \subseteq LiveIds(c) \cup removed'
              /\ {id} \subseteq LiveIds(c)
  <2>1. Undisturbed
    BY <1>3, <1>13 DEF MessageInv
  <2>2. g = Current /\ b = bases[Current]
    BY <1>3, <2>1 DEF Undisturbed, g, b
  <2>3. \A u \in Users : Remembered(session'[u], c, Current)
    <3>1. \A u \in Users : Remembered(session[u], b, Current)
      BY <2>1, <2>2 DEF Undisturbed
    <3>2. \A u \in Users : session[u].num \in Nat /\ session[u].highest \in Nat
      BY <1>2 DEF Session
    <3>3. QED
      BY <1>3, <1>7, <1>9, <3>1, <3>2, ExtendedKeeps
  <2>4. mbmsg'.st # "rename"
    <3>1. InUse /\ ~emptied
      BY <1>3, <1>13 DEF InUse
    <3>2. QED
      BY <1>3, <1>13, <3>1, NobodyWaits
  <2>5. QED
    BY <1>3, <1>9, <2>2, <2>3, <2>4
<1>14. ASSUME ~emptied', ~raced, ~cut PROVE Pointed(c, known')
  <2>1. g = Current /\ b = bases[Current] /\ mbmsg.st # "rename"
    BY <1>3, <1>13, <1>14 DEF b
  <2>2. Pointed(b, known)
    BY <1>3, <1>14, <2>1, PointedNow
  <2>3. \A u \in Users : Covered(b.high[u], b, known[u])
    BY <2>2 DEF Pointed
  <2>4. \A u \in Users : id \notin known[u]
    BY <1>2, <1>6
  <2>5. c.high = b.high
    BY <1>9 DEF Extended
  <2>6. \A u \in Users : Covered(b.high[u], c, known[u])
    BY <1>7, <1>9, <2>3, <2>4, ExtendedKeeps
  <2>7. QED
    BY <1>3, <2>5, <2>6 DEF Pointed
<1>15. /\ Ids(c) = Ids(bases[g]) \cup {id} /\ session' \in [Users -> Session(Current)]
       /\ \A u \in Users : Holds(session'[u], Current) /\ cut' = cut
       /\ Tended(mbmsg', bases) /\ mbmsg' = mbmsg /\ emptied' \in BOOLEAN /\ raced' = raced
  BY <1>2, <1>3, <1>9 DEF b
<1>16. QED
  BY <1>3, <1>4, <1>6, <1>9, <1>10, <1>11, <1>12, <1>13, <1>14, <1>15, BaseStep

(* A session is back at the panel. *)
LEMMA BackAtPanel ==
    ASSUME NEW n \in Nat, NEW s \in Session(n), s.st \in {"read", "delete"}
    PROVE  LET t == [s EXCEPT !.st = "panel", !.gen = 0] IN
           /\ t \in Session(n) /\ Holds(t, n)
           /\ \A b : Remembered(s, b, n) => Remembered(t, b, n)
<1> DEFINE t == [s EXCEPT !.st = "panel", !.gen = 0]
<1>1. t \in Session(n) /\ t.st = "panel" /\ t.num = s.num /\ t.id = s.id /\ t.highest = s.highest
  <2>1. 0 \in 0..n
    OBVIOUS
  <2>2. QED
    BY <2>1 DEF Session
<1>2. s # Away
  BY DEF Away
<1> HIDE DEF t
<1>3. Holds(t, n)
  BY <1>1 DEF Holds
<1>4. ASSUME NEW b, Remembered(s, b, n) PROVE Remembered(t, b, n)
  BY <1>1, <1>2, <1>4 DEF Remembered
<1>5. QED
  BY <1>1, <1>3, <1>4 DEF t

(* The messages u's pointer covers. *)
CoveredIds(c, u) == {m.id : m \in {n \in ToSet(c.msgs) : n.num <= c.high[u]}}

(* The user's own pointer after Read_a_Msg. *)
LEMMA PointerSet ==
    ASSUME NEW b, Whole(b), Placed(b), NEW u \in Users, NEW ids, Covered(b.high[u], b, ids),
           NEW num \in Nat, NEW highest \in Nat, num > 0, num <= highest, highest <= Len(b.msgs)
    PROVE  LET c == JAM_SetLastRead(b, u, num, highest) IN
           Covered(c.high[u], c, CoveredIds(c, u))
<1> DEFINE c == JAM_SetLastRead(b, u, num, highest)
           h == c.high[u]
           new == CoveredIds(c, u)
           l == Len(b.msgs)
<1>1. /\ c.msgs = b.msgs
      /\ h = IF b.high[u] = Never THEN num ELSE Least(Greatest(b.high[u], num), highest)
  <2>1. Marked(b, c, u)
        /\ h = IF b.high[u] = Never THEN num ELSE Least(Greatest(b.high[u], num), highest)
    BY MarkBase, Zenon
  <2> HIDE DEF c, h
  <2>2. QED
    BY <2>1 DEF Marked
<1>2. b.msgs \in Seq(Msg) /\ l \in Nat /\ Distinct(b.msgs) /\ DOMAIN b.msgs = 1..l
  BY LenProperties DEF Whole, Base
<1> HIDE DEF c, h, l
<1>3. h \in 0..l
  <2>1. highest <= l
    BY DEF l
  <2>2. CASE b.high[u] = Never
    BY <1>1, <1>2, <2>1, <2>2
  <2>3. CASE b.high[u] # Never
    <3>1. b.high[u] \in 0..l
      BY <2>3 DEF Covered, l
    <3>2. QED
      BY <1>1, <1>2, <2>1, <2>3, <3>1 DEF Least, Greatest
  <2>4. QED
    BY <2>2, <2>3
<1>4. \A i \in 1..l : b.msgs[i].num = i
  BY DEF Placed, l
<1>5. \A i, j \in 1..l : b.msgs[i].id = b.msgs[j].id => i = j
  BY <1>2 DEF Distinct, l
<1>6. \A x : x \in new <=> \E j \in 1..l : x = b.msgs[j].id /\ b.msgs[j].num <= h
  <2>1. ToSet(c.msgs) = {b.msgs[j] : j \in 1..l}
    BY <1>1, <1>2 DEF ToSet
  <2>2. new = {m.id : m \in {n \in ToSet(c.msgs) : n.num <= h}}
    BY DEF CoveredIds, h
  <2>3. QED
    BY <2>1, <2>2
<1> HIDE DEF new
<1>7. ASSUME NEW i \in 1..l PROVE i <= h <=> b.msgs[i].id \in new
  BY <1>4, <1>5, <1>6
<1>8. Covered(h, c, new)
  BY <1>1, <1>3, <1>7 DEF Covered, l
<1>9. QED
  BY <1>8 DEF new, h, c

LEMMA ReadMarkStep ==
    ASSUME MessageInv, NEW u \in Users, ReadMark(u)
    PROVE  MessageInv'
<1> DEFINE s == session[u]
           t == [s EXCEPT !.st = "panel", !.gen = 0]
           g == s.gen
           b == bases[g]
           c == JAM_SetLastRead(b, u, s.num, s.highest)
           new == CoveredIds(c, u)
<1>1. Library(bases) /\ Processes
  BY DEF MessageInv
<1>2. /\ writer \in [Writers -> File(Current) \cup {Closed}]
      /\ session \in [Users -> Session(Current)] /\ \A v \in Users : Holds(session[v], Current)
      /\ Tended(mbmsg, bases) /\ known \in [Users -> SUBSET IdsOf(bases)]
      /\ emptied \in BOOLEAN
  BY <1>1 DEF Processes
<1>3. /\ s.st = "read" /\ session' = [session EXCEPT ![u] = t]
      /\ \/ bases' = [bases EXCEPT ![g] = c] /\ known' = [known EXCEPT ![u] = new]
         \/ UNCHANGED <<bases, known>>
      /\ UNCHANGED <<writer, mbmsg, removed, emptied, raced, cut>>
  BY DEF ReadMark, SetSession, CoveredIds
<1>4. s \in Session(Current) /\ Current \in Nat /\ Current \in 1..Current /\ Current = Len(bases)
  BY <1>1, <1>2, LibraryIs DEF Current
<1>5. g \in 1..Current /\ s.num \in Nat /\ s.highest \in Nat
  BY <1>2, <1>3, <1>4 DEF Holds, Session
<1>6. t \in Session(Current) /\ Holds(t, Current)
      /\ \A a : Remembered(s, a, Current) => Remembered(t, a, Current)
  BY <1>3, <1>4, BackAtPanel
<1> HIDE DEF t, c
<1>7. session'[u] = t /\ session' \in [Users -> Session(Current)]
      /\ \A v \in Users : v # u => session'[v] = session[v]
  BY <1>2, <1>3, <1>6
<1>8. CASE UNCHANGED <<bases, known>>
  <2>1. ASSUME ~emptied, ~raced
        PROVE  mbmsg.st # "rename" /\ Remembered(t, bases[Current], Current)
    <3>1. InUse
      BY <1>3 DEF InUse, Away
    <3>2. QED
      BY <1>6, <2>1, <3>1, NobodyWaits DEF MessageInv, Undisturbed
  <2>2. raced' = raced /\ raced' \in BOOLEAN
    BY <1>1, <1>3 DEF Processes
  <2>3. ~emptied /\ ~raced' => /\ ~raced /\ mbmsg.st # "rename"
                               /\ Remembered(session'[u], bases[Current], Current)
    BY <1>7, <2>1, <2>2
  <2>4. /\ session' = [session EXCEPT ![u] = session'[u]] /\ session'[u] \in Session(Current)
        /\ Holds(session'[u], Current)
        /\ UNCHANGED <<bases, writer, mbmsg, known, removed, emptied, cut>>
    BY <1>3, <1>6, <1>7, <1>8
  <2>5. QED
    BY <2>2, <2>3, <2>4, SessionStep
<1>9. CASE bases' = [bases EXCEPT ![g] = c] /\ known' = [known EXCEPT ![u] = new]
  <2>1. Whole(b) /\ b.msgs \in Seq(Msg) /\ bases \in Seq(Base) /\ g \in 1..Len(bases)
    BY <1>1, <1>4, <1>5, LibraryIs
  <2>2. /\ Whole(c) /\ c.msgs = b.msgs /\ c.active = b.active
        /\ Ids(c) = Ids(b) /\ LiveIds(c) = LiveIds(b) /\ (Placed(b) => Placed(c))
        /\ \A v \in Users : v # u => c.high[v] = b.high[v]
    <3>1. Marked(b, c, u)
      <4> HIDE DEF b, s
      <4>1. QED
        BY <1>5, <2>1, MarkBase DEF c
    <3>2. QED
      BY <3>1 DEF Marked
  <2>3. new \subseteq IdsOf(bases)
    <3>1. new \subseteq Ids(b)
      BY <2>2 DEF Ids, CoveredIds
    <3>2. Ids(b) \subseteq IdsOf(bases)
      BY <2>1, IdsOfIs
    <3>3. QED
      BY <3>1, <3>2
  <2> HIDE DEF new
  <2>4. known' \in [Users -> SUBSET IdsOf(bases)] /\ known'[u] = new
        /\ \A v \in Users : v # u => known'[v] = known[v]
    BY <1>2, <1>9, <2>3
  <2>5. \A v \in Users : Holds(session'[v], Current)
    BY <1>2, <1>6, <1>7
  <2>6. ASSUME ~emptied' PROVE ~emptied /\ Filled(c)
    <3>1. Numbered /\ ~emptied
      BY <1>3, <2>6 DEF MessageInv
    <3>2. Filled(b)
      BY <1>5, <3>1 DEF Numbered
    <3>3. QED
      BY <2>2, <3>1, <3>2 DEF Filled
  <2>7. ASSUME ~emptied', ~raced
        PROVE  /\ g = Current /\ mbmsg'.st # "rename" /\ s.num > 0 /\ s.num <= s.highest
               /\ s.highest <= Len(b.msgs) /\ Placed(b)
               /\ \A v \in Users : Remembered(session'[v], c, Current)
               /\ LiveIds(bases[Current]) \cup removed \subseteq LiveIds(c) \cup removed'
    <3>1. Undisturbed /\ Numbered
      BY <1>3, <2>7 DEF MessageInv
    <3>2. \A v \in Users : Remembered(session[v], bases[Current], Current)
      BY <3>1 DEF Undisturbed
    <3>3. s # Away /\ Remembered(s, bases[Current], Current)
      BY <1>3, <3>2 DEF Away
    <3>4. g = Current /\ s.highest <= Len(bases[Current].msgs) /\ s.num <= s.highest /\ s.num > 0
      BY <1>3, <3>3 DEF Remembered
    <3>5. \A v \in Users : Remembered(session'[v], b, Current)
      BY <1>6, <1>7, <3>2, <3>4
    <3>6. \A v \in Users : Remembered(session'[v], c, Current)
      BY <2>2, <3>5, SameKeeps
    <3>7. Placed(b)
      BY <1>5, <3>1 DEF Numbered, Filled
    <3>8. mbmsg'.st # "rename"
      <4>1. InUse /\ ~emptied
        BY <1>3, <2>7, <3>3 DEF InUse
      <4>2. QED
        BY <1>3, <2>7, <4>1, NobodyWaits
    <3>9. QED
      BY <1>3, <2>2, <3>4, <3>6, <3>7, <3>8
  <2>8. ASSUME ~emptied', ~raced, ~cut PROVE Pointed(c, known')
    <3>1. g = Current /\ mbmsg.st # "rename" /\ s.num > 0 /\ s.num <= s.highest
          /\ s.highest <= Len(b.msgs) /\ Placed(b)
      BY <1>3, <2>7, <2>8
    <3>2. Pointed(b, known)
      BY <1>3, <2>8, <3>1, PointedNow
    <3>3. \A v \in Users : Covered(b.high[v], b, known[v])
      BY <3>2 DEF Pointed
    <3>4. Covered(c.high[u], c, new)
      <4>1. Covered(b.high[u], b, known[u]) /\ s.highest <= Len(b.msgs)
        BY <3>1, <3>3
      <4> HIDE DEF b, s
      <4>2. QED
        BY <1>5, <2>1, <3>1, <4>1, PointerSet DEF c, new
    <3>5. ASSUME NEW v \in Users, v # u PROVE Covered(c.high[v], c, known'[v])
      <4>1. Covered(b.high[v], c, known[v])
        BY <2>2, <3>3, SameKeeps
      <4>2. QED
        BY <2>2, <2>4, <3>5, <4>1
    <3>6. QED
      BY <2>4, <3>4, <3>5 DEF Pointed
  <2>9. Issued(IdsOf(bases) \cup {}) /\ \A S : S \cup {} = S
    BY <1>1, IssuedAll
  <2>10. /\ Ids(c) = Ids(bases[g]) \cup {} /\ known' \in [Users -> SUBSET (IdsOf(bases) \cup {})]
    BY <2>2, <2>4, <2>9
  <2>11. /\ Tended(mbmsg', bases) /\ mbmsg' = mbmsg /\ emptied' \in BOOLEAN /\ raced' = raced
         /\ writer' \in [Writers -> File(Current) \cup {Closed}] /\ writer' = writer
         /\ {} \subseteq LiveIds(c) /\ cut' = cut
    BY <1>2, <1>3
  <2>12. QED
    BY <1>5, <1>7, <1>9, <2>2, <2>5, <2>6, <2>7, <2>8, <2>9, <2>10, <2>11, BaseStep
<1>10. QED
  BY <1>3, <1>8, <1>9

(* What sessions remember and pointers cover when messages are deleted. *)
LEMMA DroppedKeeps ==
    ASSUME NEW b, NEW c, NEW D, Len(b.msgs) \in Nat, Dropped(b, c, D)
    PROVE  /\ \A s, n : s.num \in Nat /\ s.highest \in Nat /\ Remembered(s, b, n) => Remembered(s, c, n)
           /\ \A h, ids : Covered(h, b, ids) => Covered(h, c, ids)
<1> DEFINE l == Len(b.msgs)
<1>1. /\ Len(c.msgs) = l
      /\ \A i \in 1..l : /\ c.msgs[i].id = b.msgs[i].id
                         /\ b.msgs[i].deleted = TRUE => c.msgs[i].deleted = TRUE
  BY DEF Dropped
<1> HIDE DEF l
<1>2. ASSUME NEW s, NEW n, s.num \in Nat, s.highest \in Nat, Remembered(s, b, n)
      PROVE  Remembered(s, c, n)
  <2> SUFFICES ASSUME s # Away PROVE Remembered(s, c, n)
    BY DEF Remembered
  <2>1. s.highest <= l /\ s.num <= s.highest
    BY <1>2 DEF Remembered, l
  <2>2. s.num > 0 => s.num \in 1..l
    BY <1>2, <2>1 DEF l
  <2>3. QED
    BY <1>1, <1>2, <2>1, <2>2 DEF Remembered
<1>3. ASSUME NEW h, NEW ids, Covered(h, b, ids) PROVE Covered(h, c, ids)
  BY <1>1, <1>3 DEF Covered, l
<1>4. QED
  BY <1>2, <1>3

LEMMA DeletedIs ==
    ASSUME NEW b, Whole(b), NEW i \in 1..Len(b.msgs)
    PROVE  Dropped(b, JAM_Delete(b, i), {i})
<1> DEFINE m == b.msgs[i]
           d == [m EXCEPT !.deleted = TRUE]
           r == [b.msgs EXCEPT ![i] = d]
           c == JAM_Delete(b, i)
<1>1. b \in Base /\ b.msgs \in Seq(Msg) /\ m \in Msg /\ b.active \in Int
      /\ b.high \in [Users -> Int] /\ b.extra \in Nat
  BY ElementOfSeq DEF Whole, Base
<1>2. d \in Msg /\ d.id = m.id /\ d.num = m.num /\ d.deleted = TRUE
  BY <1>1 DEF Msg
<1>3. c = [b EXCEPT !.msgs = r, !.active = b.active - 1]
  BY <1>1 DEF JAM_Delete, Base
<1> HIDE DEF d
<1>4. /\ r \in Seq(Msg) /\ Len(r) = Len(b.msgs)
      /\ \A j \in 1..Len(b.msgs) : r[j] = IF j = i THEN d ELSE b.msgs[j]
  BY <1>1, <1>2, ExceptSeq
<1> HIDE DEF r, c
<1>5. c.msgs = r /\ c.active = b.active - 1 /\ c.extra = b.extra /\ c.high = b.high /\ c \in Base
  <2> DEFINE a == b.active - 1
  <2>1. a \in Int
    BY <1>1
  <2> HIDE DEF a
  <2>2. c = [b EXCEPT !.msgs = r, !.active = a]
    BY <1>3 DEF a
  <2>3. c.msgs = r /\ c.active = a /\ c.extra = b.extra /\ c.high = b.high
    BY <1>1, <2>2 DEF Base
  <2>4. c = [msgs |-> c.msgs, active |-> c.active, extra |-> c.extra, high |-> c.high]
    BY <1>1, <2>2 DEF Base
  <2>5. c \in Base
    BY <1>1, <1>4, <2>1, <2>3, <2>4 DEF Base
  <2>6. QED
    BY <2>3, <2>5 DEF a
<1>6. Cardinality({i}) = 1
  BY FS_Singleton
<1>7. \A j \in 1..Len(b.msgs) :
         /\ c.msgs[j].id = b.msgs[j].id /\ c.msgs[j].num = b.msgs[j].num
         /\ j \in {i} => c.msgs[j].deleted = TRUE
         /\ j \notin {i} => c.msgs[j] = b.msgs[j]
  BY <1>2, <1>4, <1>5
<1>8. c.active - c.extra = b.active - b.extra - Cardinality({i})
  BY <1>1, <1>5, <1>6
<1>9. Dropped(b, c, {i})
  BY <1>4, <1>5, <1>7, <1>8 DEF Dropped
<1>10. QED
  BY <1>9 DEF c

LEMMA WrittenIs ==
    ASSUME NEW b, Whole(b), NEW i \in 1..Len(b.msgs)
    PROVE  Dropped(b, JAM_WriteHeader(b, i), {i})
<1> DEFINE m == b.msgs[i]
           d == [m EXCEPT !.deleted = TRUE]
           r == [b.msgs EXCEPT ![i] = d]
           c == JAM_WriteHeader(b, i)
<1>1. b \in Base /\ b.msgs \in Seq(Msg) /\ m \in Msg /\ b.active \in Int
      /\ b.high \in [Users -> Int] /\ b.extra \in Nat
  BY ElementOfSeq DEF Whole, Base
<1>2. d \in Msg /\ d.id = m.id /\ d.num = m.num /\ d.deleted = TRUE
  BY <1>1 DEF Msg
<1>3. c = [b EXCEPT !.msgs = r, !.extra = b.extra + 1]
  BY <1>1 DEF JAM_WriteHeader, Base
<1> HIDE DEF d
<1>4. /\ r \in Seq(Msg) /\ Len(r) = Len(b.msgs)
      /\ \A j \in 1..Len(b.msgs) : r[j] = IF j = i THEN d ELSE b.msgs[j]
  BY <1>1, <1>2, ExceptSeq
<1> HIDE DEF r, c
<1>5. c.msgs = r /\ c.active = b.active /\ c.extra = b.extra + 1 /\ c.high = b.high /\ c \in Base
  <2> DEFINE a == b.extra + 1
  <2>1. a \in Nat
    BY <1>1
  <2> HIDE DEF a
  <2>2. c = [b EXCEPT !.msgs = r, !.extra = a]
    BY <1>3 DEF a
  <2>3. c.msgs = r /\ c.active = b.active /\ c.extra = a /\ c.high = b.high
    BY <1>1, <2>2 DEF Base
  <2>4. c = [msgs |-> c.msgs, active |-> c.active, extra |-> c.extra, high |-> c.high]
    BY <1>1, <2>2 DEF Base
  <2>5. c \in Base
    BY <1>1, <1>4, <2>1, <2>3, <2>4 DEF Base
  <2>6. QED
    BY <2>3, <2>5 DEF a
<1>6. Cardinality({i}) = 1
  BY FS_Singleton
<1>7. \A j \in 1..Len(b.msgs) :
         /\ c.msgs[j].id = b.msgs[j].id /\ c.msgs[j].num = b.msgs[j].num
         /\ j \in {i} => c.msgs[j].deleted = TRUE
         /\ j \notin {i} => c.msgs[j] = b.msgs[j]
  BY <1>2, <1>4, <1>5
<1>8. c.active - c.extra = b.active - b.extra - Cardinality({i})
  BY <1>1, <1>5, <1>6
<1>9. Dropped(b, c, {i})
  BY <1>4, <1>5, <1>7, <1>8 DEF Dropped
<1>10. QED
  BY <1>9 DEF c

LEMMA KilledIs ==
    ASSUME NEW b, Whole(b), NEW old, old \subseteq 1..Len(b.msgs)
    PROVE  Dropped(b, Killed(b, old), old)
<1> DEFINE l == Len(b.msgs)
           r == [i \in 1..l |-> [b.msgs[i] EXCEPT !.deleted = b.msgs[i].deleted \/ i \in old]]
           c == Killed(b, old)
<1>1. b \in Base /\ b.msgs \in Seq(Msg) /\ b.active \in Int /\ b.high \in [Users -> Int]
      /\ l \in Nat /\ DOMAIN b.msgs = 1..l /\ b.extra \in Nat
  BY LenProperties DEF Whole, Base
<1>2. ASSUME NEW i \in 1..l
      PROVE  LET d == [b.msgs[i] EXCEPT !.deleted = b.msgs[i].deleted \/ i \in old] IN
             /\ d \in Msg /\ d.id = b.msgs[i].id /\ d.num = b.msgs[i].num
             /\ i \in old => d.deleted = TRUE
             /\ i \notin old => d = b.msgs[i]
  <2> DEFINE m == b.msgs[i]
  <2>1. m \in Msg /\ m.deleted \in BOOLEAN
    BY <1>1, Members
  <2> HIDE DEF m
  <2>2. [m EXCEPT !.deleted = TRUE] \in Msg /\ [m EXCEPT !.deleted = TRUE].id = m.id
        /\ [m EXCEPT !.deleted = TRUE].num = m.num /\ [m EXCEPT !.deleted = TRUE].deleted = TRUE
    BY <2>1 DEF Msg
  <2>3. [m EXCEPT !.deleted = m.deleted] = m
    BY <2>1 DEF Msg
  <2>4. CASE i \in old
    <3>1. (m.deleted \/ i \in old) = TRUE
      BY <2>4
    <3>2. QED
      BY <2>2, <2>4, <3>1 DEF m
  <2>5. CASE i \notin old
    <3>1. (m.deleted \/ i \in old) = m.deleted
      BY <2>1, <2>5
    <3>2. QED
      BY <2>1, <2>3, <2>5, <3>1 DEF m
  <2>6. QED
    BY <2>4, <2>5
<1>3. \A i \in 1..l : /\ r[i] \in Msg /\ r[i].id = b.msgs[i].id /\ r[i].num = b.msgs[i].num
                      /\ i \in old => r[i].deleted = TRUE
                      /\ i \notin old => r[i] = b.msgs[i]
  BY <1>2
<1>4. c = [b EXCEPT !.msgs = r, !.active = b.active - Cardinality(old)]
  <2>1. r = [i \in DOMAIN b.msgs |->
                [b.msgs[i] EXCEPT !.deleted = b.msgs[i].deleted \/ i \in old]]
    BY <1>1
  <2> HIDE DEF r
  <2>2. QED
    BY <2>1, Zenon DEF Killed
<1>5. r \in Seq(Msg) /\ Len(r) = l
  <2>1. r \in [1..l -> Msg]
    BY <1>2
  <2> HIDE DEF r
  <2>2. r \in Seq(Msg)
    BY <1>1, <2>1, SeqDef
  <2>3. DOMAIN r = 1..l
    BY <2>1
  <2>4. QED
    BY <1>1, <2>2, <2>3, LenProperties
<1>6. Cardinality(old) \in Nat
  BY <1>1, PlaceCount DEF Whole
<1> HIDE DEF r, c
<1>7. c.msgs = r /\ c.active = b.active - Cardinality(old) /\ c.extra = b.extra /\ c.high = b.high
      /\ c \in Base
  <2> DEFINE a == b.active - Cardinality(old)
  <2>1. a \in Int
    BY <1>1, <1>6
  <2> HIDE DEF a
  <2>2. c = [b EXCEPT !.msgs = r, !.active = a]
    BY <1>4 DEF a
  <2>3. c.msgs = r /\ c.active = a /\ c.extra = b.extra /\ c.high = b.high
    BY <1>1, <2>2 DEF Base
  <2>4. c = [msgs |-> c.msgs, active |-> c.active, extra |-> c.extra, high |-> c.high]
    BY <1>1, <2>2 DEF Base
  <2>5. c \in Base
    BY <1>1, <1>5, <2>1, <2>3, <2>4 DEF Base
  <2>6. QED
    BY <2>3, <2>5 DEF a
<1>8. c.active - c.extra = b.active - b.extra - Cardinality(old)
  BY <1>1, <1>6, <1>7
<1>9. Dropped(b, c, old)
  BY <1>3, <1>5, <1>7, <1>8 DEF Dropped
<1>10. QED
  BY <1>9 DEF c

(* Messages are deleted from base g: by a user, by the exporter, or by mbmsg. *)
LEMMA DropStep ==
    ASSUME MessageInv, NEW g \in 1..Current, NEW c, NEW D, Dropped(bases[g], c, D),
           D \subseteq 1..Len(bases[g].msgs), \A i \in D : bases[g].msgs[i].deleted = FALSE,
           bases' = [bases EXCEPT ![g] = c],
           emptied' \in BOOLEAN, ~emptied' => ~emptied /\ c.active # 0,
           session' \in [Users -> Session(Current)], \A u \in Users : Holds(session'[u], Current),
           Tended(mbmsg', bases), mbmsg'.st = "rename" => mbmsg' = mbmsg,
           UNCHANGED <<writer, known, raced, cut>>,
           ~emptied /\ ~raced =>
              /\ g = Current /\ mbmsg.st # "rename" /\ mbmsg'.st # "rename" /\ removed \subseteq removed'
              /\ \A u \in Users : Remembered(session'[u], bases[g], Current)
              /\ \A i \in D : bases[g].msgs[i].id \in removed'
    PROVE  MessageInv'
<1> DEFINE b == bases[g]
<1>1. Library(bases) /\ Processes
  BY DEF MessageInv
<1>2. /\ writer \in [Writers -> File(Current) \cup {Closed}]
      /\ known \in [Users -> SUBSET IdsOf(bases)] /\ emptied \in BOOLEAN
  BY <1>1 DEF Processes
<1>3. Whole(b) /\ Len(b.msgs) \in Nat
  BY <1>1, LibraryIs DEF Current
<1>4. /\ Whole(c) /\ Ids(c) = Ids(b) /\ c.active \in Nat
      /\ LiveIds(b) \subseteq LiveIds(c) \cup {b.msgs[i].id : i \in D}
      /\ Placed(b) => Placed(c)
  BY <1>3, DropBase
<1>5. ASSUME ~emptied' PROVE ~emptied /\ Filled(c)
  <2>1. Placed(b)
    BY <1>5 DEF MessageInv, Numbered, Filled
  <2>2. c.active > 0
    BY <1>4, <1>5
  <2>3. QED
    BY <1>4, <1>5, <2>1, <2>2 DEF Filled
<1>6. ASSUME ~emptied', ~raced
      PROVE  /\ g = Current /\ mbmsg.st # "rename" /\ mbmsg'.st # "rename"
             /\ \A u \in Users : Remembered(session'[u], c, Current)
             /\ LiveIds(bases[Current]) \cup removed \subseteq LiveIds(c) \cup removed'
  <2>1. /\ g = Current /\ mbmsg.st # "rename" /\ mbmsg'.st # "rename" /\ removed \subseteq removed'
        /\ \A u \in Users : Remembered(session'[u], b, Current)
        /\ \A i \in D : b.msgs[i].id \in removed'
    BY <1>6
  <2>2. \A u \in Users : session'[u].num \in Nat /\ session'[u].highest \in Nat
    BY DEF Session
  <2>3. \A u \in Users : Remembered(session'[u], c, Current)
    BY <1>3, <2>1, <2>2, DroppedKeeps
  <2>4. LiveIds(b) \cup removed \subseteq LiveIds(c) \cup removed'
    BY <1>4, <2>1
  <2>5. QED
    BY <2>1, <2>3, <2>4
<1>7. ASSUME ~emptied', ~raced, ~cut PROVE Pointed(c, known')
  <2>1. g = Current /\ mbmsg.st # "rename" /\ ~emptied
    BY <1>6, <1>7
  <2>2. Pointed(b, known)
    BY <1>7, <2>1, PointedNow
  <2>3. \A u \in Users : Covered(b.high[u], b, known[u])
    BY <2>2 DEF Pointed
  <2>4. c.high = b.high
    BY DEF Dropped
  <2>5. \A u \in Users : Covered(b.high[u], c, known[u])
    BY <1>3, <2>3, DroppedKeeps
  <2>6. QED
    BY <2>4, <2>5 DEF Pointed
<1>8. Issued(IdsOf(bases) \cup {}) /\ \A S : S \cup {} = S
  BY <1>1, IssuedAll
<1>9. /\ Ids(c) = Ids(bases[g]) \cup {} /\ known' \in [Users -> SUBSET (IdsOf(bases) \cup {})]
      /\ writer' \in [Writers -> File(Current) \cup {Closed}] /\ writer' = writer
      /\ {} \subseteq LiveIds(c) /\ raced' = raced /\ cut' = cut
  BY <1>2, <1>4, <1>8
<1>10. QED
  BY <1>4, <1>5, <1>6, <1>7, <1>8, <1>9, BaseStep

LEMMA DeleteMarkStep ==
    ASSUME MessageInv, NEW u \in Users, DeleteMark(u)
    PROVE  MessageInv'
<1> DEFINE s == session[u]
           t == [s EXCEPT !.st = "panel", !.gen = 0]
           g == s.gen
           b == bases[g]
<1>1. Library(bases) /\ Processes
  BY DEF MessageInv
<1>2. /\ session \in [Users -> Session(Current)] /\ \A v \in Users : Holds(session[v], Current)
      /\ Tended(mbmsg, bases)
  BY <1>1 DEF Processes
<1>3. /\ s.st = "delete" /\ session' = [session EXCEPT ![u] = t]
      /\ \/ \E i \in Found(b, s.num) : /\ bases' = [bases EXCEPT ![g] = JAM_Delete(b, i)]
                                       /\ removed' = removed \cup {s.id}
                                       /\ emptied' = (emptied \/ bases'[g].active = 0)
         \/ UNCHANGED <<bases, removed, emptied>>
      /\ UNCHANGED <<writer, mbmsg, known, raced, cut>>
  BY DEF DeleteMark, SetSession, Emptied
<1>4. s \in Session(Current) /\ Current \in Nat /\ Current \in 1..Current /\ Current = Len(bases)
  BY <1>1, <1>2, LibraryIs DEF Current
<1>5. g \in 1..Current /\ s.num \in Nat /\ s.highest \in Nat
  BY <1>2, <1>3, <1>4 DEF Holds, Session
<1>6. t \in Session(Current) /\ Holds(t, Current)
      /\ \A a : Remembered(s, a, Current) => Remembered(t, a, Current)
  BY <1>3, <1>4, BackAtPanel
<1> HIDE DEF t
<1>7. session'[u] = t /\ session' \in [Users -> Session(Current)]
      /\ \A v \in Users : v # u => session'[v] = session[v]
  BY <1>2, <1>3, <1>6
<1>8. CASE UNCHANGED <<bases, removed, emptied>>
  <2>1. ASSUME ~emptied, ~raced
        PROVE  mbmsg.st # "rename" /\ Remembered(t, bases[Current], Current)
    <3>1. InUse
      BY <1>3 DEF InUse, Away
    <3>2. QED
      BY <1>6, <2>1, <3>1, NobodyWaits DEF MessageInv, Undisturbed
  <2>2. raced' = raced /\ raced' \in BOOLEAN
    BY <1>1, <1>3 DEF Processes
  <2>3. ~emptied /\ ~raced' => /\ ~raced /\ mbmsg.st # "rename"
                               /\ Remembered(session'[u], bases[Current], Current)
    BY <1>7, <2>1, <2>2
  <2>4. /\ session' = [session EXCEPT ![u] = session'[u]] /\ session'[u] \in Session(Current)
        /\ Holds(session'[u], Current)
        /\ UNCHANGED <<bases, writer, mbmsg, known, removed, emptied, cut>>
    BY <1>3, <1>6, <1>7, <1>8
  <2>5. QED
    BY <2>2, <2>3, <2>4, SessionStep
<1>9. CASE \E i \in Found(b, s.num) : /\ bases' = [bases EXCEPT ![g] = JAM_Delete(b, i)]
                                      /\ removed' = removed \cup {s.id}
                                      /\ emptied' = (emptied \/ bases'[g].active = 0)
  <2>1. Whole(b) /\ b.msgs \in Seq(Msg) /\ bases \in Seq(Base) /\ g \in 1..Len(bases)
    BY <1>1, <1>4, <1>5, LibraryIs
  <2>2. PICK i \in Found(b, s.num) : /\ bases' = [bases EXCEPT ![g] = JAM_Delete(b, i)]
                                     /\ removed' = removed \cup {s.id}
                                     /\ emptied' = (emptied \/ bases'[g].active = 0)
    BY <1>9
  <2>3. i \in 1..Len(b.msgs) /\ b.msgs[i].num = s.num /\ b.msgs[i].deleted = FALSE
    <3> DEFINE n == s.num
    <3>1. i \in Found(b, n)
      BY <2>2
    <3> HIDE DEF b, n
    <3>2. \A j : j \in Found(b, n) <=>
             j \in 1..Len(b.msgs) /\ b.msgs[j].num = n /\ b.msgs[j].deleted = FALSE
      BY <2>1, FoundIs, Zenon
    <3>3. QED
      BY <3>1, <3>2 DEF n
  <2> DEFINE c == JAM_Delete(b, i)
  <2>4. Dropped(b, c, {i})
    BY <2>1, <2>3, DeletedIs
  <2>5. bases' = [bases EXCEPT ![g] = c]
    BY <2>2
  <2> HIDE DEF c
  <2>6. bases'[g] = c
    BY <2>1, <2>5, ExceptSeq
  <2>7. emptied' \in BOOLEAN /\ (~emptied' => ~emptied /\ c.active # 0)
    BY <2>2, <2>6
  <2>8. \A v \in Users : Holds(session'[v], Current)
    BY <1>2, <1>6, <1>7
  <2>9. ASSUME ~emptied, ~raced
        PROVE  /\ g = Current /\ mbmsg.st # "rename" /\ mbmsg'.st # "rename"
               /\ removed \subseteq removed'
               /\ \A v \in Users : Remembered(session'[v], b, Current)
               /\ \A j \in {i} : b.msgs[j].id \in removed'
    <3>1. Undisturbed /\ Numbered
      BY <2>9 DEF MessageInv
    <3>2. \A v \in Users : Remembered(session[v], bases[Current], Current)
      BY <3>1 DEF Undisturbed
    <3>3. s # Away /\ Remembered(s, bases[Current], Current)
      BY <1>3, <3>2 DEF Away
    <3>4. g = Current
      BY <1>3, <3>3 DEF Remembered
    <3>5. \A v \in Users : Remembered(session'[v], b, Current)
      BY <1>6, <1>7, <3>2, <3>4
    <3>6. Placed(b)
      BY <1>5, <3>1 DEF Numbered, Filled
    <3>7. i = s.num /\ s.num > 0
      BY <2>1, <2>3, <3>6 DEF Placed
    <3>8. s.id # 0
      BY <2>3, <3>3, <3>4, <3>7 DEF Remembered
    <3>9. b.msgs[i].id = s.id
      BY <3>3, <3>4, <3>7, <3>8 DEF Remembered
    <3>10. mbmsg.st # "rename" /\ mbmsg' = mbmsg
      <4>1. InUse
        BY <3>3 DEF InUse
      <4>2. QED
        BY <1>3, <2>9, <4>1, NobodyWaits
    <3>11. QED
      BY <2>2, <3>4, <3>5, <3>9, <3>10
  <2>10. Tended(mbmsg', bases) /\ mbmsg' = mbmsg /\ UNCHANGED <<writer, known, raced, cut>>
    BY <1>2, <1>3
  <2>11. {i} \subseteq 1..Len(b.msgs) /\ \A j \in {i} : b.msgs[j].deleted = FALSE
    BY <2>3
  <2> DEFINE D == {i}
  <2>12. /\ Dropped(b, c, D) /\ D \subseteq 1..Len(b.msgs)
         /\ \A j \in D : b.msgs[j].deleted = FALSE
         /\ ~emptied /\ ~raced =>
               /\ g = Current /\ mbmsg.st # "rename" /\ mbmsg'.st # "rename"
               /\ removed \subseteq removed'
               /\ \A v \in Users : Remembered(session'[v], b, Current)
               /\ \A j \in D : b.msgs[j].id \in removed'
    BY <2>4, <2>9, <2>11
  <2> HIDE DEF D, g
  <2>13. QED
    BY <1>5, <1>7, <2>5, <2>7, <2>8, <2>10, <2>12, DropStep
<1>10. QED
  BY <1>3, <1>8, <1>9

LEMMA ExportStep ==
    ASSUME MessageInv, NEW w \in Writers, Export(w)
    PROVE  MessageInv'
<1> DEFINE g == writer[w].gen
           b == bases[g]
<1>1. Library(bases) /\ Processes
  BY DEF MessageInv
<1>2. /\ writer \in [Writers -> File(Current) \cup {Closed}] /\ emptied \in BOOLEAN
      /\ session \in [Users -> Session(Current)] /\ \A v \in Users : Holds(session[v], Current)
      /\ Tended(mbmsg, bases)
  BY <1>1 DEF Processes
<1>3. /\ writer[w] # Closed /\ UNCHANGED <<writer, session, mbmsg, known, emptied, raced, cut>>
  BY DEF Export
<1>4. PICK i \in DOMAIN b.msgs : /\ i \in Found(b, b.msgs[i].num)
                                /\ bases' = [bases EXCEPT ![g] = JAM_WriteHeader(b, i)]
                                /\ removed' = removed \cup {b.msgs[i].id}
  BY DEF Export
<1>5. g \in 1..Current
  BY <1>2, <1>3 DEF File
<1>6. Whole(b) /\ bases \in Seq(Base) /\ g \in 1..Len(bases)
  BY <1>1, <1>5, LibraryIs DEF Current
<1>7. i \in 1..Len(b.msgs) /\ b.msgs[i].deleted = FALSE
  <2> DEFINE n == b.msgs[i].num
  <2>1. i \in Found(b, n)
    BY <1>4
  <2> HIDE DEF b, n
  <2>2. \A j : j \in Found(b, n) <=>
           j \in 1..Len(b.msgs) /\ b.msgs[j].num = n /\ b.msgs[j].deleted = FALSE
    BY <1>6, FoundIs, Zenon
  <2>3. QED
    BY <2>1, <2>2
<1> DEFINE c == JAM_WriteHeader(b, i)
           D == {i}
<1>8. Dropped(b, c, D) /\ c.active = b.active
  <2> HIDE DEF b
  <2>1. Dropped(b, c, D)
    BY <1>6, <1>7, WrittenIs
  <2>2. b \in Base
    BY <1>6 DEF Whole
  <2>3. c.active = b.active
    BY <2>2 DEF JAM_WriteHeader, Base
  <2>4. QED
    BY <2>1, <2>3
<1>9. bases' = [bases EXCEPT ![g] = c]
  BY <1>4
<1> HIDE DEF c
<1>10. emptied' \in BOOLEAN /\ (~emptied' => ~emptied /\ c.active # 0)
  <2>1. ~emptied => b.active > 0
    BY <1>5 DEF MessageInv, Numbered, Filled
  <2>2. b.active \in Int
    BY <1>6 DEF Whole, Base
  <2>3. QED
    BY <1>2, <1>3, <1>8, <2>1, <2>2
<1>11. ASSUME ~emptied, ~raced
       PROVE  /\ g = Current /\ mbmsg.st # "rename" /\ mbmsg'.st # "rename"
              /\ removed \subseteq removed'
              /\ \A v \in Users : Remembered(session'[v], b, Current)
              /\ \A j \in D : b.msgs[j].id \in removed'
  <2>1. Undisturbed
    BY <1>11 DEF MessageInv
  <2>2. g = Current
    BY <1>3, <2>1 DEF Undisturbed
  <2>3. InUse
    BY <1>3 DEF InUse
  <2>4. mbmsg.st # "rename"
    BY <1>11, <2>3, NobodyWaits
  <2>5. \A v \in Users : Remembered(session'[v], b, Current)
    BY <1>3, <2>1, <2>2 DEF Undisturbed
  <2>6. QED
    BY <1>3, <1>4, <2>2, <2>4, <2>5
<1>12. D \subseteq 1..Len(b.msgs) /\ \A j \in D : b.msgs[j].deleted = FALSE
  BY <1>7
<1>13. /\ Tended(mbmsg', bases) /\ mbmsg' = mbmsg /\ UNCHANGED <<writer, known, raced, cut>>
       /\ session' \in [Users -> Session(Current)] /\ \A v \in Users : Holds(session'[v], Current)
  BY <1>2, <1>3
<1> HIDE DEF D, g
<1>14. QED
  BY <1>5, <1>8, <1>9, <1>10, <1>11, <1>12, <1>13, DropStep

LEMMA KillStep ==
    ASSUME MessageInv, KillArea
    PROVE  MessageInv'
<1> DEFINE g == mbmsg.file.gen
           b == bases[g]
           live == {i \in DOMAIN b.msgs : ~b.msgs[i].deleted}
<1>1. Library(bases) /\ Processes
  BY DEF MessageInv
<1>2. /\ session \in [Users -> Session(Current)] /\ \A v \in Users : Holds(session[v], Current)
      /\ Tended(mbmsg, bases)
  BY <1>1 DEF Processes
<1>3. Current = Len(bases) /\ Current \in 1..Current
  BY <1>1, LibraryIs DEF Current
<1>4. g = Current
  BY <1>2, <1>3 DEF KillArea, Tended
<1>5. Whole(b) /\ b.msgs \in Seq(Msg) /\ Len(b.msgs) \in Nat /\ DOMAIN b.msgs = 1..Len(b.msgs)
      /\ bases \in Seq(Base)
  BY <1>1, <1>3, <1>4, LibraryIs, LenProperties
<1>6. PICK old \in SUBSET (IF mbmsg.file.some THEN live ELSE {}) :
         /\ bases' = [bases EXCEPT ![g] = Killed(b, old)]
         /\ removed' = removed \cup {b.msgs[i].id : i \in old}
         /\ emptied' = (emptied \/ bases'[g].active = 0)
  BY DEF KillArea, Emptied
<1>7. old \subseteq 1..Len(b.msgs) /\ \A i \in old : b.msgs[i].deleted = FALSE
  <2>1. \A i \in 1..Len(b.msgs) : b.msgs[i].deleted \in BOOLEAN
    BY <1>5, Members
  <2>2. old \subseteq live
    BY <1>6
  <2>3. QED
    BY <1>5, <2>1, <2>2
<1> DEFINE c == Killed(b, old)
<1>8. Dropped(b, c, old)
  BY <1>5, <1>7, KilledIs
<1>9. bases' = [bases EXCEPT ![g] = c]
  BY <1>6
<1> HIDE DEF c
<1>10. bases'[g] = c
  BY <1>3, <1>4, <1>5, <1>9, ExceptSeq
<1>11. emptied' \in BOOLEAN /\ (~emptied' => ~emptied /\ c.active # 0)
  BY <1>6, <1>10
<1>12. /\ mbmsg' = Maintenance("open", Closed, <<>>) /\ session' = session
       /\ UNCHANGED <<writer, known, raced, cut>>
  BY DEF KillArea
<1>13. mbmsg'.st = "open" /\ mbmsg.st = "kill"
  BY <1>12 DEF Maintenance, KillArea
<1>14. Tended(mbmsg', bases)
  BY <1>13 DEF Tended
<1>15. ASSUME ~emptied, ~raced
       PROVE  /\ g = Current /\ mbmsg.st # "rename" /\ mbmsg'.st # "rename"
              /\ removed \subseteq removed'
              /\ \A v \in Users : Remembered(session'[v], b, Current)
              /\ \A i \in old : b.msgs[i].id \in removed'
  BY <1>4, <1>6, <1>12, <1>13, <1>15 DEF MessageInv, Undisturbed
<1>16. g \in 1..Current /\ session' \in [Users -> Session(Current)]
       /\ \A v \in Users : Holds(session'[v], Current)
  BY <1>2, <1>3, <1>4, <1>12
<1>17. QED
  BY <1>7, <1>8, <1>9, <1>11, <1>12, <1>13, <1>14, <1>15, <1>16, DropStep

-----------------------------------------------------------------------------
(* The packed files get the names: what was open stays open. *)
LEMMA MoreFiles ==
    ASSUME NEW n \in Nat
    PROVE  /\ File(n) \subseteq File(n + 1) /\ Session(n) \subseteq Session(n + 1)
           /\ \A s : Holds(s, n) => Holds(s, n + 1)
<1>1. 1..n \subseteq 1..(n + 1) /\ 0..n \subseteq 0..(n + 1)
  OBVIOUS
<1>2. QED
  BY <1>1 DEF File, Session, Holds

(* A base that is packed while nobody uses it keeps what was gathered. *)
LEMMA GatheredOn ==
    ASSUME NEW B, NEW C, NEW n \in Nat, n > 0, Len(B) = n, Len(C) = n + 1,
           \A h \in 1..n : C[h] = B[h], LiveIds(C[n + 1]) = LiveIds(B[n]),
           Ids(C[n + 1]) = LiveIds(B[n]), NEW gone, Gathered(B, gone)
    PROVE  Gathered(C, gone)
<1> SUFFICES ASSUME NEW h \in 1..(n + 1)
             PROVE  Ids(C[h]) \subseteq LiveIds(C[n + 1]) \cup gone
  BY DEF Gathered
<1>1. CASE h = n + 1
  BY <1>1
<1>2. CASE h \in 1..n
  BY <1>2 DEF Gathered
<1>3. QED
  BY <1>1, <1>2

LEMMA RenameStep ==
    ASSUME MessageInv, PackRename
    PROVE  MessageInv'
<1> DEFINE n == Len(bases)
           b == bases[n]
           c == mbmsg.base[1]
<1>1. Library(bases) /\ Processes
  BY DEF MessageInv
<1>2. /\ writer \in [Writers -> File(n) \cup {Closed}]
      /\ session \in [Users -> Session(n)] /\ \A v \in Users : Holds(session[v], n)
      /\ Tended(mbmsg, bases) /\ known \in [Users -> SUBSET IdsOf(bases)]
      /\ emptied \in BOOLEAN /\ raced \in BOOLEAN /\ cut \in BOOLEAN
  BY <1>1 DEF Processes, Current
<1>3. /\ mbmsg.st = "rename" /\ bases' = bases \o mbmsg.base /\ mbmsg' = Rest
      /\ raced' = raced /\ cut' = cut /\ writer' = writer /\ session' = session /\ known' = known /\ removed' = removed
      /\ emptied' = emptied
  BY DEF PackRename
<1>4. mbmsg.base = <<c>> /\ Whole(c) /\ Ids(c) \subseteq IdsOf(bases)
  BY <1>2, <1>3 DEF Tended
<1>5. n \in Nat /\ n > 0 /\ n \in 1..n /\ bases \in Seq(Base) /\ Whole(b) /\ b \in Base
      /\ b.high \in [Users -> Int]
  BY <1>1, LibraryIs
<1>6. bases' = bases \o <<c>>
  BY <1>3, <1>4
<1> HIDE DEF c
<1>7. /\ Library(bases') /\ Len(bases') = n + 1 /\ bases'[n + 1] = c
      /\ \A h \in 1..n : bases'[h] = bases[h]
      /\ IdsOf(bases') = IdsOf(bases)
  BY <1>1, <1>4, <1>6, Renamed
<1>8. Current' = n + 1 /\ Current = n
  BY <1>7 DEF Current
<1> HIDE DEF n
<1>9. Tended(mbmsg', bases') /\ mbmsg'.st # "rename"
  <2>1. mbmsg'.st = "rest"
    BY <1>3 DEF Rest, Maintenance
  <2>2. QED
    BY <2>1 DEF Tended
<1>10. Processes'
  <2>1. File(n) \subseteq File(n + 1) /\ Session(n) \subseteq Session(n + 1)
        /\ \A s : Holds(s, n) => Holds(s, n + 1)
    BY <1>5, MoreFiles
  <2>2. /\ writer' \in [Writers -> File(n + 1) \cup {Closed}]
        /\ session' \in [Users -> Session(n + 1)] /\ \A v \in Users : Holds(session'[v], n + 1)
        /\ known' \in [Users -> SUBSET IdsOf(bases')]
    BY <1>2, <1>3, <1>7, <2>1
  <2>3. emptied' \in BOOLEAN /\ raced' \in BOOLEAN /\ cut' \in BOOLEAN
    BY <1>2, <1>3
  <2>4. QED
    BY <1>8, <1>9, <2>2, <2>3 DEF Processes
<1>11. ASSUME ~emptied' PROVE Numbered'
  <2>1. Numbered
    BY <1>3, <1>11 DEF MessageInv
  <2>2. Filled(c)
    BY <1>3, <2>1 DEF Numbered, c
  <2>3. \A g \in 1..(n + 1) : Filled(bases'[g])
    <3> TAKE g \in 1..(n + 1)
    <3>1. CASE g = n + 1
      BY <1>7, <2>2, <3>1
    <3>2. CASE g \in 1..n
      BY <1>7, <1>8, <2>1, <3>2 DEF Numbered
    <3>3. QED
      BY <1>5, <3>1, <3>2
  <2>4. \A w \in Writers : writer'[w] # Closed => writer'[w].some = TRUE
    BY <1>3, <2>1 DEF Numbered
  <2>5. QED
    BY <1>8, <1>9, <2>3, <2>4 DEF Numbered
<1>12. ASSUME ~emptied', ~raced' PROVE Undisturbed'
  <2>1. Undisturbed
    BY <1>3, <1>12 DEF MessageInv
  <2>2. ~InUse /\ Ids(c) = LiveIds(b) /\ LiveIds(c) = LiveIds(b)
    BY <1>3, <1>8, <2>1 DEF Undisturbed, Waiting, c
  <2>3. \A w \in Writers : writer'[w] = Closed
    BY <1>3, <2>2 DEF InUse
  <2>4. \A v \in Users : Remembered(session'[v], c, n + 1)
    BY <1>3, <2>2 DEF InUse, Remembered
  <2>5. Gathered(bases', removed')
    <3>1. Gathered(bases, removed)
      BY <2>1 DEF Undisturbed
    <3>2. Len(bases) = n /\ LiveIds(bases'[n + 1]) = LiveIds(bases[n])
          /\ Ids(bases'[n + 1]) = LiveIds(bases[n])
      BY <1>7, <2>2 DEF n
    <3>3. QED
      BY <1>3, <1>5, <1>7, <3>1, <3>2, GatheredOn
  <2>6. QED
    BY <1>7, <1>8, <1>9, <2>3, <2>4, <2>5 DEF Undisturbed, Waiting
<1>13. ASSUME ~emptied', ~raced', ~cut' PROVE Pointed(Awaited(mbmsg, bases[Current]), known)'
  <2>1. Pointed(Awaited(mbmsg, bases[Current]), known)
    BY <1>3, <1>13 DEF MessageInv
  <2>2. Pointed(c, known')
    BY <1>3, <2>1 DEF Awaited, c
  <2>3. QED
    BY <1>7, <1>8, <1>9, <2>2 DEF Awaited
<1>14. QED
  BY <1>7, <1>10, <1>11, <1>12, <1>13 DEF MessageInv

-----------------------------------------------------------------------------
LEMMA MessageNext ==
    ASSUME MessageInv, [Next]_vars
    PROVE  MessageInv'
<1>1. ASSUME NEW w \in Writers, PostOpen(w) \/ PostAdd(w) \/ Export(w) \/ PostFails(w)
      PROVE  MessageInv'
  BY <1>1, WriterSteps, PostAddStep, ExportStep
<1>2. ASSUME NEW u \in Users,
             \/ SetMsgArea(u) \/ Leave(u) \/ ReadMark(u) \/ DeleteOpen(u) \/ DeleteMark(u)
             \/ \E num \in 1..session[u].highest : ReadOpen(u, num)
      PROVE  MessageInv'
  <2>1. CASE ReadMark(u)
    BY <2>1, ReadMarkStep
  <2>2. CASE DeleteMark(u)
    BY <2>2, DeleteMarkStep
  <2>3. CASE \/ SetMsgArea(u) \/ Leave(u) \/ DeleteOpen(u)
             \/ \E num \in 1..session[u].highest : ReadOpen(u, num)
    BY <2>3, SessionSteps
  <2>4. QED
    BY <1>2, <2>1, <2>2, <2>3
<1>3. CASE MbmsgStart \/ PackOpen \/ PackArea \/ PackFails \/ MbmsgDies
  BY <1>3, MbmsgSteps, PackAreaStep, MbmsgDiesStep
<1>4. CASE KillArea
  BY <1>4, KillStep
<1>5. CASE PackRename
  BY <1>5, RenameStep
<1>6. CASE UNCHANGED vars
  BY <1>6 DEF vars, MessageInv, Processes, Numbered, Undisturbed, Waiting, InUse, Current
<1>7. QED
  BY <1>1, <1>2, <1>3, <1>4, <1>5, <1>6 DEF Next

(* The inductive invariant holds for any number of sessions, programs,     *)
(* messages and packs: the bases of jammsg.c are whole, what processes     *)
(* know of them is true, and the pointers cover what they covered.         *)
THEOREM MessageInvariant == Spec => []MessageInv
<1>1. Init => MessageInv
  BY MessageStart
<1>2. MessageInv /\ [Next]_vars => MessageInv'
  BY MessageNext
<1>3. QED
  BY <1>1, <1>2, PTL DEF Spec

(* ActiveMsgs is, in every base, the number of messages that are not       *)
(* deleted and of those the exporter marked deleted since the last pack    *)
(* that corrected it: JAM_AddMsg, JAM_Delete and KillArea keep count       *)
(* whatever the process saw when it opened the base, JAM_WriteHeader does  *)
(* not count, and JAM_Pack counts anew unless no message is left.          *)
THEOREM CountsAlwaysAddUp == Spec => []CountsAddUp
<1>1. MessageInv => CountsAddUp
  <2> SUFFICES ASSUME MessageInv, NEW b \in ToSet(bases)
               PROVE  b.active = Cardinality(Live(b)) + b.extra
    BY DEF CountsAddUp
  <2>1. Library(bases)
    BY DEF MessageInv
  <2>2. bases \in Seq(Base) /\ \A g \in 1..Len(bases) : Whole(bases[g])
    BY <2>1, LibraryIs
  <2>3. PICK g \in 1..Len(bases) : b = bases[g]
    BY <2>2 DEF ToSet
  <2>4. QED
    BY <2>2, <2>3 DEF Whole
<1>2. QED
  BY <1>1, MessageInvariant, PTL

(* As long as no base ran out of messages, a message's number is its place *)
(* in the index (JAM_AddMsg takes the highest number and one, JAM_Pack     *)
(* numbers from one on): programs that post never give a number twice.     *)
THEOREM NumbersStayPlaces == Spec => []NumbersArePlaces
<1>1. MessageInv => NumbersArePlaces
  <2> SUFFICES ASSUME MessageInv, ~emptied, NEW b \in ToSet(bases), NEW i \in DOMAIN b.msgs
               PROVE  b.msgs[i].num = i
    BY DEF NumbersArePlaces
  <2>1. Library(bases) /\ Numbered
    BY DEF MessageInv
  <2>2. bases \in Seq(Base) /\ \A g \in 1..Len(bases) : bases[g].msgs \in Seq(Msg)
    BY <2>1, LibraryIs
  <2>3. PICK g \in 1..Len(bases) : b = bases[g]
    BY <2>2 DEF ToSet
  <2>4. Placed(b) /\ b.msgs \in Seq(Msg)
    BY <2>1, <2>2, <2>3 DEF Numbered, Filled, Current
  <2>5. i \in 1..Len(b.msgs)
    BY <2>4
  <2>6. QED
    BY <2>4, <2>5 DEF Placed
<1>2. QED
  BY <1>1, MessageInvariant, PTL

(* The lastread pointer of every user covers the messages it covered when  *)
(* JAM_SetLastRead set it, over JAM_AddMsg, JAM_Delete, JAM_WriteHeader,   *)
(* KillArea and the moves of JAM_Pack, as long as no base ran empty or was *)
(* packed in use, and mbmsg was not ended after it had moved pointers in   *)
(* the old files and before the packed ones had their names.               *)
THEOREM NewMessagesStayNew == Spec => []NewStaysNew
<1>1. MessageInv => NewStaysNew
  <2> DEFINE b == Valid
  <2> SUFFICES ASSUME MessageInv, ~emptied, ~raced, ~cut, NEW u \in Users, b.high[u] # Never,
                      NEW m \in Live(b)
               PROVE  m.num <= b.high[u] <=> m.id \in known[u]
    BY DEF NewStaysNew
  <2>1. Library(bases) /\ Processes /\ Numbered
    BY DEF MessageInv
  <2>2. Pointed(b, known)
    BY DEF MessageInv, Awaited, Valid
  <2>3. Whole(b) /\ Placed(b) /\ b.msgs \in Seq(Msg) /\ Covered(b.high[u], b, known[u])
    <3>1. CASE mbmsg.st = "rename"
      <4>1. Whole(b) /\ Placed(b)
        BY <2>1, <3>1 DEF Processes, Tended, Numbered, Filled, Valid
      <4>2. QED
        BY <2>2, <4>1 DEF Whole, Base, Pointed
    <3>2. CASE mbmsg.st # "rename"
      <4>1. b = bases[Current] /\ Current \in 1..Current /\ Whole(bases[Current])
        BY <2>1, <3>2, LibraryIs DEF Valid, Current
      <4>2. Whole(b) /\ Placed(b)
        BY <2>1, <4>1 DEF Numbered, Filled
      <4>3. QED
        BY <2>2, <4>2 DEF Whole, Base, Pointed
    <3>3. QED
      BY <3>1, <3>2
  <2> HIDE DEF b
  <2>4. PICK i \in 1..Len(b.msgs) : m = b.msgs[i]
    <3>1. \A x : x \in Live(b) <=>
             \E i \in 1..Len(b.msgs) : x = b.msgs[i] /\ b.msgs[i].deleted = FALSE
      BY <2>3, Members
    <3>2. QED
      BY <3>1
  <2>5. m.num = i
    BY <2>3, <2>4 DEF Placed
  <2>6. QED
    BY <2>3, <2>4, <2>5 DEF Covered
<1>2. QED
  BY <1>1, MessageInvariant, PTL

(* A message that JAM_AddMsg wrote is in the base the names belong to and  *)
(* not deleted, unless a user or the exporter deleted that very message or *)
(* KillArea killed it, as long as no base ran empty or was packed in use.                  *)
THEOREM MessagesAreKept == Spec => []NothingLost
<1>1. MessageInv => NothingLost
  <2> SUFFICES ASSUME MessageInv, ~emptied, ~raced, NEW g \in DOMAIN bases
               PROVE  Ids(bases[g]) \subseteq LiveIds(bases[Current]) \cup removed
    BY DEF NothingLost, LiveIds
  <2>1. Library(bases) /\ Undisturbed
    BY DEF MessageInv
  <2>2. g \in 1..Len(bases)
    BY <2>1, LibraryIs
  <2>3. QED
    BY <2>1, <2>2 DEF Undisturbed, Gathered, Current
<1>2. QED
  BY <1>1, MessageInvariant, PTL
=============================================================================
