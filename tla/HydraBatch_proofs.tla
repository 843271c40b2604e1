------------------------- MODULE HydraBatch_proofs --------------------------
(***************************************************************************)
(* Proofs about HydraBatch, for any files, workload, number of retries and *)
(* of faults.                                                              *)
(***************************************************************************)
EXTENDS HydraBatch, SequenceTheorems, WellFoundedInduction, TLAPS

-----------------------------------------------------------------------------
(* Types. *)

Beginnings == {"START", "SWAIT", "INITACK", "RINIT"}

Transfers == {"DATA", "DATAACK", "XWAIT", "EOFACK"}

Endings == {"REND", "ENDACK", "DONE"}

Over == {"DONE", "Abort"}

TxStates == Beginnings \cup {"FINFOACK"} \cup Transfers \cup Endings \cup {"Abort"}

RxStates == {"INIT", "FINFO", "DATA", "DONE"}

Names == Files \cup {EndOfBatch}

PacketTypes ==
    {"START", "INIT", "INITACK", "FINFO", "FINFOACK", "DATA", "DATAACK", "RPOS", "EOF",
     "EOFACK", "IDLE", "END"}

Packets == [type: PacketTypes, file: Names, pos: Int, id: Nat]

Tx == [st: TxStates, list: Seq(Files), pos: Int, retries: Nat, syncid: Nat, lastack: Int,
       err: BOOLEAN]

Rx == [st: RxStates, file: Names, pos: Int, lastsync: Int, syncid: Nat, retries: Nat,
       timer: BOOLEAN]

Marks == Names \X Int

Boxes == [Files -> Seq(Marks)]

-----------------------------------------------------------------------------
(***************************************************************************)
(* One direction of the batch: t is the transmitter, R the receiver and q  *)
(* the state of the transmitter beside it, F the packets on their way to   *)
(* the receiver and B those on their way back; box is what has been        *)
(* written, done what has been disposed of and ref what has been refused;  *)
(* mine are the files of the sender, lk those it cannot open, and e tells  *)
(* whether timers may expire early.                                        *)
(***************************************************************************)

\* The packets on their way, and whether b comes after a.
On(Q) == {Q[i] : i \in 1..Len(Q)}

Before(Q, a, b) == \E i, j \in 1..Len(Q) : i < j /\ Q[i] = a /\ Q[j] = b

\* No packet of these types is on its way.
None(Q, T) == \A a \in On(Q) : a.type \notin T

\* What is on its way belongs to the file that is announced before it, or is being received.
Stream(mine, R, F) ==
    /\ \A a \in On(F) : a.type = "DATA" => a.file \in mine /\ a.pos \in 0..(Size[a.file] - 1)
    /\ \A a \in On(F) : a.type = "FINFO" => a.file \in mine \cup {EndOfBatch}
    /\ R.st = "DATA" => \A a \in On(F) : a.type \in {"FINFO", "DATA"} => a.file = R.file
    /\ \A a, b \in On(F) : Before(F, a, b) /\ a.type = "FINFO" /\ b.type \in {"FINFO", "DATA"}
          => b.file = a.file

\* The position of the receiver is the length of the file, or the file is refused.
Writer(mine, R, box, ref) ==
    R.st = "DATA" => /\ R.file \in mine
                     /\ R.pos = Len(box[R.file]) \/ (R.pos = -2 /\ R.file \in ref)

\* Files leave the list for a reason, and only the one being sent has been received early.
Listed(e, mine, lk, t, R, F, box, done, ref) ==
    /\ \A i \in 1..Len(t.list) : t.list[i] \in mine
    /\ \A i, j \in 1..Len(t.list) : t.list[i] = t.list[j] => i = j
    /\ R.st = "DONE" => t.list = <<>>
    /\ \A a \in On(F) : a.type = "FINFO" /\ a.file = EndOfBatch => t.list = <<>>
    /\ \A f \in mine : f \in done \cup ref \cup lk \/ \E i \in 1..Len(t.list) : t.list[i] = f
    /\ e = TRUE /\ t.st # "Abort" => \A i \in 1..Len(t.list) :
          Len(box[t.list[i]]) < Size[t.list[i]] \/ (i = 1 /\ (t.st \in Transfers \/ R.st = "DATA"))

Beginning(t, R, F, B) ==
    t.st \in Beginnings =>
        /\ R.st \in {"INIT", "FINFO"}
        /\ None(F, {"FINFO", "DATA", "EOF"})
        /\ None(B, {"FINFOACK", "RPOS", "EOFACK"})

\* The file is offered, and the receiver has opened it.
Opened(t, q, R, F, B) ==
    /\ R.file = Current(t) /\ R.pos # -2 /\ R.timer = FALSE
    /\ q \notin Over => None(F, {"DATA", "EOF"})
    /\ \A a \in On(B) : a.type = "FINFOACK" => a.pos = R.pos
    /\ \A a, b \in On(B) : Before(B, a, b) /\ a.type = "FINFOACK" => b.type # "EOFACK"

\* The file is offered, and the receiver has not opened it: there is only one answer.
Unopened(e, t, q, F, B, box, ref) ==
    /\ \A a \in On(B) : a.type = "FINFOACK" =>
          /\ e # TRUE /\ t.list # <<>>
          /\ \/ a.pos = -1 /\ Len(box[Current(t)]) = Size[Current(t)]
             \/ a.pos = -2 /\ Current(t) \in ref
          /\ q \notin Over => None(F, {"FINFO"})
    /\ \A a, b \in On(B) : Before(B, a, b) => ~(a.type = "FINFOACK" /\ b.type = "FINFOACK")
    /\ e # TRUE /\ q \notin Over => \A a, b \in On(F) :
          Before(F, a, b) => ~(a.type = "FINFO" /\ b.type = "FINFO")

\* An answer is about the file that is offered.
Offering(e, t, q, R, F, B, box, ref) ==
    t.st = "FINFOACK" =>
        /\ t.err = FALSE
        /\ None(B, {"RPOS"})
        /\ q \notin Over =>
              /\ \A a \in On(F) : a.type = "FINFO" => a.file = Current(t)
              /\ \A a, b \in On(F) : Before(F, a, b) /\ a.type = "FINFO" => b.type \notin {"DATA", "EOF"}
        /\ R.st = "DATA" => Opened(t, q, R, F, B)
        /\ R.st \in {"INIT", "FINFO"} => Unopened(e, t, q, F, B, box, ref)

\* The sender of a file and its receiver.
Pair(t, R, box, ref) ==
    /\ t.list # <<>>
    /\ t.pos = -2 \/ t.pos \in 0..Size[Current(t)]
    /\ t.st # "EOFACK" => t.pos # -2
    /\ t.st = "EOFACK" /\ t.pos # -2 => t.pos = Size[Current(t)] /\ t.err = FALSE
    /\ t.pos = -2 \/ t.err = TRUE => Current(t) \in ref
    /\ R.st \in {"FINFO", "DATA"}
    /\ R.st = "DATA" => R.file = Current(t)
    /\ R.st = "FINFO" => box[Current(t)] = Blocks(Current(t)) \/ t.err = TRUE \/ t.pos = -2
    /\ t.pos = -2 /\ t.err = FALSE /\ R.st = "DATA" => R.pos = -2

\* What is on its way to the receiver of a file.
Fore(t, q, R, F) ==
    q \notin Over =>
        /\ \A a \in On(F) : a.type \in {"FINFO", "DATA"} => a.file = Current(t)
        /\ \A a, b \in On(F) : Before(F, a, b) /\ a.type \in {"DATA", "EOF"} => b.type # "FINFO"
        /\ \A a \in On(F) : a.type = "EOF" =>
              a.pos = Size[Current(t)] \/ (a.pos = -2 /\ (t.err = TRUE \/ t.pos = -2))
        /\ R.st = "FINFO" => None(F, {"FINFO"})

\* What is on its way back.
Back(t, R, B, ref) ==
    /\ \A a \in On(B) : a.type = "EOFACK" => R.st = "FINFO"
    /\ \A a, b \in On(B) : Before(B, a, b) /\ a.type = "EOFACK" => b.type \notin {"FINFOACK", "RPOS"}
    /\ \A a \in On(B) : a.type = "RPOS" =>
          \/ a.pos \in 0..Size[Current(t)] /\ (t.pos = -2 => t.err = TRUE)
          \/ a.pos = -2 /\ Current(t) \in ref /\ (R.st = "DATA" => R.pos = -2)
    /\ \A a, b \in On(B) : Before(B, a, b) /\ a.type = "RPOS" /\ b.type = "RPOS" /\ a.pos = -2
          => b.pos = -2

Transfer(t, q, R, F, B, box, ref) ==
    t.st \in Transfers => Pair(t, R, box, ref) /\ Fore(t, q, R, F) /\ Back(t, R, B, ref)

Ending(t, R) == t.st \in Endings => R.st = "DONE" /\ t.list = <<>>

Way(e, mine, lk, t, q, R, F, B, box, done, ref) ==
    /\ Stream(mine, R, F)
    /\ Writer(mine, R, box, ref)
    /\ Listed(e, mine, lk, t, R, F, box, done, ref)
    /\ Beginning(t, R, F, B)
    /\ Offering(e, t, q, R, F, B, box, ref)
    /\ Transfer(t, q, R, F, B, box, ref)
    /\ Ending(t, R)

-----------------------------------------------------------------------------
(* Packets that arrive, are lost or are sent. *)

\* Nothing has come to the packets Q.
Less(Q, P) ==
    /\ \A a \in On(P) : a \in On(Q)
    /\ \A a, b : Before(P, a, b) => Before(Q, a, b)

\* At most x has come to the packets Q, at the end.
More(Q, P, x) ==
    /\ \A a \in On(P) : a \in On(Q) \/ a = x
    /\ \A a, b : Before(P, a, b) => a \in On(Q) /\ (b = x \/ (b \in On(Q) /\ Before(Q, a, b)))

LEMMA TailLess ==
    ASSUME NEW Q \in Seq(Packets), Q # <<>>
    PROVE  /\ Tail(Q) \in Seq(Packets) /\ Less(Q, Tail(Q))
           /\ Head(Q) \in Packets /\ Head(Q) \in On(Q)
           /\ \A a \in On(Tail(Q)) : Before(Q, Head(Q), a)
<1> DEFINE P == Tail(Q)
<1>1. /\ P \in Seq(Packets) /\ Len(P) = Len(Q) - 1 /\ Len(Q) \in Nat \ {0}
      /\ \A i \in 1..Len(P) : P[i] = Q[i + 1]
      /\ Head(Q) = Q[1] /\ Head(Q) \in Packets
  OBVIOUS
<1> HIDE DEF P
<1>2. \A i \in 1..Len(P) : i + 1 \in 1..Len(Q) /\ 1 < i + 1 /\ P[i] = Q[i + 1]
  BY <1>1
<1>3. \A a \in On(P) : Before(Q, Head(Q), a) /\ a \in On(Q)
  BY <1>1, <1>2 DEF On, Before
<1>4. ASSUME NEW a, NEW b, Before(P, a, b)
      PROVE  Before(Q, a, b)
  <2>1. PICK i \in 1..Len(P), j \in 1..Len(P) : i < j /\ P[i] = a /\ P[j] = b
    BY <1>4 DEF Before
  <2>2. i + 1 \in 1..Len(Q) /\ j + 1 \in 1..Len(Q) /\ i + 1 < j + 1
    BY <1>1, <2>1
  <2>3. Q[i + 1] = a /\ Q[j + 1] = b
    BY <1>1, <2>1
  <2> QED BY <2>2, <2>3 DEF Before
<1>5. Head(Q) \in On(Q)
  BY <1>1 DEF On
<1> QED BY <1>1, <1>3, <1>4, <1>5 DEF Less, P

LEMMA AppendMore ==
    ASSUME NEW Q \in Seq(Packets), NEW x \in Packets
    PROVE  Append(Q, x) \in Seq(Packets) /\ More(Q, Append(Q, x), x)
<1> DEFINE P == Append(Q, x)
<1>1. /\ P \in Seq(Packets) /\ Len(P) = Len(Q) + 1 /\ Len(Q) \in Nat
      /\ \A i \in 1..Len(P) : (i \in 1..Len(Q) /\ P[i] = Q[i]) \/ (i = Len(P) /\ P[i] = x)
  OBVIOUS
<1> HIDE DEF P
<1>2. \A a \in On(P) : a \in On(Q) \/ a = x
  BY <1>1 DEF On
<1>3. ASSUME NEW a, NEW b, Before(P, a, b)
      PROVE  a \in On(Q) /\ (b = x \/ (b \in On(Q) /\ Before(Q, a, b)))
  <2>1. PICK i \in 1..Len(P), j \in 1..Len(P) : i < j /\ P[i] = a /\ P[j] = b
    BY <1>3 DEF Before
  <2>2. i \in 1..Len(Q) /\ Q[i] = a
    BY <1>1, <2>1
  <2>3. CASE j \in 1..Len(Q) /\ P[j] = Q[j]
    BY <2>1, <2>2, <2>3 DEF Before, On
  <2>4. CASE P[j] = x
    BY <2>1, <2>2, <2>4 DEF On
  <2> QED BY <2>1, <2>3, <2>4, <1>1
<1> QED BY <1>1, <1>2, <1>3 DEF More, P

\* Of the types K, nothing has come to the packets Q.
Spares(Q, P, K) ==
    /\ \A a \in On(P) : a.type \in K => a \in On(Q)
    /\ \A a, b : Before(P, a, b) /\ a.type \in K /\ b.type \in K => Before(Q, a, b)

LEMMA SparesLess ==
    ASSUME NEW Q, NEW P, Less(Q, P), NEW K
    PROVE  Spares(Q, P, K)
BY DEF Less, Spares

LEMMA SparesTrans ==
    ASSUME NEW Q, NEW P, NEW P2, NEW K, Spares(Q, P, K), Spares(P, P2, K)
    PROVE  Spares(Q, P2, K)
BY DEF Spares

Fores == {"FINFO", "DATA", "EOF"}

Backs == {"FINFOACK", "RPOS", "EOFACK"}

-----------------------------------------------------------------------------
(* Steps that one direction does not notice. *)

LEMMA WayAside ==
    ASSUME NEW e, NEW mine, NEW lk, NEW t, NEW q, NEW R, NEW F, NEW B, NEW box, NEW done,
           NEW ref, Way(e, mine, lk, t, q, R, F, B, box, done, ref),
           NEW F2, NEW B2, Spares(F, F2, Fores), Spares(B, B2, Backs)
    PROVE  Way(e, mine, lk, t, q, R, F2, B2, box, done, ref)
<1>3. Stream(mine, R, F2)
  BY DEF Way, Stream, Spares, Fores
<1>4. Listed(e, mine, lk, t, R, F2, box, done, ref)
  BY DEF Way, Listed, Spares, Fores
<1>5. Beginning(t, R, F2, B2)
  BY DEF Way, Beginning, None, Spares, Fores, Backs
<1>6. Offering(e, t, q, R, F2, B2, box, ref)
  <2>1. Opened(t, q, R, F, B) => Opened(t, q, R, F2, B2)
    BY DEF Opened, None, Spares, Fores, Backs
  <2>2. Unopened(e, t, q, F, B, box, ref) => Unopened(e, t, q, F2, B2, box, ref)
    BY DEF Unopened, None, Spares, Fores, Backs
  <2> QED BY <2>1, <2>2 DEF Way, Offering, None, Spares, Fores, Backs
<1>7. t.st \in Transfers => Fore(t, q, R, F2)
  BY DEF Way, Transfer, Fore, None, Spares, Fores
<1>8. t.st \in Transfers => Back(t, R, B2, ref)
  BY DEF Way, Transfer, Back, None, Spares, Backs
<1> QED BY <1>3, <1>4, <1>5, <1>6, <1>7, <1>8 DEF Way, Transfer

\* The receiver's side may end.
LEMMA WayPeer ==
    ASSUME NEW e, NEW mine, NEW lk, NEW t, NEW q, NEW R, NEW F, NEW B, NEW box, NEW done,
           NEW ref, Way(e, mine, lk, t, q, R, F, B, box, done, ref),
           NEW q2, q \in Over => q2 \in Over
    PROVE  Way(e, mine, lk, t, q2, R, F, B, box, done, ref)
<1>1. Offering(e, t, q2, R, F, B, box, ref)
  <2>1. Opened(t, q, R, F, B) => Opened(t, q2, R, F, B)
    BY DEF Opened
  <2>2. Unopened(e, t, q, F, B, box, ref) => Unopened(e, t, q2, F, B, box, ref)
    BY DEF Unopened
  <2> QED BY <2>1, <2>2 DEF Way, Offering
<1>2. Fore(t, q, R, F) => Fore(t, q2, R, F)
  BY DEF Fore
<1> QED BY <1>1, <1>2 DEF Way, Transfer

\* The transmitter u is at the same file and the same stage as t.
Like(t, u) ==
    /\ u.list = t.list /\ u.pos = t.pos /\ u.err = t.err
    /\ \/ u.st = t.st
       \/ u.st \in Beginnings /\ t.st \in Beginnings
       \/ u.st \in Transfers \ {"EOFACK"} /\ t.st \in Transfers \ {"EOFACK"}
       \/ u.st \in Endings /\ t.st \in Endings

LEMMA WayLike ==
    ASSUME NEW e, NEW mine, NEW lk, NEW t, NEW q, NEW R, NEW F, NEW B, NEW box, NEW done,
           NEW ref, Way(e, mine, lk, t, q, R, F, B, box, done, ref),
           NEW u, Like(t, u)
    PROVE  Way(e, mine, lk, u, q, R, F, B, box, done, ref)
<1>1. Current(u) = Current(t) /\ u.list = t.list /\ u.pos = t.pos /\ u.err = t.err
  BY DEF Like, Current
<1>2. /\ u.st \in Beginnings <=> t.st \in Beginnings
      /\ u.st \in Transfers <=> t.st \in Transfers
      /\ u.st \in Endings <=> t.st \in Endings
      /\ u.st = "FINFOACK" <=> t.st = "FINFOACK"
      /\ u.st = "EOFACK" <=> t.st = "EOFACK"
      /\ u.st = "Abort" <=> t.st = "Abort"
  BY DEF Like, Beginnings, Transfers, Endings
<1>3. Listed(e, mine, lk, u, R, F, box, done, ref)
  BY <1>1, <1>2 DEF Way, Listed
<1>4. Beginning(u, R, F, B) /\ Ending(u, R)
  BY <1>1, <1>2 DEF Way, Beginning, Ending
<1>5. Offering(e, u, q, R, F, B, box, ref)
  BY <1>1, <1>2 DEF Way, Offering, Opened, Unopened
<1>6. Transfer(u, q, R, F, B, box, ref)
  BY <1>1, <1>2 DEF Way, Transfer, Pair, Fore, Back
<1> QED BY <1>3, <1>4, <1>5, <1>6 DEF Way

\* The transmitter gives up.
LEMMA WayAbort ==
    ASSUME NEW e, NEW mine, NEW lk, NEW t, NEW q, NEW R, NEW F, NEW B, NEW box, NEW done,
           NEW ref, Way(e, mine, lk, t, q, R, F, B, box, done, ref),
           NEW u, u.list = t.list, u.st = "Abort"
    PROVE  Way(e, mine, lk, u, q, R, F, B, box, done, ref)
<1>1. Listed(e, mine, lk, u, R, F, box, done, ref)
  BY DEF Way, Listed
<1> QED BY <1>1 DEF Way, Beginning, Ending, Offering, Transfer, Beginnings, Transfers, Endings

\* The receiver answers INIT, or asks for a position.
LEMMA WayRx ==
    ASSUME NEW e, NEW mine, NEW lk, NEW t, NEW q, NEW R, NEW F, NEW B, NEW box, NEW done,
           NEW ref, Way(e, mine, lk, t, q, R, F, B, box, done, ref),
           NEW S, S.file = R.file, S.pos = R.pos,
           S.st = R.st \/ (R.st = "INIT" /\ S.st = "FINFO"),
           S.timer = R.timer \/ t.st # "FINFOACK"
    PROVE  Way(e, mine, lk, t, q, S, F, B, box, done, ref)
<1>1. Stream(mine, S, F) /\ Writer(mine, S, box, ref)
  BY DEF Way, Stream, Writer
<1>2. Listed(e, mine, lk, t, S, F, box, done, ref)
  BY DEF Way, Listed
<1>3. Beginning(t, S, F, B) /\ Ending(t, S)
  BY DEF Way, Beginning, Ending
<1>4. Offering(e, t, q, S, F, B, box, ref)
  BY DEF Way, Offering, Opened
<1>5. Transfer(t, q, S, F, B, box, ref)
  <2>1. CASE S.st = R.st
    BY <2>1 DEF Way, Transfer, Pair, Fore, Back
  <2>2. CASE R.st = "INIT"
    BY <2>2 DEF Way, Transfer, Pair
  <2> QED BY <2>1, <2>2
<1> QED BY <1>1, <1>2, <1>3, <1>4, <1>5 DEF Way

\* Another file is written, or some file is refused.
LEMMA WayElsewhere ==
    ASSUME NEW e, NEW mine, NEW lk, NEW t \in Tx, NEW q, NEW R, NEW F, NEW B, NEW box, NEW done,
           NEW ref, Way(e, mine, lk, t, q, R, F, B, box, done, ref),
           NEW box2, \A f \in mine : box2[f] = box[f],
           NEW ref2, ref \subseteq ref2
    PROVE  Way(e, mine, lk, t, q, R, F, B, box2, done, ref2)
<1>1. t.list # <<>> => Current(t) \in mine
  BY DEF Way, Listed, Current, Tx
<1>2. Writer(mine, R, box2, ref2)
  BY DEF Way, Writer
<1>3. Listed(e, mine, lk, t, R, F, box2, done, ref2)
  BY DEF Way, Listed
<1>4. Offering(e, t, q, R, F, B, box2, ref2)
  BY <1>1 DEF Way, Offering, Unopened
<1>5. Transfer(t, q, R, F, B, box2, ref2)
  BY <1>1 DEF Way, Transfer, Pair, Back
<1> QED BY <1>2, <1>3, <1>4, <1>5 DEF Way

-----------------------------------------------------------------------------
(* Steps of the transmitter. *)

\* x is sent, unless nobody reads any more.
Sends(q, Q, P, x) == IF q \in Over THEN P = Q ELSE More(Q, P, x)

\* u goes on with what is left of the list of t.
Follows(lk, t, u, done, ref) ==
    \E k \in 0..Len(t.list) :
        /\ Len(u.list) = Len(t.list) - k
        /\ \A i \in 1..Len(u.list) : u.list[i] = t.list[i + k]
        /\ \A j \in 1..k : t.list[j] \in done \cup ref \cup lk
        /\ k > 0 \/ t.st \in Beginnings

LEMMA CurrentFacts ==
    ASSUME NEW t \in Tx
    PROVE  /\ t.list = <<>> => Current(t) = EndOfBatch /\ Len(t.list) = 0
           /\ t.list # <<>> => /\ Current(t) \in Files /\ Current(t) # EndOfBatch
                               /\ Current(t) = t.list[1] /\ Len(t.list) > 0
           /\ Len(t.list) \in Nat
BY HydraAssumption DEF Current, Tx

LEMMA WayOffer ==
    ASSUME NEW e, NEW mine, NEW lk, NEW t \in Tx, NEW q, NEW R, NEW F, NEW B, NEW box, NEW done,
           NEW ref, Way(e, mine, lk, t, q, R, F, B, box, done, ref), t.st # "Abort",
           NEW u \in Tx, u.st = "FINFOACK", u.err = FALSE,
           NEW done2, done \subseteq done2, Follows(lk, t, u, done2, ref),
           NEW F2, NEW x, Sends(q, F, F2, x), x.type = "FINFO", x.file = Current(u),
           R.st \in {"INIT", "FINFO"}, None(B, {"FINFOACK", "RPOS"}),
           q \notin Over => None(F, {"FINFO"})
    PROVE  Way(e, mine, lk, u, q, R, F2, B, box, done2, ref)
<1>1. PICK k \in 0..Len(t.list) :
        /\ Len(u.list) = Len(t.list) - k
        /\ \A i \in 1..Len(u.list) : u.list[i] = t.list[i + k]
        /\ \A j \in 1..k : t.list[j] \in done2 \cup ref \cup lk
        /\ k > 0 \/ t.st \in Beginnings
  BY DEF Follows
<1>2. Len(t.list) \in Nat /\ Len(u.list) \in Nat
  BY CurrentFacts
<1>3. \A i \in 1..Len(u.list) : i + k \in 1..Len(t.list) /\ u.list[i] = t.list[i + k]
  BY <1>1, <1>2
<1>4. \A i \in 1..Len(u.list) : u.list[i] \in mine
  BY <1>3 DEF Way, Listed
<1>5. x.file \in mine \cup {EndOfBatch}
  BY <1>2, <1>4, CurrentFacts
<1>6. t.list = <<>> => u.list = <<>>
  BY <1>1, <1>2, CurrentFacts
<1>7. x.file = EndOfBatch => u.list = <<>>
  BY CurrentFacts
<1>8. Stream(mine, R, F2)
  BY <1>5 DEF Way, Stream, Sends, More, None
<1>9. Listed(e, mine, lk, u, R, F2, box, done2, ref)
  <2>1. \A i, j \in 1..Len(u.list) : u.list[i] = u.list[j] => i = j
    <3> SUFFICES ASSUME NEW i \in 1..Len(u.list), NEW j \in 1..Len(u.list), u.list[i] = u.list[j]
                 PROVE  i = j
      OBVIOUS
    <3>1. i + k \in 1..Len(t.list) /\ j + k \in 1..Len(t.list) /\ t.list[i + k] = t.list[j + k]
      BY <1>3
    <3>2. i + k = j + k
      BY <3>1 DEF Way, Listed
    <3> QED BY <3>2
  <2>2. \A a \in On(F2) : a.type = "FINFO" /\ a.file = EndOfBatch => u.list = <<>>
    BY <1>6, <1>7 DEF Way, Listed, Sends, More
  <2>3. ASSUME NEW f \in mine
        PROVE  f \in done2 \cup ref \cup lk \/ \E i \in 1..Len(u.list) : u.list[i] = f
    <3>1. CASE f \in done \cup ref \cup lk
      BY <3>1
    <3>2. CASE \E j \in 1..Len(t.list) : t.list[j] = f
      <4>1. PICK j \in 1..Len(t.list) : t.list[j] = f
        BY <3>2
      <4>2. CASE j <= k
        BY <1>1, <4>1, <4>2
      <4>3. CASE j > k
        <5>1. j - k \in 1..Len(u.list) /\ (j - k) + k = j
          BY <1>1, <1>2, <4>3
        <5>2. u.list[j - k] = f
          BY <1>3, <5>1, <4>1
        <5> QED BY <5>1, <5>2
      <4> QED BY <4>2, <4>3
    <3> QED BY <3>1, <3>2 DEF Way, Listed
  <2>4. ASSUME e = TRUE, NEW i \in 1..Len(u.list)
        PROVE  Len(box[u.list[i]]) < Size[u.list[i]]
    <3>1. i + k \in 1..Len(t.list) /\ u.list[i] = t.list[i + k]
      BY <1>3
    <3>2. CASE k > 0
      <4>1. \A j \in 1..Len(t.list) : Len(box[t.list[j]]) < Size[t.list[j]] \/ j = 1
        BY <2>4 DEF Way, Listed
      <4>2. i + k # 1
        BY <1>1, <3>2
      <4> QED BY <3>1, <4>1, <4>2
    <3>3. CASE t.st \in Beginnings
      BY <2>4, <3>1, <3>3 DEF Way, Listed, Beginnings, Transfers
    <3> QED BY <1>1, <3>2, <3>3
  <2> QED BY <1>4, <2>1, <2>2, <2>3, <2>4 DEF Listed
<1>10. Offering(e, u, q, R, F2, B, box, ref)
  <2>1. Unopened(e, u, q, F2, B, box, ref)
    BY DEF Unopened, None, Sends, More
  <2> QED BY <2>1 DEF Offering, None, Sends, More
<1> QED BY <1>8, <1>9, <1>10 DEF Way, Writer, Beginning, Ending, Transfer, Beginnings, Transfers, Endings

LEMMA WayRend ==
    ASSUME NEW e, NEW mine, NEW lk, NEW t, NEW q, NEW R, NEW F, NEW B, NEW box, NEW done,
           NEW ref, Way(e, mine, lk, t, q, R, F, B, box, done, ref),
           t.list = <<>>, R.st = "DONE",
           NEW u, u.list = t.list, u.st = "REND"
    PROVE  Way(e, mine, lk, u, q, R, F, B, box, done, ref)
<1>1. Listed(e, mine, lk, u, R, F, box, done, ref)
  BY DEF Way, Listed
<1> QED BY <1>1 DEF Way, Beginning, Ending, Offering, Transfer, Beginnings, Transfers, Endings

LEMMA WayBegin ==
    ASSUME NEW e, NEW mine, NEW lk, NEW t \in Tx, NEW q, NEW R, NEW F, NEW B, NEW box, NEW done,
           NEW ref, Way(e, mine, lk, t, q, R, F, B, box, done, ref),
           t.st = "FINFOACK", t.list # <<>>, R.st = "DATA", None(B, {"EOFACK"}),
           Len(box[R.file]) \in 0..Size[R.file],
           NEW u, u.list = t.list, u.err = t.err, u.pos = R.pos, u.st = "DATA"
    PROVE  Way(e, mine, lk, u, q, R, F, B, box, done, ref)
<1>1. Current(u) = Current(t)
  BY DEF Current
<1>2. Opened(t, q, R, F, B) /\ t.err = FALSE /\ None(B, {"RPOS"})
  BY DEF Way, Offering
<1>3. R.file = Current(t) /\ R.pos = Len(box[R.file]) /\ R.pos # -2
  BY <1>2 DEF Way, Writer, Opened
<1>4. Listed(e, mine, lk, u, R, F, box, done, ref)
  BY DEF Way, Listed, Transfers
<1>5. Pair(u, R, box, ref)
  BY <1>1, <1>2, <1>3 DEF Pair
<1>6. Fore(u, q, R, F)
  BY <1>1, <1>2 DEF Fore, Opened, Way, Offering, None
<1>7. Back(u, R, B, ref)
  BY <1>2 DEF Back, None
<1> QED BY <1>4, <1>5, <1>6, <1>7 DEF Way, Beginning, Ending, Offering, Transfer, Beginnings, Transfers, Endings

LEMMA WayBlock ==
    ASSUME NEW e, NEW mine, NEW lk, NEW t \in Tx, NEW q, NEW R, NEW F, NEW B, NEW box, NEW done,
           NEW ref, Way(e, mine, lk, t, q, R, F, B, box, done, ref),
           t.st = "DATA", t.pos < Size[Current(t)],
           NEW u, u.list = t.list, u.err = t.err, u.pos = t.pos + 1, u.st = "DATA",
           NEW F2, NEW x, Sends(q, F, F2, x), x.type = "DATA", x.file = Current(t), x.pos = t.pos
    PROVE  Way(e, mine, lk, u, q, R, F2, B, box, done, ref)
<1>1. Current(u) = Current(t)
  BY DEF Current
<1>2. Pair(t, R, box, ref) /\ Fore(t, q, R, F) /\ Back(t, R, B, ref)
  BY DEF Way, Transfer, Transfers
<1>3. Current(t) \in mine /\ Current(t) \in Files
  BY <1>2, CurrentFacts DEF Pair, Way, Listed
<1>4. Size[Current(t)] \in Nat /\ t.pos \in 0..(Size[Current(t)] - 1)
  BY <1>2, <1>3, HydraAssumption DEF Pair
<1>5. Stream(mine, R, F2)
  BY <1>2, <1>3, <1>4 DEF Way, Stream, Sends, More, Pair, Fore
<1>6. Listed(e, mine, lk, u, R, F2, box, done, ref)
  BY DEF Way, Listed, Transfers, Sends, More
<1>7. Pair(u, R, box, ref)
  BY <1>1, <1>2, <1>4 DEF Pair
<1>8. Fore(u, q, R, F2)
  <2>1. t.pos # -2 /\ u.pos # -2
    BY <1>4
  <2> QED BY <1>1, <1>2, <2>1 DEF Fore, Sends, More, None
<1>9. Back(u, R, B, ref)
  BY <1>1, <1>2, <1>4 DEF Back
<1> QED BY <1>5, <1>6, <1>7, <1>8, <1>9 DEF Way, Beginning, Ending, Offering, Transfer, Beginnings, Transfers, Endings

\* The end of the file is reached.
LEMMA WayAtEof ==
    ASSUME NEW e, NEW mine, NEW lk, NEW t, NEW q, NEW R, NEW F, NEW B, NEW box, NEW done,
           NEW ref, Way(e, mine, lk, t, q, R, F, B, box, done, ref),
           t.st = "DATA", t.pos = Size[Current(t)], t.err = FALSE,
           NEW u, u.list = t.list, u.err = t.err, u.pos = t.pos, u.st = "EOFACK"
    PROVE  Way(e, mine, lk, u, q, R, F, B, box, done, ref)
<1>1. Current(u) = Current(t)
  BY DEF Current
<1>2. Pair(t, R, box, ref) /\ Fore(t, q, R, F) /\ Back(t, R, B, ref)
  BY DEF Way, Transfer, Transfers
<1>3. Listed(e, mine, lk, u, R, F, box, done, ref)
  BY DEF Way, Listed, Transfers
<1>4. Pair(u, R, box, ref)
  BY <1>1, <1>2 DEF Pair
<1>5. Fore(u, q, R, F) /\ Back(u, R, B, ref)
  BY <1>1, <1>2 DEF Fore, Back
<1> QED BY <1>3, <1>4, <1>5 DEF Way, Beginning, Ending, Offering, Transfer, Beginnings, Transfers, Endings

\* The rest of the file is not sent: it cannot be read, or the receiver does not want it.
LEMMA WaySkip ==
    ASSUME NEW e, NEW mine, NEW lk, NEW t \in Tx, NEW q, NEW R, NEW F, NEW B, NEW box, NEW done,
           NEW ref, Way(e, mine, lk, t, q, R, F, B, box, done, ref),
           t.st \in Transfers, Current(t) \in ref,
           NEW u \in Tx, u.list = t.list, u.pos = -2, u.st = "EOFACK", t.err = TRUE => u.err = TRUE,
           u.err = FALSE => /\ R.st = "DATA" => R.pos = -2
                            /\ \A a \in On(B) : a.type = "RPOS" => a.pos = -2
    PROVE  Way(e, mine, lk, u, q, R, F, B, box, done, ref)
<1>1. Current(u) = Current(t)
  BY DEF Current
<1>2. Pair(t, R, box, ref) /\ Fore(t, q, R, F) /\ Back(t, R, B, ref)
  BY DEF Way, Transfer
<1>3. Listed(e, mine, lk, u, R, F, box, done, ref)
  BY DEF Way, Listed, Transfers
<1>4. Pair(u, R, box, ref)
  BY <1>1, <1>2 DEF Pair
<1>5. u.err = TRUE \/ u.err = FALSE
  BY DEF Tx
<1>6. Fore(u, q, R, F)
  BY <1>1, <1>2 DEF Fore
<1>7. Back(u, R, B, ref)
  BY <1>1, <1>2, <1>5 DEF Back
<1> QED BY <1>3, <1>4, <1>6, <1>7 DEF Way, Beginning, Ending, Offering, Transfer, Beginnings, Transfers, Endings

\* EOF is sent, for the first time or again.
LEMMA WayEof ==
    ASSUME NEW e, NEW mine, NEW lk, NEW t, NEW q, NEW R, NEW F, NEW B, NEW box, NEW done,
           NEW ref, Way(e, mine, lk, t, q, R, F, B, box, done, ref), t.st = "EOFACK",
           NEW F2, NEW x, Sends(q, F, F2, x), x.type = "EOF", x.pos = t.pos
    PROVE  Way(e, mine, lk, t, q, R, F2, B, box, done, ref)
<1>2. Pair(t, R, box, ref) /\ Fore(t, q, R, F) /\ Back(t, R, B, ref)
  BY DEF Way, Transfer, Transfers
<1>3. Stream(mine, R, F2)
  BY DEF Way, Stream, Sends, More
<1>4. Listed(e, mine, lk, t, R, F2, box, done, ref)
  BY DEF Way, Listed, Sends, More
<1>5. Fore(t, q, R, F2)
  BY <1>2 DEF Fore, Sends, More, None, Pair
<1> QED BY <1>2, <1>3, <1>4, <1>5 DEF Way, Beginning, Ending, Offering, Transfer, Beginnings, Transfers, Endings

\* The sender goes where the receiver is.
LEMMA WaySeek ==
    ASSUME NEW e, NEW mine, NEW lk, NEW t \in Tx, NEW q, NEW R, NEW F, NEW B, NEW box, NEW done,
           NEW ref, Way(e, mine, lk, t, q, R, F, B, box, done, ref), t.st \in Transfers,
           NEW p, p \in 0..Size[Current(t)], t.pos = -2 => t.err = TRUE,
           NEW u, u.list = t.list, u.err = t.err, u.pos = p, u.st \in Transfers \ {"EOFACK"}
    PROVE  Way(e, mine, lk, u, q, R, F, B, box, done, ref)
<1>1. Current(u) = Current(t)
  BY DEF Current
<1>2. Pair(t, R, box, ref) /\ Fore(t, q, R, F) /\ Back(t, R, B, ref)
  BY DEF Way, Transfer
<1>3. Listed(e, mine, lk, u, R, F, box, done, ref)
  BY DEF Way, Listed, Transfers
<1>4. Size[Current(t)] \in Nat /\ u.pos # -2
  BY <1>2, CurrentFacts, HydraAssumption DEF Pair
<1>5. Pair(u, R, box, ref)
  BY <1>1, <1>2, <1>4 DEF Pair
<1>6. Fore(u, q, R, F)
  BY <1>1, <1>2 DEF Fore
<1>7. Back(u, R, B, ref)
  BY <1>1, <1>2, <1>4 DEF Back
<1> QED BY <1>3, <1>5, <1>6, <1>7 DEF Way, Beginning, Ending, Offering, Transfer, Beginnings, Transfers, Endings

\* FINFO is sent again.
LEMMA WayAgain ==
    ASSUME NEW e, NEW mine, NEW lk, NEW t \in Tx, NEW q, NEW R, NEW F, NEW B, NEW box, NEW done,
           NEW ref, Way(e, mine, lk, t, q, R, F, B, box, done, ref), t.st = "FINFOACK",
           e = TRUE \/ (None(B, {"FINFOACK"}) /\ (q \notin Over => None(F, {"FINFO"}))),
           NEW F2, NEW x, Sends(q, F, F2, x), x.type = "FINFO", x.file = Current(t)
    PROVE  Way(e, mine, lk, t, q, R, F2, B, box, done, ref)
<1>1. /\ x.file \in mine \cup {EndOfBatch}
      /\ x.file = EndOfBatch => t.list = <<>>
  BY CurrentFacts DEF Way, Listed
<1>2. Stream(mine, R, F2)
  BY <1>1 DEF Way, Stream, Offering, Opened, Sends, More
<1>3. Listed(e, mine, lk, t, R, F2, box, done, ref)
  BY <1>1 DEF Way, Listed, Sends, More
<1>4. R.st = "DATA" => Opened(t, q, R, F2, B)
  BY DEF Way, Offering, Opened, Sends, More, None
<1>5. R.st \in {"INIT", "FINFO"} => Unopened(e, t, q, F2, B, box, ref)
  BY DEF Way, Offering, Unopened, Sends, More, None
<1>6. Offering(e, t, q, R, F2, B, box, ref)
  BY <1>4, <1>5 DEF Way, Offering, Sends, More
<1> QED BY <1>2, <1>3, <1>6 DEF Way, Beginning, Ending, Transfer, Beginnings, Transfers, Endings

-----------------------------------------------------------------------------
(* Steps of the receiver. *)

\* The end of the batch is announced.
LEMMA WayFinal ==
    ASSUME NEW e, NEW mine, NEW lk, NEW t, NEW q, NEW R, NEW F, NEW B, NEW box, NEW done,
           NEW ref, Way(e, mine, lk, t, q, R, F, B, box, done, ref),
           t.st \in {"FINFOACK", "Abort"}, t.list = <<>>,
           NEW S, S.st = "DONE",
           NEW B2, NEW x, Sends(t.st, B, B2, x), x.type = "FINFOACK"
    PROVE  Way(e, mine, lk, t, q, S, F, B2, box, done, ref)
<1>1. Stream(mine, S, F) /\ Writer(mine, S, box, ref)
  BY DEF Way, Stream, Writer
<1>2. Listed(e, mine, lk, t, S, F, box, done, ref)
  BY DEF Way, Listed
<1>3. Offering(e, t, q, S, F, B2, box, ref)
  BY DEF Way, Offering, Sends, More, None, Over
<1> QED BY <1>1, <1>2, <1>3 DEF Way, Beginning, Ending, Transfer, Beginnings, Transfers, Endings

\* The file that is offered is here already, or cannot be opened.
LEMMA WayRefuse ==
    ASSUME NEW e, NEW mine, NEW lk, NEW t, NEW q, NEW R, NEW F, NEW B, NEW box, NEW done,
           NEW ref, Way(e, mine, lk, t, q, R, F, B, box, done, ref),
           t.st \in {"FINFOACK", "Abort"}, R.st = "FINFO",
           NEW B2, NEW x, Sends(t.st, B, B2, x), x.type = "FINFOACK",
           t.st = "FINFOACK" =>
               /\ t.list # <<>> /\ e # TRUE
               /\ \/ x.pos = -1 /\ Len(box[Current(t)]) = Size[Current(t)]
                  \/ x.pos = -2 /\ Current(t) \in ref
               /\ None(F, {"FINFO"}) /\ None(B, {"FINFOACK"})
    PROVE  Way(e, mine, lk, t, q, R, F, B2, box, done, ref)
<1>1. t.st = "FINFOACK" => Unopened(e, t, q, F, B2, box, ref)
  BY DEF Way, Offering, Unopened, Sends, More, None, Over
<1>2. Offering(e, t, q, R, F, B2, box, ref)
  BY <1>1 DEF Way, Offering, Sends, More, None, Over
<1> QED BY <1>2 DEF Way, Beginning, Ending, Transfer, Beginnings, Transfers, Endings

\* The file that is offered is opened.
LEMMA WayOpen ==
    ASSUME NEW e, NEW mine, NEW lk, NEW t, NEW q, NEW R, NEW F, NEW B, NEW box, NEW done,
           NEW ref, Way(e, mine, lk, t, q, R, F, B, box, done, ref),
           t.st \in {"FINFOACK", "Abort"}, R.st = "FINFO",
           NEW f \in mine, \A a \in On(F) : a.type \in {"FINFO", "DATA"} => a.file = f,
           NEW S, S.st = "DATA", S.file = f, S.pos = Len(box[f]), S.pos # -2, S.timer = FALSE,
           NEW B2, NEW x, Sends(t.st, B, B2, x), x.type = "FINFOACK", x.pos = S.pos,
           t.st = "FINFOACK" =>
               /\ f = Current(t)
               /\ q \notin Over => None(F, {"DATA", "EOF"})
               /\ None(B, {"FINFOACK"})
    PROVE  Way(e, mine, lk, t, q, S, F, B2, box, done, ref)
<1>1. Stream(mine, S, F) /\ Writer(mine, S, box, ref)
  BY DEF Way, Stream, Writer
<1>2. Listed(e, mine, lk, t, S, F, box, done, ref)
  BY DEF Way, Listed
<1>3. t.st = "FINFOACK" => Opened(t, q, S, F, B2)
  BY DEF Opened, Sends, More, None, Over
<1>4. Offering(e, t, q, S, F, B2, box, ref)
  BY <1>3 DEF Way, Offering, Sends, More, None, Over
<1> QED BY <1>1, <1>2, <1>4 DEF Way, Beginning, Ending, Transfer, Beginnings, Transfers, Endings

\* FINFO has come again.
LEMMA WayAnswer ==
    ASSUME NEW e, NEW mine, NEW lk, NEW t, NEW q, NEW R, NEW F, NEW B, NEW box, NEW done,
           NEW ref, Way(e, mine, lk, t, q, R, F, B, box, done, ref),
           R.st \in {"DATA", "DONE"},
           NEW B2, NEW x, Sends(t.st, B, B2, x), x.type = "FINFOACK",
           R.st = "DATA" => x.pos = R.pos
    PROVE  Way(e, mine, lk, t, q, R, F, B2, box, done, ref)
<1>1. t.st = "FINFOACK" /\ R.st = "DATA" => Opened(t, q, R, F, B2)
  BY DEF Way, Offering, Opened, Sends, More, None, Over
<1>2. Offering(e, t, q, R, F, B2, box, ref)
  BY <1>1 DEF Way, Offering, Sends, More, None, Over
<1>3. t.st \in Transfers => Back(t, R, B2, ref)
  BY DEF Way, Transfer, Pair, Back, Sends, More
<1> QED BY <1>2, <1>3 DEF Way, Beginning, Ending, Transfer, Beginnings

\* The next block is written.
LEMMA WayWrite ==
    ASSUME NEW e, NEW mine, NEW lk, NEW t \in Tx, NEW q, NEW R, NEW F, NEW B, NEW box, NEW done,
           NEW ref, Way(e, mine, lk, t, q, R, F, B, box, done, ref),
           R.st = "DATA", R.pos = Len(box[R.file]), R.pos \in Nat, t.st # "FINFOACK",
           NEW S, S.st = "DATA", S.file = R.file, S.pos = R.pos + 1,
           NEW box2, \A f \in mine \ {R.file} : box2[f] = box[f],
           Len(box2[R.file]) = R.pos + 1
    PROVE  Way(e, mine, lk, t, q, S, F, B, box2, done, ref)
<1>0. S.pos # -2 /\ R.pos # -2
  OBVIOUS
<1>1. Stream(mine, S, F) /\ Writer(mine, S, box2, ref)
  BY DEF Way, Stream, Writer
<1>2. t.st \notin Beginnings /\ t.st \notin Endings
  BY DEF Way, Beginning, Ending
<1>3. t.st \in Transfers => Pair(t, R, box, ref) /\ Fore(t, q, R, F) /\ Back(t, R, B, ref)
  BY DEF Way, Transfer
<1>4. t.st \in Transfers => t.list[1] = R.file /\ 1 \in 1..Len(t.list)
  BY <1>3, CurrentFacts DEF Pair
<1>5. t.st \in Transfers \/ t.st = "Abort"
  BY <1>2 DEF Tx, TxStates
<1>6. Listed(e, mine, lk, t, S, F, box2, done, ref)
  <2>1. ASSUME t.st \in Transfers, NEW i \in 1..Len(t.list), i # 1
        PROVE  box2[t.list[i]] = box[t.list[i]]
    BY <2>1, <1>4 DEF Way, Listed
  <2> QED BY <1>5, <2>1 DEF Way, Listed
<1>7. t.st \in Transfers => Pair(t, S, box2, ref)
  BY <1>0, <1>3 DEF Pair
<1>8. t.st \in Transfers => Fore(t, q, S, F) /\ Back(t, S, B, ref)
  BY <1>0, <1>3 DEF Fore, Back
<1> QED BY <1>1, <1>2, <1>6, <1>7, <1>8 DEF Way, Beginning, Ending, Offering, Transfer

\* The file cannot be written.
LEMMA WayRefused ==
    ASSUME NEW e, NEW mine, NEW lk, NEW t \in Tx, NEW q, NEW R, NEW F, NEW B, NEW box, NEW done,
           NEW ref, Way(e, mine, lk, t, q, R, F, B, box, done, ref),
           R.st = "DATA", R.file \in ref, t.st # "FINFOACK",
           NEW S, S.st = "DATA", S.file = R.file, S.pos = -2
    PROVE  Way(e, mine, lk, t, q, S, F, B, box, done, ref)
<1>1. Stream(mine, S, F) /\ Writer(mine, S, box, ref)
  BY DEF Way, Stream, Writer
<1>2. Listed(e, mine, lk, t, S, F, box, done, ref)
  BY DEF Way, Listed
<1>3. Transfer(t, q, S, F, B, box, ref)
  BY DEF Way, Transfer, Pair, Fore, Back
<1> QED BY <1>1, <1>2, <1>3 DEF Way, Beginning, Ending, Offering

\* The receiver asks for its position.
LEMMA WayAsk ==
    ASSUME NEW e, NEW mine, NEW lk, NEW t \in Tx, NEW q, NEW R, NEW F, NEW B, NEW box, NEW done,
           NEW ref, Way(e, mine, lk, t, q, R, F, B, box, done, ref),
           R.st = "DATA", t.st # "FINFOACK", Len(box[R.file]) \in 0..Size[R.file],
           NEW B2, NEW x, Sends(t.st, B, B2, x), x.type = "RPOS", x.pos = R.pos
    PROVE  Way(e, mine, lk, t, q, R, F, B2, box, done, ref)
<1>1. t.err = TRUE \/ t.err = FALSE
  BY DEF Tx
<1>2. t.st \in Transfers => Pair(t, R, box, ref) /\ Fore(t, q, R, F) /\ Back(t, R, B, ref)
  BY DEF Way, Transfer
<1>3. t.st \in Transfers =>
        \/ x.pos \in 0..Size[Current(t)] /\ (t.pos = -2 => t.err = TRUE) /\ x.pos # -2
        \/ x.pos = -2 /\ Current(t) \in ref
  BY <1>1, <1>2, HydraAssumption DEF Pair, Way, Writer
<1>4. t.st \in Transfers => Back(t, R, B2, ref)
  BY <1>2, <1>3 DEF Back, Sends, More
<1> QED BY <1>2, <1>4 DEF Way, Beginning, Ending, Offering, Transfer

\* The end of a file that has been received has come again.
LEMMA WayAck ==
    ASSUME NEW e, NEW mine, NEW lk, NEW t, NEW q, NEW R, NEW F, NEW B, NEW box, NEW done,
           NEW ref, Way(e, mine, lk, t, q, R, F, B, box, done, ref),
           R.st = "FINFO", t.st \notin Beginnings,
           NEW B2, NEW x, Sends(t.st, B, B2, x), x.type = "EOFACK"
    PROVE  Way(e, mine, lk, t, q, R, F, B2, box, done, ref)
<1>1. t.st = "FINFOACK" => Unopened(e, t, q, F, B2, box, ref)
  BY DEF Way, Offering, Unopened, Sends, More
<1>2. Offering(e, t, q, R, F, B2, box, ref)
  BY <1>1 DEF Way, Offering, Sends, More, None
<1>3. t.st \in Transfers => Back(t, R, B2, ref)
  BY DEF Way, Transfer, Pair, Back, Sends, More
<1> QED BY <1>2, <1>3 DEF Way, Beginning, Ending, Transfer

\* The file is closed.
LEMMA WayClose ==
    ASSUME NEW e, NEW mine, NEW lk, NEW t \in Tx, NEW q, NEW R, NEW F, NEW B, NEW box, NEW done,
           NEW ref, Way(e, mine, lk, t, q, R, F, B, box, done, ref),
           R.st = "DATA", t.st # "FINFOACK",
           t.st \in Transfers =>
               /\ box[Current(t)] = Blocks(Current(t)) \/ t.err = TRUE \/ t.pos = -2
               /\ None(F, {"FINFO"}),
           NEW S, S.st = "FINFO",
           NEW B2, NEW x, Sends(t.st, B, B2, x), x.type = "EOFACK"
    PROVE  Way(e, mine, lk, t, q, S, F, B2, box, done, ref)
<1>1. Stream(mine, S, F) /\ Writer(mine, S, box, ref)
  BY DEF Way, Stream, Writer
<1>2. t.st \notin Beginnings /\ t.st \notin Endings
  BY DEF Way, Beginning, Ending
<1>3. t.st \in Transfers \/ t.st = "Abort"
  BY <1>2 DEF Tx, TxStates
<1>4. t.st \in Transfers => Pair(t, R, box, ref) /\ Fore(t, q, R, F) /\ Back(t, R, B, ref)
  BY DEF Way, Transfer
<1>5. Listed(e, mine, lk, t, S, F, box, done, ref)
  BY <1>3 DEF Way, Listed
<1>6. t.st \in Transfers => Pair(t, S, box, ref)
  BY <1>4 DEF Pair
<1>7. t.st \in Transfers => Fore(t, q, S, F)
  BY <1>4 DEF Fore
<1>8. t.st \in Transfers => Back(t, S, B2, ref)
  BY <1>4 DEF Back, Sends, More
<1> QED BY <1>1, <1>2, <1>5, <1>6, <1>7, <1>8 DEF Way, Beginning, Ending, Offering, Transfer

-----------------------------------------------------------------------------
(* Types are kept. *)

Typed ==
    /\ work \in Workloads
    /\ tx \in [Sides -> Tx] /\ rx \in [Sides -> Rx] /\ hdxlink \in [Sides -> BOOLEAN]
    /\ link \in [Sides -> Seq(Packets)] /\ inbox \in Boxes
    /\ sent \in [Sides -> SUBSET Files] /\ refused \in SUBSET Names /\ faults \in Nat
    /\ \A n \in Sides : tx[n].st \in Transfers => tx[n].list # <<>>
    /\ \A n \in Sides : rx[n].st = "DATA" => rx[n].file \in Files

LEMMA PeerFacts ==
    ASSUME NEW n \in Sides
    PROVE  Peer(n) \in Sides /\ Peer(n) # n /\ Peer(Peer(n)) = n /\ \A s \in Sides : s = n \/ s = Peer(n)
BY DEF Sides, Peer

LEMMA PacketFacts ==
    ASSUME NEW type \in PacketTypes, NEW f \in Names, NEW p \in Int, NEW id \in Nat
    PROVE  /\ Packet(type, f, p, id) \in Packets
           /\ Packet(type, f, p, id).type = type /\ Packet(type, f, p, id).file = f
           /\ Packet(type, f, p, id).pos = p /\ Packet(type, f, p, id).id = id
BY DEF Packet, Packets

LEMMA SignalFacts ==
    ASSUME NEW type \in PacketTypes
    PROVE  Signal(type) \in Packets /\ Signal(type).type = type
BY PacketFacts DEF Signal, Names

LEMMA NumberFacts ==
    ASSUME NEW type \in PacketTypes, NEW p \in Int
    PROVE  Number(type, p) \in Packets /\ Number(type, p).type = type /\ Number(type, p).pos = p
BY PacketFacts DEF Number, Names

LEMMA FinfoFacts ==
    ASSUME NEW t \in Tx
    PROVE  /\ \E x \in Packets : Finfo(t) = <<x>> /\ x.type = "FINFO" /\ x.file = Current(t)
           /\ Finfo(t) \in Seq(Packets)
<1>1. Current(t) \in Names
  BY CurrentFacts DEF Names
<1>2. \E x \in Packets : Finfo(t) = <<x>> /\ x.type = "FINFO" /\ x.file = Current(t)
  BY <1>1, PacketFacts DEF Finfo, PacketTypes
<1>3. PICK x \in Packets : Finfo(t) = <<x>>
  BY <1>2
<1> QED BY <1>2, <1>3

LEMMA EofFacts ==
    ASSUME NEW t \in Tx
    PROVE  /\ \E x \in Packets : Eof(t) = <<x>> /\ x.type = "EOF" /\ x.pos = t.pos
           /\ Eof(t) \in Seq(Packets)
<1>1. \E x \in Packets : Eof(t) = <<x>> /\ x.type = "EOF" /\ x.pos = t.pos
  BY NumberFacts DEF Eof, PacketTypes, Tx
<1>2. PICK x \in Packets : Eof(t) = <<x>>
  BY <1>1
<1> QED BY <1>1, <1>2

LEMMA LeastMember ==
    ASSUME NEW T, T \subseteq Nat, T # {}
    PROVE  \E z \in T : \A y \in T : z <= y
<1> DEFINE R == {p \in Nat \X Nat : p[1] < p[2]}
<1>1. IsWellFoundedOn(R, Nat)
  BY NatLessThanWellFounded DEF OpToRel
<1> HIDE DEF R
<1>2. PICK x \in T : \A y \in T : <<y, x>> \notin R
  BY <1>1, WFMin
<1>3. \A y \in T : ~(y < x)
  BY <1>2 DEF R
<1> QED BY <1>3

\* What is left of a list begins at the first file that can be opened.
LEMMA OpenableFacts ==
    ASSUME NEW list \in Seq(Files)
    PROVE  /\ Openable(list) \in Seq(Files)
           /\ \E k \in 0..Len(list) :
                 /\ Len(Openable(list)) = Len(list) - k
                 /\ \A i \in 1..Len(Openable(list)) : Openable(list)[i] = list[i + k]
                 /\ \A j \in 1..k : list[j] \in work.locked
<1> DEFINE ready == {k \in 1..Len(list) : list[k] \notin work.locked}
           first == CHOOSE k \in ready : \A j \in ready : k <= j
<1>0. Len(list) \in Nat
  OBVIOUS
<1>1. CASE ready = {}
  <2>1. Openable(list) = <<>>
    BY <1>1 DEF Openable
  <2>2. Len(list) \in 0..Len(list) /\ \A j \in 1..Len(list) : list[j] \in work.locked
    BY <1>0, <1>1
  <2> QED BY <1>0, <2>1, <2>2
<1>2. CASE ready # {}
  <2>1. \E k \in ready : \A j \in ready : k <= j
    <3>1. ready \subseteq Nat /\ ready # {}
      BY <1>2
    <3> HIDE DEF ready
    <3> QED BY <3>1, LeastMember
  <2>2. first \in ready /\ \A j \in ready : first <= j
    BY <2>1
  <2> HIDE DEF first
  <2>3. Openable(list) = SubSeq(list, first, Len(list))
    BY <1>2 DEF Openable, first
  <2>4. first \in 1..Len(list) /\ \A j \in 1..(first - 1) : list[j] \in work.locked
    BY <2>2, <1>0
  <2> DEFINE k == first - 1
  <2>5. k \in 0..Len(list) /\ first = k + 1
    BY <2>4, <1>0
  <2>6. /\ SubSeq(list, first, Len(list)) \in Seq(Files)
        /\ Len(SubSeq(list, first, Len(list))) = Len(list) - k
        /\ \A i \in 1..Len(SubSeq(list, first, Len(list))) :
              SubSeq(list, first, Len(list))[i] = list[i + k]
    BY <2>4, <1>0
  <2> QED BY <2>3, <2>4, <2>5, <2>6
<1> QED BY <1>1, <1>2

LEMMA OfferFacts ==
    ASSUME NEW t \in Tx, NEW list \in Seq(Files)
    PROVE  /\ Offer(t, list) \in Tx /\ Offer(t, list).st = "FINFOACK"
           /\ Offer(t, list).err = FALSE /\ Offer(t, list).list = Openable(list)
<1>1. Openable(list) \in Seq(Files)
  BY OpenableFacts
<1> QED BY <1>1 DEF Offer, Tx, TxStates

LEMMA SetTxFacts ==
    ASSUME tx \in [Sides -> Tx], NEW n \in Sides, NEW t \in Tx, SetTx(n, t)
    PROVE  tx' \in [Sides -> Tx] /\ tx'[n] = t /\ tx'[Peer(n)] = tx[Peer(n)]
BY PeerFacts DEF SetTx

LEMMA GiveFacts ==
    ASSUME tx \in [Sides -> Tx], NEW n \in Sides, Give(n)
    PROVE  /\ tx' \in [Sides -> Tx] /\ tx'[n].st = "Abort" /\ tx'[n].list = tx[n].list
           /\ tx'[Peer(n)] = tx[Peer(n)]
<1>1. /\ [tx[n] EXCEPT !.st = "Abort"] \in Tx
      /\ [tx[n] EXCEPT !.st = "Abort"].st = "Abort"
      /\ [tx[n] EXCEPT !.st = "Abort"].list = tx[n].list
  BY DEF Tx, TxStates
<1> QED BY <1>1, SetTxFacts DEF Give

LEMMA LiveOver ==
    ASSUME NEW n
    PROVE  Live(n) <=> tx[n].st \notin Over
BY DEF Live, Ended, Over

\* The packets on the line after nothing, or one packet, has been sent.
LEMMA ExchangeNone ==
    ASSUME link \in [Sides -> Seq(Packets)], NEW n \in Sides, NEW rest \in Seq(Packets),
           Exchange(n, rest, <<>>)
    PROVE  link' \in [Sides -> Seq(Packets)] /\ link'[n] = rest /\ link'[Peer(n)] = link[Peer(n)]
<1>1. link[Peer(n)] \in Seq(Packets) /\ link[Peer(n)] \o <<>> = link[Peer(n)]
  BY PeerFacts
<1> QED BY <1>1, PeerFacts DEF Exchange

LEMMA ExchangeOne ==
    ASSUME link \in [Sides -> Seq(Packets)], NEW n \in Sides, NEW rest \in Seq(Packets),
           NEW x \in Packets, Exchange(n, rest, <<x>>)
    PROVE  /\ link' \in [Sides -> Seq(Packets)] /\ link'[n] = rest
           /\ Sends(tx[Peer(n)].st, link[Peer(n)], link'[Peer(n)], x)
<1> DEFINE Q == link[Peer(n)]
<1>1. Q \in Seq(Packets) /\ Q \o <<x>> = Append(Q, x) /\ Append(Q, x) \in Seq(Packets)
  BY PeerFacts
<1>2. More(Q, Append(Q, x), x)
  BY <1>1, AppendMore
<1>3. /\ link' \in [Sides -> Seq(Packets)] /\ link'[n] = rest
      /\ link'[Peer(n)] = IF Live(Peer(n)) THEN Append(Q, x) ELSE Q
  BY <1>1, PeerFacts DEF Exchange
<1> QED BY <1>2, <1>3, LiveOver DEF Sends

LEMMA ExchangeTwo ==
    ASSUME link \in [Sides -> Seq(Packets)], NEW n \in Sides, NEW rest \in Seq(Packets),
           NEW x \in Packets, NEW y \in Packets, Exchange(n, rest, <<x, y>>)
    PROVE  /\ link' \in [Sides -> Seq(Packets)] /\ link'[n] = rest
           /\ \E P \in Seq(Packets) : /\ Sends(tx[Peer(n)].st, link[Peer(n)], P, x)
                                      /\ Sends(tx[Peer(n)].st, P, link'[Peer(n)], y)
<1> DEFINE Q == link[Peer(n)]
           P == IF Live(Peer(n)) THEN Append(Q, x) ELSE Q
<1>1. /\ Q \in Seq(Packets) /\ Q \o <<x, y>> = Append(Append(Q, x), y)
      /\ Append(Q, x) \in Seq(Packets) /\ Append(Append(Q, x), y) \in Seq(Packets)
  BY PeerFacts
<1>2. More(Q, Append(Q, x), x) /\ More(Append(Q, x), Append(Append(Q, x), y), y)
  BY <1>1, AppendMore
<1>3. /\ link' \in [Sides -> Seq(Packets)] /\ link'[n] = rest
      /\ link'[Peer(n)] = IF Live(Peer(n)) THEN Append(Append(Q, x), y) ELSE Q
  BY <1>1, PeerFacts DEF Exchange
<1>4. P \in Seq(Packets) /\ Sends(tx[Peer(n)].st, Q, P, x) /\ Sends(tx[Peer(n)].st, P, link'[Peer(n)], y)
  BY <1>1, <1>2, <1>3, LiveOver DEF Sends
<1> QED BY <1>3, <1>4

LEMMA ExchangeThree ==
    ASSUME link \in [Sides -> Seq(Packets)], NEW n \in Sides, NEW rest \in Seq(Packets),
           NEW x \in Packets, Exchange(n, rest, <<x, x, x>>)
    PROVE  /\ link' \in [Sides -> Seq(Packets)] /\ link'[n] = rest
           /\ \E P \in Seq(Packets), P2 \in Seq(Packets) :
                 /\ Sends(tx[Peer(n)].st, link[Peer(n)], P, x)
                 /\ Sends(tx[Peer(n)].st, P, P2, x)
                 /\ Sends(tx[Peer(n)].st, P2, link'[Peer(n)], x)
<1> DEFINE Q == link[Peer(n)]
           Q1 == Append(Q, x)
           Q2 == Append(Q1, x)
           Q3 == Append(Q2, x)
           P == IF Live(Peer(n)) THEN Q1 ELSE Q
           P2 == IF Live(Peer(n)) THEN Q2 ELSE Q
<1>1. /\ Q \in Seq(Packets) /\ Q \o <<x, x, x>> = Q3
      /\ Q1 \in Seq(Packets) /\ Q2 \in Seq(Packets) /\ Q3 \in Seq(Packets)
  BY PeerFacts
<1>2. More(Q, Q1, x) /\ More(Q1, Q2, x) /\ More(Q2, Q3, x)
  BY <1>1, AppendMore
<1>3. /\ link' \in [Sides -> Seq(Packets)] /\ link'[n] = rest
      /\ link'[Peer(n)] = IF Live(Peer(n)) THEN Q3 ELSE Q
  BY <1>1, PeerFacts DEF Exchange
<1> HIDE DEF Q1, Q2, Q3
<1>4. /\ P \in Seq(Packets) /\ P2 \in Seq(Packets)
      /\ Sends(tx[Peer(n)].st, Q, P, x)
      /\ Sends(tx[Peer(n)].st, P, P2, x)
      /\ Sends(tx[Peer(n)].st, P2, link'[Peer(n)], x)
  BY <1>1, <1>2, <1>3, LiveOver DEF Sends
<1> QED BY <1>3, <1>4

\* The parts of the state each action leaves alone.
LEMMA TypedTx ==
    ASSUME Typed, NEW n \in Sides, tx' \in [Sides -> Tx], tx'[Peer(n)] = tx[Peer(n)],
           tx'[n].st \in Transfers => tx'[n].list # <<>>
    PROVE  \A s \in Sides : tx'[s].st \in Transfers => tx'[s].list # <<>>
BY PeerFacts DEF Typed

LEMMA TypedRx ==
    ASSUME Typed, NEW n \in Sides, NEW r \in Rx, rx' = [rx EXCEPT ![n] = r],
           r.st = "DATA" => r.file \in Files
    PROVE  /\ rx' \in [Sides -> Rx] /\ rx'[n] = r /\ rx'[Peer(n)] = rx[Peer(n)]
           /\ \A s \in Sides : rx'[s].st = "DATA" => rx'[s].file \in Files
BY PeerFacts DEF Typed

LEMMA HeadFacts ==
    ASSUME Typed, NEW n \in Sides, link[n] # <<>>
    PROVE  /\ link[n] \in Seq(Packets) /\ Tail(link[n]) \in Seq(Packets)
           /\ Head(link[n]) \in Packets /\ Head(link[n]) \in On(link[n])
           /\ Head(link[n]).pos \in Int /\ Head(link[n]).id \in Nat
           /\ Head(link[n]).file \in Names /\ Head(link[n]).type \in PacketTypes
           /\ Less(link[n], Tail(link[n]))
           /\ \A a \in On(Tail(link[n])) : Before(link[n], Head(link[n]), a)
<1>1. link[n] \in Seq(Packets)
  BY DEF Typed
<1> QED BY <1>1, TailLess DEF Packets

LEMMA TypedSend ==
    ASSUME Typed, NEW n \in Sides, NEW rest \in Seq(Packets), NEW out, Exchange(n, rest, out),
           out \in Seq(Packets)
    PROVE  link' \in [Sides -> Seq(Packets)]
<1>1. link[Peer(n)] \in Seq(Packets) /\ link[Peer(n)] \o out \in Seq(Packets)
  BY PeerFacts DEF Typed
<1> QED BY <1>1, PeerFacts DEF Exchange, Typed

LEMMA TypedBeginning ==
    ASSUME Typed, NEW n \in Sides, HTX_START(n) \/ HTX_SWAIT(n) \/ HTX_INITACK(n) \/ HRX_INIT(n)
    PROVE  Typed'
<1>0. tx[n] \in Tx /\ rx[n] \in Rx /\ tx \in [Sides -> Tx] /\ link[n] \in Seq(Packets)
  BY DEF Typed
<1>1. CASE HTX_START(n)
  <2> DEFINE t == [tx[n] EXCEPT !.st = "SWAIT"]
  <2>1. t \in Tx /\ t.st \notin Transfers
    BY <1>0 DEF Tx, TxStates, Beginnings, Transfers
  <2>2. SetTx(n, t) /\ Exchange(n, link[n], <<Signal("START")>>)
    BY <1>1 DEF HTX_START, Send
  <2> HIDE DEF t
  <2>3. <<Signal("START")>> \in Seq(Packets)
    BY SignalFacts DEF PacketTypes
  <2>4. link' \in [Sides -> Seq(Packets)]
    BY <1>0, <2>2, <2>3, TypedSend
  <2> QED BY <1>0, <1>1, <2>1, <2>2, <2>4, SetTxFacts, TypedTx DEF Typed, HTX_START
<1>2. CASE HTX_SWAIT(n)
  <2> DEFINE t == [tx[n] EXCEPT !.st = "INITACK", !.retries = 0]
  <2>1. t \in Tx /\ t.st \notin Transfers
    BY <1>0 DEF Tx, TxStates, Beginnings, Transfers
  <2>2. SetTx(n, t) /\ Exchange(n, Tail(link[n]), <<Signal("INIT")>>) /\ link[n] # <<>>
    BY <1>2 DEF HTX_SWAIT, Answer, Arrived
  <2> HIDE DEF t
  <2>3. <<Signal("INIT")>> \in Seq(Packets)
    BY SignalFacts DEF PacketTypes
  <2>4. link' \in [Sides -> Seq(Packets)]
    BY <2>2, <2>3, TypedSend, HeadFacts
  <2> QED BY <1>0, <1>2, <2>1, <2>2, <2>4, SetTxFacts, TypedTx DEF Typed, HTX_SWAIT
<1>3. CASE HTX_INITACK(n)
  <2> DEFINE t == [tx[n] EXCEPT !.st = "RINIT", !.retries = 0]
             o == Offer(t, t.list)
  <2>1. t \in Tx /\ t.st \notin Transfers /\ t.list \in Seq(Files)
    BY <1>0 DEF Tx, TxStates, Beginnings, Transfers
  <2>2. o \in Tx /\ o.st \notin Transfers
    BY <2>1, OfferFacts DEF Transfers
  <2>3. /\ link[n] # <<>>
        /\ \/ SetTx(n, t) /\ Exchange(n, Tail(link[n]), <<>>)
           \/ SetTx(n, o) /\ Exchange(n, Tail(link[n]), Finfo(o))
    BY <1>3 DEF HTX_INITACK, Answer, Arrived
  <2> HIDE DEF t, o
  <2>4. <<>> \in Seq(Packets) /\ Finfo(o) \in Seq(Packets)
    BY <2>2, FinfoFacts, EmptySeq
  <2>5. link' \in [Sides -> Seq(Packets)]
    BY <2>3, <2>4, TypedSend, HeadFacts
  <2>6. /\ tx' \in [Sides -> Tx] /\ tx'[Peer(n)] = tx[Peer(n)]
        /\ tx'[n].st \in Transfers => tx'[n].list # <<>>
    BY <1>0, <2>1, <2>2, <2>3, SetTxFacts
  <2>7. \A s \in Sides : tx'[s].st \in Transfers => tx'[s].list # <<>>
    BY <2>6, TypedTx
  <2> QED BY <1>3, <2>5, <2>6, <2>7 DEF Typed, HTX_INITACK
<1>4. CASE HRX_INIT(n)
  <2> DEFINE o == Offer(tx[n], tx[n].list)
             r == [rx[n] EXCEPT !.st = "FINFO"]
  <2>1. r \in Rx /\ r.st # "DATA" /\ tx[n].list \in Seq(Files)
    BY <1>0 DEF Rx, RxStates, Tx
  <2>2. o \in Tx /\ o.st \notin Transfers
    BY <1>0, <2>1, OfferFacts DEF Transfers
  <2>3. /\ link[n] # <<>> /\ rx' = [rx EXCEPT ![n] = r]
        /\ \/ SetTx(n, o) /\ Exchange(n, Tail(link[n]), <<Signal("INITACK")>> \o Finfo(o))
           \/ tx' = tx /\ Exchange(n, Tail(link[n]), <<Signal("INITACK")>>)
    BY <1>4 DEF HRX_INIT, Answer, Arrived
  <2> HIDE DEF r, o
  <2>4. /\ <<Signal("INITACK")>> \in Seq(Packets)
        /\ <<Signal("INITACK")>> \o Finfo(o) \in Seq(Packets)
    <3>1. Signal("INITACK") \in Packets
      BY SignalFacts DEF PacketTypes
    <3>2. Finfo(o) \in Seq(Packets)
      BY <2>2, FinfoFacts
    <3> QED BY <3>1, <3>2
  <2>5. link' \in [Sides -> Seq(Packets)]
    BY <2>3, <2>4, TypedSend, HeadFacts
  <2>6. /\ tx' \in [Sides -> Tx] /\ tx'[Peer(n)] = tx[Peer(n)]
        /\ tx'[n].st \in Transfers => tx'[n].list # <<>>
    BY <1>0, <2>2, <2>3, SetTxFacts DEF Typed
  <2>7. \A s \in Sides : tx'[s].st \in Transfers => tx'[s].list # <<>>
    BY <2>6, TypedTx
  <2>8. /\ rx' \in [Sides -> Rx]
        /\ \A s \in Sides : rx'[s].st = "DATA" => rx'[s].file \in Files
    BY <2>1, <2>3, TypedRx
  <2> QED BY <1>4, <2>5, <2>6, <2>7, <2>8 DEF Typed, HRX_INIT
<1> QED BY <1>1, <1>2, <1>3, <1>4

\* The transmitter of n has changed, and at most packets have been read and sent.
TxMoves(n) ==
    /\ tx' \in [Sides -> Tx] /\ tx'[Peer(n)] = tx[Peer(n)]
    /\ tx'[n].st \in Transfers => tx'[n].list # <<>>
    /\ link' \in [Sides -> Seq(Packets)]

LEMMA TypedMoves ==
    ASSUME Typed, NEW n \in Sides, TxMoves(n), work' = work, rx' = rx, hdxlink' = hdxlink,
           inbox' = inbox, sent' \in [Sides -> SUBSET Files], refused' \in SUBSET Names,
           faults' \in Nat
    PROVE  Typed'
<1>1. \A s \in Sides : tx'[s].st \in Transfers => tx'[s].list # <<>>
  BY TypedTx DEF TxMoves
<1> QED BY <1>1 DEF Typed, TxMoves

LEMMA SetMoves ==
    ASSUME Typed, NEW n \in Sides, NEW t \in Tx, t.st \in Transfers => t.list # <<>>, SetTx(n, t),
           NEW rest \in Seq(Packets), NEW out \in Seq(Packets), Exchange(n, rest, out)
    PROVE  TxMoves(n)
<1>1. tx \in [Sides -> Tx]
  BY DEF Typed
<1> QED BY <1>1, SetTxFacts, TypedSend DEF TxMoves

LEMMA KeepMoves ==
    ASSUME Typed, NEW n \in Sides, tx' = tx,
           NEW rest \in Seq(Packets), NEW out \in Seq(Packets), Exchange(n, rest, out)
    PROVE  TxMoves(n)
<1>1. tx \in [Sides -> Tx] /\ (tx[n].st \in Transfers => tx[n].list # <<>>)
  BY DEF Typed
<1> QED BY <1>1, TypedSend DEF TxMoves

LEMMA GiveMoves ==
    ASSUME Typed, NEW n \in Sides, Give(n), link' \in [Sides -> Seq(Packets)]
    PROVE  TxMoves(n)
<1>1. tx \in [Sides -> Tx]
  BY DEF Typed
<1> QED BY <1>1, GiveFacts DEF TxMoves, Transfers

LEMMA FaultFacts ==
    ASSUME Typed, NEW kind, Fault(kind)
    PROVE  faults' \in Nat /\ kind \in work.faults
BY DEF Typed, Fault

LEMMA DisposeFacts ==
    ASSUME Typed, NEW n \in Sides, tx[n].list # <<>>, Dispose(n)
    PROVE  /\ sent' \in [Sides -> SUBSET Files] /\ sent'[Peer(n)] = sent[Peer(n)]
           /\ sent'[n] = sent[n] \cup {Current(tx[n])}
<1>1. Current(tx[n]) \in Files
  <2>1. tx[n] \in Tx
    BY DEF Typed
  <2> QED BY <2>1, CurrentFacts
<1> QED BY <1>1, PeerFacts DEF Typed, Dispose

\* The transmitter after the position has been agreed on.
Begun(t, p) == [t EXCEPT !.st = "DATA", !.pos = p, !.retries = 0, !.lastack = 0]

LEMMA BegunFacts ==
    ASSUME NEW t \in Tx, NEW p \in Int
    PROVE  /\ Begun(t, p) \in Tx /\ Begun(t, p).list = t.list /\ Begun(t, p).err = t.err
           /\ Begun(t, p).pos = p /\ Begun(t, p).st = "DATA"
<1> DEFINE a == [t EXCEPT !.st = "DATA"]
           b == [a EXCEPT !.pos = p]
           c == [b EXCEPT !.retries = 0]
           z == 0
           d == [c EXCEPT !.lastack = z]
<1>1. Begun(t, p) = d
  BY DEF Begun
<1>0. z \in Int
  OBVIOUS
<1> HIDE DEF z
<1>2. a \in Tx /\ a.list = t.list /\ a.err = t.err /\ a.st = "DATA"
  BY DEF Tx, TxStates, Transfers
<1> HIDE DEF a
<1>3. b \in Tx /\ b.list = a.list /\ b.err = a.err /\ b.st = a.st /\ b.pos = p
  BY <1>2 DEF Tx
<1> HIDE DEF b
<1>4. c \in Tx /\ c.list = b.list /\ c.err = b.err /\ c.st = b.st /\ c.pos = b.pos
  BY <1>3 DEF Tx
<1> HIDE DEF c
<1>5. d \in Tx /\ d.list = c.list /\ d.err = c.err /\ d.st = c.st /\ d.pos = c.pos
  BY <1>0, <1>4 DEF Tx
<1> HIDE DEF d
<1> QED BY <1>1, <1>2, <1>3, <1>4, <1>5

LEMMA TypedFinfoack ==
    ASSUME Typed, NEW n \in Sides, HTX_FINFOACK(n)
    PROVE  Typed'
<1> DEFINE t == tx[n]
           pos == Head(link[n]).pos
           a == [t EXCEPT !.st = "REND"]
           b == Begun(t, pos)
           c == [t EXCEPT !.pos = pos]
           o == Offer(c, Tail(t.list))
<1>1. link[n] # <<>> /\ t \in Tx
  BY DEF Typed, HTX_FINFOACK, Arrived
<1>2. Tail(link[n]) \in Seq(Packets) /\ pos \in Int
  BY <1>1, HeadFacts
<1>3. /\ a \in Tx /\ a.st \notin Transfers
      /\ b \in Tx /\ b.list = t.list /\ c \in Tx
  <2> HIDE DEF t, pos
  <2>1. a \in Tx /\ a.st \notin Transfers
    BY <1>1 DEF Tx, TxStates, Transfers, Endings
  <2>2. b \in Tx /\ b.list = t.list
    BY <1>1, <1>2, BegunFacts
  <2>3. c \in Tx
    BY <1>1, <1>2 DEF Tx
  <2> QED BY <2>1, <2>2, <2>3
<1>4. t.list # <<>> => o \in Tx /\ o.st \notin Transfers /\ Finfo(o) \in Seq(Packets)
  <2> SUFFICES ASSUME t.list # <<>>
               PROVE  o \in Tx /\ o.st \notin Transfers /\ Finfo(o) \in Seq(Packets)
    OBVIOUS
  <2>1. Tail(t.list) \in Seq(Files)
    BY <1>1 DEF Tx
  <2>2. o \in Tx /\ o.st = "FINFOACK"
    BY <1>3, <2>1, OfferFacts
  <2> QED BY <2>2, FinfoFacts DEF Transfers
<1>5. \/ SetTx(n, a) /\ Exchange(n, Tail(link[n]), <<>>)
      \/ t.list # <<>> /\ SetTx(n, b) /\ Exchange(n, Tail(link[n]), <<>>)
      \/ t.list # <<>> /\ SetTx(n, o) /\ Exchange(n, Tail(link[n]), Finfo(o))
  BY DEF HTX_FINFOACK, Answer, Begun
<1>6. (t.list # <<>> /\ Dispose(n)) \/ sent' = sent
  BY DEF HTX_FINFOACK
<1>7. UNCHANGED <<work, rx, hdxlink, inbox, refused, faults>>
  BY DEF HTX_FINFOACK
<1>8. sent' \in [Sides -> SUBSET Files]
  BY <1>6, DisposeFacts DEF Typed
<1> HIDE DEF t, pos, a, b, c, o
<1>9. TxMoves(n)
  BY <1>2, <1>3, <1>4, <1>5, SetMoves, EmptySeq
<1> QED BY <1>7, <1>8, <1>9, TypedMoves DEF Typed

LEMMA AtEofFacts ==
    ASSUME NEW t \in Tx
    PROVE  /\ AtEof(t) \in Tx /\ AtEof(t).list = t.list /\ AtEof(t).err = t.err
           /\ AtEof(t).pos = t.pos /\ AtEof(t).st = "EOFACK"
BY DEF AtEof, Tx, TxStates, Transfers

LEMMA SkippedFacts ==
    ASSUME NEW t \in Tx
    PROVE  /\ Skipped(t) \in Tx /\ Skipped(t).list = t.list /\ Skipped(t).err = t.err
           /\ Skipped(t).st = "EOFACK" /\ Skipped(t).pos = -2
<1> DEFINE p == -2
           u == [t EXCEPT !.pos = p, !.retries = 0]
<1>1. p \in Int /\ p = -2
  OBVIOUS
<1>2. Skipped(t) = [u EXCEPT !.st = "EOFACK"]
  BY DEF Skipped, AtEof
<1> HIDE DEF p
<1>3. u \in Tx /\ u.list = t.list /\ u.err = t.err /\ u.pos = p
  BY <1>1 DEF Tx
<1> HIDE DEF u
<1>4. /\ [u EXCEPT !.st = "EOFACK"] \in Tx /\ [u EXCEPT !.st = "EOFACK"].list = u.list
      /\ [u EXCEPT !.st = "EOFACK"].err = u.err /\ [u EXCEPT !.st = "EOFACK"].pos = u.pos
      /\ [u EXCEPT !.st = "EOFACK"].st = "EOFACK"
  BY <1>3 DEF Tx, TxStates, Transfers
<1> QED BY <1>1, <1>2, <1>3, <1>4

LEMMA WaitingFacts ==
    ASSUME NEW t \in Tx
    PROVE  /\ [t EXCEPT !.st = "XWAIT"] \in Tx /\ [t EXCEPT !.st = "XWAIT"].st = "XWAIT"
           /\ [t EXCEPT !.st = "XWAIT"].list = t.list
           /\ [t EXCEPT !.st = "DATAACK"] \in Tx /\ [t EXCEPT !.st = "DATAACK"].st = "DATAACK"
           /\ [t EXCEPT !.st = "DATAACK"].list = t.list
           /\ [t EXCEPT !.pos = @ + 1] \in Tx /\ [t EXCEPT !.pos = @ + 1].st = t.st
           /\ [t EXCEPT !.pos = @ + 1].list = t.list
<1> DEFINE a == [t EXCEPT !.st = "XWAIT"]
           b == [t EXCEPT !.st = "DATAACK"]
           c == [t EXCEPT !.pos = @ + 1]
           i == t.pos + 1
<1>1. i \in Int /\ c = [t EXCEPT !.pos = i]
  BY DEF Tx
<1> HIDE DEF i, c
<1>2. a \in Tx /\ a.st = "XWAIT" /\ a.list = t.list
  BY DEF Tx, TxStates, Transfers
<1>3. b \in Tx /\ b.st = "DATAACK" /\ b.list = t.list
  BY DEF Tx, TxStates, Transfers
<1>4. c \in Tx /\ c.st = t.st /\ c.list = t.list
  BY <1>1 DEF Tx
<1> QED BY <1>2, <1>3, <1>4 DEF c

LEMMA TypedData ==
    ASSUME Typed, NEW n \in Sides, HTX_DATA(n)
    PROVE  Typed'
<1> DEFINE t == tx[n]
           f == Current(t)
           a == [t EXCEPT !.st = "XWAIT"]
           b == [t EXCEPT !.st = "DATAACK"]
           c == [t EXCEPT !.pos = @ + 1]
           d == AtEof(t)
           s == [Skipped(t) EXCEPT !.err = TRUE]
<1>1. t \in Tx /\ t.st = "DATA" /\ t.list # <<>> /\ f \in Files /\ link[n] \in Seq(Packets)
  BY CurrentFacts DEF Typed, HTX_DATA, Transfers
<1>2. /\ a \in Tx /\ a.list # <<>> /\ b \in Tx /\ b.list # <<>> /\ c \in Tx /\ c.list # <<>>
      /\ d \in Tx /\ d.list # <<>>
  <2>1. d \in Tx /\ d.list = t.list
    BY <1>1, AtEofFacts
  <2> HIDE DEF t, d
  <2> QED BY <1>1, <2>1, WaitingFacts
<1>3. s \in Tx /\ s.list # <<>>
  BY <1>1, SkippedFacts DEF Tx
<1>4. /\ Packet("DATA", f, t.pos, 0) \in Packets /\ Eof(t) \in Seq(Packets)
      /\ Eof(Skipped(t)) \in Seq(Packets)
  BY <1>1, PacketFacts, EofFacts, SkippedFacts DEF Names, PacketTypes, Tx
<1>5. \/ (SetTx(n, a) \/ SetTx(n, b)) /\ link' = link /\ UNCHANGED <<refused, faults>>
      \/ SetTx(n, c) /\ Exchange(n, link[n], <<Packet("DATA", f, t.pos, 0)>>) /\ UNCHANGED <<refused, faults>>
      \/ SetTx(n, d) /\ Exchange(n, link[n], Eof(t)) /\ UNCHANGED <<refused, faults>>
      \/ /\ SetTx(n, s) /\ Exchange(n, link[n], Eof(Skipped(t))) /\ refused' = refused \cup {f}
         /\ Fault("read") \/ UNCHANGED faults
  BY DEF HTX_DATA, Send
<1>6. UNCHANGED <<work, rx, hdxlink, inbox, sent>>
  BY DEF HTX_DATA
<1>7. refused' \in SUBSET Names /\ faults' \in Nat
  BY <1>1, <1>5, FaultFacts DEF Typed, Names
<1>8. TxMoves(n)
  <2> HIDE DEF t, f, a, b, c, d, s
  <2>1. CASE (SetTx(n, a) \/ SetTx(n, b)) /\ link' = link
    <3>1. tx' \in [Sides -> Tx] /\ tx'[Peer(n)] = tx[Peer(n)] /\ tx'[n].list # <<>>
      BY <1>2, <2>1, SetTxFacts DEF Typed
    <3> QED BY <2>1, <3>1 DEF TxMoves, Typed
  <2>2. <<Packet("DATA", f, t.pos, 0)>> \in Seq(Packets)
    BY <1>4
  <2> QED BY <1>1, <1>2, <1>3, <1>4, <1>5, <2>1, <2>2, SetMoves
<1> QED BY <1>6, <1>7, <1>8, TypedMoves DEF Typed

LEMMA TypedDataack ==
    ASSUME Typed, NEW n \in Sides, DATAACK(n)
    PROVE  Typed'
<1> DEFINE t == tx[n]
           pos == Head(link[n]).pos
           a == [t EXCEPT !.lastack = IF pos > @ THEN pos ELSE @]
           b == [t EXCEPT !.st = "DATA", !.lastack = pos, !.retries = 0]
           c == [t EXCEPT !.lastack = pos]
<1>1. link[n] # <<>> /\ t \in Tx /\ t.st \in Transfers /\ t.list # <<>>
  BY DEF Typed, DATAACK, Arrived, Transfers
<1>2. Tail(link[n]) \in Seq(Packets) /\ pos \in Int
  BY <1>1, HeadFacts
<1>3. a \in Tx /\ a.list # <<>> /\ b \in Tx /\ b.list # <<>> /\ c \in Tx /\ c.list # <<>>
  BY <1>1, <1>2 DEF Tx, TxStates, Transfers
<1>4. SetTx(n, a) \/ SetTx(n, b) \/ SetTx(n, c) \/ tx' = tx
  BY DEF DATAACK
<1>5. Exchange(n, Tail(link[n]), <<>>) /\ UNCHANGED <<work, rx, hdxlink, inbox, sent, refused, faults>>
  BY DEF DATAACK, Answer
<1> HIDE DEF t, pos, a, b, c
<1>6. TxMoves(n)
  BY <1>2, <1>3, <1>4, <1>5, SetMoves, KeepMoves, EmptySeq
<1> QED BY <1>5, <1>6, TypedMoves DEF Typed

LEMMA RetriedFacts ==
    ASSUME NEW t \in Tx
    PROVE  /\ Retried(t) \in Tx /\ Retried(t).list = t.list /\ Retried(t).err = t.err
           /\ Retried(t).pos = t.pos /\ Retried(t).st = t.st
<1> DEFINE k == t.retries + 1
<1>1. k \in Nat /\ Retried(t) = [t EXCEPT !.retries = k]
  BY DEF Tx, Retried
<1> HIDE DEF k
<1> QED BY <1>1 DEF Tx

\* The transmitter after a request of the receiver.
Sought(t, p) ==
    [t EXCEPT !.pos = p.pos, !.syncid = p.id, !.retries = 1,
              !.st = IF @ = "EOFACK" THEN "DATA" ELSE @]

LEMMA SoughtFacts ==
    ASSUME NEW t \in Tx, NEW p \in Packets, t.st \in Transfers
    PROVE  /\ Sought(t, p) \in Tx /\ Sought(t, p).list = t.list /\ Sought(t, p).err = t.err
           /\ Sought(t, p).pos = p.pos /\ Sought(t, p).st \in Transfers \ {"EOFACK"}
<1> DEFINE one == 1
           a == [t EXCEPT !.pos = p.pos]
           b == [a EXCEPT !.syncid = p.id]
           c == [b EXCEPT !.retries = one]
           st == IF c.st = "EOFACK" THEN "DATA" ELSE c.st
           d == [c EXCEPT !.st = st]
<1>0. one \in Nat /\ p.pos \in Int /\ p.id \in Nat
  BY DEF Packets
<1>1. Sought(t, p) = d
  BY DEF Sought
<1> HIDE DEF one
<1>2. a \in Tx /\ a.list = t.list /\ a.err = t.err /\ a.st = t.st /\ a.pos = p.pos
  BY <1>0 DEF Tx
<1> HIDE DEF a
<1>3. b \in Tx /\ b.list = a.list /\ b.err = a.err /\ b.st = a.st /\ b.pos = a.pos
  BY <1>0, <1>2 DEF Tx
<1> HIDE DEF b
<1>4. c \in Tx /\ c.list = b.list /\ c.err = b.err /\ c.st = b.st /\ c.pos = b.pos
  BY <1>0, <1>3 DEF Tx
<1> HIDE DEF c
<1>5. st \in TxStates /\ st \in Transfers \ {"EOFACK"}
  BY <1>2, <1>3, <1>4 DEF TxStates, Transfers
<1> HIDE DEF st
<1>6. d \in Tx /\ d.list = c.list /\ d.err = c.err /\ d.st = st /\ d.pos = c.pos
  BY <1>4, <1>5 DEF Tx
<1> HIDE DEF d
<1> QED BY <1>1, <1>2, <1>3, <1>4, <1>5, <1>6

LEMMA TypedRpos ==
    ASSUME Typed, NEW n \in Sides, RPOS(n)
    PROVE  Typed'
<1> DEFINE t == tx[n]
           p == Head(link[n])
           u == IF Known(t, p.id) THEN Retried(t) ELSE t
           v == [u EXCEPT !.pos = -2]
           s == IF p.pos = -2 /\ t.pos # -2 /\ t.st = "EOFACK" THEN AtEof(v) ELSE Skipped(u)
           b == Sought(t, p)
<1>1. link[n] # <<>> /\ t \in Tx /\ t.st \in Transfers /\ t.list # <<>>
  BY DEF Typed, RPOS, Arrived, Transfers
<1>2. Tail(link[n]) \in Seq(Packets) /\ p \in Packets
  BY <1>1, HeadFacts
<1>3. u \in Tx /\ u.list = t.list
  BY <1>1, RetriedFacts
<1>4. \/ Give(n) /\ Exchange(n, Tail(link[n]), <<>>)
      \/ SetTx(n, s) /\ Exchange(n, Tail(link[n]), Eof(s))
      \/ SetTx(n, u) /\ Exchange(n, Tail(link[n]), <<>>)
      \/ SetTx(n, b) /\ Exchange(n, Tail(link[n]), <<>>)
  BY DEF RPOS, Answer, Sought
<1>5. UNCHANGED <<work, rx, hdxlink, inbox, sent, refused, faults>>
  BY DEF RPOS
<1> HIDE DEF t, p, u
<1>6. v \in Tx /\ v.list = u.list
  <2> DEFINE z == -2
  <2>1. z \in Int /\ v = [u EXCEPT !.pos = z]
    OBVIOUS
  <2> HIDE DEF z
  <2> QED BY <1>3, <2>1 DEF Tx
<1> HIDE DEF v
<1>7. s \in Tx /\ s.list # <<>> /\ Eof(s) \in Seq(Packets)
  <2>1. s \in Tx /\ s.list # <<>>
    BY <1>1, <1>3, <1>6, AtEofFacts, SkippedFacts
  <2> QED BY <2>1, EofFacts
<1>8. b \in Tx /\ b.list # <<>>
  BY <1>1, <1>2, SoughtFacts
<1> HIDE DEF s, b
<1>9. TxMoves(n)
  <2>1. CASE Give(n) /\ Exchange(n, Tail(link[n]), <<>>)
    BY <1>2, <2>1, GiveMoves, TypedSend, EmptySeq
  <2>2. CASE SetTx(n, s) /\ Exchange(n, Tail(link[n]), Eof(s))
    BY <1>2, <1>7, <2>2, SetMoves
  <2>3. CASE (SetTx(n, u) \/ SetTx(n, b)) /\ Exchange(n, Tail(link[n]), <<>>)
    BY <1>1, <1>2, <1>3, <1>8, <2>3, SetMoves, EmptySeq
  <2> QED BY <1>4, <2>1, <2>2, <2>3
<1> QED BY <1>5, <1>9, TypedMoves DEF Typed

LEMMA TypedEofack ==
    ASSUME Typed, NEW n \in Sides, HTX_EOFACK(n)
    PROVE  Typed'
<1> DEFINE t == tx[n]
           o == Offer(t, Tail(t.list))
<1>1. link[n] # <<>> /\ t \in Tx /\ t.list # <<>>
  BY DEF Typed, HTX_EOFACK, Arrived, Transfers
<1>2. Tail(link[n]) \in Seq(Packets)
  BY <1>1, HeadFacts
<1>3. Tail(t.list) \in Seq(Files)
  BY <1>1 DEF Tx
<1>4. o \in Tx /\ o.st \notin Transfers /\ Finfo(o) \in Seq(Packets)
  BY <1>1, <1>3, OfferFacts, FinfoFacts DEF Transfers
<1>5. SetTx(n, o) /\ Exchange(n, Tail(link[n]), Finfo(o)) /\ (Dispose(n) \/ sent' = sent)
  BY DEF HTX_EOFACK, Answer
<1>6. UNCHANGED <<work, rx, hdxlink, inbox, refused, faults>>
  BY DEF HTX_EOFACK
<1>7. sent' \in [Sides -> SUBSET Files]
  BY <1>1, <1>5, DisposeFacts DEF Typed
<1> HIDE DEF t, o
<1>8. TxMoves(n)
  BY <1>2, <1>4, <1>5, SetMoves
<1> QED BY <1>6, <1>7, <1>8, TypedMoves DEF Typed

LEMMA TypedEnd ==
    ASSUME Typed, NEW n \in Sides, HTX_REND(n) \/ HTX_ENDACK(n)
    PROVE  Typed'
<1> DEFINE t == tx[n]
           a == [t EXCEPT !.st = "ENDACK", !.retries = 0]
           b == [t EXCEPT !.st = "DONE"]
           x == Signal("END")
<1>1. t \in Tx /\ link[n] \in Seq(Packets) /\ x \in Packets
  BY SignalFacts DEF Typed, PacketTypes
<1>2. a \in Tx /\ b \in Tx /\ a.st \notin Transfers /\ b.st \notin Transfers
  BY <1>1 DEF Tx, TxStates, Transfers, Endings
<1>3. \/ SetTx(n, a) /\ Exchange(n, link[n], <<x, x>>)
      \/ SetTx(n, a) /\ link[n] # <<>> /\ Exchange(n, Tail(link[n]), <<x, x>>)
      \/ SetTx(n, b) /\ link[n] # <<>> /\ Exchange(n, Tail(link[n]), <<x, x, x>>)
  BY DEF HTX_REND, HTX_ENDACK, Send, Answer, Arrived
<1>4. UNCHANGED <<work, rx, hdxlink, inbox, sent, refused, faults>>
  BY DEF HTX_REND, HTX_ENDACK
<1> HIDE DEF t, a, b, x
<1>5. <<x, x>> \in Seq(Packets) /\ <<x, x, x>> \in Seq(Packets)
  BY <1>1
<1>6. TxMoves(n)
  BY <1>1, <1>2, <1>3, <1>5, SetMoves, HeadFacts
<1> QED BY <1>4, <1>6, TypedMoves DEF Typed

LEMMA ResentFacts ==
    ASSUME NEW t \in Tx
    PROVE  Resent(t) \in Seq(Packets)
<1> DEFINE x == Signal("START")
           y == Signal("INIT")
           z == Signal("END")
<1>1. x \in Packets /\ y \in Packets /\ z \in Packets
  BY SignalFacts DEF PacketTypes
<1>2. Finfo(t) \in Seq(Packets) /\ Eof(t) \in Seq(Packets)
  BY FinfoFacts, EofFacts
<1>3. Resent(t) \in {<<x>>, <<y>>, <<z, z>>, <<>>, Finfo(t), Eof(t)}
  BY DEF Resent
<1> HIDE DEF x, y, z
<1>4. <<x>> \in Seq(Packets) /\ <<y>> \in Seq(Packets) /\ <<z, z>> \in Seq(Packets)
  BY <1>1
<1> QED BY <1>2, <1>3, <1>4, EmptySeq

LEMMA TypedTxTimeout ==
    ASSUME Typed, NEW n \in Sides, TxTimeout(n)
    PROVE  Typed'
<1> DEFINE t == tx[n]
           x == Signal("IDLE")
<1>1. t \in Tx /\ link[n] \in Seq(Packets) /\ x \in Packets /\ (t.st \in Transfers => t.list # <<>>)
  BY SignalFacts DEF Typed, PacketTypes
<1>2. \/ Give(n) /\ link' = link
      \/ SetTx(n, Retried(t)) /\ Exchange(n, link[n], Resent(t))
      \/ tx' = tx /\ Exchange(n, link[n], <<x>>)
  BY DEF TxTimeout, Send
<1>3. UNCHANGED <<work, rx, hdxlink, inbox, sent, refused, faults>>
  BY DEF TxTimeout
<1> HIDE DEF t, x
<1>4. <<x>> \in Seq(Packets) /\ Resent(t) \in Seq(Packets)
  BY <1>1, ResentFacts
<1>5. TxMoves(n)
  <2>1. CASE Give(n) /\ link' = link
    BY <2>1, GiveMoves DEF Typed
  <2>2. CASE SetTx(n, Retried(t)) /\ Exchange(n, link[n], Resent(t))
    BY <1>1, <1>4, <2>2, RetriedFacts, SetMoves
  <2>3. CASE tx' = tx /\ Exchange(n, link[n], <<x>>)
    BY <1>1, <1>4, <2>3, KeepMoves
  <2> QED BY <1>2, <2>1, <2>2, <2>3
<1> QED BY <1>3, <1>5, TypedMoves DEF Typed


\* The receiver after a file has been opened, a block written and the file closed.
Opening(r, f, k) ==
    [r EXCEPT !.st = "DATA", !.file = f, !.pos = k,
              !.syncid = 0, !.lastsync = 0, !.retries = 0, !.timer = FALSE]

Wrote(r) ==
    [r EXCEPT !.pos = @ + 1, !.lastsync = r.pos + 1, !.retries = 0, !.timer = FALSE]

Closed(r) == [r EXCEPT !.st = "FINFO", !.timer = FALSE, !.file = EndOfBatch]

LEMMA OpeningFacts ==
    ASSUME NEW r \in Rx, NEW f \in Files, NEW k \in Nat
    PROVE  /\ Opening(r, f, k) \in Rx /\ Opening(r, f, k).st = "DATA" /\ Opening(r, f, k).file = f
           /\ Opening(r, f, k).pos = k /\ Opening(r, f, k).timer = FALSE
<1> DEFINE z == 0
           a == [r EXCEPT !.st = "DATA"]
           b == [a EXCEPT !.file = f]
           c == [b EXCEPT !.pos = k]
           d == [c EXCEPT !.syncid = z]
           g == [d EXCEPT !.lastsync = z]
           h == [g EXCEPT !.retries = z]
           i == [h EXCEPT !.timer = FALSE]
<1>0. z \in Nat /\ z \in Int /\ f \in Names
  BY DEF Names
<1>1. Opening(r, f, k) = i
  BY DEF Opening
<1> HIDE DEF z
<1>2. a \in Rx /\ a.st = "DATA"
  BY DEF Rx, RxStates
<1> HIDE DEF a
<1>3. b \in Rx /\ b.st = a.st /\ b.file = f
  BY <1>0, <1>2 DEF Rx
<1> HIDE DEF b
<1>4. c \in Rx /\ c.st = b.st /\ c.file = b.file /\ c.pos = k
  BY <1>3 DEF Rx
<1> HIDE DEF c
<1>5. d \in Rx /\ d.st = c.st /\ d.file = c.file /\ d.pos = c.pos
  BY <1>0, <1>4 DEF Rx
<1> HIDE DEF d
<1>6. g \in Rx /\ g.st = d.st /\ g.file = d.file /\ g.pos = d.pos
  BY <1>0, <1>5 DEF Rx
<1> HIDE DEF g
<1>7. h \in Rx /\ h.st = g.st /\ h.file = g.file /\ h.pos = g.pos
  BY <1>0, <1>6 DEF Rx
<1> HIDE DEF h
<1>8. i \in Rx /\ i.st = h.st /\ i.file = h.file /\ i.pos = h.pos /\ i.timer = FALSE
  BY <1>7 DEF Rx
<1> HIDE DEF i
<1> QED BY <1>1, <1>2, <1>3, <1>4, <1>5, <1>6, <1>7, <1>8

LEMMA WroteFacts ==
    ASSUME NEW r \in Rx
    PROVE  /\ Wrote(r) \in Rx /\ Wrote(r).st = r.st /\ Wrote(r).file = r.file
           /\ Wrote(r).pos = r.pos + 1
<1> DEFINE z == 0
           k == r.pos + 1
           a == [r EXCEPT !.pos = k]
           b == [a EXCEPT !.lastsync = k]
           c == [b EXCEPT !.retries = z]
           d == [c EXCEPT !.timer = FALSE]
<1>0. z \in Nat /\ k \in Int
  BY DEF Rx
<1>1. Wrote(r) = d
  BY DEF Wrote
<1> HIDE DEF z
<1>2. a \in Rx /\ a.st = r.st /\ a.file = r.file /\ a.pos = k
  BY <1>0 DEF Rx
<1> HIDE DEF a
<1>3. b \in Rx /\ b.st = a.st /\ b.file = a.file /\ b.pos = a.pos
  BY <1>0, <1>2 DEF Rx
<1> HIDE DEF b
<1>4. c \in Rx /\ c.st = b.st /\ c.file = b.file /\ c.pos = b.pos
  BY <1>0, <1>3 DEF Rx
<1> HIDE DEF c
<1>5. d \in Rx /\ d.st = c.st /\ d.file = c.file /\ d.pos = c.pos
  BY <1>4 DEF Rx
<1> HIDE DEF d
<1> QED BY <1>1, <1>2, <1>3, <1>4, <1>5

LEMMA ClosedFacts ==
    ASSUME NEW r \in Rx
    PROVE  Closed(r) \in Rx /\ Closed(r).st = "FINFO"
<1> DEFINE a == [r EXCEPT !.st = "FINFO"]
           b == [a EXCEPT !.timer = FALSE]
           c == [b EXCEPT !.file = EndOfBatch]
<1>1. Closed(r) = c
  BY DEF Closed
<1>2. a \in Rx /\ a.st = "FINFO"
  BY DEF Rx, RxStates
<1> HIDE DEF a
<1>3. b \in Rx /\ b.st = a.st
  BY <1>2 DEF Rx
<1> HIDE DEF b
<1>4. c \in Rx /\ c.st = b.st
  BY <1>3 DEF Rx, Names
<1> HIDE DEF c
<1> QED BY <1>1, <1>2, <1>3, <1>4

LEMMA SpoiltFacts ==
    ASSUME NEW r \in Rx
    PROVE  /\ [r EXCEPT !.pos = -2] \in Rx /\ [r EXCEPT !.pos = -2].st = r.st
           /\ [r EXCEPT !.pos = -2].file = r.file /\ [r EXCEPT !.pos = -2].pos = -2
<1> DEFINE z == -2
           a == [r EXCEPT !.pos = z]
<1>1. z \in Int
  OBVIOUS
<1>2. [r EXCEPT !.pos = -2] = a /\ z = -2
  OBVIOUS
<1> HIDE DEF z
<1>3. a \in Rx /\ a.st = r.st /\ a.file = r.file /\ a.pos = z
  BY <1>1 DEF Rx
<1> HIDE DEF a
<1> QED BY <1>2, <1>3

\* S is at the same place of the same file as R.
Same(R, S) == S.st = R.st /\ S.file = R.file /\ S.pos = R.pos

LEMMA BadPosFacts ==
    ASSUME NEW r \in Rx, NEW p \in Int
    PROVE  BadPos(r, p) \in Rx /\ Same(r, BadPos(r, p))
<1> DEFINE z == 0
           a == [r EXCEPT !.lastsync = p]
           b == [a EXCEPT !.retries = z]
           c == [b EXCEPT !.timer = FALSE]
<1>0. z \in Nat
  OBVIOUS
<1>1. BadPos(r, p) = a \/ BadPos(r, p) = c
  BY DEF BadPos
<1> HIDE DEF z
<1>2. a \in Rx /\ a.st = r.st /\ a.file = r.file /\ a.pos = r.pos
  BY DEF Rx
<1> HIDE DEF a
<1>3. b \in Rx /\ b.st = a.st /\ b.file = a.file /\ b.pos = a.pos
  BY <1>0, <1>2 DEF Rx
<1> HIDE DEF b
<1>4. c \in Rx /\ c.st = b.st /\ c.file = b.file /\ c.pos = b.pos
  BY <1>3 DEF Rx
<1> HIDE DEF c
<1> QED BY <1>1, <1>2, <1>3, <1>4 DEF Same

LEMMA AskedFacts ==
    ASSUME NEW r \in Rx, NEW k \in Nat, NEW id \in Nat
    PROVE  LET s == [r EXCEPT !.retries = k, !.syncid = id, !.timer = TRUE] IN s \in Rx /\ Same(r, s)
<1> DEFINE a == [r EXCEPT !.retries = k]
           b == [a EXCEPT !.syncid = id]
           c == [b EXCEPT !.timer = TRUE]
<1>1. a \in Rx /\ a.st = r.st /\ a.file = r.file /\ a.pos = r.pos
  BY DEF Rx
<1> HIDE DEF a
<1>3. b \in Rx /\ b.st = a.st /\ b.file = a.file /\ b.pos = a.pos
  BY <1>1 DEF Rx
<1> HIDE DEF b
<1>4. c \in Rx /\ c.st = b.st /\ c.file = b.file /\ c.pos = b.pos
  BY <1>3 DEF Rx
<1>5. [r EXCEPT !.retries = k, !.syncid = id, !.timer = TRUE] = c
  BY DEF a, b
<1> HIDE DEF c
<1>6. c \in Rx /\ Same(r, c)
  BY <1>1, <1>3, <1>4 DEF Same
<1> QED BY <1>5, <1>6


\* The receiver of n stays where r is, and may ask for that position or give up.
Stays(n, r, rest) ==
    /\ \E s \in Rx : Same(r, s) /\ rx' = [rx EXCEPT ![n] = s]
    /\ hdxlink' \in [Sides -> BOOLEAN]
    /\ \/ (Give(n) \/ tx' = tx) /\ Exchange(n, rest, <<>>)
       \/ /\ tx' = tx
          /\ \E x \in Packets : x.type = "RPOS" /\ x.pos = r.pos /\ Exchange(n, rest, <<x>>)

LEMMA ResyncFacts ==
    ASSUME Typed, NEW n \in Sides, NEW r \in Rx, NEW rest, Resync(n, r, rest)
    PROVE  Stays(n, r, rest)
<1> DEFINE turns == r.retries > HdxRetries /\ tx[n].st # "REND" /\ n = "ans" /\ ~hdxlink[n]
           tries == IF turns THEN 1 ELSE r.retries + 1
           id == IF tries = 1 THEN r.syncid + 1 ELSE r.syncid
           s == [r EXCEPT !.retries = tries, !.syncid = id, !.timer = TRUE]
           x == Packet("RPOS", EndOfBatch, r.pos, id)
<1>1. hdxlink' = [hdxlink EXCEPT ![n] = @ \/ turns] /\ rx' = [rx EXCEPT ![n] = s]
  BY DEF Resync
<1>2. \/ Give(n) /\ Exchange(n, rest, <<>>)
      \/ tx' = tx /\ Exchange(n, rest, <<x>>)
  BY DEF Resync
<1>3. hdxlink \in [Sides -> BOOLEAN] /\ turns \in BOOLEAN
  BY DEF Typed
<1>4. r.retries \in Nat /\ r.syncid \in Nat /\ r.pos \in Int
  BY DEF Rx
<1> HIDE DEF turns
<1>5. hdxlink' \in [Sides -> BOOLEAN]
  BY <1>1, <1>3
<1>6. tries \in Nat
  BY <1>4
<1> HIDE DEF tries
<1>7. id \in Nat
  BY <1>4
<1> HIDE DEF id
<1>8. s \in Rx /\ Same(r, s)
  BY <1>6, <1>7, AskedFacts
<1>9. x \in Packets /\ x.type = "RPOS" /\ x.pos = r.pos
  BY <1>4, <1>7, PacketFacts DEF PacketTypes, Names
<1> HIDE DEF s, x
<1> QED BY <1>1, <1>2, <1>5, <1>8, <1>9 DEF Stays

LEMMA MisplacedFacts ==
    ASSUME Typed, NEW n \in Sides, NEW r \in Rx, NEW pos \in Int, Misplaced(n, r, pos)
    PROVE  Stays(n, r, Tail(link[n]))
<1> DEFINE b == BadPos(r, pos)
<1>1. b \in Rx /\ Same(r, b)
  BY BadPosFacts
<1>2. \/ rx' = [rx EXCEPT ![n] = b] /\ Exchange(n, Tail(link[n]), <<>>) /\ tx' = tx /\ hdxlink' = hdxlink
      \/ Resync(n, b, Tail(link[n]))
  BY DEF Misplaced, Answer
<1> HIDE DEF b
<1>3. CASE rx' = [rx EXCEPT ![n] = b] /\ Exchange(n, Tail(link[n]), <<>>) /\ tx' = tx /\ hdxlink' = hdxlink
  BY <1>1, <1>3 DEF Stays, Typed
<1>4. CASE Resync(n, b, Tail(link[n]))
  <2>1. Stays(n, b, Tail(link[n]))
    BY <1>1, <1>4, ResyncFacts
  <2> QED BY <1>1, <2>1 DEF Stays, Same
<1> QED BY <1>2, <1>3, <1>4

\* What Stays leaves well typed.
LEMMA StaysTyped ==
    ASSUME Typed, NEW n \in Sides, NEW r \in Rx, r.st = "DATA" => r.file \in Files,
           NEW rest \in Seq(Packets), Stays(n, r, rest)
    PROVE  /\ TxMoves(n) /\ hdxlink' \in [Sides -> BOOLEAN] /\ rx' \in [Sides -> Rx]
           /\ \A m \in Sides : rx'[m].st = "DATA" => rx'[m].file \in Files
<1>1. PICK s \in Rx : Same(r, s) /\ rx' = [rx EXCEPT ![n] = s]
  BY DEF Stays
<1>2. s.st = "DATA" => s.file \in Files
  BY <1>1 DEF Same
<1>3. CASE Give(n) /\ Exchange(n, rest, <<>>)
  BY <1>1, <1>2, <1>3, GiveMoves, TypedSend, EmptySeq, TypedRx DEF Stays
<1>4. CASE tx' = tx /\ Exchange(n, rest, <<>>)
  BY <1>1, <1>2, <1>4, KeepMoves, EmptySeq, TypedRx DEF Stays
<1>5. CASE tx' = tx /\ \E x \in Packets : Exchange(n, rest, <<x>>)
  <2>1. PICK x \in Packets : Exchange(n, rest, <<x>>)
    BY <1>5
  <2>2. <<x>> \in Seq(Packets)
    OBVIOUS
  <2>3. TxMoves(n)
    BY <1>5, <2>1, <2>2, KeepMoves
  <2> QED BY <1>1, <1>2, <2>3, TypedRx DEF Stays
<1> QED BY <1>3, <1>4, <1>5 DEF Stays

\* As TypedMoves, when the receiver changes as well.
LEMMA TypedBoth ==
    ASSUME Typed, NEW n \in Sides, TxMoves(n), work' = work, rx' \in [Sides -> Rx],
           \A s \in Sides : rx'[s].st = "DATA" => rx'[s].file \in Files,
           hdxlink' \in [Sides -> BOOLEAN], inbox' \in Boxes, sent' = sent,
           refused' \in SUBSET Names, faults' \in Nat
    PROVE  Typed'
<1>1. \A s \in Sides : tx'[s].st \in Transfers => tx'[s].list # <<>>
  BY TypedTx DEF TxMoves
<1> QED BY <1>1 DEF Typed, TxMoves

LEMMA TypedFinfo ==
    ASSUME Typed, NEW n \in Sides, HRX_FINFO(n)
    PROVE  Typed'
<1> DEFINE f == Head(link[n]).file
           k == Len(inbox[f])
           a == [rx[n] EXCEPT !.st = "DONE"]
           b == Opening(rx[n], f, k)
           c == [tx[n] EXCEPT !.st = "DATA"]
           rest == Tail(link[n])
           x == Number("FINFOACK", 0)
           y == Number("FINFOACK", -1)
           z == Number("FINFOACK", -2)
           w == Number("FINFOACK", b.pos)
<1>1. link[n] # <<>> /\ rx[n] \in Rx /\ tx[n] \in Tx
  BY DEF Typed, HRX_FINFO, Arrived
<1>2. rest \in Seq(Packets) /\ f \in Names
  BY <1>1, HeadFacts
<1>3. a \in Rx /\ a.st # "DATA"
  BY <1>1 DEF Rx, RxStates
<1>4. f # EndOfBatch => f \in Files /\ b \in Rx /\ b.file \in Files /\ w \in Packets
  <2> SUFFICES ASSUME f # EndOfBatch
               PROVE  f \in Files /\ b \in Rx /\ b.file \in Files /\ w \in Packets
    OBVIOUS
  <2>1. f \in Files
    BY <1>2 DEF Names
  <2>2. inbox[f] \in Seq(Marks)
    BY <2>1 DEF Typed, Boxes
  <2>3. k \in Nat
    BY <2>2
  <2> HIDE DEF f, k
  <2>4. b \in Rx /\ b.file = f /\ b.pos = k
    BY <1>1, <2>1, <2>3, OpeningFacts
  <2>5. w \in Packets
    BY <2>3, <2>4, NumberFacts DEF PacketTypes
  <2> QED BY <2>1, <2>4, <2>5
<1>5. x \in Packets /\ y \in Packets /\ z \in Packets
  BY NumberFacts DEF PacketTypes
<1>6. \/ /\ rx' = [rx EXCEPT ![n] = a] /\ Exchange(n, rest, <<x>>)
         /\ (tx[n].st = "XWAIT" /\ SetTx(n, c)) \/ tx' = tx
         /\ UNCHANGED <<refused, faults>>
      \/ /\ Exchange(n, rest, <<y>>) /\ UNCHANGED <<tx, rx, refused, faults>>
      \/ /\ f # EndOfBatch /\ rx' = [rx EXCEPT ![n] = b] /\ Exchange(n, rest, <<w>>)
         /\ UNCHANGED <<tx, refused, faults>>
      \/ /\ f # EndOfBatch /\ refused' = refused \cup {f} /\ Exchange(n, rest, <<z>>)
         /\ Fault("open") /\ UNCHANGED <<tx, rx>>
  BY DEF HRX_FINFO, Answer, Opening
<1>7. UNCHANGED <<work, hdxlink, inbox, sent>>
  BY DEF HRX_FINFO
<1>8. tx[n].st = "XWAIT" => c \in Tx /\ c.list # <<>>
  BY <1>1 DEF Typed, Tx, TxStates, Transfers
<1> HIDE DEF f, k, a, b, c, rest, x, y, z, w
<1>9. /\ <<x>> \in Seq(Packets) /\ <<y>> \in Seq(Packets) /\ <<z>> \in Seq(Packets)
      /\ w \in Packets => <<w>> \in Seq(Packets)
  BY <1>5
<1>10. TxMoves(n)
  <2>1. CASE tx[n].st = "XWAIT" /\ SetTx(n, c) /\ Exchange(n, rest, <<x>>)
    BY <1>2, <1>8, <1>9, <2>1, SetMoves
  <2>2. CASE tx' = tx /\ (Exchange(n, rest, <<x>>) \/ Exchange(n, rest, <<y>>) \/ Exchange(n, rest, <<z>>))
    BY <1>2, <1>9, <2>2, KeepMoves
  <2>3. CASE tx' = tx /\ f # EndOfBatch /\ Exchange(n, rest, <<w>>)
    BY <1>2, <1>4, <1>9, <2>3, KeepMoves
  <2> QED BY <1>6, <2>1, <2>2, <2>3
<1>11. /\ rx' \in [Sides -> Rx]
       /\ \A s \in Sides : rx'[s].st = "DATA" => rx'[s].file \in Files
  <2>1. CASE rx' = rx
    BY <2>1 DEF Typed
  <2>2. CASE rx' = [rx EXCEPT ![n] = a]
    BY <1>3, <2>2, TypedRx
  <2>3. CASE f # EndOfBatch /\ rx' = [rx EXCEPT ![n] = b]
    BY <1>4, <2>3, TypedRx
  <2> QED BY <1>6, <2>1, <2>2, <2>3
<1>12. refused' \in SUBSET Names /\ faults' \in Nat
  BY <1>2, <1>6, FaultFacts DEF Typed
<1> QED BY <1>7, <1>10, <1>11, <1>12, TypedBoth DEF Typed


LEMMA TypedAgain ==
    ASSUME Typed, NEW n \in Sides, FinfoAgain(n)
    PROVE  Typed'
<1> DEFINE k == IF rx[n].st = "DATA" THEN rx[n].pos ELSE -2
           x == Number("FINFOACK", k)
<1>1. rx[n].pos \in Int /\ link[n] # <<>>
  BY DEF Typed, Rx, FinfoAgain, Arrived
<1>2. k \in Int
  BY <1>1
<1>3. Exchange(n, Tail(link[n]), <<x>>) /\ UNCHANGED <<work, tx, rx, hdxlink, inbox, sent, refused, faults>>
  BY DEF FinfoAgain, Answer
<1> HIDE DEF k
<1>4. x \in Packets
  BY <1>2, NumberFacts DEF PacketTypes
<1> HIDE DEF x
<1>5. <<x>> \in Seq(Packets)
  BY <1>4
<1>6. TxMoves(n)
  BY <1>1, <1>3, <1>5, HeadFacts, KeepMoves
<1> QED BY <1>3, <1>6, TypedMoves DEF Typed

LEMMA TypedWrite ==
    ASSUME Typed, NEW f \in Files, NEW m \in Marks, inbox' = [inbox EXCEPT ![f] = Append(@, m)]
    PROVE  /\ inbox' \in Boxes /\ \A g \in Files \ {f} : inbox'[g] = inbox[g]
           /\ inbox'[f] = Append(inbox[f], m)
<1>1. inbox \in Boxes /\ inbox[f] \in Seq(Marks)
  BY DEF Typed, Boxes
<1>2. Append(inbox[f], m) \in Seq(Marks)
  BY <1>1
<1> QED BY <1>1, <1>2 DEF Boxes

LEMMA TypedBlock ==
    ASSUME Typed, NEW n \in Sides, HRX_DATA(n)
    PROVE  Typed'
<1> DEFINE r == rx[n]
           p == Head(link[n])
           rest == Tail(link[n])
           a == Wrote(r)
           b == [r EXCEPT !.pos = -2]
           x == Number("DATAACK", r.pos + 1)
<1>1. link[n] # <<>> /\ r \in Rx /\ r.st = "DATA" /\ r.file \in Files /\ r.pos \in Int
  BY DEF Typed, HRX_DATA, Arrived, Rx
<1>2. rest \in Seq(Packets) /\ p.pos \in Int /\ p.file \in Names
  BY <1>1, HeadFacts
<1>3. x \in Packets
  BY <1>1, NumberFacts DEF PacketTypes
<1>4. \/ /\ inbox' = [inbox EXCEPT ![r.file] = Append(@, <<p.file, p.pos>>)]
         /\ rx' = [rx EXCEPT ![n] = a]
         /\ Exchange(n, rest, <<x>>) \/ Exchange(n, rest, <<>>)
         /\ UNCHANGED <<tx, hdxlink, refused, faults>>
      \/ /\ Fault("write") /\ rx' = [rx EXCEPT ![n] = b] /\ refused' = refused \cup {r.file}
         /\ Exchange(n, rest, <<>>) /\ UNCHANGED <<tx, hdxlink, inbox>>
      \/ Misplaced(n, r, p.pos) /\ UNCHANGED <<inbox, refused, faults>>
  BY DEF HRX_DATA, Answer, Wrote
<1>5. UNCHANGED <<work, sent>>
  BY DEF HRX_DATA
<1>6. a \in Rx /\ a.file \in Files /\ b \in Rx /\ b.file \in Files
  BY <1>1, WroteFacts, SpoiltFacts
<1>7. <<p.file, p.pos>> \in Marks
  BY <1>2 DEF Marks
<1> DEFINE m == <<p.file, p.pos>>
<1> HIDE DEF r, p, rest, a, b, x, m
<1>8. CASE /\ inbox' = [inbox EXCEPT ![r.file] = Append(@, m)]
           /\ rx' = [rx EXCEPT ![n] = a]
           /\ Exchange(n, rest, <<x>>) \/ Exchange(n, rest, <<>>)
           /\ UNCHANGED <<tx, hdxlink, refused, faults>>
  <2>1. inbox' \in Boxes
    BY <1>1, <1>7, <1>8, TypedWrite DEF m
  <2>2. <<x>> \in Seq(Packets)
    BY <1>3
  <2>3. TxMoves(n)
    BY <1>2, <1>8, <2>2, KeepMoves, EmptySeq
  <2>4. /\ rx' \in [Sides -> Rx]
        /\ \A s \in Sides : rx'[s].st = "DATA" => rx'[s].file \in Files
    BY <1>6, <1>8, TypedRx
  <2> QED BY <1>5, <1>8, <2>1, <2>3, <2>4, TypedBoth DEF Typed
<1>9. CASE /\ Fault("write") /\ rx' = [rx EXCEPT ![n] = b] /\ refused' = refused \cup {r.file}
           /\ Exchange(n, rest, <<>>) /\ UNCHANGED <<tx, hdxlink, inbox>>
  <2>1. TxMoves(n)
    BY <1>2, <1>9, KeepMoves, EmptySeq
  <2>2. /\ rx' \in [Sides -> Rx]
        /\ \A s \in Sides : rx'[s].st = "DATA" => rx'[s].file \in Files
    BY <1>6, <1>9, TypedRx
  <2>3. refused' \in SUBSET Names /\ faults' \in Nat
    BY <1>1, <1>9, FaultFacts DEF Typed, Names
  <2> QED BY <1>5, <1>9, <2>1, <2>2, <2>3, TypedBoth DEF Typed
<1>10. CASE Misplaced(n, r, p.pos) /\ UNCHANGED <<inbox, refused, faults>>
  <2>1. Stays(n, r, rest)
    BY <1>1, <1>2, <1>10, MisplacedFacts DEF rest
  <2> QED BY <1>1, <1>2, <1>5, <1>10, <2>1, StaysTyped, TypedBoth DEF Typed
<1> QED BY <1>4, <1>8, <1>9, <1>10 DEF m

LEMMA TypedEof ==
    ASSUME Typed, NEW n \in Sides, HRX_EOF(n)
    PROVE  Typed'
<1> DEFINE r == rx[n]
           p == Head(link[n])
           rest == Tail(link[n])
           a == Closed(r)
           b == [r EXCEPT !.pos = -2]
           x == Signal("EOFACK")
<1>1. link[n] # <<>> /\ r \in Rx /\ (r.st = "DATA" => r.file \in Files)
  BY DEF Typed, HRX_EOF, Arrived
<1>2. rest \in Seq(Packets) /\ p.pos \in Int
  BY <1>1, HeadFacts
<1>3. x \in Packets
  BY <1>1, SignalFacts DEF PacketTypes
<1>4. \/ /\ rx' = rx \/ rx' = [rx EXCEPT ![n] = a]
         /\ Exchange(n, rest, <<x>>) /\ UNCHANGED <<tx, hdxlink, refused, faults>>
      \/ /\ r.st = "DATA" /\ Fault("close") /\ refused' = refused \cup {r.file}
         /\ Misplaced(n, b, p.pos)
      \/ Misplaced(n, r, p.pos) /\ UNCHANGED <<refused, faults>>
  BY DEF HRX_EOF, Answer, Closed
<1>5. UNCHANGED <<work, inbox, sent>>
  BY DEF HRX_EOF
<1>6. a \in Rx /\ a.st # "DATA" /\ b \in Rx /\ b.file = r.file /\ b.st = r.st
  BY <1>1, ClosedFacts, SpoiltFacts
<1> HIDE DEF r, p, rest, a, b, x
<1>7. CASE /\ rx' = rx \/ rx' = [rx EXCEPT ![n] = a]
           /\ Exchange(n, rest, <<x>>) /\ UNCHANGED <<tx, hdxlink, refused, faults>>
  <2>1. <<x>> \in Seq(Packets)
    BY <1>3
  <2>2. TxMoves(n)
    BY <1>2, <1>7, <2>1, KeepMoves
  <2>3. /\ rx' \in [Sides -> Rx]
        /\ \A s \in Sides : rx'[s].st = "DATA" => rx'[s].file \in Files
    <3>1. CASE rx' = rx
      BY <3>1 DEF Typed
    <3>2. CASE rx' = [rx EXCEPT ![n] = a]
      BY <1>6, <3>2, TypedRx
    <3> QED BY <1>7, <3>1, <3>2
  <2> QED BY <1>5, <1>7, <2>2, <2>3, TypedBoth DEF Typed
<1>8. CASE /\ r.st = "DATA" /\ Fault("close") /\ refused' = refused \cup {r.file}
           /\ Misplaced(n, b, p.pos)
  <2>1. Stays(n, b, rest)
    BY <1>2, <1>6, <1>8, MisplacedFacts DEF rest
  <2>2. refused' \in SUBSET Names /\ faults' \in Nat
    BY <1>1, <1>8, FaultFacts DEF Typed, Names
  <2> QED BY <1>1, <1>2, <1>5, <1>6, <1>8, <2>1, <2>2, StaysTyped, TypedBoth DEF Typed
<1>9. CASE Misplaced(n, r, p.pos) /\ UNCHANGED <<refused, faults>>
  <2>1. Stays(n, r, rest)
    BY <1>1, <1>2, <1>9, MisplacedFacts DEF rest
  <2> QED BY <1>1, <1>2, <1>5, <1>9, <2>1, StaysTyped, TypedBoth DEF Typed
<1> QED BY <1>4, <1>7, <1>8, <1>9

\* Three ways to give up between two packets.
Stop(n) == HangUp(n) \/ HTX_DATAACK(n) \/ CarrierLost(n)

LEMMA StopFacts ==
    ASSUME Typed, NEW n \in Sides, Stop(n)
    PROVE  /\ Live(n) /\ Give(n) /\ faults' \in Nat
           /\ UNCHANGED <<work, rx, hdxlink, link, inbox, sent, refused>>
<1>1. CASE HangUp(n)
  BY <1>1 DEF HangUp, Typed
<1>2. CASE HTX_DATAACK(n)
  BY <1>2 DEF HTX_DATAACK, Live, Ended, Typed
<1>3. CASE CarrierLost(n)
  BY <1>3, FaultFacts DEF CarrierLost
<1> QED BY <1>1, <1>2, <1>3 DEF Stop

LEMMA TypedRest ==
    ASSUME Typed, NEW n \in Sides, RxTimeout(n) \/ Ignore(n) \/ Lose(n) \/ Stop(n)
    PROVE  Typed'
<1>0. rx[n] \in Rx /\ link[n] \in Seq(Packets) /\ (rx[n].st = "DATA" => rx[n].file \in Files)
  BY DEF Typed
<1>1. CASE RxTimeout(n)
  <2>1. Stays(n, rx[n], link[n])
    BY <1>0, <1>1, ResyncFacts DEF RxTimeout
  <2> QED BY <1>0, <1>1, <2>1, StaysTyped, TypedBoth DEF Typed, RxTimeout
<1>2. CASE Ignore(n)
  <2>1. /\ link[n] # <<>> /\ Exchange(n, Tail(link[n]), <<>>)
        /\ UNCHANGED <<work, tx, rx, hdxlink, inbox, sent, refused, faults>>
    BY <1>2 DEF Ignore, Answer
  <2>2. TxMoves(n)
    BY <2>1, KeepMoves, EmptySeq, HeadFacts
  <2> QED BY <2>1, <2>2, TypedMoves DEF Typed
<1>3. CASE Lose(n)
  <2>1. /\ link[n] # <<>> /\ link' = [link EXCEPT ![n] = Tail(link[n])] /\ Fault("loss")
        /\ UNCHANGED <<work, tx, rx, hdxlink, inbox, sent, refused>>
    BY <1>3 DEF Lose
  <2>2. Tail(link[n]) \in Seq(Packets) /\ faults' \in Nat
    BY <2>1, HeadFacts, FaultFacts
  <2>3. link' \in [Sides -> Seq(Packets)]
    BY <2>1, <2>2 DEF Typed
  <2> QED BY <2>1, <2>2, <2>3 DEF Typed
<1>4. CASE Stop(n)
  <2>1. TxMoves(n)
    BY <1>4, StopFacts, GiveMoves DEF Typed
  <2> QED BY <1>4, <2>1, StopFacts, TypedMoves DEF Typed
<1> QED BY <1>1, <1>2, <1>3, <1>4

LEMMA TypedNext ==
    ASSUME Typed, [Next]_vars
    PROVE  Typed'
<1>1. CASE UNCHANGED vars
  BY <1>1 DEF Typed, vars
<1>2. CASE Next
  <2>1. PICK n \in Sides :
           \/ Transmit(n) \/ Receive(n) \/ TxTimeout(n) \/ RxTimeout(n)
           \/ Lose(n) \/ CarrierLost(n)
    BY <1>2 DEF Next
  <2> QED BY <2>1, TypedBeginning, TypedFinfoack, TypedData, TypedDataack, TypedRpos, TypedEofack,
             TypedEnd, TypedTxTimeout, TypedFinfo, TypedAgain, TypedBlock, TypedEof, TypedRest
          DEF Transmit, Receive, Stop
<1> QED BY <1>1, <1>2

LEMMA TypedInit ==
    ASSUME Init
    PROVE  Typed
<1>1. work \in Workload /\ \A f \in Files : work.part[f] <= Size[f]
  BY WorkloadAssumption DEF Init
<1>2. work.out \in [Sides -> Seq(Files)] /\ work.part \in [Files -> Nat] /\ work.limit \in Nat
  BY <1>1 DEF Workload
<1>3. tx \in [Sides -> Tx] /\ \A n \in Sides : tx[n].st = "START"
  BY <1>2 DEF Init, Transmitter, Tx, TxStates, Beginnings
<1>4. rx \in [Sides -> Rx] /\ \A n \in Sides : rx[n].st = "INIT"
  BY DEF Init, Receiver, Rx, RxStates, Names
<1>5. link \in [Sides -> Seq(Packets)]
  BY EmptySeq DEF Init
<1>6. inbox \in Boxes
  <2> SUFFICES ASSUME NEW f \in Files
               PROVE  SubSeq(Blocks(f), 1, work.part[f]) \in Seq(Marks)
    BY DEF Init, Boxes
  <2>1. Size[f] \in Nat /\ work.part[f] \in 0..Size[f]
    BY <1>1, <1>2, HydraAssumption
  <2>2. Blocks(f) \in Seq(Marks) /\ Len(Blocks(f)) = Size[f]
    <3>1. \A i \in 1..Size[f] : <<f, i - 1>> \in Marks
      BY <2>1 DEF Marks, Names
    <3> QED BY <2>1, <3>1 DEF Blocks
  <2> QED BY <2>1, <2>2
<1> QED BY <1>2, <1>3, <1>4, <1>5, <1>6 DEF Init, Typed, Transfers


-----------------------------------------------------------------------------
(* Both directions. *)

Mine(s) == {work.out[s][i] : i \in DOMAIN work.out[s]}

\* The direction of which n sends the files.
Outgoing(n, u, F, B, done, ref) ==
    Way(work.early, Mine(n), work.locked, u, tx[Peer(n)].st, rx[Peer(n)], F, B, inbox, done, ref)

\* The direction of which n receives the files.
Incoming(n, S, F, B, box, ref) ==
    Way(work.early, Mine(Peer(n)), work.locked, tx[Peer(n)], tx[n].st, S, F, B, box,
        sent[Peer(n)], ref)

Ways == \A n \in Sides : Outgoing(n, tx[n], link[Peer(n)], link[n], sent[n], refused)

LEMMA WaysFacts ==
    ASSUME Ways, NEW n \in Sides
    PROVE  /\ Outgoing(n, tx[n], link[Peer(n)], link[n], sent[n], refused)
           /\ Incoming(n, rx[n], link[n], link[Peer(n)], inbox, refused)
<1>1. Outgoing(Peer(n), tx[Peer(n)], link[Peer(Peer(n))], link[Peer(n)], sent[Peer(n)], refused)
  BY PeerFacts DEF Ways
<1> QED BY <1>1, PeerFacts DEF Ways, Outgoing, Incoming

LEMMA WaysBy ==
    ASSUME NEW n \in Sides, work' = work,
           Way(work.early, Mine(n), work.locked, tx'[n], tx'[Peer(n)].st, rx'[Peer(n)],
               link'[Peer(n)], link'[n], inbox', sent'[n], refused'),
           Way(work.early, Mine(Peer(n)), work.locked, tx'[Peer(n)], tx'[n].st, rx'[n],
               link'[n], link'[Peer(n)], inbox', sent'[Peer(n)], refused')
    PROVE  Ways'
<1> SUFFICES ASSUME NEW s \in Sides
             PROVE  Way(work'.early, Mine(s)', work'.locked, tx'[s], tx'[Peer(s)].st, rx'[Peer(s)],
                        link'[Peer(s)], link'[s], inbox', sent'[s], refused')
  BY DEF Ways, Outgoing
<1>1. Mine(s)' = Mine(s)
  BY DEF Mine
<1> QED BY <1>1, PeerFacts

\* n is live, and a live side may only end.
LEMMA Transmits ==
    ASSUME Typed, Ways, NEW n \in Sides, Live(n), work' = work, rx' = rx, inbox' = inbox,
           tx'[Peer(n)] = tx[Peer(n)], sent'[Peer(n)] = sent[Peer(n)], refused \subseteq refused',
           Spares(link[n], link'[n], Fores), Spares(link[Peer(n)], link'[Peer(n)], Backs),
           Outgoing(n, tx'[n], link'[Peer(n)], link'[n], sent'[n], refused')
    PROVE  Ways'
<1> DEFINE m == Peer(n)
<1>1. m \in Sides /\ tx[m] \in Tx /\ tx[n].st \notin Over
  BY PeerFacts, LiveOver DEF Typed
<1>2. Incoming(n, rx[n], link[n], link[m], inbox, refused)
  BY WaysFacts
<1>3. Incoming(n, rx[n], link'[n], link'[m], inbox, refused)
  BY <1>2, WayAside DEF Incoming
<1>4. Incoming(n, rx[n], link'[n], link'[m], inbox, refused')
  BY <1>1, <1>3, WayElsewhere DEF Incoming
<1>5. Way(work.early, Mine(m), work.locked, tx[m], tx'[n].st, rx[n], link'[n], link'[m], inbox,
          sent[m], refused')
  BY <1>1, <1>4, WayPeer DEF Incoming
<1>6. Way(work.early, Mine(n), work.locked, tx'[n], tx[m].st, rx[m], link'[m], link'[n], inbox,
          sent'[n], refused')
  BY DEF Outgoing
<1> QED BY <1>5, <1>6, WaysBy

LEMMA Receives ==
    ASSUME Typed, Ways, NEW n \in Sides, Live(n), work' = work, rx'[Peer(n)] = rx[Peer(n)],
           sent' = sent, tx'[Peer(n)] = tx[Peer(n)], refused \subseteq refused',
           Like(tx[n], tx'[n]) \/ (tx'[n].list = tx[n].list /\ tx'[n].st = "Abort"),
           \A f \in Mine(n) : inbox'[f] = inbox[f],
           Spares(link[n], link'[n], Backs), Spares(link[Peer(n)], link'[Peer(n)], Fores),
           Incoming(n, rx'[n], link'[n], link'[Peer(n)], inbox', refused')
    PROVE  Ways'
<1> DEFINE m == Peer(n)
<1>1. m \in Sides /\ tx[n] \in Tx /\ tx[n].st \notin Over
  BY PeerFacts, LiveOver DEF Typed
<1>2. Outgoing(n, tx[n], link[m], link[n], sent[n], refused)
  BY WaysFacts
<1>3. Outgoing(n, tx[n], link'[m], link'[n], sent[n], refused)
  BY <1>2, WayAside DEF Outgoing
<1>4. Way(work.early, Mine(n), work.locked, tx[n], tx[m].st, rx[m], link'[m], link'[n], inbox',
          sent[n], refused')
  BY <1>1, <1>3, WayElsewhere DEF Outgoing
<1>5. Way(work.early, Mine(n), work.locked, tx'[n], tx[m].st, rx[m], link'[m], link'[n], inbox',
          sent[n], refused')
  BY <1>4, WayLike, WayAbort
<1>6. Way(work.early, Mine(m), work.locked, tx[m], tx'[n].st, rx'[n], link'[n], link'[m], inbox',
          sent[m], refused')
  BY <1>1, WayPeer DEF Incoming
<1> QED BY <1>5, <1>6, WaysBy

LEMMA SparesSends ==
    ASSUME NEW q, NEW Q, NEW P, NEW x, Sends(q, Q, P, x), NEW K, x.type \notin K
    PROVE  Spares(Q, P, K)
BY DEF Sends, More, Spares

LEMMA SparesSame ==
    ASSUME NEW Q, NEW K
    PROVE  Spares(Q, Q, K)
BY DEF Spares


Kinds == Fores \cup Backs

LEMMA SparesKinds ==
    ASSUME NEW Q, NEW P, Spares(Q, P, Kinds)
    PROVE  Spares(Q, P, Fores) /\ Spares(Q, P, Backs)
BY DEF Spares, Kinds

LEMMA ConcatSpares ==
    ASSUME NEW Q \in Seq(Packets), NEW out \in Seq(Packets), NEW K,
           \A i \in 1..Len(out) : out[i].type \notin K
    PROVE  Spares(Q, Q \o out, K)
<1> DEFINE P == Q \o out
<1>1. /\ Len(Q) \in Nat /\ Len(out) \in Nat /\ Len(P) = Len(Q) + Len(out)
      /\ \A i \in 1..Len(P) : P[i] = IF i <= Len(Q) THEN Q[i] ELSE out[i - Len(Q)]
  OBVIOUS
<1> HIDE DEF P
<1>2. \A i \in 1..Len(P) : (i \in 1..Len(Q) /\ P[i] = Q[i]) \/ P[i].type \notin K
  <2> SUFFICES ASSUME NEW i \in 1..Len(P), ~(i <= Len(Q))
               PROVE  P[i].type \notin K
    BY <1>1
  <2>1. i - Len(Q) \in 1..Len(out) /\ P[i] = out[i - Len(Q)]
    BY <1>1
  <2> QED BY <2>1
<1>3. \A a \in On(P) : a.type \in K => a \in On(Q)
  BY <1>2 DEF On
<1>4. \A a, b : Before(P, a, b) /\ a.type \in K /\ b.type \in K => Before(Q, a, b)
  BY <1>2 DEF Before
<1> QED BY <1>3, <1>4 DEF Spares, P

LEMMA ExchangeSpares ==
    ASSUME Typed, NEW n \in Sides, NEW rest \in Seq(Packets), NEW out \in Seq(Packets),
           NEW K, \A i \in 1..Len(out) : out[i].type \notin K, Exchange(n, rest, out)
    PROVE  link'[n] = rest /\ Spares(link[Peer(n)], link'[Peer(n)], K)
<1>1. link[Peer(n)] \in Seq(Packets) /\ link \in [Sides -> Seq(Packets)]
  BY PeerFacts DEF Typed
<1>2. /\ link'[n] = rest
      /\ link'[Peer(n)] = link[Peer(n)] \/ link'[Peer(n)] = link[Peer(n)] \o out
  BY <1>1, PeerFacts DEF Exchange
<1> QED BY <1>1, <1>2, ConcatSpares, SparesSame

\* n reads and sends nothing of either direction, and stays at its stage.
LEMMA Quietly ==
    ASSUME Typed, Ways, NEW n \in Sides, Live(n), work' = work, rx' = rx, inbox' = inbox,
           sent' = sent, refused' = refused, tx'[Peer(n)] = tx[Peer(n)],
           Like(tx[n], tx'[n]) \/ (tx'[n].list = tx[n].list /\ tx'[n].st = "Abort"),
           Spares(link[n], link'[n], Kinds), Spares(link[Peer(n)], link'[Peer(n)], Kinds)
    PROVE  Ways'
<1>1. Outgoing(n, tx[n], link[Peer(n)], link[n], sent[n], refused)
  BY WaysFacts
<1>2. Outgoing(n, tx[n], link'[Peer(n)], link'[n], sent[n], refused)
  BY <1>1, WayAside, SparesKinds DEF Outgoing
<1>3. Outgoing(n, tx'[n], link'[Peer(n)], link'[n], sent[n], refused)
  BY <1>2, WayLike, WayAbort DEF Outgoing
<1> QED BY <1>3, Transmits, SparesKinds

\* The same, with what n reads and sends.
LEMMA Aside ==
    ASSUME Typed, Ways, NEW n \in Sides, Live(n), work' = work, rx' = rx, inbox' = inbox,
           sent' = sent, refused' = refused, tx'[Peer(n)] = tx[Peer(n)],
           Like(tx[n], tx'[n]) \/ (tx'[n].list = tx[n].list /\ tx'[n].st = "Abort"),
           NEW rest \in Seq(Packets), rest = link[n] \/ (link[n] # <<>> /\ rest = Tail(link[n])),
           NEW out \in Seq(Packets), \A i \in 1..Len(out) : out[i].type \notin Kinds,
           Exchange(n, rest, out)
    PROVE  Ways'
<1>1. link'[n] = rest /\ Spares(link[Peer(n)], link'[Peer(n)], Kinds)
  BY ExchangeSpares
<1>2. Spares(link[n], link'[n], Kinds)
  BY <1>1, HeadFacts, SparesLess, SparesSame
<1> QED BY <1>1, <1>2, Quietly

LEMMA WaysStart ==
    ASSUME Typed, Ways, NEW n \in Sides, HTX_START(n) \/ HTX_SWAIT(n)
    PROVE  Ways'
<1> DEFINE a == [tx[n] EXCEPT !.st = "SWAIT"]
           b == [tx[n] EXCEPT !.st = "INITACK", !.retries = 0]
           x == Signal("START")
           y == Signal("INIT")
<1>1. /\ tx[n] \in Tx /\ tx[n].st \in Beginnings /\ Live(n) /\ tx \in [Sides -> Tx]
      /\ link[n] \in Seq(Packets)
  BY LiveOver DEF Typed, HTX_START, HTX_SWAIT, Beginnings, Over
<1>2. a \in Tx /\ b \in Tx /\ Like(tx[n], a) /\ Like(tx[n], b)
  BY <1>1 DEF Tx, TxStates, Beginnings, Like
<1>3. \/ SetTx(n, a) /\ Exchange(n, link[n], <<x>>)
      \/ SetTx(n, b) /\ link[n] # <<>> /\ Exchange(n, Tail(link[n]), <<y>>)
  BY DEF HTX_START, HTX_SWAIT, Send, Answer, Arrived
<1>4. UNCHANGED <<work, rx, inbox, sent, refused>>
  BY DEF HTX_START, HTX_SWAIT
<1>5. x \in Packets /\ x.type = "START" /\ y \in Packets /\ y.type = "INIT"
  BY SignalFacts DEF PacketTypes
<1> HIDE DEF a, b, x, y
<1>6. /\ <<x>> \in Seq(Packets) /\ \A i \in 1..Len(<<x>>) : <<x>>[i].type \notin Kinds
      /\ <<y>> \in Seq(Packets) /\ \A i \in 1..Len(<<y>>) : <<y>>[i].type \notin Kinds
  BY <1>5 DEF Kinds, Fores, Backs
<1>7. CASE SetTx(n, a) /\ Exchange(n, link[n], <<x>>)
  BY <1>1, <1>2, <1>4, <1>6, <1>7, SetTxFacts, Aside
<1>8. CASE SetTx(n, b) /\ link[n] # <<>> /\ Exchange(n, Tail(link[n]), <<y>>)
  BY <1>1, <1>2, <1>4, <1>6, <1>8, SetTxFacts, Aside, HeadFacts
<1> QED BY <1>3, <1>7, <1>8


LEMMA FirstOffer ==
    ASSUME Typed, Ways, NEW n \in Sides, tx[n].st \in Beginnings,
           NEW u \in Tx, u.st = "FINFOACK", u.err = FALSE, u.list = Openable(tx[n].list),
           NEW F1, NEW F2, NEW B2, NEW x, Spares(link[n], B2, Backs),
           Spares(link[Peer(n)], F1, Fores), Sends(tx[Peer(n)].st, F1, F2, x),
           x.type = "FINFO", x.file = Current(u)
    PROVE  Outgoing(n, u, F2, B2, sent[n], refused)
<1> DEFINE m == Peer(n)
           t == tx[n]
<1>1. t \in Tx /\ t.list \in Seq(Files) /\ t.st # "Abort" /\ t.st \in Beginnings
  BY DEF Typed, Tx, Beginnings
<1>2. Outgoing(n, t, F1, B2, sent[n], refused)
  BY WaysFacts, WayAside DEF Outgoing
<1>3. Follows(work.locked, t, u, sent[n], refused)
  BY <1>1, OpenableFacts DEF Follows
<1>4. /\ rx[m].st \in {"INIT", "FINFO"} /\ None(B2, {"FINFOACK", "RPOS"}) /\ None(F1, {"FINFO"})
  BY <1>1, <1>2 DEF Outgoing, Way, Beginning, None
<1> HIDE DEF t, m
<1> QED BY <1>1, <1>2, <1>3, <1>4, WayOffer DEF Outgoing, t, m

LEMMA WaysInitack ==
    ASSUME Typed, Ways, NEW n \in Sides, HTX_INITACK(n)
    PROVE  Ways'
<1> DEFINE t == [tx[n] EXCEPT !.st = "RINIT", !.retries = 0]
           o == Offer(t, t.list)
           rest == Tail(link[n])
<1>1. /\ tx[n] \in Tx /\ tx[n].st \in Beginnings /\ Live(n) /\ tx \in [Sides -> Tx]
      /\ link[n] # <<>>
  BY LiveOver DEF Typed, HTX_INITACK, Beginnings, Over, Arrived
<1>2. t \in Tx /\ Like(tx[n], t) /\ t.list = tx[n].list /\ t.list \in Seq(Files)
  BY <1>1 DEF Tx, TxStates, Beginnings, Like
<1>3. o \in Tx /\ o.st = "FINFOACK" /\ o.err = FALSE /\ o.list = Openable(tx[n].list)
  BY <1>2, OfferFacts
<1>4. \/ SetTx(n, t) /\ Exchange(n, rest, <<>>)
      \/ SetTx(n, o) /\ Exchange(n, rest, Finfo(o))
  BY DEF HTX_INITACK, Answer
<1>5. UNCHANGED <<work, rx, inbox, sent, refused>>
  BY DEF HTX_INITACK
<1>6. rest \in Seq(Packets) /\ Less(link[n], rest)
  BY <1>1, HeadFacts
<1> HIDE DEF t, o
<1>7. CASE SetTx(n, t) /\ Exchange(n, rest, <<>>)
  <2>1. <<>> \in Seq(Packets) /\ \A i \in 1..Len(<<>>) : <<>>[i].type \notin Kinds
    BY EmptySeq
  <2> QED BY <1>1, <1>2, <1>5, <1>6, <1>7, <2>1, SetTxFacts, Aside
<1>8. CASE SetTx(n, o) /\ Exchange(n, rest, Finfo(o))
  <2>1. PICK x \in Packets : Finfo(o) = <<x>> /\ x.type = "FINFO" /\ x.file = Current(o)
    BY <1>3, FinfoFacts
  <2>2. link'[n] = rest /\ Sends(tx[Peer(n)].st, link[Peer(n)], link'[Peer(n)], x)
    <3>1. Exchange(n, rest, <<x>>) /\ link \in [Sides -> Seq(Packets)]
      BY <1>8, <2>1 DEF Typed
    <3> HIDE DEF rest
    <3> QED BY <1>6, <3>1, ExchangeOne
  <2>3. tx'[n] = o /\ tx'[Peer(n)] = tx[Peer(n)]
    BY <1>1, <1>3, <1>8, SetTxFacts
  <2>4. Spares(link[n], link'[n], Backs) /\ Spares(link[n], link'[n], Fores)
    BY <1>6, <2>2, SparesLess
  <2>5. Outgoing(n, o, link'[Peer(n)], link'[n], sent[n], refused)
    BY <1>1, <1>3, <2>1, <2>2, <2>4, FirstOffer, SparesSame
  <2>6. Spares(link[Peer(n)], link'[Peer(n)], Backs)
    BY <2>1, <2>2, SparesSends DEF Backs
  <2> QED BY <1>1, <1>5, <2>3, <2>4, <2>5, <2>6, Transmits
<1> QED BY <1>4, <1>7, <1>8

LEMMA WaysInit ==
    ASSUME Typed, Ways, NEW n \in Sides, HRX_INIT(n)
    PROVE  Ways'
<1> DEFINE m == Peer(n)
           o == Offer(tx[n], tx[n].list)
           r == [rx[n] EXCEPT !.st = "FINFO"]
           rest == Tail(link[n])
           y == Signal("INITACK")
<1>1. /\ tx[n] \in Tx /\ Live(n) /\ tx \in [Sides -> Tx] /\ rx[n] \in Rx /\ tx[n].list \in Seq(Files)
      /\ link[n] # <<>> /\ rx[n].st \in {"INIT", "FINFO"} /\ m \in Sides
  BY PeerFacts DEF Typed, HRX_INIT, Arrived, Tx
<1>2. r \in Rx /\ r.st = "FINFO" /\ r.file = rx[n].file /\ r.pos = rx[n].pos /\ r.timer = rx[n].timer
  BY <1>1 DEF Rx, RxStates
<1>3. o \in Tx /\ o.st = "FINFOACK" /\ o.err = FALSE /\ o.list = Openable(tx[n].list)
  BY <1>1, OfferFacts
<1>4. /\ rx' = [rx EXCEPT ![n] = r]
      /\ \/ /\ tx[n].st = "RINIT" /\ SetTx(n, o) /\ Exchange(n, rest, <<y>> \o Finfo(o))
         \/ /\ tx' = tx /\ Exchange(n, rest, <<y>>)
  BY DEF HRX_INIT, Answer
<1>5. UNCHANGED <<work, inbox, sent, refused>>
  BY DEF HRX_INIT
<1>6. rest \in Seq(Packets) /\ Less(link[n], rest)
  BY <1>1, HeadFacts
<1>7. y \in Packets /\ y.type = "INITACK"
  BY SignalFacts DEF PacketTypes
<1>8. rx'[n] = r /\ rx'[m] = rx[m]
  BY <1>2, <1>4, TypedRx
<1> HIDE DEF o, r, y
<1>9. Spares(link[n], rest, Backs) /\ Spares(link[n], rest, Fores)
  BY <1>6, SparesLess
<1>10. \A B2 : Spares(link[m], B2, Backs) => Incoming(n, r, rest, B2, inbox, refused)
  <2> SUFFICES ASSUME NEW B2, Spares(link[m], B2, Backs)
               PROVE  Incoming(n, r, rest, B2, inbox, refused)
    OBVIOUS
  <2>1. Incoming(n, rx[n], rest, B2, inbox, refused)
    BY <1>9, WaysFacts, WayAside DEF Incoming
  <2> QED BY <1>1, <1>2, <2>1, WayRx DEF Incoming
<1>11. CASE tx' = tx /\ Exchange(n, rest, <<y>>)
  <2>1. link'[n] = rest /\ Sends(tx[m].st, link[m], link'[m], y)
    BY <1>6, <1>7, <1>11, ExchangeOne DEF Typed
  <2>2. Spares(link[m], link'[m], Backs) /\ Spares(link[m], link'[m], Fores)
    BY <1>7, <2>1, SparesSends DEF Backs, Fores
  <2>3. Incoming(n, r, link'[n], link'[m], inbox, refused)
    BY <1>10, <2>1, <2>2
  <2>4. Like(tx[n], tx'[n])
    BY <1>11 DEF Like
  <2> QED BY <1>1, <1>5, <1>8, <1>9, <1>11, <2>1, <2>2, <2>3, <2>4, Receives
<1>12. CASE tx[n].st = "RINIT" /\ SetTx(n, o) /\ Exchange(n, rest, <<y>> \o Finfo(o))
  <2>1. PICK x \in Packets : Finfo(o) = <<x>> /\ x.type = "FINFO" /\ x.file = Current(o)
    BY <1>3, FinfoFacts
  <2>2. <<y>> \o <<x>> = <<y, x>>
    <3>1. <<y>> \in Seq(Packets) /\ <<x>> \in Seq(Packets) /\ <<y, x>> \in Seq(Packets)
      BY <1>7
    <3> DEFINE a == <<y>> \o <<x>>
               b == <<y, x>>
    <3>2. /\ a \in Seq(Packets) /\ Len(a) = 2 /\ a[1] = y /\ a[2] = x
          /\ b \in Seq(Packets) /\ Len(b) = 2 /\ b[1] = y /\ b[2] = x
      BY <3>1
    <3> HIDE DEF a, b
    <3>3. \A i \in 1..Len(a) : a[i] = b[i]
      <4> SUFFICES ASSUME NEW i \in 1..2
                   PROVE  a[i] = b[i]
        BY <3>2
      <4>1. i = 1 \/ i = 2
        OBVIOUS
      <4> QED BY <3>2, <4>1
    <3>4. a = b
      BY <3>2, <3>3, SeqEqual
    <3> QED BY <3>4 DEF a, b
  <2>3. Exchange(n, rest, <<y, x>>)
    BY <1>12, <2>1, <2>2
  <2>4. link'[n] = rest
    BY <1>6, <1>7, <2>3, ExchangeTwo DEF Typed
  <2>5. PICK P \in Seq(Packets) : Sends(tx[m].st, link[m], P, y) /\ Sends(tx[m].st, P, link'[m], x)
    BY <1>6, <1>7, <2>3, ExchangeTwo DEF Typed
  <2>6. tx'[n] = o /\ tx'[m] = tx[m]
    BY <1>1, <1>3, <1>12, SetTxFacts
  <2>7. Spares(link[m], P, Fores) /\ Spares(link[m], P, Backs)
    BY <1>7, <2>5, SparesSends DEF Fores, Backs
  <2>8. Spares(link[m], link'[m], Backs)
    <3>1. Spares(P, link'[m], Backs)
      BY <2>1, <2>5, SparesSends DEF Backs
    <3> QED BY <2>7, <3>1, SparesTrans
  <2>9. Outgoing(n, o, link'[m], rest, sent[n], refused)
    BY <1>3, <1>9, <1>12, <2>1, <2>5, <2>7, FirstOffer DEF Beginnings
  <2>10. Incoming(n, r, rest, link'[m], inbox, refused)
    BY <1>10, <2>8
  <2>11. Way(work.early, Mine(m), work.locked, tx[m], o.st, r, rest, link'[m], inbox, sent[m], refused)
    BY <1>12, <2>10, WayPeer DEF Incoming, Over
  <2> QED BY <1>5, <1>8, <2>4, <2>6, <2>9, <2>11, WaysBy DEF Outgoing
<1> QED BY <1>4, <1>11, <1>12


\* What has been written of a file is a beginning of it.
Whole ==
    \A f \in Files : /\ Len(inbox[f]) <= Size[f]
                     /\ \A i \in 1..Len(inbox[f]) : inbox[f][i] = <<f, i - 1>>

LEMMA BlocksFacts ==
    ASSUME NEW f \in Files
    PROVE  /\ Size[f] \in Nat /\ Blocks(f) \in Seq(Marks) /\ Len(Blocks(f)) = Size[f]
           /\ \A i \in 1..Size[f] : Blocks(f)[i] = <<f, i - 1>>
<1>1. Size[f] \in Nat
  BY HydraAssumption
<1>2. \A i \in 1..Size[f] : <<f, i - 1>> \in Marks
  BY <1>1 DEF Marks, Names
<1>3. Blocks(f) \in Seq(Marks) /\ Len(Blocks(f)) = Size[f]
  BY <1>1, <1>2 DEF Blocks
<1> QED BY <1>1, <1>3 DEF Blocks

LEMMA WholeFacts ==
    ASSUME Typed, Whole, NEW f \in Files
    PROVE  /\ Size[f] \in Nat /\ Len(inbox[f]) \in 0..Size[f] /\ inbox[f] \in Seq(Marks)
           /\ Len(inbox[f]) = Size[f] => inbox[f] = Blocks(f)
           /\ inbox[f] = Blocks(f) => Len(inbox[f]) = Size[f]
<1>1. Size[f] \in Nat /\ inbox[f] \in Seq(Marks) /\ Len(inbox[f]) <= Size[f]
  BY HydraAssumption DEF Typed, Boxes, Whole
<1>2. Blocks(f) \in Seq(Marks) /\ Len(Blocks(f)) = Size[f] /\ \A i \in 1..Size[f] : Blocks(f)[i] = <<f, i - 1>>
  BY BlocksFacts
<1>3. ASSUME Len(inbox[f]) = Size[f]
      PROVE  inbox[f] = Blocks(f)
  <2>1. \A i \in 1..Len(inbox[f]) : inbox[f][i] = Blocks(f)[i]
    BY <1>2, <1>3 DEF Whole
  <2> QED BY <1>1, <1>2, <1>3, <2>1, SeqEqual
<1> QED BY <1>1, <1>2, <1>3

LEMMA MineFacts ==
    ASSUME Typed, NEW n \in Sides
    PROVE  Mine(n) \subseteq Files
<1>1. work \in Workload
  BY WorkloadAssumption DEF Typed
<1>2. work.out[n] \in Seq(Files)
  BY <1>1 DEF Workload
<1> QED BY <1>2 DEF Mine

LEMMA RestFollows ==
    ASSUME NEW t \in Tx, t.list # <<>>, NEW u, u.list = Openable(Tail(t.list)), NEW done, NEW ref,
           t.list[1] \in done \cup ref
    PROVE  Follows(work.locked, t, u, done, ref)
<1> DEFINE l == Tail(t.list)
<1>1. /\ t.list \in Seq(Files) /\ l \in Seq(Files) /\ Len(l) = Len(t.list) - 1 /\ Len(t.list) \in Nat
      /\ \A i \in 1..Len(l) : l[i] = t.list[i + 1]
  BY DEF Tx
<1> HIDE DEF l
<1>2. PICK k \in 0..Len(l) :
        /\ Len(Openable(l)) = Len(l) - k
        /\ \A i \in 1..Len(Openable(l)) : Openable(l)[i] = l[i + k]
        /\ \A j \in 1..k : l[j] \in work.locked
  BY <1>1, OpenableFacts
<1>3. u.list = Openable(l)
  BY DEF l
<1>4. k + 1 \in 0..Len(t.list) /\ Len(u.list) = Len(t.list) - (k + 1) /\ k + 1 > 0
  BY <1>1, <1>2, <1>3
<1>5. \A i \in 1..Len(u.list) : u.list[i] = t.list[i + (k + 1)]
  <2> SUFFICES ASSUME NEW i \in 1..Len(u.list)
               PROVE  u.list[i] = t.list[i + (k + 1)]
    OBVIOUS
  <2>1. i \in 1..Len(Openable(l)) /\ i + k \in 1..Len(l) /\ (i + k) + 1 = i + (k + 1)
    BY <1>1, <1>2, <1>3
  <2> QED BY <1>1, <1>2, <1>3, <2>1
<1>6. \A j \in 1..(k + 1) : t.list[j] \in done \cup ref \cup work.locked
  <2> SUFFICES ASSUME NEW j \in 1..(k + 1), j # 1
               PROVE  t.list[j] \in work.locked
    OBVIOUS
  <2>1. j - 1 \in 1..k /\ j - 1 \in 1..Len(l) /\ (j - 1) + 1 = j
    BY <1>1, <1>2
  <2>2. l[j - 1] = t.list[(j - 1) + 1]
    BY <1>1, <2>1
  <2> QED BY <1>2, <2>1, <2>2
<1> QED BY <1>4, <1>5, <1>6 DEF Follows

\* The next file is offered when the one before is done with.
LEMMA NextOffer ==
    ASSUME Typed, Ways, NEW n \in Sides, tx[n].list # <<>>, Live(n),
           NEW u \in Tx, u.st = "FINFOACK", u.err = FALSE, u.list = Openable(Tail(tx[n].list)),
           NEW done, sent[n] \subseteq done, Current(tx[n]) \in done \cup refused,
           NEW F2, NEW B2, NEW x, Less(link[n], B2), Sends(tx[Peer(n)].st, link[Peer(n)], F2, x),
           x.type = "FINFO", x.file = Current(u),
           rx[Peer(n)].st \in {"INIT", "FINFO"}, None(B2, {"FINFOACK", "RPOS"}),
           tx[Peer(n)].st \notin Over => None(link[Peer(n)], {"FINFO"})
    PROVE  Outgoing(n, u, F2, B2, done, refused)
<1> DEFINE t == tx[n]
           m == Peer(n)
           q == tx[m].st
<1>1. t \in Tx /\ t.st # "Abort" /\ t.list[1] \in done \cup refused
  BY CurrentFacts, LiveOver DEF Typed, Over
<1>2. Outgoing(n, t, link[m], B2, sent[n], refused)
  BY WaysFacts, WayAside, SparesLess, SparesSame DEF Outgoing
<1>3. Follows(work.locked, t, u, done, refused)
  BY <1>1, RestFollows
<1> HIDE DEF t, m, q
<1>4. /\ Sends(q, link[m], F2, x) /\ rx[m].st \in {"INIT", "FINFO"}
      /\ q \notin Over => None(link[m], {"FINFO"})
  BY DEF q, m
<1>5. Way(work.early, Mine(n), work.locked, t, q, rx[m], link[m], B2, inbox, sent[n], refused)
  BY <1>2 DEF Outgoing, q, m
<1>6. Way(work.early, Mine(n), work.locked, u, q, rx[m], F2, B2, inbox, done, refused)
  BY <1>1, <1>3, <1>4, <1>5, WayOffer
<1> QED BY <1>6 DEF Outgoing, q, m


\* What an answer to FINFO says about the receiver.
LEMMA FinfoackMeans ==
    ASSUME Typed, Whole, Ways, NEW n \in Sides, Arrived(n, "FINFOACK"), tx[n].st = "FINFOACK"
    PROVE  LET m == Peer(n)
               f == Current(tx[n])
               pos == Head(link[n]).pos
               rest == Tail(link[n]) IN
           /\ tx[n].list = <<>> => rx[m].st = "DONE"
           /\ tx[n].list # <<>> /\ pos >= 0 =>
                 rx[m].st = "DATA" /\ pos = rx[m].pos /\ None(rest, {"EOFACK"})
           /\ tx[n].list # <<>> /\ pos < 0 =>
                 /\ rx[m].st \in {"INIT", "FINFO"} /\ None(rest, {"FINFOACK", "RPOS"})
                 /\ tx[m].st \notin Over => None(link[m], {"FINFO"})
                 /\ (pos = -1 /\ inbox[f] = Blocks(f)) \/ (pos # -1 /\ f \in refused)
<1> DEFINE m == Peer(n)
           t == tx[n]
           f == Current(t)
           a == Head(link[n])
           rest == Tail(link[n])
           R == rx[m]
<1>1. /\ link[n] # <<>> /\ a.type = "FINFOACK" /\ m \in Sides /\ t \in Tx /\ R \in Rx
      /\ t.st = "FINFOACK" /\ (R.st = "DATA" => R.file \in Files /\ R.file # EndOfBatch)
  BY PeerFacts, HydraAssumption DEF Arrived, Typed
<1>2. /\ a \in On(link[n]) /\ a.pos \in Int /\ Less(link[n], rest)
      /\ \A b \in On(rest) : Before(link[n], a, b) /\ b \in On(link[n])
  BY <1>1, HeadFacts DEF Less
<1>3. Way(work.early, Mine(n), work.locked, t, tx[m].st, R, link[m], link[n], inbox, sent[n], refused)
  BY WaysFacts DEF Outgoing
<1>4. /\ t.list = <<>> => f = EndOfBatch
      /\ t.list # <<>> => f \in Files
  BY <1>1, CurrentFacts
<1>5. f \in Files => /\ Len(inbox[f]) \in Nat
                     /\ Len(inbox[f]) = Size[f] => inbox[f] = Blocks(f)
  BY WholeFacts
<1> HIDE DEF m, t, f, a, rest, R
<1>6. /\ None(link[n], {"RPOS"})
      /\ R.st = "DATA" => Opened(t, tx[m].st, R, link[m], link[n])
      /\ R.st \in {"INIT", "FINFO"} => Unopened(work.early, t, tx[m].st, link[m], link[n], inbox, refused)
  BY <1>1, <1>3 DEF Way, Offering
<1>7. R.st = "DATA" =>
        /\ R.file = f /\ a.pos = R.pos /\ None(rest, {"EOFACK"})
        /\ R.pos = Len(inbox[f])
  <2>1. R.st = "DATA" => R.file = f /\ a.pos = R.pos /\ R.pos # -2
    BY <1>1, <1>2, <1>6 DEF Opened, f
  <2>2. R.st = "DATA" => None(rest, {"EOFACK"})
    BY <1>1, <1>2, <1>6 DEF Opened, None
  <2> QED BY <1>3, <2>1, <2>2 DEF Way, Writer
<1>8. R.st \in {"INIT", "FINFO"} =>
        /\ t.list # <<>> /\ None(rest, {"FINFOACK", "RPOS"})
        /\ tx[m].st \notin Over => None(link[m], {"FINFO"})
        /\ (a.pos = -1 /\ Len(inbox[f]) = Size[f]) \/ (a.pos = -2 /\ f \in refused)
  <2>1. R.st \in {"INIT", "FINFO"} =>
          /\ t.list # <<>>
          /\ tx[m].st \notin Over => None(link[m], {"FINFO"})
          /\ (a.pos = -1 /\ Len(inbox[f]) = Size[f]) \/ (a.pos = -2 /\ f \in refused)
    BY <1>1, <1>2, <1>6 DEF Unopened, f
  <2>2. R.st \in {"INIT", "FINFO"} => None(rest, {"FINFOACK", "RPOS"})
    BY <1>1, <1>2, <1>6 DEF Unopened, None
  <2> QED BY <2>1, <2>2
<1>9. R.st = "DONE" => t.list = <<>>
  BY <1>3 DEF Way, Listed
<1>10. R.st \in {"INIT", "FINFO", "DATA", "DONE"}
  BY <1>1 DEF Rx, RxStates
<1>11. t.list = <<>> => R.st = "DONE"
  BY <1>1, <1>4, <1>7, <1>8, <1>10
<1>12. t.list # <<>> /\ a.pos >= 0 => R.st = "DATA" /\ a.pos = R.pos /\ None(rest, {"EOFACK"})
  BY <1>2, <1>7, <1>8, <1>9, <1>10
<1>13. t.list # <<>> /\ a.pos < 0 => R.st \in {"INIT", "FINFO"}
  BY <1>2, <1>4, <1>5, <1>7, <1>9, <1>10
<1> QED BY <1>4, <1>5, <1>8, <1>11, <1>12, <1>13 DEF m, t, f, a, rest, R

LEMMA WaysFinfoack ==
    ASSUME Typed, Whole, Ways, Delivered, NEW n \in Sides, HTX_FINFOACK(n)
    PROVE  Ways' /\ Delivered'
<1> DEFINE m == Peer(n)
           t == tx[n]
           pos == Head(link[n]).pos
           rest == Tail(link[n])
           a == [t EXCEPT !.st = "REND"]
           b == Begun(t, pos)
           c == [t EXCEPT !.pos = pos]
           o == Offer(c, Tail(t.list))
<1>1. /\ link[n] # <<>> /\ t \in Tx /\ tx \in [Sides -> Tx] /\ Live(n) /\ t.st = "FINFOACK"
      /\ m \in Sides /\ Arrived(n, "FINFOACK") /\ link \in [Sides -> Seq(Packets)]
  BY LiveOver, PeerFacts DEF Typed, HTX_FINFOACK, Arrived
<1>2. rest \in Seq(Packets) /\ pos \in Int /\ Less(link[n], rest)
  BY <1>1, HeadFacts
<1>3. \/ t.list = <<>> /\ SetTx(n, a) /\ Exchange(n, rest, <<>>) /\ sent' = sent
      \/ t.list # <<>> /\ pos >= 0 /\ SetTx(n, b) /\ Exchange(n, rest, <<>>) /\ sent' = sent
      \/ /\ t.list # <<>> /\ pos < 0 /\ SetTx(n, o) /\ Exchange(n, rest, Finfo(o))
         /\ IF pos = -1 THEN Dispose(n) ELSE sent' = sent
  BY DEF HTX_FINFOACK, Answer, Begun
<1>4. UNCHANGED <<work, rx, inbox, refused>>
  BY DEF HTX_FINFOACK
<1>5. /\ t.list = <<>> => rx[m].st = "DONE"
      /\ t.list # <<>> /\ pos >= 0 =>
            rx[m].st = "DATA" /\ pos = rx[m].pos /\ None(rest, {"EOFACK"})
      /\ t.list # <<>> /\ pos < 0 =>
            /\ rx[m].st \in {"INIT", "FINFO"} /\ None(rest, {"FINFOACK", "RPOS"})
            /\ tx[m].st \notin Over => None(link[m], {"FINFO"})
            /\ \/ pos = -1 /\ inbox[Current(t)] = Blocks(Current(t))
               \/ pos # -1 /\ Current(t) \in refused
  BY <1>1, FinfoackMeans
<1>6. Spares(link[n], rest, Fores) /\ Spares(link[n], rest, Backs)
  BY <1>2, SparesLess
<1>7. Outgoing(n, t, link[m], rest, sent[n], refused)
  BY <1>6, WaysFacts, WayAside, SparesSame DEF Outgoing
<1> HIDE DEF rest, pos
<1>8. CASE t.list = <<>> /\ SetTx(n, a) /\ Exchange(n, rest, <<>>) /\ sent' = sent
  <2>1. a \in Tx /\ a.st = "REND" /\ a.list = t.list
    BY <1>1 DEF Tx, TxStates, Endings
  <2> HIDE DEF a
  <2>2. link'[n] = rest /\ link'[m] = link[m]
    BY <1>1, <1>2, <1>8, ExchangeNone
  <2>3. tx'[n] = a /\ tx'[m] = tx[m]
    BY <1>1, <1>8, <2>1, SetTxFacts
  <2>4. Outgoing(n, a, link[m], rest, sent[n], refused)
    BY <1>5, <1>7, <1>8, <2>1, WayRend DEF Outgoing
  <2>5. Ways'
    BY <1>1, <1>4, <1>6, <1>8, <2>2, <2>3, <2>4, Transmits, SparesSame
  <2> QED BY <1>4, <1>8, <2>5 DEF Delivered
<1>9. CASE t.list # <<>> /\ pos >= 0 /\ SetTx(n, b) /\ Exchange(n, rest, <<>>) /\ sent' = sent
  <2>1. b \in Tx /\ b.st = "DATA" /\ b.list = t.list /\ b.err = t.err /\ b.pos = pos
    BY <1>1, <1>2, BegunFacts
  <2> HIDE DEF b
  <2>2. link'[n] = rest /\ link'[m] = link[m]
    BY <1>1, <1>2, <1>9, ExchangeNone
  <2>3. tx'[n] = b /\ tx'[m] = tx[m]
    BY <1>1, <1>9, <2>1, SetTxFacts
  <2>4. Len(inbox[rx[m].file]) \in 0..Size[rx[m].file]
    BY <1>1, <1>5, <1>9, WholeFacts DEF Typed
  <2>5. Outgoing(n, b, link[m], rest, sent[n], refused)
    <3> HIDE DEF t, m
    <3>1. b.pos = rx[m].pos /\ rx[m].st = "DATA" /\ None(rest, {"EOFACK"}) /\ t.list # <<>>
      BY <1>5, <1>9, <2>1
    <3> QED BY <1>1, <1>7, <2>1, <2>4, <3>1, WayBegin DEF Outgoing, m
  <2>6. Ways'
    BY <1>1, <1>4, <1>6, <1>9, <2>2, <2>3, <2>5, Transmits, SparesSame
  <2> QED BY <1>4, <1>9, <2>6 DEF Delivered
<1>10. CASE /\ t.list # <<>> /\ pos < 0 /\ SetTx(n, o) /\ Exchange(n, rest, Finfo(o))
            /\ IF pos = -1 THEN Dispose(n) ELSE sent' = sent
  <2>1. c \in Tx /\ Tail(t.list) \in Seq(Files)
    <3>1. t.list # <<>> /\ t \in Tx
      BY <1>1, <1>10
    <3> HIDE DEF t
    <3>2. c \in Tx
      BY <1>2, <3>1 DEF Tx
    <3>3. Tail(t.list) \in Seq(Files)
      BY <3>1 DEF Tx
    <3> QED BY <3>2, <3>3
  <2>2. o \in Tx /\ o.st = "FINFOACK" /\ o.err = FALSE /\ o.list = Openable(Tail(t.list))
    BY <2>1, OfferFacts
  <2> HIDE DEF o
  <2>3. PICK x \in Packets : Finfo(o) = <<x>> /\ x.type = "FINFO" /\ x.file = Current(o)
    BY <2>2, FinfoFacts
  <2>4. Exchange(n, rest, <<x>>)
    BY <1>10, <2>3
  <2>5. link'[n] = rest /\ Sends(tx[m].st, link[m], link'[m], x)
    BY <1>1, <1>2, <2>4, ExchangeOne
  <2>6. tx'[n] = o /\ tx'[m] = tx[m]
    BY <1>1, <1>10, <2>2, SetTxFacts
  <2>7. /\ sent'[m] = sent[m] /\ sent[n] \subseteq sent'[n]
        /\ Current(t) \in sent'[n] \cup refused
        /\ \A f \in sent'[n] : f \in sent[n] \/ inbox[f] = Blocks(f)
    <3>1. CASE pos = -1 /\ Dispose(n)
      BY <1>5, <1>10, <3>1, DisposeFacts
    <3>2. CASE pos # -1 /\ sent' = sent
      BY <1>5, <1>10, <3>2
    <3> QED BY <1>10, <3>1, <3>2
  <2>8. Outgoing(n, o, link'[m], rest, sent'[n], refused)
    BY <1>1, <1>2, <1>5, <1>10, <2>2, <2>3, <2>5, <2>7, NextOffer
  <2>9. Spares(link[m], link'[m], Backs)
    BY <2>3, <2>5, SparesSends DEF Backs
  <2>10. Ways'
    BY <1>1, <1>4, <1>6, <2>5, <2>6, <2>7, <2>8, <2>9, Transmits
  <2>11. Delivered'
    <3>1. \A s \in Sides : \A f \in sent'[s] : inbox[f] = Blocks(f)
      BY <2>7, PeerFacts DEF Delivered
    <3> QED BY <1>4, <3>1 DEF Delivered, Blocks
  <2> QED BY <2>10, <2>11
<1> QED BY <1>3, <1>8, <1>9, <1>10


LEMMA WaysData ==
    ASSUME Typed, Ways, NEW n \in Sides, HTX_DATA(n)
    PROVE  Ways'
<1> DEFINE m == Peer(n)
           t == tx[n]
           f == Current(t)
           a == [t EXCEPT !.st = "XWAIT"]
           b == [t EXCEPT !.st = "DATAACK"]
           c == [t EXCEPT !.pos = @ + 1]
           d == AtEof(t)
           k == Skipped(t)
           s == [k EXCEPT !.err = TRUE]
           x == Packet("DATA", f, t.pos, 0)
<1>1. /\ t \in Tx /\ t.st = "DATA" /\ t.list # <<>> /\ f \in Files /\ link[n] \in Seq(Packets)
      /\ Live(n) /\ m \in Sides /\ tx \in [Sides -> Tx] /\ link \in [Sides -> Seq(Packets)]
      /\ Size[f] \in Nat
  BY CurrentFacts, LiveOver, PeerFacts, HydraAssumption DEF Typed, HTX_DATA, Transfers, Over
<1>2. \/ (SetTx(n, a) \/ SetTx(n, b)) /\ link' = link /\ refused' = refused
      \/ /\ t.pos < Size[f] /\ SetTx(n, c) /\ Exchange(n, link[n], <<x>>) /\ refused' = refused
      \/ /\ t.pos >= Size[f] /\ ~t.err /\ SetTx(n, d) /\ Exchange(n, link[n], Eof(t))
         /\ refused' = refused
      \/ /\ SetTx(n, s) /\ Exchange(n, link[n], Eof(k)) /\ refused' = refused \cup {f}
  BY DEF HTX_DATA, Send
<1>3. UNCHANGED <<work, rx, inbox, sent>>
  BY DEF HTX_DATA
<1>4. Outgoing(n, t, link[m], link[n], sent[n], refused)
  BY WaysFacts
<1>5. Pair(t, rx[m], inbox, refused)
  BY <1>1, <1>4 DEF Outgoing, Way, Transfer, Transfers
<1>6. t.pos \in 0..Size[f]
  BY <1>1, <1>5 DEF Pair
<1>7. CASE (SetTx(n, a) \/ SetTx(n, b)) /\ link' = link /\ refused' = refused
  <2>1. a \in Tx /\ Like(t, a) /\ b \in Tx /\ Like(t, b)
    BY <1>1 DEF Tx, TxStates, Transfers, Like
  <2> HIDE DEF a, b
  <2>2. Like(t, tx'[n]) /\ tx'[m] = tx[m]
    BY <1>1, <1>7, <2>1, SetTxFacts
  <2> QED BY <1>1, <1>3, <1>7, <2>2, Quietly, SparesSame
<1>8. CASE t.pos < Size[f] /\ SetTx(n, c) /\ Exchange(n, link[n], <<x>>) /\ refused' = refused
  <2>1. c \in Tx /\ c.list = t.list /\ c.err = t.err /\ c.pos = t.pos + 1 /\ c.st = "DATA"
    <3> DEFINE i == t.pos + 1
    <3>1. i \in Int /\ c = [t EXCEPT !.pos = i]
      BY <1>6
    <3> HIDE DEF t, i
    <3>2. /\ [t EXCEPT !.pos = i] \in Tx /\ [t EXCEPT !.pos = i].list = t.list
          /\ [t EXCEPT !.pos = i].err = t.err /\ [t EXCEPT !.pos = i].st = t.st
          /\ [t EXCEPT !.pos = i].pos = i
      BY <1>1, <3>1 DEF Tx
    <3> QED BY <1>1, <3>1, <3>2 DEF i
  <2>2. x \in Packets /\ x.type = "DATA" /\ x.file = f /\ x.pos = t.pos
    BY <1>1, PacketFacts DEF Tx, Names, PacketTypes
  <2> HIDE DEF c, x
  <2>3. link'[n] = link[n] /\ Sends(tx[m].st, link[m], link'[m], x)
    BY <1>1, <1>8, <2>2, ExchangeOne
  <2>4. tx'[n] = c /\ tx'[m] = tx[m]
    BY <1>1, <1>8, <2>1, SetTxFacts
  <2>5. Outgoing(n, c, link'[m], link[n], sent[n], refused)
    <3> HIDE DEF t, m
    <3> QED BY <1>1, <1>4, <1>8, <2>1, <2>2, <2>3, WayBlock DEF Outgoing, f, m
  <2>6. Spares(link[m], link'[m], Backs)
    BY <2>2, <2>3, SparesSends DEF Backs
  <2> QED BY <1>1, <1>3, <1>8, <2>3, <2>4, <2>5, <2>6, Transmits, SparesSame
<1>9. CASE /\ t.pos >= Size[f] /\ ~t.err /\ SetTx(n, d) /\ Exchange(n, link[n], Eof(t))
           /\ refused' = refused
  <2>1. d \in Tx /\ d.list = t.list /\ d.err = t.err /\ d.pos = t.pos /\ d.st = "EOFACK"
    BY <1>1, AtEofFacts
  <2>2. PICK y \in Packets : Eof(t) = <<y>> /\ y.type = "EOF" /\ y.pos = t.pos
    BY <1>1, EofFacts
  <2>3. t.err = FALSE /\ t.pos = Size[f]
    BY <1>1, <1>6, <1>9 DEF Tx
  <2> HIDE DEF d
  <2>4. link'[n] = link[n] /\ Sends(tx[m].st, link[m], link'[m], y)
    BY <1>1, <1>9, <2>2, ExchangeOne
  <2>5. tx'[n] = d /\ tx'[m] = tx[m]
    BY <1>1, <1>9, <2>1, SetTxFacts
  <2>6. Outgoing(n, d, link[m], link[n], sent[n], refused)
    <3> HIDE DEF t, m
    <3> QED BY <1>1, <1>4, <2>1, <2>3, WayAtEof DEF Outgoing, f, m
  <2>7. Outgoing(n, d, link'[m], link[n], sent[n], refused)
    BY <2>1, <2>2, <2>4, <2>6, WayEof DEF Outgoing
  <2>8. Spares(link[m], link'[m], Backs)
    BY <2>2, <2>4, SparesSends DEF Backs
  <2> QED BY <1>1, <1>3, <1>9, <2>4, <2>5, <2>7, <2>8, Transmits, SparesSame
<1>10. CASE SetTx(n, s) /\ Exchange(n, link[n], Eof(k)) /\ refused' = refused \cup {f}
  <2>1. k \in Tx /\ k.list = t.list /\ k.st = "EOFACK" /\ k.pos = -2
    BY <1>1, SkippedFacts
  <2> HIDE DEF k
  <2>2. s \in Tx /\ s.list = t.list /\ s.st = "EOFACK" /\ s.pos = -2 /\ s.err = TRUE
    BY <2>1 DEF Tx
  <2>3. PICK y \in Packets : Eof(k) = <<y>> /\ y.type = "EOF" /\ y.pos = s.pos
    BY <2>1, <2>2, EofFacts
  <2> HIDE DEF s
  <2>4. link'[n] = link[n] /\ Sends(tx[m].st, link[m], link'[m], y)
    BY <1>1, <1>10, <2>3, ExchangeOne
  <2>5. tx'[n] = s /\ tx'[m] = tx[m]
    BY <1>1, <1>10, <2>2, SetTxFacts
  <2>6. refused \subseteq refused' /\ f \in refused'
    BY <1>10
  <2>7. Outgoing(n, t, link[m], link[n], sent[n], refused')
    BY <1>1, <1>4, <2>6, WayElsewhere DEF Outgoing
  <2>8. Outgoing(n, s, link[m], link[n], sent[n], refused')
    <3>1. t.st \in Transfers
      BY <1>1 DEF Transfers
    <3>2. f \in refused'
      BY <2>6
    <3> HIDE DEF t, m
    <3> QED BY <1>1, <2>2, <2>7, <3>1, <3>2, WaySkip DEF Outgoing, f, m
  <2>9. Outgoing(n, s, link'[m], link[n], sent[n], refused')
    BY <2>2, <2>3, <2>4, <2>8, WayEof DEF Outgoing
  <2>10. Spares(link[m], link'[m], Backs)
    BY <2>3, <2>4, SparesSends DEF Backs
  <2> QED BY <1>1, <1>3, <2>4, <2>5, <2>6, <2>9, <2>10, Transmits, SparesSame
<1> QED BY <1>2, <1>7, <1>8, <1>9, <1>10


LEMMA NothingOut ==
    <<>> \in Seq(Packets) /\ \A i \in 1..Len(<<>>) : <<>>[i].type \notin Kinds
BY EmptySeq

LEMMA WaysDataack ==
    ASSUME Typed, Ways, NEW n \in Sides, DATAACK(n)
    PROVE  Ways'
<1> DEFINE t == tx[n]
           pos == Head(link[n]).pos
           i == IF pos > t.lastack THEN pos ELSE t.lastack
           a == [t EXCEPT !.lastack = i]
           b == [t EXCEPT !.st = "DATA", !.lastack = pos, !.retries = 0]
           c == [t EXCEPT !.lastack = pos]
<1>1. /\ link[n] # <<>> /\ t \in Tx /\ Live(n) /\ tx \in [Sides -> Tx]
  BY DEF Typed, DATAACK, Arrived
<1>2. Tail(link[n]) \in Seq(Packets) /\ pos \in Int
  BY <1>1, HeadFacts
<1>3. SetTx(n, a) \/ (t.st = "DATAACK" /\ SetTx(n, b)) \/ SetTx(n, c) \/ tx' = tx
  BY DEF DATAACK
<1>4. Exchange(n, Tail(link[n]), <<>>) /\ UNCHANGED <<work, rx, inbox, sent, refused>>
  BY DEF DATAACK, Answer
<1>5. i \in Int
  BY <1>1, <1>2 DEF Tx
<1> HIDE DEF t, pos, i
<1>6. a \in Tx /\ Like(t, a)
  BY <1>1, <1>5 DEF Tx, Like
<1>7. t.st = "DATAACK" => b \in Tx /\ Like(t, b)
  <2> DEFINE u == [t EXCEPT !.st = "DATA"]
             v == [u EXCEPT !.lastack = pos]
             w == [v EXCEPT !.retries = 0]
  <2>1. u \in Tx /\ u.st = "DATA" /\ u.list = t.list /\ u.err = t.err /\ u.pos = t.pos
    BY <1>1 DEF Tx, TxStates, Transfers
  <2> HIDE DEF u
  <2>2. v \in Tx /\ v.st = u.st /\ v.list = u.list /\ v.err = u.err /\ v.pos = u.pos
    BY <1>2, <2>1 DEF Tx
  <2> HIDE DEF v
  <2>3. w \in Tx /\ w.st = v.st /\ w.list = v.list /\ w.err = v.err /\ w.pos = v.pos
    BY <2>2 DEF Tx
  <2>4. b = w
    BY DEF u, v
  <2> HIDE DEF w
  <2> QED BY <2>1, <2>2, <2>3, <2>4 DEF Like, Transfers
<1>8. c \in Tx /\ Like(t, c)
  BY <1>1, <1>2 DEF Tx, Like
<1> HIDE DEF a, b, c
<1>9. Like(t, tx'[n]) /\ tx'[Peer(n)] = tx[Peer(n)]
  <2>1. Like(t, t)
    BY DEF Like
  <2> QED BY <1>1, <1>3, <1>6, <1>7, <1>8, <2>1, SetTxFacts DEF t
<1> QED BY <1>1, <1>2, <1>4, <1>9, NothingOut, Aside DEF t

LEMMA RposMeans ==
    ASSUME Typed, Ways, NEW n \in Sides, Arrived(n, "RPOS"), tx[n].st \in Transfers
    PROVE  LET m == Peer(n)
               f == Current(tx[n])
               pos == Head(link[n]).pos
               rest == Tail(link[n]) IN
           \/ pos \in 0..Size[f] /\ (tx[n].pos = -2 => tx[n].err = TRUE)
           \/ /\ pos = -2 /\ f \in refused
              /\ rx[m].st = "DATA" => rx[m].pos = -2
              /\ \A a \in On(rest) : a.type = "RPOS" => a.pos = -2
<1> DEFINE m == Peer(n)
           t == tx[n]
           a == Head(link[n])
           rest == Tail(link[n])
<1>1. link[n] # <<>> /\ a.type = "RPOS" /\ t.st \in Transfers
  BY DEF Arrived
<1>2. /\ a \in On(link[n]) /\ Less(link[n], rest)
      /\ \A b \in On(rest) : Before(link[n], a, b) /\ b \in On(link[n])
  BY <1>1, HeadFacts DEF Less
<1>3. Back(t, rx[m], link[n], refused)
  BY <1>1, WaysFacts DEF Outgoing, Way, Transfer
<1> HIDE DEF a, rest, t, m
<1>4. \/ a.pos \in 0..Size[Current(t)] /\ (t.pos = -2 => t.err = TRUE)
      \/ a.pos = -2 /\ Current(t) \in refused /\ (rx[m].st = "DATA" => rx[m].pos = -2)
  BY <1>1, <1>2, <1>3 DEF Back
<1>5. a.pos = -2 => \A b \in On(rest) : b.type = "RPOS" => b.pos = -2
  BY <1>1, <1>2, <1>3 DEF Back
<1> QED BY <1>4, <1>5 DEF a, rest, t, m

LEMMA WaysRpos ==
    ASSUME Typed, Ways, NEW n \in Sides, RPOS(n)
    PROVE  Ways'
<1> DEFINE m == Peer(n)
           t == tx[n]
           f == Current(t)
           p == Head(link[n])
           rest == Tail(link[n])
           u == IF Known(t, p.id) THEN Retried(t) ELSE t
           v == [u EXCEPT !.pos = -2]
           s == IF p.pos = -2 /\ t.pos # -2 /\ t.st = "EOFACK" THEN AtEof(v) ELSE Skipped(u)
           b == Sought(t, p)
<1>1. /\ link[n] # <<>> /\ t \in Tx /\ t.st \in Transfers /\ Live(n) /\ tx \in [Sides -> Tx]
      /\ Arrived(n, "RPOS") /\ link \in [Sides -> Seq(Packets)] /\ t.list # <<>>
      /\ f \in Files /\ Size[f] \in Nat
  BY CurrentFacts, HydraAssumption DEF Typed, RPOS, Arrived, Transfers
<1>2. rest \in Seq(Packets) /\ p \in Packets /\ p.pos \in Int /\ Less(link[n], rest)
  BY <1>1, HeadFacts
<1>3. u \in Tx /\ u.list = t.list /\ u.err = t.err /\ u.pos = t.pos /\ u.st = t.st
  BY <1>1, RetriedFacts
<1>4. \/ Give(n) /\ Exchange(n, rest, <<>>)
      \/ p.pos < 0 /\ SetTx(n, s) /\ Exchange(n, rest, Eof(s))
      \/ SetTx(n, u) /\ Exchange(n, rest, <<>>)
      \/ ~(p.pos < 0) /\ SetTx(n, b) /\ Exchange(n, rest, <<>>)
  BY DEF RPOS, Answer, Sought, Unwanted
<1>5. UNCHANGED <<work, rx, inbox, sent, refused>>
  BY DEF RPOS
<1>6. \/ p.pos \in 0..Size[f] /\ (t.pos = -2 => t.err = TRUE)
      \/ /\ p.pos = -2 /\ f \in refused
         /\ rx[m].st = "DATA" => rx[m].pos = -2
         /\ \A a \in On(rest) : a.type = "RPOS" => a.pos = -2
  BY <1>1, RposMeans
<1>7. Spares(link[n], rest, Fores) /\ Spares(link[n], rest, Backs)
  BY <1>2, SparesLess
<1>8. Outgoing(n, t, link[m], rest, sent[n], refused)
  BY <1>7, WaysFacts, WayAside, SparesSame DEF Outgoing
<1> HIDE DEF rest, p, u
<1>9. CASE Give(n) /\ Exchange(n, rest, <<>>)
  BY <1>1, <1>2, <1>5, <1>9, GiveFacts, NothingOut, Aside DEF rest
<1>10. CASE SetTx(n, u) /\ Exchange(n, rest, <<>>)
  <2>1. tx'[n] = u /\ tx'[m] = tx[m] /\ Like(t, u)
    BY <1>1, <1>3, <1>10, SetTxFacts DEF Like
  <2> QED BY <1>1, <1>2, <1>5, <1>10, <2>1, NothingOut, Aside DEF rest
<1>11. CASE ~(p.pos < 0) /\ SetTx(n, b) /\ Exchange(n, rest, <<>>)
  <2>1. b \in Tx /\ b.list = t.list /\ b.err = t.err /\ b.pos = p.pos /\ b.st \in Transfers \ {"EOFACK"}
    BY <1>1, <1>2, SoughtFacts
  <2> HIDE DEF b
  <2>2. link'[n] = rest /\ link'[m] = link[m]
    BY <1>1, <1>2, <1>11, ExchangeNone
  <2>3. tx'[n] = b /\ tx'[m] = tx[m]
    BY <1>1, <1>11, <2>1, SetTxFacts
  <2>4. Outgoing(n, b, link[m], rest, sent[n], refused)
    <3>1. p.pos \in 0..Size[f] /\ (t.pos = -2 => t.err = TRUE)
      BY <1>2, <1>6, <1>11
    <3> HIDE DEF t, m
    <3> QED BY <1>1, <1>8, <2>1, <3>1, WaySeek DEF Outgoing, f, m
  <2> QED BY <1>1, <1>5, <1>7, <2>2, <2>3, <2>4, Transmits, SparesSame
<1>12. CASE p.pos < 0 /\ SetTx(n, s) /\ Exchange(n, rest, Eof(s))
  <2>1. v \in Tx /\ v.list = u.list /\ v.err = u.err /\ v.pos = -2
    <3> DEFINE z == -2
    <3>1. z \in Int /\ v = [u EXCEPT !.pos = z] /\ z = -2
      OBVIOUS
    <3> HIDE DEF z
    <3>2. /\ [u EXCEPT !.pos = z] \in Tx /\ [u EXCEPT !.pos = z].list = u.list
          /\ [u EXCEPT !.pos = z].err = u.err /\ [u EXCEPT !.pos = z].pos = z
      BY <1>3, <3>1 DEF Tx
    <3> QED BY <3>1, <3>2
  <2> HIDE DEF v
  <2>2. s \in Tx /\ s.list = t.list /\ s.err = t.err /\ s.pos = -2 /\ s.st = "EOFACK"
    BY <1>3, <2>1, AtEofFacts, SkippedFacts
  <2>3. PICK y \in Packets : Eof(s) = <<y>> /\ y.type = "EOF" /\ y.pos = s.pos
    BY <2>2, EofFacts
  <2> HIDE DEF s
  <2>4. Exchange(n, rest, <<y>>)
    BY <1>12, <2>3
  <2>5. link'[n] = rest /\ Sends(tx[m].st, link[m], link'[m], y)
    BY <1>1, <1>2, <2>4, ExchangeOne
  <2>6. tx'[n] = s /\ tx'[m] = tx[m]
    BY <1>1, <1>12, <2>2, SetTxFacts
  <2>7. Outgoing(n, s, link[m], rest, sent[n], refused)
    <3>1. /\ f \in refused /\ (rx[m].st = "DATA" => rx[m].pos = -2)
          /\ \A a \in On(rest) : a.type = "RPOS" => a.pos = -2
      BY <1>1, <1>2, <1>6, <1>12
    <3> HIDE DEF t, m
    <3> QED BY <1>1, <1>8, <2>2, <3>1, WaySkip DEF Outgoing, f, m
  <2>8. Outgoing(n, s, link'[m], rest, sent[n], refused)
    BY <2>2, <2>3, <2>5, <2>7, WayEof DEF Outgoing
  <2>9. Spares(link[m], link'[m], Backs)
    BY <2>3, <2>5, SparesSends DEF Backs
  <2> QED BY <1>1, <1>5, <1>7, <2>5, <2>6, <2>8, <2>9, Transmits
<1> QED BY <1>4, <1>9, <1>10, <1>11, <1>12


LEMMA EofackMeans ==
    ASSUME Typed, Ways, NEW n \in Sides, Arrived(n, "EOFACK"), tx[n].st = "EOFACK"
    PROVE  LET m == Peer(n)
               f == Current(tx[n])
               rest == Tail(link[n]) IN
           /\ rx[m].st = "FINFO" /\ None(rest, {"FINFOACK", "RPOS"})
           /\ tx[m].st \notin Over => None(link[m], {"FINFO"})
           /\ (tx[n].pos >= 0 /\ inbox[f] = Blocks(f)) \/ (~(tx[n].pos >= 0) /\ f \in refused)
<1> DEFINE m == Peer(n)
           t == tx[n]
           f == Current(t)
           a == Head(link[n])
           rest == Tail(link[n])
           R == rx[m]
<1>1. /\ link[n] # <<>> /\ a.type = "EOFACK" /\ t.st = "EOFACK" /\ t.st \in Transfers
      /\ t \in Tx /\ t.list # <<>>
  BY DEF Arrived, Transfers, Typed
<1>2. /\ a \in On(link[n])
      /\ \A b \in On(rest) : Before(link[n], a, b) /\ b \in On(link[n])
  BY <1>1, HeadFacts DEF Less
<1>3. Pair(t, R, inbox, refused) /\ Fore(t, tx[m].st, R, link[m]) /\ Back(t, R, link[n], refused)
  BY <1>1, WaysFacts DEF Outgoing, Way, Transfer
<1>4. f \in Files /\ Size[f] \in Nat
  BY <1>1, CurrentFacts, HydraAssumption
<1> HIDE DEF a, rest, t, m, R, f
<1>5. R.st = "FINFO"
  BY <1>1, <1>2, <1>3 DEF Back
<1>6. None(rest, {"FINFOACK", "RPOS"})
  BY <1>1, <1>2, <1>3 DEF Back, None
<1>7. tx[m].st \notin Over => None(link[m], {"FINFO"})
  BY <1>3, <1>5 DEF Fore
<1>8. t.pos = -2 \/ (t.pos = Size[f] /\ t.err = FALSE)
  BY <1>1, <1>3 DEF Pair, f
<1>9. t.pos = -2 => f \in refused
  BY <1>3 DEF Pair, f
<1>10. t.pos # -2 => inbox[f] = Blocks(f)
  BY <1>3, <1>5, <1>8 DEF Pair, f
<1>11. (t.pos >= 0 /\ inbox[f] = Blocks(f)) \/ (~(t.pos >= 0) /\ f \in refused)
  BY <1>4, <1>8, <1>9, <1>10
<1> QED BY <1>5, <1>6, <1>7, <1>11 DEF a, rest, t, m, R, f

LEMMA WaysEofack ==
    ASSUME Typed, Ways, Delivered, NEW n \in Sides, HTX_EOFACK(n)
    PROVE  Ways' /\ Delivered'
<1> DEFINE m == Peer(n)
           t == tx[n]
           rest == Tail(link[n])
           o == Offer(t, Tail(t.list))
<1>1. /\ link[n] # <<>> /\ t \in Tx /\ tx \in [Sides -> Tx] /\ Live(n) /\ t.st = "EOFACK"
      /\ Arrived(n, "EOFACK") /\ link \in [Sides -> Seq(Packets)] /\ t.list # <<>> /\ m \in Sides
  BY PeerFacts DEF Typed, HTX_EOFACK, Arrived, Transfers
<1>2. rest \in Seq(Packets) /\ Less(link[n], rest)
  BY <1>1, HeadFacts
<1>3. /\ SetTx(n, o) /\ Exchange(n, rest, Finfo(o))
      /\ IF t.pos >= 0 THEN Dispose(n) ELSE sent' = sent
  BY DEF HTX_EOFACK, Answer, Disposed
<1>4. UNCHANGED <<work, rx, inbox, refused>>
  BY DEF HTX_EOFACK
<1>5. /\ rx[m].st = "FINFO" /\ None(rest, {"FINFOACK", "RPOS"})
      /\ tx[m].st \notin Over => None(link[m], {"FINFO"})
      /\ \/ t.pos >= 0 /\ inbox[Current(t)] = Blocks(Current(t))
         \/ ~(t.pos >= 0) /\ Current(t) \in refused
  BY <1>1, EofackMeans
<1>6. Tail(t.list) \in Seq(Files)
  BY <1>1 DEF Tx
<1>7. o \in Tx /\ o.st = "FINFOACK" /\ o.err = FALSE /\ o.list = Openable(Tail(t.list))
  BY <1>1, <1>6, OfferFacts
<1> HIDE DEF rest, o
<1>8. PICK x \in Packets : Finfo(o) = <<x>> /\ x.type = "FINFO" /\ x.file = Current(o)
  BY <1>7, FinfoFacts
<1>9. Exchange(n, rest, <<x>>)
  BY <1>3, <1>8
<1>10. link'[n] = rest /\ Sends(tx[m].st, link[m], link'[m], x)
  BY <1>1, <1>2, <1>9, ExchangeOne
<1>11. tx'[n] = o /\ tx'[m] = tx[m]
  BY <1>1, <1>3, <1>7, SetTxFacts
<1>12. /\ sent'[m] = sent[m] /\ sent[n] \subseteq sent'[n]
       /\ Current(t) \in sent'[n] \cup refused
       /\ \A f \in sent'[n] : f \in sent[n] \/ inbox[f] = Blocks(f)
  <2>1. CASE t.pos >= 0 /\ Dispose(n)
    BY <1>1, <1>5, <2>1, DisposeFacts
  <2>2. CASE ~(t.pos >= 0) /\ sent' = sent
    BY <1>5, <2>2
  <2> QED BY <1>3, <2>1, <2>2
<1>13. Outgoing(n, o, link'[m], rest, sent'[n], refused)
  BY <1>1, <1>2, <1>5, <1>7, <1>8, <1>10, <1>12, NextOffer
<1>14. Spares(link[m], link'[m], Backs) /\ Spares(link[n], rest, Fores)
  BY <1>2, <1>8, <1>10, SparesSends, SparesLess DEF Backs
<1>15. Ways'
  BY <1>1, <1>4, <1>10, <1>11, <1>12, <1>13, <1>14, Transmits
<1>16. \A s \in Sides : \A f \in sent'[s] : inbox[f] = Blocks(f)
  BY <1>12, PeerFacts DEF Delivered
<1> QED BY <1>4, <1>15, <1>16 DEF Delivered, Blocks

LEMMA WaysEnd ==
    ASSUME Typed, Ways, NEW n \in Sides, HTX_REND(n) \/ HTX_ENDACK(n)
    PROVE  Ways'
<1> DEFINE t == tx[n]
           a == [t EXCEPT !.st = "ENDACK", !.retries = 0]
           b == [t EXCEPT !.st = "DONE"]
           x == Signal("END")
           two == <<x, x>>
           three == <<x, x, x>>
<1>1. /\ t \in Tx /\ link[n] \in Seq(Packets) /\ x \in Packets /\ x.type = "END"
      /\ t.st \in Endings /\ Live(n) /\ tx \in [Sides -> Tx]
  BY SignalFacts, LiveOver DEF Typed, PacketTypes, HTX_REND, HTX_ENDACK, Endings, Over
<1>2. a \in Tx /\ Like(t, a) /\ b \in Tx /\ Like(t, b)
  BY <1>1 DEF Tx, TxStates, Endings, Like
<1>3. \/ SetTx(n, a) /\ Exchange(n, link[n], two)
      \/ SetTx(n, a) /\ link[n] # <<>> /\ Exchange(n, Tail(link[n]), two)
      \/ SetTx(n, b) /\ link[n] # <<>> /\ Exchange(n, Tail(link[n]), three)
  BY DEF HTX_REND, HTX_ENDACK, Send, Answer, Arrived
<1>4. UNCHANGED <<work, rx, inbox, sent, refused>>
  BY DEF HTX_REND, HTX_ENDACK
<1> HIDE DEF a, b, x
<1>5. /\ two \in Seq(Packets) /\ \A i \in 1..Len(two) : two[i].type \notin Kinds
      /\ three \in Seq(Packets) /\ \A i \in 1..Len(three) : three[i].type \notin Kinds
  BY <1>1 DEF Kinds, Fores, Backs
<1> HIDE DEF two, three
<1>6. Like(t, tx'[n]) /\ tx'[Peer(n)] = tx[Peer(n)]
  BY <1>1, <1>2, <1>3, SetTxFacts
<1>7. CASE Exchange(n, link[n], two)
  BY <1>1, <1>4, <1>5, <1>6, <1>7, Aside
<1>8. CASE link[n] # <<>> /\ (Exchange(n, Tail(link[n]), two) \/ Exchange(n, Tail(link[n]), three))
  BY <1>1, <1>4, <1>5, <1>6, <1>8, Aside, HeadFacts
<1> QED BY <1>3, <1>7, <1>8

LEMMA WaysTxTimeout ==
    ASSUME Typed, Ways, NEW n \in Sides, TxTimeout(n)
    PROVE  Ways'
<1> DEFINE m == Peer(n)
           t == tx[n]
           u == Retried(t)
           x == Signal("IDLE")
           y == Signal("START")
           z == Signal("INIT")
           w == Signal("END")
<1>1. /\ t \in Tx /\ link[n] \in Seq(Packets) /\ tx \in [Sides -> Tx] /\ Live(n) /\ m \in Sides
      /\ link \in [Sides -> Seq(Packets)]
  BY PeerFacts DEF Typed, TxTimeout, Expired
<1>2. \/ Give(n) /\ link' = link
      \/ SetTx(n, u) /\ Exchange(n, link[n], Resent(t))
      \/ tx' = tx /\ Exchange(n, link[n], <<x>>)
  BY DEF TxTimeout, Send
<1>3. UNCHANGED <<work, rx, inbox, sent, refused>>
  BY DEF TxTimeout
<1>4. /\ x \in Packets /\ x.type = "IDLE" /\ y \in Packets /\ y.type = "START"
      /\ z \in Packets /\ z.type = "INIT" /\ w \in Packets /\ w.type = "END"
  BY SignalFacts DEF PacketTypes
<1>5. u \in Tx /\ Like(t, u) /\ u.st = t.st /\ u.list = t.list /\ u.pos = t.pos /\ Current(u) = Current(t)
  BY <1>1, RetriedFacts DEF Like, Current
<1>6. \/ t.st \notin {"FINFOACK", "EOFACK"} /\ Resent(t) \in {<<>>, <<y>>, <<z>>, <<w, w>>}
      \/ t.st = "FINFOACK" /\ Resent(t) = Finfo(t)
      \/ t.st = "EOFACK" /\ Resent(t) = Eof(t)
  BY DEF Resent
<1>7. work.early = TRUE \/ (link[n] = <<>> /\ (tx[m].st \notin Over => link[m] = <<>>))
  <2>1. work \in Workload
    BY WorkloadAssumption DEF Typed
  <2>2. work.early = TRUE \/ Quiet
    BY <2>1 DEF TxTimeout, Expired, Workload
  <2> QED BY <1>1, <2>2, LiveOver DEF Quiet
<1> HIDE DEF u, x, y, z, w
<1>8. CASE Give(n) /\ link' = link
  BY <1>1, <1>3, <1>8, GiveFacts, Quietly, SparesSame
<1>9. CASE tx' = tx /\ Exchange(n, link[n], <<x>>)
  <2>1. <<x>> \in Seq(Packets) /\ \A i \in 1..Len(<<x>>) : <<x>>[i].type \notin Kinds
    BY <1>4 DEF Kinds, Fores, Backs
  <2>2. Like(t, tx'[n])
    BY <1>9 DEF Like
  <2> QED BY <1>1, <1>3, <1>9, <2>1, <2>2, Aside
<1>10. CASE SetTx(n, u) /\ Exchange(n, link[n], Resent(t))
  <2>1. tx'[n] = u /\ tx'[m] = tx[m]
    BY <1>1, <1>5, <1>10, SetTxFacts
  <2>2. Outgoing(n, u, link[m], link[n], sent[n], refused)
    BY <1>5, WaysFacts, WayLike DEF Outgoing
  <2>3. CASE Resent(t) \in {<<>>, <<y>>, <<z>>, <<w, w>>}
    <3> DEFINE out == Resent(t)
    <3>1. /\ <<y>> \in Seq(Packets) /\ \A i \in 1..Len(<<y>>) : <<y>>[i].type \notin Kinds
          /\ <<z>> \in Seq(Packets) /\ \A i \in 1..Len(<<z>>) : <<z>>[i].type \notin Kinds
          /\ <<w, w>> \in Seq(Packets) /\ \A i \in 1..Len(<<w, w>>) : <<w, w>>[i].type \notin Kinds
      BY <1>4 DEF Kinds, Fores, Backs
    <3>2. out \in Seq(Packets) /\ \A i \in 1..Len(out) : out[i].type \notin Kinds
      BY <2>3, <3>1, NothingOut
    <3> HIDE DEF out
    <3>3. Exchange(n, link[n], out)
      BY <1>10 DEF out
    <3> QED BY <1>1, <1>3, <1>5, <2>1, <3>2, <3>3, Aside
  <2>4. CASE t.st = "FINFOACK" /\ Resent(t) = Finfo(t)
    <3>1. PICK a \in Packets : Finfo(t) = <<a>> /\ a.type = "FINFO" /\ a.file = Current(t)
      BY <1>1, FinfoFacts
    <3>2. link'[n] = link[n] /\ Sends(tx[m].st, link[m], link'[m], a)
      BY <1>1, <1>10, <2>4, <3>1, ExchangeOne
    <3>3. \/ work.early = TRUE
          \/ None(link[n], {"FINFOACK"}) /\ (tx[m].st \notin Over => None(link[m], {"FINFO"}))
      BY <1>7 DEF None, On
    <3>4. Outgoing(n, u, link'[m], link[n], sent[n], refused)
      <4> HIDE DEF t, m
      <4> QED BY <1>5, <2>2, <2>4, <3>1, <3>2, <3>3, WayAgain DEF Outgoing, m
    <3>5. Spares(link[m], link'[m], Backs)
      BY <3>1, <3>2, SparesSends DEF Backs
    <3> QED BY <1>1, <1>3, <2>1, <3>2, <3>4, <3>5, Transmits, SparesSame
  <2>5. CASE t.st = "EOFACK" /\ Resent(t) = Eof(t)
    <3>1. PICK a \in Packets : Eof(t) = <<a>> /\ a.type = "EOF" /\ a.pos = t.pos
      BY <1>1, EofFacts
    <3>2. link'[n] = link[n] /\ Sends(tx[m].st, link[m], link'[m], a)
      BY <1>1, <1>10, <2>5, <3>1, ExchangeOne
    <3>3. Outgoing(n, u, link'[m], link[n], sent[n], refused)
      BY <1>5, <2>2, <2>5, <3>1, <3>2, WayEof DEF Outgoing
    <3>4. Spares(link[m], link'[m], Backs)
      BY <3>1, <3>2, SparesSends DEF Backs
    <3> QED BY <1>1, <1>3, <2>1, <3>2, <3>3, <3>4, Transmits, SparesSame
  <2> QED BY <1>6, <2>3, <2>4, <2>5
<1> QED BY <1>2, <1>8, <1>9, <1>10


\* The lists hold each file once.  Timers that expire early make a sender repeat an offer
\* that is being answered; then no file is refused when it is offered.
Orderly(w) ==
    /\ \A s \in Sides : \A i, j \in DOMAIN w.out[s] : w.out[s][i] = w.out[s][j] => i = j
    /\ \A i \in DOMAIN w.out["org"], j \in DOMAIN w.out["ans"] : w.out["org"][i] # w.out["ans"][j]
    /\ w.early => /\ "open" \notin w.faults
                  /\ \A s \in Sides : \A i \in DOMAIN w.out[s] : w.part[w.out[s][i]] < Size[w.out[s][i]]

LEMMA OrderlyFacts ==
    ASSUME Orderly(work), NEW n \in Sides
    PROVE  /\ \A f \in Mine(n) : f \notin Mine(Peer(n))
           /\ work.early = TRUE => "open" \notin work.faults
<1>1. \A f \in Mine("org") : f \notin Mine("ans")
  BY DEF Orderly, Mine
<1> QED BY <1>1 DEF Orderly, Sides, Peer

\* What FINFO says about the sender when the receiver waits for it.
LEMMA FinfoMeans ==
    ASSUME Typed, Ways, NEW n \in Sides, Arrived(n, "FINFO"), rx[n].st = "FINFO"
    PROVE  LET t == tx[Peer(n)]
               f == Head(link[n]).file
               rest == Tail(link[n]) IN
           /\ t.st \in {"FINFOACK", "Abort"}
           /\ f \in Mine(Peer(n)) \cup {EndOfBatch} /\ (f = EndOfBatch => t.list = <<>>)
           /\ \A a \in On(rest) : a.type \in {"FINFO", "DATA"} => a.file = f
           /\ t.st = "FINFOACK" =>
                 /\ f = Current(t) /\ None(rest, {"DATA", "EOF"}) /\ None(link[Peer(n)], {"FINFOACK"})
                 /\ work.early # TRUE => None(rest, {"FINFO"})
                 /\ work.early = TRUE /\ f # EndOfBatch => Len(inbox[f]) < Size[f]
<1> DEFINE m == Peer(n)
           t == tx[m]
           q == tx[n].st
           R == rx[n]
           F == link[n]
           B == link[m]
           p == Head(F)
           rest == Tail(F)
<1>1. /\ F # <<>> /\ p.type = "FINFO" /\ R.st = "FINFO" /\ m \in Sides /\ t \in Tx /\ q \notin Over
  BY LiveOver, PeerFacts DEF Arrived, Typed
<1>2. /\ p \in On(F)
      /\ \A b \in On(rest) : Before(F, p, b) /\ b \in On(F)
  BY <1>1, HeadFacts DEF Less
<1>3. Way(work.early, Mine(m), work.locked, t, q, R, F, B, inbox, sent[m], refused)
  BY WaysFacts DEF Incoming
<1> HIDE DEF m, t, q, R, F, B, p, rest
<1>4. /\ p.file \in Mine(m) \cup {EndOfBatch}
      /\ \A a \in On(rest) : a.type \in {"FINFO", "DATA"} => a.file = p.file
  BY <1>1, <1>2, <1>3 DEF Way, Stream
<1>5. p.file = EndOfBatch => t.list = <<>>
  BY <1>1, <1>2, <1>3 DEF Way, Listed
<1>6. t.st \in {"FINFOACK", "Abort"}
  <2>1. t.st \notin Beginnings
    BY <1>1, <1>2, <1>3 DEF Way, Beginning, None
  <2>2. t.st \notin Transfers
    BY <1>1, <1>2, <1>3 DEF Way, Transfer, Fore, None
  <2>3. t.st \notin Endings
    BY <1>1, <1>3 DEF Way, Ending
  <2> QED BY <1>1, <2>1, <2>2, <2>3 DEF Tx, TxStates
<1>7. ASSUME t.st = "FINFOACK"
      PROVE  /\ p.file = Current(t) /\ None(rest, {"DATA", "EOF"}) /\ None(B, {"FINFOACK"})
             /\ work.early # TRUE => None(rest, {"FINFO"})
             /\ work.early = TRUE /\ p.file # EndOfBatch => Len(inbox[p.file]) < Size[p.file]
  <2>1. /\ \A a \in On(F) : a.type = "FINFO" => a.file = Current(t)
        /\ \A a, b \in On(F) : Before(F, a, b) /\ a.type = "FINFO" => b.type \notin {"DATA", "EOF"}
        /\ Unopened(work.early, t, q, F, B, inbox, refused)
    BY <1>1, <1>3, <1>7 DEF Way, Offering
  <2>2. p.file = Current(t) /\ None(rest, {"DATA", "EOF"})
    BY <1>1, <1>2, <2>1 DEF None
  <2>3. None(B, {"FINFOACK"})
    BY <1>1, <1>2, <2>1 DEF Unopened, None
  <2>4. work.early # TRUE => None(rest, {"FINFO"})
    BY <1>1, <1>2, <2>1 DEF Unopened, None
  <2>5. ASSUME work.early = TRUE, p.file # EndOfBatch
        PROVE  Len(inbox[p.file]) < Size[p.file]
    <3>1. t.list # <<>> /\ p.file = t.list[1] /\ 1 \in 1..Len(t.list)
      BY <1>1, <2>2, <2>5, CurrentFacts
    <3> QED BY <1>1, <1>3, <1>7, <2>5, <3>1 DEF Way, Listed, Transfers
  <2> QED BY <2>2, <2>3, <2>4, <2>5
<1> QED BY <1>4, <1>5, <1>6, <1>7 DEF m, t, q, R, F, B, p, rest


\* n answers x to the packet it has read.
LEMMA Replies ==
    ASSUME Typed, Ways, NEW n \in Sides, Live(n), link[n] # <<>>, work' = work,
           rx'[Peer(n)] = rx[Peer(n)], sent' = sent, tx'[Peer(n)] = tx[Peer(n)],
           refused \subseteq refused', \A f \in Mine(n) : inbox'[f] = inbox[f],
           Like(tx[n], tx'[n]) \/ (tx'[n].list = tx[n].list /\ tx'[n].st = "Abort"),
           NEW x \in Packets, x.type \notin Fores, Exchange(n, Tail(link[n]), <<x>>),
           \A B2 : Sends(tx[Peer(n)].st, link[Peer(n)], B2, x)
                      => Incoming(n, rx'[n], Tail(link[n]), B2, inbox', refused')
    PROVE  Ways'
<1>1. Tail(link[n]) \in Seq(Packets) /\ Less(link[n], Tail(link[n])) /\ link \in [Sides -> Seq(Packets)]
  BY HeadFacts DEF Typed
<1>2. /\ link'[n] = Tail(link[n])
      /\ Sends(tx[Peer(n)].st, link[Peer(n)], link'[Peer(n)], x)
  BY <1>1, ExchangeOne
<1>3. Spares(link[n], link'[n], Backs) /\ Spares(link[Peer(n)], link'[Peer(n)], Fores)
  BY <1>1, <1>2, SparesLess, SparesSends
<1>4. Incoming(n, rx'[n], link'[n], link'[Peer(n)], inbox', refused')
  BY <1>2
<1> QED BY <1>3, <1>4, Receives

\* What n has read is gone.
LEMMA Reading ==
    ASSUME Typed, Ways, NEW n \in Sides, link[n] # <<>>, NEW ref, refused \subseteq ref
    PROVE  Incoming(n, rx[n], Tail(link[n]), link[Peer(n)], inbox, ref)
<1>1. Spares(link[n], Tail(link[n]), Fores) /\ tx[Peer(n)] \in Tx
  BY HeadFacts, SparesLess, PeerFacts DEF Typed
<1>2. Incoming(n, rx[n], Tail(link[n]), link[Peer(n)], inbox, refused)
  BY <1>1, WaysFacts, WayAside, SparesSame DEF Incoming
<1> QED BY <1>1, <1>2, WayElsewhere DEF Incoming

LEMMA WaysFinfo ==
    ASSUME Typed, Whole, Ways, Orderly(work), NEW n \in Sides, HRX_FINFO(n)
    PROVE  Ways'
<1> DEFINE m == Peer(n)
           t == tx[m]
           f == Head(link[n]).file
           k == Len(inbox[f])
           a == [rx[n] EXCEPT !.st = "DONE"]
           b == Opening(rx[n], f, k)
           c == [tx[n] EXCEPT !.st = "DATA"]
           rest == Tail(link[n])
           x == Number("FINFOACK", 0)
           y == Number("FINFOACK", -1)
           z == Number("FINFOACK", -2)
           w == Number("FINFOACK", b.pos)
<1>1. /\ link[n] # <<>> /\ rx[n] \in Rx /\ tx[n] \in Tx /\ tx \in [Sides -> Tx] /\ Live(n)
      /\ rx[n].st = "FINFO" /\ Arrived(n, "FINFO") /\ m \in Sides
  BY PeerFacts DEF Typed, HRX_FINFO, Arrived
<1>2. /\ t.st \in {"FINFOACK", "Abort"}
      /\ f \in Mine(m) \cup {EndOfBatch} /\ (f = EndOfBatch => t.list = <<>>)
      /\ \A d \in On(rest) : d.type \in {"FINFO", "DATA"} => d.file = f
      /\ t.st = "FINFOACK" =>
            /\ f = Current(t) /\ None(rest, {"DATA", "EOF"}) /\ None(link[m], {"FINFOACK"})
            /\ work.early # TRUE => None(rest, {"FINFO"})
            /\ work.early = TRUE /\ f # EndOfBatch => Len(inbox[f]) < Size[f]
  BY <1>1, FinfoMeans
<1>3. \/ /\ f = EndOfBatch /\ rx' = [rx EXCEPT ![n] = a] /\ Exchange(n, rest, <<x>>)
         /\ (tx[n].st = "XWAIT" /\ SetTx(n, c)) \/ tx' = tx
         /\ refused' = refused
      \/ /\ f # EndOfBatch /\ k = Size[f]
         /\ Exchange(n, rest, <<y>>) /\ UNCHANGED <<tx, rx, refused>>
      \/ /\ f # EndOfBatch /\ rx' = [rx EXCEPT ![n] = b] /\ Exchange(n, rest, <<w>>)
         /\ UNCHANGED <<tx, refused>>
      \/ /\ f # EndOfBatch /\ refused' = refused \cup {f} /\ Exchange(n, rest, <<z>>)
         /\ Fault("open") /\ UNCHANGED <<tx, rx>>
  BY DEF HRX_FINFO, Answer, Opening, Here
<1>4. UNCHANGED <<work, inbox, sent>>
  BY DEF HRX_FINFO
<1>5. /\ x \in Packets /\ x.type = "FINFOACK" /\ y \in Packets /\ y.type = "FINFOACK" /\ y.pos = -1
      /\ z \in Packets /\ z.type = "FINFOACK" /\ z.pos = -2
  BY NumberFacts DEF PacketTypes
<1>6. f # EndOfBatch => f \in Files /\ f \in Mine(m) /\ Size[f] \in Nat /\ k \in Nat
  BY <1>1, <1>2, MineFacts, WholeFacts
<1>7. f # EndOfBatch /\ t.st = "FINFOACK" => t.list # <<>>
  BY <1>2 DEF Current
<1>8. Like(tx[n], tx[n]) /\ "FINFOACK" \notin Fores
  BY DEF Like, Fores
<1> HIDE DEF x, y, z
<1>9. CASE /\ f = EndOfBatch /\ rx' = [rx EXCEPT ![n] = a] /\ Exchange(n, rest, <<x>>)
           /\ (tx[n].st = "XWAIT" /\ SetTx(n, c)) \/ tx' = tx
           /\ refused' = refused
  <2>1. a \in Rx /\ a.st = "DONE"
    BY <1>1 DEF Rx, RxStates
  <2>2. tx[n].st = "XWAIT" => c \in Tx /\ Like(tx[n], c)
    BY <1>1 DEF Tx, TxStates, Transfers, Like
  <2> HIDE DEF a, c
  <2>3. rx'[n] = a /\ rx'[m] = rx[m]
    BY <1>9, <2>1, TypedRx
  <2>4. Like(tx[n], tx'[n]) /\ tx'[m] = tx[m]
    BY <1>1, <1>8, <1>9, <2>2, SetTxFacts
  <2>5. ASSUME NEW B2, Sends(t.st, link[m], B2, x)
        PROVE  Incoming(n, a, rest, B2, inbox, refused)
    <3>1. Incoming(n, rx[n], rest, link[m], inbox, refused)
      BY <1>1, Reading
    <3>2. t.list = <<>> /\ t.st \in {"FINFOACK", "Abort"}
      BY <1>2, <1>9
    <3> HIDE DEF m, rest, f
    <3> QED BY <1>5, <2>1, <2>5, <3>1, <3>2, WayFinal DEF Incoming, m
  <2> QED BY <1>1, <1>4, <1>5, <1>8, <1>9, <2>3, <2>4, <2>5, Replies
<1>10. CASE /\ f # EndOfBatch /\ k = Size[f]
            /\ Exchange(n, rest, <<y>>) /\ UNCHANGED <<tx, rx, refused>>
  <2>1. ASSUME NEW B2, Sends(t.st, link[m], B2, y)
        PROVE  Incoming(n, rx[n], rest, B2, inbox, refused)
    <3>1. Incoming(n, rx[n], rest, link[m], inbox, refused)
      BY <1>1, Reading
    <3>2. t.st = "FINFOACK" =>
            /\ t.list # <<>> /\ work.early # TRUE /\ Len(inbox[Current(t)]) = Size[Current(t)]
            /\ None(rest, {"FINFO"}) /\ None(link[m], {"FINFOACK"})
      <4>1. f \in Files /\ Size[f] \in Nat /\ Len(inbox[f]) = Size[f] /\ f # EndOfBatch
        BY <1>6, <1>10
      <4>2. ~(Len(inbox[f]) < Size[f])
        BY <4>1
      <4> HIDE DEF f, k
      <4> QED BY <1>2, <1>7, <4>1, <4>2
    <3>3. t.st \in {"FINFOACK", "Abort"}
      BY <1>2
    <3> HIDE DEF m, t, rest, f, k
    <3> QED BY <1>1, <1>5, <2>1, <3>1, <3>2, <3>3, WayRefuse DEF Incoming, m, t
  <2> QED BY <1>1, <1>4, <1>5, <1>8, <1>10, <2>1, Replies
<1>11. CASE /\ f # EndOfBatch /\ rx' = [rx EXCEPT ![n] = b] /\ Exchange(n, rest, <<w>>)
            /\ UNCHANGED <<tx, refused>>
  <2>1. f \in Files /\ k \in Nat /\ f \in Mine(m)
    BY <1>6, <1>11
  <2>2. b \in Rx /\ b.st = "DATA" /\ b.file = f /\ b.pos = k /\ b.timer = FALSE /\ b.pos # -2
    <3> HIDE DEF f, k
    <3>0. rx[n] \in Rx /\ f \in Files /\ k \in Nat
      BY <1>1, <2>1
    <3>1. b \in Rx /\ b.st = "DATA" /\ b.file = f /\ b.pos = k /\ b.timer = FALSE
      <4> DEFINE r == rx[n]
                 o == Opening(r, f, k)
      <4>1. r \in Rx /\ b = o
        BY <3>0
      <4> HIDE DEF r
      <4>2. o \in Rx /\ o.st = "DATA" /\ o.file = f /\ o.pos = k /\ o.timer = FALSE
        BY <3>0, <4>1, OpeningFacts, ZenonT(60)
      <4> HIDE DEF o, b
      <4> QED BY <4>1, <4>2
    <3> HIDE DEF b
    <3> QED BY <2>1, <3>1
  <2>3. w \in Packets /\ w.type = "FINFOACK" /\ w.pos = b.pos
    <3> HIDE DEF b
    <3> QED BY <2>1, <2>2, NumberFacts DEF PacketTypes
  <2> HIDE DEF b, w
  <2>4. rx'[n] = b /\ rx'[m] = rx[m]
    BY <1>11, <2>1, <2>2, TypedRx
  <2>5. ASSUME NEW B2, Sends(t.st, link[m], B2, w)
        PROVE  Incoming(n, b, rest, B2, inbox, refused)
    <3>1. Incoming(n, rx[n], rest, link[m], inbox, refused)
      BY <1>1, Reading
    <3>2. /\ t.st \in {"FINFOACK", "Abort"}
          /\ \A d \in On(rest) : d.type \in {"FINFO", "DATA"} => d.file = f
          /\ t.st = "FINFOACK" =>
                f = Current(t) /\ None(rest, {"DATA", "EOF"}) /\ None(link[m], {"FINFOACK"})
      BY <1>2
    <3>3. b.pos = Len(inbox[f])
      BY <2>2
    <3> HIDE DEF m, t, rest, f, k
    <3> QED BY <1>1, <2>1, <2>2, <2>3, <2>5, <3>1, <3>2, <3>3, WayOpen DEF Incoming, m, t
  <2> QED BY <1>1, <1>4, <1>8, <1>11, <2>3, <2>4, <2>5, Replies
<1>12. CASE /\ f # EndOfBatch /\ refused' = refused \cup {f} /\ Exchange(n, rest, <<z>>)
            /\ Fault("open") /\ UNCHANGED <<tx, rx>>
  <2>1. work.early # TRUE
    BY <1>12, OrderlyFacts DEF Fault
  <2>2. refused \subseteq refused' /\ f \in refused'
    BY <1>12
  <2>3. ASSUME NEW B2, Sends(t.st, link[m], B2, z)
        PROVE  Incoming(n, rx[n], rest, B2, inbox, refused')
    <3>1. Incoming(n, rx[n], rest, link[m], inbox, refused')
      BY <1>1, <2>2, Reading
    <3>2. t.st = "FINFOACK" =>
            /\ t.list # <<>> /\ Current(t) \in refused'
            /\ None(rest, {"FINFO"}) /\ None(link[m], {"FINFOACK"})
      BY <1>2, <1>7, <1>12, <2>1, <2>2
    <3>3. t.st \in {"FINFOACK", "Abort"}
      BY <1>2
    <3> HIDE DEF m, t, rest, f, k
    <3> QED BY <1>1, <1>5, <2>1, <2>3, <3>1, <3>2, <3>3, WayRefuse DEF Incoming, m, t
  <2> QED BY <1>1, <1>4, <1>5, <1>8, <1>12, <2>2, <2>3, Replies
<1> QED BY <1>3, <1>9, <1>10, <1>11, <1>12


LEMMA WaysAgain ==
    ASSUME Typed, Ways, NEW n \in Sides, FinfoAgain(n)
    PROVE  Ways'
<1> DEFINE m == Peer(n)
           rest == Tail(link[n])
           k == IF rx[n].st = "DATA" THEN rx[n].pos ELSE -2
           x == Number("FINFOACK", k)
<1>1. /\ rx[n].pos \in Int /\ link[n] # <<>> /\ rx[n].st \in {"DATA", "DONE"} /\ Live(n)
  BY DEF Typed, Rx, FinfoAgain, Arrived
<1>2. k \in Int /\ (rx[n].st = "DATA" => k = rx[n].pos)
  BY <1>1
<1>3. Exchange(n, rest, <<x>>) /\ UNCHANGED <<work, tx, rx, inbox, sent, refused>>
  BY DEF FinfoAgain, Answer
<1> HIDE DEF k
<1>4. x \in Packets /\ x.type = "FINFOACK" /\ x.pos = k
  BY <1>2, NumberFacts DEF PacketTypes
<1> HIDE DEF x
<1>5. ASSUME NEW B2, Sends(tx[m].st, link[m], B2, x)
      PROVE  Incoming(n, rx[n], rest, B2, inbox, refused)
  <2>1. Incoming(n, rx[n], rest, link[m], inbox, refused)
    BY <1>1, Reading
  <2>2. rx[n].st = "DATA" => x.pos = rx[n].pos
    BY <1>2, <1>4
  <2> HIDE DEF m, rest
  <2> QED BY <1>1, <1>4, <1>5, <2>1, <2>2, WayAnswer DEF Incoming, m
<1>6. x.type \notin Fores /\ Like(tx[n], tx[n])
  BY <1>4 DEF Fores, Like
<1> QED BY <1>1, <1>3, <1>4, <1>5, <1>6, Replies

\* n answers nothing.
LEMMA Swallows ==
    ASSUME Typed, Ways, NEW n \in Sides, Live(n), work' = work,
           rx'[Peer(n)] = rx[Peer(n)], sent' = sent, tx'[Peer(n)] = tx[Peer(n)],
           refused \subseteq refused', \A f \in Mine(n) : inbox'[f] = inbox[f],
           Like(tx[n], tx'[n]) \/ (tx'[n].list = tx[n].list /\ tx'[n].st = "Abort"),
           NEW rest \in Seq(Packets), Spares(link[n], rest, Backs), Exchange(n, rest, <<>>),
           Incoming(n, rx'[n], rest, link[Peer(n)], inbox', refused')
    PROVE  Ways'
<1>1. link'[n] = rest /\ link'[Peer(n)] = link[Peer(n)]
  BY ExchangeNone DEF Typed
<1> QED BY <1>1, Receives, SparesSame

\* The receiver of n stays at r.
LEMMA StaysWays ==
    ASSUME Typed, Whole, Ways, NEW n \in Sides, Live(n), NEW r \in Rx, r.st = "DATA", r.file \in Files,
           tx[Peer(n)].st # "FINFOACK", refused \subseteq refused', UNCHANGED <<work, inbox, sent>>,
           NEW rest \in Seq(Packets), Spares(link[n], rest, Backs), Stays(n, r, rest),
           Incoming(n, r, rest, link[Peer(n)], inbox, refused')
    PROVE  Ways'
<1> DEFINE m == Peer(n)
<1>0. /\ m \in Sides /\ tx[m] \in Tx /\ tx \in [Sides -> Tx] /\ link \in [Sides -> Seq(Packets)]
      /\ Like(tx[n], tx[n])
  BY PeerFacts DEF Typed, Like
<1>1. PICK s \in Rx : Same(r, s) /\ rx' = [rx EXCEPT ![n] = s]
  BY DEF Stays
<1>2. rx'[n] = s /\ rx'[m] = rx[m]
  <2>1. s.st = "DATA" => s.file \in Files
    BY <1>1 DEF Same
  <2> QED BY <1>1, <2>1, TypedRx
<1>3. \A B2 : Incoming(n, r, rest, B2, inbox, refused') => Incoming(n, s, rest, B2, inbox, refused')
  BY <1>1, WayRx DEF Incoming, Same
<1>4. CASE (Give(n) \/ tx' = tx) /\ Exchange(n, rest, <<>>)
  <2>1. /\ tx'[m] = tx[m]
        /\ Like(tx[n], tx'[n]) \/ (tx'[n].list = tx[n].list /\ tx'[n].st = "Abort")
    BY <1>0, <1>4, GiveFacts
  <2>2. Incoming(n, s, rest, link[m], inbox, refused')
    BY <1>3
  <2> QED BY <1>2, <1>4, <2>1, <2>2, Swallows
<1>5. CASE tx' = tx /\ \E x \in Packets : x.type = "RPOS" /\ x.pos = r.pos /\ Exchange(n, rest, <<x>>)
  <2>1. PICK x \in Packets : x.type = "RPOS" /\ x.pos = r.pos /\ Exchange(n, rest, <<x>>)
    BY <1>5
  <2>2. link'[n] = rest /\ Sends(tx[m].st, link[m], link'[m], x)
    BY <1>0, <2>1, ExchangeOne
  <2>3. Len(inbox[r.file]) \in 0..Size[r.file]
    BY WholeFacts
  <2>4. Incoming(n, r, rest, link'[m], inbox, refused')
    <3>1. tx[m].st # "FINFOACK" /\ Incoming(n, r, rest, link[m], inbox, refused')
      OBVIOUS
    <3> HIDE DEF m
    <3> QED BY <1>0, <2>1, <2>2, <2>3, <3>1, WayAsk DEF Incoming, m
  <2>5. Incoming(n, s, rest, link'[m], inbox, refused')
    BY <1>3, <2>4
  <2>6. Spares(link[m], link'[m], Fores)
    BY <2>1, <2>2, SparesSends DEF Fores
  <2> QED BY <1>0, <1>2, <1>5, <2>2, <2>5, <2>6, Receives
<1> QED BY <1>4, <1>5 DEF Stays

LEMMA WaysRest ==
    ASSUME Typed, Whole, Ways, NEW n \in Sides, RxTimeout(n) \/ Ignore(n) \/ Lose(n) \/ Stop(n)
    PROVE  Ways'
<1>0. /\ Live(n) /\ rx[n] \in Rx /\ tx[n] \in Tx /\ link[n] \in Seq(Packets) /\ tx \in [Sides -> Tx]
      /\ Like(tx[n], tx[n])
  BY StopFacts DEF Typed, RxTimeout, Ignore, Lose, Expired, Like
<1>1. CASE RxTimeout(n)
  <2>1. Stays(n, rx[n], link[n])
    BY <1>0, <1>1, ResyncFacts DEF RxTimeout
  <2>2. rx[n].st = "DATA" /\ rx[n].file \in Files /\ rx[n].timer = TRUE
    BY <1>0, <1>1 DEF RxTimeout, Typed, Rx
  <2>3. Incoming(n, rx[n], link[n], link[Peer(n)], inbox, refused)
    BY WaysFacts
  <2>4. tx[Peer(n)].st # "FINFOACK"
    BY <2>2, <2>3 DEF Incoming, Way, Offering, Opened
  <2>5. UNCHANGED <<work, inbox, sent, refused>>
    BY <1>1 DEF RxTimeout
  <2> QED BY <1>0, <2>1, <2>2, <2>3, <2>4, <2>5, StaysWays, SparesSame
<1>2. CASE Ignore(n)
  <2>1. /\ link[n] # <<>> /\ Exchange(n, Tail(link[n]), <<>>)
        /\ UNCHANGED <<work, tx, rx, inbox, sent, refused>>
    BY <1>2 DEF Ignore, Answer
  <2> QED BY <1>0, <2>1, NothingOut, Aside, HeadFacts
<1>3. CASE Lose(n)
  <2>1. /\ link[n] # <<>> /\ link' = [link EXCEPT ![n] = Tail(link[n])]
        /\ UNCHANGED <<work, tx, rx, inbox, sent, refused>>
    BY <1>3 DEF Lose
  <2>2. link'[n] = Tail(link[n]) /\ link'[Peer(n)] = link[Peer(n)]
    BY <2>1, PeerFacts DEF Typed
  <2>3. Spares(link[n], link'[n], Kinds)
    BY <2>1, <2>2, HeadFacts, SparesLess
  <2> QED BY <1>0, <2>1, <2>2, <2>3, Quietly, SparesSame
<1>4. CASE Stop(n)
  <2>1. Give(n) /\ UNCHANGED <<work, rx, link, inbox, sent, refused>>
    BY <1>4, StopFacts
  <2> QED BY <1>0, <2>1, GiveFacts, Quietly, SparesSame
<1> QED BY <1>1, <1>2, <1>3, <1>4


\* A block or the end of a file that arrives while a file is being received.
LEMMA TransferMeans ==
    ASSUME Typed, Ways, NEW n \in Sides, Arrived(n, "DATA") \/ Arrived(n, "EOF"), rx[n].st = "DATA"
    PROVE  LET t == tx[Peer(n)]
               r == rx[n]
               p == Head(link[n]) IN
           /\ t.st # "FINFOACK"
           /\ r.file \in Mine(Peer(n)) /\ r.file \in Files
           /\ r.pos = Len(inbox[r.file]) \/ (r.pos = -2 /\ r.file \in refused)
           /\ p.type = "DATA" => p.file = r.file /\ p.pos \in 0..(Size[r.file] - 1)
           /\ p.type = "EOF" /\ t.st \in Transfers =>
                 /\ r.file = Current(t) /\ None(Tail(link[n]), {"FINFO"})
                 /\ p.pos = Size[r.file] \/ (p.pos = -2 /\ (t.err = TRUE \/ t.pos = -2))
<1> DEFINE m == Peer(n)
           t == tx[m]
           q == tx[n].st
           r == rx[n]
           F == link[n]
           p == Head(F)
           rest == Tail(F)
<1>1. /\ F # <<>> /\ p.type \in {"DATA", "EOF"} /\ r.st = "DATA" /\ r.file \in Files /\ q \notin Over
  BY LiveOver DEF Arrived, Typed
<1>2. /\ p \in On(F)
      /\ \A b \in On(rest) : Before(F, p, b) /\ b \in On(F)
  BY <1>1, HeadFacts DEF Less
<1>3. Way(work.early, Mine(m), work.locked, t, q, r, F, link[m], inbox, sent[m], refused)
  BY WaysFacts DEF Incoming
<1> HIDE DEF m, t, q, r, F, p, rest
<1>4. t.st # "FINFOACK"
  BY <1>1, <1>2, <1>3 DEF Way, Offering, Opened, None
<1>5. r.file \in Mine(m) /\ (r.pos = Len(inbox[r.file]) \/ (r.pos = -2 /\ r.file \in refused))
  BY <1>1, <1>3 DEF Way, Writer
<1>6. p.type = "DATA" => p.file = r.file /\ p.pos \in 0..(Size[r.file] - 1)
  BY <1>1, <1>2, <1>3 DEF Way, Stream
<1>7. ASSUME p.type = "EOF", t.st \in Transfers
      PROVE  /\ r.file = Current(t) /\ None(rest, {"FINFO"})
             /\ p.pos = Size[r.file] \/ (p.pos = -2 /\ (t.err = TRUE \/ t.pos = -2))
  <2>1. Pair(t, r, inbox, refused) /\ Fore(t, q, r, F)
    BY <1>3, <1>7 DEF Way, Transfer
  <2>2. r.file = Current(t)
    BY <1>1, <2>1 DEF Pair
  <2>3. None(rest, {"FINFO"})
    BY <1>1, <1>2, <1>7, <2>1 DEF Fore, None
  <2>4. p.pos = Size[Current(t)] \/ (p.pos = -2 /\ (t.err = TRUE \/ t.pos = -2))
    BY <1>1, <1>2, <1>7, <2>1 DEF Fore
  <2> QED BY <2>2, <2>3, <2>4
<1> QED BY <1>1, <1>4, <1>5, <1>6, <1>7 DEF m, t, q, r, F, p, rest

\* A block that fits is written at the end of its file.
LEMMA WholeWrite ==
    ASSUME Typed, Whole, Delivered, NEW f \in Files, NEW k, k = Len(inbox[f]), k \in 0..(Size[f] - 1),
           inbox' = [inbox EXCEPT ![f] = Append(@, <<f, k>>)], sent' = sent
    PROVE  /\ Whole' /\ Delivered' /\ Len(inbox'[f]) = k + 1
           /\ \A g \in Files \ {f} : inbox'[g] = inbox[g]
<1>1. Size[f] \in Nat /\ inbox[f] \in Seq(Marks) /\ k \in Nat /\ k < Size[f]
  BY WholeFacts
<1>2. <<f, k>> \in Marks
  BY <1>1 DEF Marks, Names
<1> DEFINE z == <<f, k>>
<1>3. inbox'[f] = Append(inbox[f], z) /\ \A g \in Files \ {f} : inbox'[g] = inbox[g]
  BY <1>2, TypedWrite
<1>4. /\ Len(Append(inbox[f], z)) = k + 1
      /\ \A i \in 1..k : Append(inbox[f], z)[i] = inbox[f][i]
      /\ Append(inbox[f], z)[k + 1] = z
  <2> HIDE DEF z
  <2> QED BY <1>1, <1>2 DEF z
<1>5. \A i \in 1..(k + 1) : inbox'[f][i] = <<f, i - 1>>
  <2> SUFFICES ASSUME NEW i \in 1..(k + 1)
               PROVE  inbox'[f][i] = <<f, i - 1>>
    OBVIOUS
  <2>1. CASE i \in 1..k
    BY <1>3, <1>4, <2>1 DEF Whole
  <2>2. CASE i = k + 1
    <3>1. i - 1 = k
      BY <1>1, <2>2
    <3> QED BY <1>3, <1>4, <2>2, <3>1
  <2> QED BY <1>1, <2>1, <2>2
<1>6. Whole'
  <2> SUFFICES ASSUME NEW g \in Files
               PROVE  /\ Len(inbox'[g]) <= Size[g]
                      /\ \A i \in 1..Len(inbox'[g]) : inbox'[g][i] = <<g, i - 1>>
    BY DEF Whole
  <2>1. CASE g = f
    BY <1>1, <1>3, <1>4, <1>5, <2>1
  <2>2. CASE g # f
    BY <1>3, <2>2 DEF Whole
  <2> QED BY <2>1, <2>2
<1>7. Delivered'
  <2> SUFFICES ASSUME NEW n \in Sides, NEW g \in sent[n]
               PROVE  inbox'[g] = Blocks(g)
    BY DEF Delivered, Blocks
  <2>1. inbox[g] = Blocks(g)
    BY DEF Delivered
  <2>2. g # f
    BY <1>1, <2>1, WholeFacts
  <2>3. inbox'[g] = inbox[g]
    BY <1>3, <2>2 DEF Typed
  <2> QED BY <2>1, <2>3
<1> QED BY <1>3, <1>4, <1>6, <1>7


LEMMA WaysBlock ==
    ASSUME Typed, Whole, Ways, Delivered, Orderly(work), NEW n \in Sides, HRX_DATA(n)
    PROVE  Ways' /\ Whole' /\ Delivered'
<1> DEFINE m == Peer(n)
           t == tx[m]
           r == rx[n]
           p == Head(link[n])
           rest == Tail(link[n])
           a == Wrote(r)
           b == [r EXCEPT !.pos = -2]
           x == Number("DATAACK", r.pos + 1)
<1>1. /\ link[n] # <<>> /\ r \in Rx /\ r.st = "DATA" /\ r.pos \in Int /\ Live(n) /\ Arrived(n, "DATA")
      /\ p.type = "DATA" /\ m \in Sides /\ t \in Tx /\ Like(tx[n], tx[n])
  BY PeerFacts DEF Typed, HRX_DATA, Arrived, Rx, Like
<1>2. rest \in Seq(Packets) /\ p.pos \in Int /\ Spares(link[n], rest, Backs)
  BY <1>1, HeadFacts, SparesLess
<1>3. /\ t.st # "FINFOACK" /\ r.file \in Mine(m) /\ r.file \in Files
      /\ r.pos = Len(inbox[r.file]) \/ r.pos = -2
      /\ p.file = r.file /\ p.pos \in 0..(Size[r.file] - 1)
  BY <1>1, TransferMeans
<1>4. \/ /\ p.pos = r.pos /\ inbox' = [inbox EXCEPT ![r.file] = Append(@, <<p.file, p.pos>>)]
         /\ rx' = [rx EXCEPT ![n] = a]
         /\ Exchange(n, rest, <<x>>) \/ Exchange(n, rest, <<>>)
         /\ UNCHANGED <<tx, refused>>
      \/ /\ rx' = [rx EXCEPT ![n] = b] /\ refused' = refused \cup {r.file}
         /\ Exchange(n, rest, <<>>) /\ UNCHANGED <<tx, inbox>>
      \/ Misplaced(n, r, p.pos) /\ UNCHANGED <<inbox, refused>>
  BY DEF HRX_DATA, Answer, Wrote, Fits
<1>5. UNCHANGED <<work, sent>>
  BY DEF HRX_DATA
<1>6. /\ a \in Rx /\ a.st = "DATA" /\ a.file = r.file /\ a.pos = r.pos + 1
      /\ b \in Rx /\ b.st = "DATA" /\ b.file = r.file /\ b.pos = -2
  BY <1>1, WroteFacts, SpoiltFacts
<1>7. x \in Packets /\ x.type = "DATAACK"
  BY <1>1, NumberFacts DEF PacketTypes
<1> HIDE DEF a, b, x
<1>8. CASE /\ p.pos = r.pos /\ inbox' = [inbox EXCEPT ![r.file] = Append(@, <<p.file, p.pos>>)]
           /\ rx' = [rx EXCEPT ![n] = a]
           /\ Exchange(n, rest, <<x>>) \/ Exchange(n, rest, <<>>)
           /\ UNCHANGED <<tx, refused>>
  <2>1. /\ r.pos = Len(inbox[r.file]) /\ r.pos \in 0..(Size[r.file] - 1) /\ r.pos \in Nat
    BY <1>1, <1>3, <1>8
  <2>2. inbox' = [inbox EXCEPT ![r.file] = Append(@, <<r.file, r.pos>>)]
    BY <1>3, <1>8
  <2>3. /\ Whole' /\ Delivered' /\ Len(inbox'[r.file]) = r.pos + 1
        /\ \A g \in Files \ {r.file} : inbox'[g] = inbox[g]
    BY <1>3, <1>5, <2>1, <2>2, WholeWrite
  <2>4. /\ \A g \in Mine(m) \ {r.file} : inbox'[g] = inbox[g]
        /\ \A g \in Mine(n) : inbox'[g] = inbox[g]
    BY <1>1, <1>3, <2>3, MineFacts, OrderlyFacts
  <2>5. rx'[n] = a /\ rx'[m] = rx[m]
    BY <1>3, <1>6, <1>8, TypedRx
  <2>6. Incoming(n, r, rest, link[m], inbox, refused)
    BY <1>1, Reading
  <2>7. Incoming(n, a, rest, link[m], inbox', refused)
    <3> HIDE DEF m, t, r, rest
    <3> QED BY <1>1, <1>3, <1>6, <2>1, <2>3, <2>4, <2>6, WayWrite DEF Incoming, m, t
  <2>8. ASSUME NEW B2, Sends(tx[m].st, link[m], B2, x)
        PROVE  Incoming(n, a, rest, B2, inbox', refused)
    <3>1. Spares(link[m], B2, Backs)
      BY <1>7, <2>8, SparesSends DEF Backs
    <3> QED BY <2>7, <3>1, WayAside, SparesSame DEF Incoming
  <2>9. CASE Exchange(n, rest, <<x>>)
    <3>1. x.type \notin Fores
      BY <1>7 DEF Fores
    <3>2. Ways'
      BY <1>1, <1>5, <1>7, <1>8, <2>4, <2>5, <2>8, <2>9, <3>1, Replies
    <3> QED BY <2>3, <3>2
  <2>10. CASE Exchange(n, rest, <<>>)
    <3>1. Ways'
      BY <1>1, <1>2, <1>5, <1>8, <2>4, <2>5, <2>7, <2>10, Swallows
    <3> QED BY <2>3, <3>1
  <2> QED BY <1>8, <2>9, <2>10
<1>9. CASE /\ rx' = [rx EXCEPT ![n] = b] /\ refused' = refused \cup {r.file}
           /\ Exchange(n, rest, <<>>) /\ UNCHANGED <<tx, inbox>>
  <2>1. refused \subseteq refused' /\ r.file \in refused'
    BY <1>9
  <2>2. rx'[n] = b /\ rx'[m] = rx[m]
    BY <1>3, <1>6, <1>9, TypedRx
  <2>3. Incoming(n, r, rest, link[m], inbox, refused')
    BY <1>1, <2>1, Reading
  <2>4. Incoming(n, b, rest, link[m], inbox, refused')
    <3> HIDE DEF m, t, r, rest
    <3> QED BY <1>1, <1>3, <1>6, <2>1, <2>3, WayRefused DEF Incoming, m, t
  <2>5. Ways'
    BY <1>1, <1>2, <1>5, <1>9, <2>1, <2>2, <2>4, Swallows
  <2> QED BY <1>5, <1>9, <2>5 DEF Whole, Delivered
<1>10. CASE Misplaced(n, r, p.pos) /\ UNCHANGED <<inbox, refused>>
  <2>1. Stays(n, r, rest)
    BY <1>1, <1>2, <1>10, MisplacedFacts
  <2>2. Incoming(n, r, rest, link[m], inbox, refused)
    BY <1>1, Reading
  <2>3. Ways'
    BY <1>1, <1>2, <1>3, <1>5, <1>10, <2>1, <2>2, StaysWays
  <2> QED BY <1>5, <1>10, <2>3 DEF Whole, Delivered
<1> QED BY <1>4, <1>8, <1>9, <1>10

LEMMA WaysEof ==
    ASSUME Typed, Whole, Ways, NEW n \in Sides, HRX_EOF(n)
    PROVE  Ways'
<1> DEFINE m == Peer(n)
           t == tx[m]
           r == rx[n]
           p == Head(link[n])
           rest == Tail(link[n])
           a == Closed(r)
           b == [r EXCEPT !.pos = -2]
           x == Signal("EOFACK")
<1>1. /\ link[n] # <<>> /\ r \in Rx /\ Live(n) /\ Arrived(n, "EOF") /\ p.type = "EOF" /\ m \in Sides
      /\ t \in Tx /\ Like(tx[n], tx[n]) /\ (r.st = "DATA" => r.file \in Files)
  BY PeerFacts DEF Typed, HRX_EOF, Arrived, Like
<1>2. /\ rest \in Seq(Packets) /\ p.pos \in Int /\ Spares(link[n], rest, Backs) /\ p \in On(link[n])
  BY <1>1, HeadFacts, SparesLess
<1>3. x \in Packets /\ x.type = "EOFACK" /\ x.type \notin Fores
  BY <1>1, SignalFacts DEF PacketTypes, Fores
<1>4. \/ /\ r.st = "FINFO" /\ rx' = rx /\ Exchange(n, rest, <<x>>) /\ UNCHANGED <<tx, refused>>
      \/ /\ r.st = "DATA" /\ (p.pos = r.pos \/ p.pos = -2) /\ rx' = [rx EXCEPT ![n] = a]
         /\ Exchange(n, rest, <<x>>) /\ UNCHANGED <<tx, refused>>
      \/ /\ r.st = "DATA" /\ refused' = refused \cup {r.file} /\ Misplaced(n, b, p.pos)
      \/ r.st = "DATA" /\ Misplaced(n, r, p.pos) /\ refused' = refused
  BY DEF HRX_EOF, Answer, Closed, AtEnd
<1>5. UNCHANGED <<work, inbox, sent>>
  BY DEF HRX_EOF
<1>6. /\ a \in Rx /\ a.st = "FINFO"
      /\ b \in Rx /\ b.st = r.st /\ b.file = r.file /\ b.pos = -2
  BY <1>1, ClosedFacts, SpoiltFacts
<1>7. r.st = "DATA" =>
        /\ t.st # "FINFOACK" /\ r.file \in Files
        /\ r.pos = Len(inbox[r.file]) \/ r.pos = -2
        /\ t.st \in Transfers =>
              /\ r.file = Current(t) /\ None(rest, {"FINFO"})
              /\ p.pos = Size[r.file] \/ (p.pos = -2 /\ (t.err = TRUE \/ t.pos = -2))
  BY <1>1, TransferMeans
<1> HIDE DEF a, b, x
<1>8. CASE r.st = "FINFO" /\ rx' = rx /\ Exchange(n, rest, <<x>>) /\ UNCHANGED <<tx, refused>>
  <2>1. t.st \notin Beginnings
    BY <1>1, <1>2, WaysFacts DEF Incoming, Way, Beginning, None
  <2>2. Incoming(n, r, rest, link[m], inbox, refused)
    BY <1>1, Reading
  <2>3. ASSUME NEW B2, Sends(t.st, link[m], B2, x)
        PROVE  Incoming(n, r, rest, B2, inbox, refused)
    <3>1. r.st = "FINFO"
      BY <1>8
    <3> HIDE DEF m, t, r, rest
    <3> QED BY <1>3, <2>1, <2>2, <2>3, <3>1, WayAck DEF Incoming, m, t
  <2> QED BY <1>1, <1>3, <1>5, <1>8, <2>3, Replies
<1>9. CASE /\ r.st = "DATA" /\ (p.pos = r.pos \/ p.pos = -2) /\ rx' = [rx EXCEPT ![n] = a]
           /\ Exchange(n, rest, <<x>>) /\ UNCHANGED <<tx, refused>>
  <2>1. rx'[n] = a /\ rx'[m] = rx[m]
    BY <1>6, <1>9, TypedRx
  <2>2. Incoming(n, r, rest, link[m], inbox, refused)
    BY <1>1, Reading
  <2>3. t.st \in Transfers =>
          /\ inbox[Current(t)] = Blocks(Current(t)) \/ t.err = TRUE \/ t.pos = -2
          /\ None(rest, {"FINFO"})
    <3> SUFFICES ASSUME t.st \in Transfers, ~(t.err = TRUE \/ t.pos = -2)
                 PROVE  inbox[Current(t)] = Blocks(Current(t))
      BY <1>7, <1>9
    <3>1. p.pos = Size[r.file] /\ r.file = Current(t) /\ Size[r.file] \in Nat
      BY <1>7, <1>9, HydraAssumption
    <3>2. Len(inbox[r.file]) = Size[r.file]
      BY <1>7, <1>9, <3>1
    <3> QED BY <1>7, <1>9, <3>1, <3>2, WholeFacts
  <2>4. ASSUME NEW B2, Sends(t.st, link[m], B2, x)
        PROVE  Incoming(n, a, rest, B2, inbox, refused)
    <3>1. r.st = "DATA" /\ t.st # "FINFOACK"
      BY <1>7, <1>9
    <3> HIDE DEF m, t, r, rest
    <3> QED BY <1>1, <1>3, <1>6, <2>2, <2>3, <2>4, <3>1, WayClose DEF Incoming, m, t
  <2> QED BY <1>1, <1>3, <1>5, <1>9, <2>1, <2>4, Replies
<1>10. CASE r.st = "DATA" /\ refused' = refused \cup {r.file} /\ Misplaced(n, b, p.pos)
  <2>1. refused \subseteq refused' /\ r.file \in refused'
    BY <1>10
  <2>2. Stays(n, b, rest)
    BY <1>2, <1>6, <1>10, MisplacedFacts
  <2>3. Incoming(n, r, rest, link[m], inbox, refused')
    BY <1>1, <2>1, Reading
  <2>4. Incoming(n, b, rest, link[m], inbox, refused')
    <3>1. r.st = "DATA" /\ t.st # "FINFOACK" /\ b.st = "DATA"
      BY <1>6, <1>7, <1>10
    <3> HIDE DEF m, t, r, rest
    <3> QED BY <1>1, <1>6, <2>1, <2>3, <3>1, WayRefused DEF Incoming, m, t
  <2>5. b.st = "DATA" /\ b.file \in Files /\ t.st # "FINFOACK"
    BY <1>6, <1>7, <1>10
  <2> QED BY <1>1, <1>2, <1>5, <1>6, <2>1, <2>2, <2>4, <2>5, StaysWays
<1>11. CASE r.st = "DATA" /\ Misplaced(n, r, p.pos) /\ refused' = refused
  <2>1. Stays(n, r, rest)
    BY <1>1, <1>2, <1>11, MisplacedFacts
  <2>2. Incoming(n, r, rest, link[m], inbox, refused)
    BY <1>1, Reading
  <2> QED BY <1>1, <1>2, <1>5, <1>7, <1>11, <2>1, <2>2, StaysWays
<1> QED BY <1>4, <1>8, <1>9, <1>10, <1>11


-----------------------------------------------------------------------------
(* The end of the batch. *)

\* END is sent by a side that has received everything.
Ends ==
    \A n \in Sides :
        /\ \A a \in On(link[n]) : a.type = "END" => rx[Peer(n)].st = "DONE"
        /\ tx[n].st \in {"ENDACK", "DONE"} => rx[n].st = "DONE"
        /\ tx[n].st = "DONE" => rx[Peer(n)].st = "DONE"

\* Of the receivers, the one of n changes, and one that is done stays so.
Kept(n) == rx'[Peer(n)] = rx[Peer(n)] /\ (rx[n].st = "DONE" => rx'[n].st = "DONE")

\* No END among these packets.
Harmless(out) == out \in Seq(Packets) /\ \A i \in 1..Len(out) : out[i].type \notin {"END"}

LEMMA EndsLinks ==
    ASSUME Typed, Ends, NEW n \in Sides, Kept(n), tx'[Peer(n)] = tx[Peer(n)],
           tx'[n].st \in {"ENDACK", "DONE"} => rx[n].st = "DONE",
           tx'[n].st = "DONE" => rx[Peer(n)].st = "DONE",
           Spares(link[n], link'[n], {"END"}),
           Spares(link[Peer(n)], link'[Peer(n)], {"END"}) \/ rx[n].st = "DONE"
    PROVE  Ends'
<1> DEFINE m == Peer(n)
<1>1. m \in Sides /\ Peer(m) = n /\ \A s \in Sides : s = n \/ s = m
  BY PeerFacts
<1>2. rx'[m].st = rx[m].st /\ (rx[n].st = "DONE" => rx'[n].st = "DONE")
  BY DEF Kept
<1>3. \A a \in On(link'[n]) : a.type = "END" => rx'[m].st = "DONE"
  BY <1>2 DEF Ends, Spares
<1>4. \A a \in On(link'[m]) : a.type = "END" => rx'[n].st = "DONE"
  BY <1>1, <1>2 DEF Ends, Spares
<1>5. /\ tx'[n].st \in {"ENDACK", "DONE"} => rx'[n].st = "DONE"
      /\ tx'[n].st = "DONE" => rx'[m].st = "DONE"
  BY <1>2
<1>6. /\ tx'[m].st \in {"ENDACK", "DONE"} => rx'[m].st = "DONE"
      /\ tx'[m].st = "DONE" => rx'[n].st = "DONE"
  BY <1>1, <1>2 DEF Ends
<1> HIDE DEF m
<1> QED BY <1>1, <1>3, <1>4, <1>5, <1>6 DEF Ends, m

LEMMA EndsBy ==
    ASSUME Typed, Ends, NEW n \in Sides, Kept(n), tx'[Peer(n)] = tx[Peer(n)],
           tx'[n].st \in {"ENDACK", "DONE"} => tx'[n].st = tx[n].st,
           NEW rest \in Seq(Packets), rest = link[n] \/ (link[n] # <<>> /\ rest = Tail(link[n])),
           NEW out \in Seq(Packets), Harmless(out) \/ rx[n].st = "DONE", Exchange(n, rest, out)
    PROVE  Ends'
<1>1. link'[n] = rest
  BY PeerFacts DEF Exchange, Typed
<1>2. Spares(link[Peer(n)], link'[Peer(n)], {"END"}) \/ rx[n].st = "DONE"
  BY ExchangeSpares DEF Harmless
<1>3. Spares(link[n], link'[n], {"END"})
  BY <1>1, HeadFacts, SparesLess, SparesSame
<1>4. /\ tx'[n].st \in {"ENDACK", "DONE"} => rx[n].st = "DONE"
      /\ tx'[n].st = "DONE" => rx[Peer(n)].st = "DONE"
  BY DEF Ends
<1> QED BY <1>2, <1>3, <1>4, EndsLinks

LEMMA HarmlessNone == Harmless(<<>>)
BY EmptySeq DEF Harmless

LEMMA HarmlessOne ==
    ASSUME NEW x \in Packets, x.type # "END"
    PROVE  Harmless(<<x>>)
BY DEF Harmless

LEMMA HarmlessOffer ==
    ASSUME NEW t \in Tx
    PROVE  Harmless(Finfo(t)) /\ Harmless(Eof(t))
<1>1. PICK x \in Packets : Finfo(t) = <<x>> /\ x.type = "FINFO"
  BY FinfoFacts
<1>2. PICK y \in Packets : Eof(t) = <<y>> /\ y.type = "EOF"
  BY EofFacts
<1> QED BY <1>1, <1>2, HarmlessOne

LEMMA HarmlessConcat ==
    ASSUME NEW a, NEW b, Harmless(a), Harmless(b)
    PROVE  Harmless(a \o b)
<1>1. a \in Seq(Packets) /\ b \in Seq(Packets)
  BY DEF Harmless
<1>2. /\ a \o b \in Seq(Packets) /\ Len(a \o b) = Len(a) + Len(b) /\ Len(a) \in Nat /\ Len(b) \in Nat
      /\ \A i \in 1..Len(a \o b) : (a \o b)[i] = IF i <= Len(a) THEN a[i] ELSE b[i - Len(a)]
  BY <1>1
<1>3. ASSUME NEW i \in 1..Len(a \o b)
      PROVE  (a \o b)[i].type \notin {"END"}
  <2>1. CASE i <= Len(a)
    BY <1>2, <2>1 DEF Harmless
  <2>2. CASE ~(i <= Len(a))
    <3>1. i - Len(a) \in 1..Len(b)
      BY <1>2, <2>2
    <3> QED BY <1>2, <2>2, <3>1 DEF Harmless
  <2> QED BY <2>1, <2>2
<1> QED BY <1>2, <1>3 DEF Harmless


\* A transmitter moves on, but not to the end of the batch.
LEMMA EndsSet ==
    ASSUME Typed, Ends, NEW n \in Sides, rx' = rx, NEW t \in Tx, t.st \notin {"ENDACK", "DONE"},
           SetTx(n, t), NEW rest \in Seq(Packets),
           rest = link[n] \/ (link[n] # <<>> /\ rest = Tail(link[n])),
           NEW out, Harmless(out), Exchange(n, rest, out)
    PROVE  Ends'
<1>1. tx'[n] = t /\ tx'[Peer(n)] = tx[Peer(n)]
  BY SetTxFacts DEF Typed
<1>2. Kept(n) /\ out \in Seq(Packets)
  BY DEF Kept, Harmless
<1> QED BY <1>1, <1>2, EndsBy

\* A transmitter stays, or gives up.
LEMMA EndsKeep ==
    ASSUME Typed, Ends, NEW n \in Sides, Kept(n), tx' = tx \/ Give(n), NEW rest \in Seq(Packets),
           rest = link[n] \/ (link[n] # <<>> /\ rest = Tail(link[n])),
           NEW out, Harmless(out), Exchange(n, rest, out)
    PROVE  Ends'
<1>1. /\ tx'[Peer(n)] = tx[Peer(n)] /\ out \in Seq(Packets)
      /\ tx'[n].st \in {"ENDACK", "DONE"} => tx'[n].st = tx[n].st
  BY GiveFacts DEF Typed, Harmless
<1> QED BY <1>1, EndsBy

LEMMA EndsBeginning ==
    ASSUME Typed, Ends, NEW n \in Sides, HTX_START(n) \/ HTX_SWAIT(n) \/ HTX_INITACK(n)
    PROVE  Ends'
<1> DEFINE a == [tx[n] EXCEPT !.st = "SWAIT"]
           b == [tx[n] EXCEPT !.st = "INITACK", !.retries = 0]
           t == [tx[n] EXCEPT !.st = "RINIT", !.retries = 0]
           o == Offer(t, t.list)
           x == Signal("START")
           y == Signal("INIT")
           rest == Tail(link[n])
<1>1. tx[n] \in Tx /\ link[n] \in Seq(Packets) /\ rx' = rx
  BY DEF Typed, HTX_START, HTX_SWAIT, HTX_INITACK
<1>2. /\ a \in Tx /\ b \in Tx /\ a.st \notin {"ENDACK", "DONE"} /\ b.st \notin {"ENDACK", "DONE"}
      /\ t \in Tx /\ t.st \notin {"ENDACK", "DONE"} /\ t.list \in Seq(Files)
  BY <1>1 DEF Tx, TxStates, Beginnings
<1>3. o \in Tx /\ o.st \notin {"ENDACK", "DONE"}
  BY <1>2, OfferFacts
<1>4. Harmless(<<x>>) /\ Harmless(<<y>>)
  <2>1. x \in Packets /\ x.type = "START" /\ y \in Packets /\ y.type = "INIT"
    BY SignalFacts DEF PacketTypes
  <2> HIDE DEF x, y
  <2> QED BY <2>1, HarmlessOne
<1>5. \/ SetTx(n, a) /\ Exchange(n, link[n], <<x>>)
      \/ SetTx(n, b) /\ link[n] # <<>> /\ Exchange(n, rest, <<y>>)
      \/ SetTx(n, t) /\ link[n] # <<>> /\ Exchange(n, rest, <<>>)
      \/ SetTx(n, o) /\ link[n] # <<>> /\ Exchange(n, rest, Finfo(o))
  BY DEF HTX_START, HTX_SWAIT, HTX_INITACK, Send, Answer, Arrived
<1> HIDE DEF a, b, t, o, x, y
<1>6. CASE SetTx(n, a) /\ Exchange(n, link[n], <<x>>)
  BY <1>1, <1>2, <1>4, <1>6, EndsSet
<1>7. CASE SetTx(n, b) /\ link[n] # <<>> /\ Exchange(n, rest, <<y>>)
  BY <1>1, <1>2, <1>4, <1>7, EndsSet, HeadFacts
<1>8. CASE SetTx(n, t) /\ link[n] # <<>> /\ Exchange(n, rest, <<>>)
  BY <1>1, <1>2, <1>8, EndsSet, HeadFacts, HarmlessNone
<1>9. CASE SetTx(n, o) /\ link[n] # <<>> /\ Exchange(n, rest, Finfo(o))
  BY <1>1, <1>3, <1>9, EndsSet, HeadFacts, HarmlessOffer
<1> QED BY <1>5, <1>6, <1>7, <1>8, <1>9

LEMMA EndsInit ==
    ASSUME Typed, Ends, NEW n \in Sides, HRX_INIT(n)
    PROVE  Ends'
<1> DEFINE o == Offer(tx[n], tx[n].list)
           r == [rx[n] EXCEPT !.st = "FINFO"]
           y == Signal("INITACK")
           rest == Tail(link[n])
           two == <<y>> \o Finfo(o)
<1>1. /\ tx[n] \in Tx /\ link[n] # <<>> /\ rx[n] \in Rx /\ tx[n].list \in Seq(Files)
      /\ rx[n].st # "DONE" /\ tx \in [Sides -> Tx]
  BY DEF Typed, HRX_INIT, Arrived, Tx
<1>2. o \in Tx /\ o.st \notin {"ENDACK", "DONE"}
  BY <1>1, OfferFacts
<1>3. rx' = [rx EXCEPT ![n] = r]
  BY DEF HRX_INIT
<1>4. Kept(n)
  BY <1>1, <1>3, PeerFacts DEF Kept, Typed
<1>5. \/ SetTx(n, o) /\ Exchange(n, rest, two)
      \/ tx' = tx /\ Exchange(n, rest, <<y>>)
  BY DEF HRX_INIT, Answer
<1>6. Harmless(<<y>>)
  BY SignalFacts, HarmlessOne DEF PacketTypes
<1> HIDE DEF y, o
<1>7. Harmless(two)
  BY <1>2, <1>6, HarmlessOffer, HarmlessConcat
<1> HIDE DEF two
<1>8. CASE SetTx(n, o) /\ Exchange(n, rest, two)
  <2>1. tx'[n] = o /\ tx'[Peer(n)] = tx[Peer(n)]
    BY <1>1, <1>2, <1>8, SetTxFacts
  <2>2. rest \in Seq(Packets) /\ two \in Seq(Packets)
    BY <1>1, <1>7, HeadFacts DEF Harmless
  <2> QED BY <1>1, <1>2, <1>4, <1>7, <1>8, <2>1, <2>2, EndsBy
<1>9. CASE tx' = tx /\ Exchange(n, rest, <<y>>)
  BY <1>1, <1>4, <1>6, <1>9, EndsKeep, HeadFacts
<1> QED BY <1>5, <1>8, <1>9

LEMMA EndsOffers ==
    ASSUME Typed, Ends, NEW n \in Sides, HTX_FINFOACK(n) \/ HTX_EOFACK(n)
    PROVE  Ends'
<1> DEFINE t == tx[n]
           pos == Head(link[n]).pos
           rest == Tail(link[n])
           a == [t EXCEPT !.st = "REND"]
           b == Begun(t, pos)
           c == [t EXCEPT !.pos = pos]
           o == Offer(c, Tail(t.list))
           z == Offer(t, Tail(t.list))
<1>1. link[n] # <<>> /\ t \in Tx /\ (t.st \in Transfers => t.list # <<>>) /\ rx' = rx
  BY DEF Typed, HTX_FINFOACK, HTX_EOFACK, Arrived
<1>2. rest \in Seq(Packets) /\ pos \in Int
  BY <1>1, HeadFacts
<1>3. \/ SetTx(n, a) /\ Exchange(n, rest, <<>>)
      \/ SetTx(n, b) /\ Exchange(n, rest, <<>>)
      \/ t.list # <<>> /\ SetTx(n, o) /\ Exchange(n, rest, Finfo(o))
      \/ t.list # <<>> /\ SetTx(n, z) /\ Exchange(n, rest, Finfo(z))
  BY <1>1 DEF HTX_FINFOACK, HTX_EOFACK, Answer, Begun, Transfers
<1> HIDE DEF t, pos, rest
<1>4. a \in Tx /\ a.st \notin {"ENDACK", "DONE"}
  BY <1>1 DEF Tx, TxStates, Endings
<1>5. b \in Tx /\ b.st \notin {"ENDACK", "DONE"}
  BY <1>1, <1>2, BegunFacts
<1>6. c \in Tx
  BY <1>1, <1>2 DEF Tx
<1>7. t.list # <<>> => Tail(t.list) \in Seq(Files)
  BY <1>1 DEF Tx
<1> HIDE DEF c
<1>8. t.list # <<>> => /\ o \in Tx /\ o.st \notin {"ENDACK", "DONE"}
                       /\ z \in Tx /\ z.st \notin {"ENDACK", "DONE"}
  BY <1>1, <1>6, <1>7, OfferFacts
<1> HIDE DEF a, b, o, z
<1>9. rest = Tail(link[n])
  BY DEF rest
<1>10. CASE (SetTx(n, a) \/ SetTx(n, b)) /\ Exchange(n, rest, <<>>)
  BY <1>1, <1>2, <1>4, <1>5, <1>9, <1>10, EndsSet, HarmlessNone
<1>11. CASE t.list # <<>> /\ SetTx(n, o) /\ Exchange(n, rest, Finfo(o))
  BY <1>1, <1>2, <1>8, <1>9, <1>11, EndsSet, HarmlessOffer
<1>12. CASE t.list # <<>> /\ SetTx(n, z) /\ Exchange(n, rest, Finfo(z))
  BY <1>1, <1>2, <1>8, <1>9, <1>12, EndsSet, HarmlessOffer
<1> QED BY <1>3, <1>10, <1>11, <1>12


LEMMA EndsData ==
    ASSUME Typed, Ends, NEW n \in Sides, HTX_DATA(n)
    PROVE  Ends'
<1> DEFINE t == tx[n]
           f == Current(t)
           a == [t EXCEPT !.st = "XWAIT"]
           b == [t EXCEPT !.st = "DATAACK"]
           c == [t EXCEPT !.pos = @ + 1]
           d == AtEof(t)
           k == Skipped(t)
           s == [k EXCEPT !.err = TRUE]
           x == Packet("DATA", f, t.pos, 0)
<1>1. /\ t \in Tx /\ t.st = "DATA" /\ t.list # <<>> /\ f \in Files /\ link[n] \in Seq(Packets)
      /\ rx' = rx /\ tx \in [Sides -> Tx]
  BY CurrentFacts DEF Typed, HTX_DATA, Transfers
<1>2. /\ a \in Tx /\ a.st = "XWAIT" /\ b \in Tx /\ b.st = "DATAACK" /\ c \in Tx /\ c.st = "DATA"
  <2> HIDE DEF t
  <2> QED BY <1>1, WaitingFacts
<1>3. d \in Tx /\ d.st = "EOFACK" /\ k \in Tx /\ k.st = "EOFACK"
  BY <1>1, AtEofFacts, SkippedFacts
<1>4. \/ (SetTx(n, a) \/ SetTx(n, b)) /\ link' = link
      \/ SetTx(n, c) /\ Exchange(n, link[n], <<x>>)
      \/ SetTx(n, d) /\ Exchange(n, link[n], Eof(t))
      \/ SetTx(n, s) /\ Exchange(n, link[n], Eof(k))
  BY DEF HTX_DATA, Send
<1>5. Harmless(<<x>>) /\ Harmless(Eof(t)) /\ Harmless(Eof(k))
  <2>1. x \in Packets /\ x.type = "DATA"
    BY <1>1, PacketFacts DEF Tx, Names, PacketTypes
  <2> HIDE DEF x, k
  <2> QED BY <1>1, <1>3, <2>1, HarmlessOne, HarmlessOffer
<1> HIDE DEF k
<1>6. s \in Tx /\ s.st = "EOFACK"
  BY <1>3 DEF Tx
<1> HIDE DEF a, b, c, d, s, x
<1>7. CASE (SetTx(n, a) \/ SetTx(n, b)) /\ link' = link
  <2>1. tx'[n].st \notin {"ENDACK", "DONE"} /\ tx'[Peer(n)] = tx[Peer(n)]
    BY <1>1, <1>2, <1>7, SetTxFacts
  <2> QED BY <1>1, <1>7, <2>1, EndsLinks, SparesSame DEF Kept
<1>8. CASE SetTx(n, c) /\ Exchange(n, link[n], <<x>>)
  BY <1>1, <1>2, <1>5, <1>8, EndsSet
<1>9. CASE SetTx(n, d) /\ Exchange(n, link[n], Eof(t))
  BY <1>1, <1>3, <1>5, <1>9, EndsSet
<1>10. CASE SetTx(n, s) /\ Exchange(n, link[n], Eof(k))
  BY <1>1, <1>5, <1>6, <1>10, EndsSet
<1> QED BY <1>4, <1>7, <1>8, <1>9, <1>10

LEMMA EndsRequests ==
    ASSUME Typed, Ends, NEW n \in Sides, DATAACK(n) \/ RPOS(n)
    PROVE  Ends'
<1> DEFINE t == tx[n]
           p == Head(link[n])
           rest == Tail(link[n])
           i == IF p.pos > t.lastack THEN p.pos ELSE t.lastack
           a == [t EXCEPT !.lastack = i]
           b == [t EXCEPT !.st = "DATA", !.lastack = p.pos, !.retries = 0]
           c == [t EXCEPT !.lastack = p.pos]
           u == IF Known(t, p.id) THEN Retried(t) ELSE t
           v == [u EXCEPT !.pos = -2]
           s == IF p.pos = -2 /\ t.pos # -2 /\ t.st = "EOFACK" THEN AtEof(v) ELSE Skipped(u)
           w == Sought(t, p)
<1>1. link[n] # <<>> /\ t \in Tx /\ t.st \in Transfers /\ rx' = rx /\ tx \in [Sides -> Tx]
  BY DEF Typed, DATAACK, RPOS, Arrived, Transfers
<1>2. rest \in Seq(Packets) /\ p \in Packets /\ p.pos \in Int
  BY <1>1, HeadFacts
<1>3. u \in Tx /\ u.st = t.st
  BY <1>1, RetriedFacts
<1>4. \/ (Give(n) \/ tx' = tx) /\ Exchange(n, rest, <<>>)
      \/ SetTx(n, s) /\ Exchange(n, rest, Eof(s))
      \/ (SetTx(n, u) \/ SetTx(n, w)) /\ Exchange(n, rest, <<>>)
      \/ (SetTx(n, a) \/ SetTx(n, b) \/ SetTx(n, c)) /\ Exchange(n, rest, <<>>)
  BY DEF DATAACK, RPOS, Answer, Sought
<1>5. i \in Int
  BY <1>1, <1>2 DEF Tx
<1>6. w \in Tx /\ w.st \in Transfers
  BY <1>1, <1>2, SoughtFacts
<1> HIDE DEF t, p, i, u, w
<1>7. a \in Tx /\ a.st = t.st /\ c \in Tx /\ c.st = t.st
  BY <1>1, <1>2, <1>5 DEF Tx
<1>8. b \in Tx /\ b.st = "DATA"
  BY <1>1, <1>2 DEF Tx, TxStates, Transfers
<1>9. v \in Tx
  <2> DEFINE z == -2
  <2>1. z \in Int /\ v = [u EXCEPT !.pos = z]
    OBVIOUS
  <2> HIDE DEF z
  <2> QED BY <1>3, <2>1 DEF Tx
<1> HIDE DEF v
<1>10. s \in Tx /\ s.st = "EOFACK"
  BY <1>3, <1>9, AtEofFacts, SkippedFacts
<1> HIDE DEF a, b, c, s
<1>11. Transfers \cap {"ENDACK", "DONE"} = {}
  BY DEF Transfers
<1>12. CASE (Give(n) \/ tx' = tx) /\ Exchange(n, rest, <<>>)
  BY <1>1, <1>2, <1>12, EndsKeep, HarmlessNone DEF Kept
<1>13. CASE SetTx(n, s) /\ Exchange(n, rest, Eof(s))
  BY <1>1, <1>2, <1>10, <1>13, EndsSet, HarmlessOffer
<1>14. CASE (SetTx(n, u) \/ SetTx(n, w)) /\ Exchange(n, rest, <<>>)
  BY <1>1, <1>2, <1>3, <1>6, <1>11, <1>14, EndsSet, HarmlessNone
<1>15. CASE (SetTx(n, a) \/ SetTx(n, b) \/ SetTx(n, c)) /\ Exchange(n, rest, <<>>)
  BY <1>1, <1>2, <1>7, <1>8, <1>11, <1>15, EndsSet, HarmlessNone
<1> QED BY <1>4, <1>12, <1>13, <1>14, <1>15

LEMMA EndsEnd ==
    ASSUME Typed, Ends, NEW n \in Sides, HTX_REND(n) \/ HTX_ENDACK(n)
    PROVE  Ends'
<1> DEFINE t == tx[n]
           a == [t EXCEPT !.st = "ENDACK", !.retries = 0]
           b == [t EXCEPT !.st = "DONE"]
           x == Signal("END")
<1>1. /\ t \in Tx /\ link[n] \in Seq(Packets) /\ x \in Packets /\ tx \in [Sides -> Tx] /\ rx' = rx
      /\ link \in [Sides -> Seq(Packets)]
  BY SignalFacts DEF Typed, PacketTypes, HTX_REND, HTX_ENDACK
<1>2. a \in Tx /\ a.st = "ENDACK" /\ b \in Tx /\ b.st = "DONE"
  BY <1>1 DEF Tx, TxStates, Endings
<1>3. \/ SetTx(n, a) /\ Exchange(n, link[n], <<x, x>>)
      \/ SetTx(n, a) /\ link[n] # <<>> /\ Exchange(n, Tail(link[n]), <<x, x>>)
      \/ /\ SetTx(n, b) /\ link[n] # <<>> /\ Exchange(n, Tail(link[n]), <<x, x, x>>)
         /\ Head(link[n]).type = "END"
  BY DEF HTX_REND, HTX_ENDACK, Send, Answer, Arrived
<1>4. rx[n].st = "DONE"
  BY DEF HTX_REND, HTX_ENDACK, Received, Ends
<1> HIDE DEF a, b, x
<1>5. link'[n] = link[n] \/ (link[n] # <<>> /\ link'[n] = Tail(link[n]))
  BY <1>1, <1>3, ExchangeTwo, ExchangeThree, HeadFacts
<1>6. Spares(link[n], link'[n], {"END"})
  BY <1>5, HeadFacts, SparesLess, SparesSame
<1>7. tx'[Peer(n)] = tx[Peer(n)] /\ (tx'[n].st = "DONE" => rx[Peer(n)].st = "DONE")
  <2>1. CASE SetTx(n, a)
    BY <1>1, <1>2, <2>1, SetTxFacts
  <2>2. CASE SetTx(n, b) /\ link[n] # <<>> /\ Head(link[n]).type = "END"
    BY <1>1, <1>2, <2>2, SetTxFacts, HeadFacts DEF Ends
  <2> QED BY <1>3, <2>1, <2>2
<1> QED BY <1>1, <1>4, <1>6, <1>7, EndsLinks DEF Kept

LEMMA EndsTxTimeout ==
    ASSUME Typed, Ends, NEW n \in Sides, TxTimeout(n)
    PROVE  Ends'
<1> DEFINE t == tx[n]
           u == Retried(t)
           x == Signal("IDLE")
           y == Signal("START")
           z == Signal("INIT")
<1>1. t \in Tx /\ link[n] \in Seq(Packets) /\ tx \in [Sides -> Tx] /\ Kept(n)
  BY DEF Typed, TxTimeout, Kept
<1>2. \/ Give(n) /\ link' = link
      \/ SetTx(n, u) /\ Exchange(n, link[n], Resent(t))
      \/ tx' = tx /\ Exchange(n, link[n], <<x>>)
  BY DEF TxTimeout, Send
<1>3. u \in Tx /\ u.st = t.st
  BY <1>1, RetriedFacts
<1>4. Harmless(<<x>>) /\ Harmless(<<y>>) /\ Harmless(<<z>>)
  BY SignalFacts, HarmlessOne DEF PacketTypes
<1>5. t.st = "ENDACK" \/ Resent(t) \in {<<>>, <<y>>, <<z>>, Finfo(t), Eof(t)}
  BY DEF Resent
<1> HIDE DEF u, x, y, z
<1>6. CASE Give(n) /\ link' = link
  <2>1. tx'[n].st = "Abort" /\ tx'[Peer(n)] = tx[Peer(n)]
    BY <1>1, <1>6, GiveFacts
  <2> QED BY <1>1, <1>6, <2>1, EndsLinks, SparesSame
<1>7. CASE tx' = tx /\ Exchange(n, link[n], <<x>>)
  BY <1>1, <1>4, <1>7, EndsKeep
<1>8. CASE SetTx(n, u) /\ Exchange(n, link[n], Resent(t))
  <2>1. tx'[n].st = tx[n].st /\ tx'[Peer(n)] = tx[Peer(n)]
    BY <1>1, <1>3, <1>8, SetTxFacts
  <2>2. Harmless(Resent(t)) \/ rx[n].st = "DONE"
    <3>1. CASE t.st = "ENDACK"
      BY <3>1 DEF Ends
    <3>2. CASE Resent(t) \in {<<>>, <<y>>, <<z>>, Finfo(t), Eof(t)}
      BY <1>1, <1>4, <3>2, HarmlessNone, HarmlessOffer
    <3> QED BY <1>5, <3>1, <3>2
  <2> QED BY <1>1, <1>8, <2>1, <2>2, EndsBy, ResentFacts
<1> QED BY <1>2, <1>6, <1>7, <1>8

\* The receiver stays where it is, and may ask for that position.
LEMMA EndsStays ==
    ASSUME Typed, Ends, NEW n \in Sides, rx[n].st = "DATA", NEW r \in Rx, r.st = "DATA", r.file \in Files,
           NEW rest \in Seq(Packets), rest = link[n] \/ (link[n] # <<>> /\ rest = Tail(link[n])),
           Stays(n, r, rest)
    PROVE  Ends'
<1>1. PICK s \in Rx : Same(r, s) /\ rx' = [rx EXCEPT ![n] = s]
  BY DEF Stays
<1>2. Kept(n)
  <2>1. rx'[Peer(n)] = rx[Peer(n)]
    BY <1>1, PeerFacts DEF Typed
  <2> QED BY <2>1 DEF Kept
<1>3. CASE (Give(n) \/ tx' = tx) /\ Exchange(n, rest, <<>>)
  BY <1>2, <1>3, EndsKeep, HarmlessNone
<1>4. CASE tx' = tx /\ \E x \in Packets : x.type = "RPOS" /\ x.pos = r.pos /\ Exchange(n, rest, <<x>>)
  <2>1. PICK x \in Packets : x.type = "RPOS" /\ Exchange(n, rest, <<x>>)
    BY <1>4
  <2> QED BY <1>2, <1>4, <2>1, EndsKeep, HarmlessOne
<1> QED BY <1>3, <1>4 DEF Stays

LEMMA EndsFinfo ==
    ASSUME Typed, Ends, NEW n \in Sides, HRX_FINFO(n) \/ FinfoAgain(n)
    PROVE  Ends'
<1> DEFINE rest == Tail(link[n])
           c == [tx[n] EXCEPT !.st = "DATA"]
<1>1. /\ link[n] # <<>> /\ tx[n] \in Tx /\ tx \in [Sides -> Tx] /\ rx \in [Sides -> Rx]
  BY DEF Typed, HRX_FINFO, FinfoAgain, Arrived
<1>2. rest \in Seq(Packets)
  BY <1>1, HeadFacts
<1>3. Kept(n)
  <2>1. CASE HRX_FINFO(n)
    <3>1. rx[n].st = "FINFO" /\ (rx' = rx \/ \E r : rx' = [rx EXCEPT ![n] = r])
      BY <2>1 DEF HRX_FINFO
    <3> QED BY <1>1, <3>1, PeerFacts DEF Kept
  <2>2. CASE FinfoAgain(n)
    BY <2>2 DEF FinfoAgain, Kept
  <2> QED BY <2>1, <2>2
<1>4. /\ tx' = tx \/ SetTx(n, c)
      /\ \E i \in Int : Exchange(n, rest, <<Number("FINFOACK", i)>>)
  <2>1. CASE HRX_FINFO(n)
    <3> DEFINE f == Head(link[n]).file
               k == Len(inbox[f])
    <3>1. f \in Names
      BY <1>1, HeadFacts
    <3>2. f # EndOfBatch => k \in Int
      <4>1. f # EndOfBatch => inbox[f] \in Seq(Marks)
        BY <3>1 DEF Typed, Boxes, Names
      <4> QED BY <4>1
    <3>3. [rx[n] EXCEPT !.st = "DATA", !.file = f, !.pos = k,
                        !.syncid = 0, !.lastsync = 0, !.retries = 0, !.timer = FALSE].pos = k
      BY <1>1 DEF Rx
    <3>4. /\ tx' = tx \/ SetTx(n, c)
          /\ \/ Exchange(n, rest, <<Number("FINFOACK", 0)>>)
             \/ Exchange(n, rest, <<Number("FINFOACK", -1)>>)
             \/ f # EndOfBatch /\ Exchange(n, rest, <<Number("FINFOACK", k)>>)
             \/ Exchange(n, rest, <<Number("FINFOACK", -2)>>)
      BY <2>1, <3>3 DEF HRX_FINFO, Answer
    <3>5. 0 \in Int /\ -1 \in Int /\ -2 \in Int
      OBVIOUS
    <3> QED BY <3>2, <3>4, <3>5
  <2>2. CASE FinfoAgain(n)
    <3> DEFINE k == IF rx[n].st = "DATA" THEN rx[n].pos ELSE -2
    <3>1. rx[n].pos \in Int
      BY <1>1 DEF Rx
    <3>2. k \in Int
      BY <3>1
    <3>3. tx' = tx /\ Exchange(n, rest, <<Number("FINFOACK", k)>>)
      BY <2>2 DEF FinfoAgain, Answer
    <3> HIDE DEF k
    <3> QED BY <3>2, <3>3
  <2> QED BY <2>1, <2>2
<1>5. PICK i \in Int : Exchange(n, rest, <<Number("FINFOACK", i)>>)
  BY <1>4
<1> DEFINE x == Number("FINFOACK", i)
<1>6. x \in Packets /\ x.type = "FINFOACK"
  BY NumberFacts DEF PacketTypes
<1> HIDE DEF x
<1>7. Harmless(<<x>>) /\ <<x>> \in Seq(Packets)
  BY <1>6, HarmlessOne DEF Harmless
<1>8. tx'[Peer(n)] = tx[Peer(n)] /\ (tx'[n].st \in {"ENDACK", "DONE"} => tx'[n].st = tx[n].st)
  <2>1. CASE tx' = tx
    BY <2>1
  <2>2. CASE SetTx(n, c)
    <3>1. c.st = "DATA"
      BY <1>1 DEF Tx
    <3>2. tx'[n] = c /\ tx'[Peer(n)] = tx[Peer(n)]
      BY <1>1, <2>2, PeerFacts DEF SetTx
    <3> QED BY <3>1, <3>2
  <2> QED BY <1>4, <2>1, <2>2
<1> QED BY <1>1, <1>2, <1>3, <1>5, <1>7, <1>8, EndsBy DEF x

LEMMA EndsBlock ==
    ASSUME Typed, Ends, NEW n \in Sides, HRX_DATA(n)
    PROVE  Ends'
<1> DEFINE r == rx[n]
           p == Head(link[n])
           rest == Tail(link[n])
           x == Number("DATAACK", r.pos + 1)
<1>1. /\ link[n] # <<>> /\ r \in Rx /\ r.st = "DATA" /\ r.file \in Files /\ r.pos \in Int
      /\ rx \in [Sides -> Rx]
  BY DEF Typed, HRX_DATA, Arrived, Rx
<1>2. rest \in Seq(Packets) /\ p.pos \in Int
  BY <1>1, HeadFacts
<1>3. Harmless(<<x>>)
  <2>1. x \in Packets /\ x.type = "DATAACK"
    BY <1>1, NumberFacts DEF PacketTypes
  <2> HIDE DEF x
  <2> QED BY <2>1, HarmlessOne
<1>4. \/ /\ \E s : rx' = [rx EXCEPT ![n] = s]
         /\ Exchange(n, rest, <<x>>) \/ Exchange(n, rest, <<>>)
         /\ tx' = tx
      \/ Misplaced(n, r, p.pos)
  BY DEF HRX_DATA, Answer
<1> HIDE DEF x
<1>5. CASE /\ \E s : rx' = [rx EXCEPT ![n] = s]
           /\ Exchange(n, rest, <<x>>) \/ Exchange(n, rest, <<>>)
           /\ tx' = tx
  <2>1. Kept(n)
    BY <1>1, <1>5, PeerFacts DEF Kept
  <2> QED BY <1>1, <1>2, <1>3, <1>5, <2>1, EndsKeep, HarmlessNone
<1>6. CASE Misplaced(n, r, p.pos)
  BY <1>1, <1>2, <1>6, MisplacedFacts, EndsStays
<1> QED BY <1>4, <1>5, <1>6

LEMMA EndsEof ==
    ASSUME Typed, Ends, NEW n \in Sides, HRX_EOF(n)
    PROVE  Ends'
<1> DEFINE r == rx[n]
           p == Head(link[n])
           rest == Tail(link[n])
           b == [r EXCEPT !.pos = -2]
           x == Signal("EOFACK")
<1>1. /\ link[n] # <<>> /\ r \in Rx /\ (r.st = "DATA" => r.file \in Files) /\ rx \in [Sides -> Rx]
      /\ r.st # "DONE"
  BY DEF Typed, HRX_EOF, Arrived
<1>2. rest \in Seq(Packets) /\ p.pos \in Int
  BY <1>1, HeadFacts
<1>3. Harmless(<<x>>)
  BY SignalFacts, HarmlessOne DEF PacketTypes
<1>4. \/ /\ rx' = rx \/ \E s : rx' = [rx EXCEPT ![n] = s]
         /\ Exchange(n, rest, <<x>>) /\ tx' = tx
      \/ r.st = "DATA" /\ Misplaced(n, b, p.pos)
      \/ r.st = "DATA" /\ Misplaced(n, r, p.pos)
  BY DEF HRX_EOF, Answer
<1>5. b \in Rx /\ b.file = r.file /\ b.st = r.st
  BY <1>1, SpoiltFacts
<1> HIDE DEF b, x
<1>6. CASE /\ rx' = rx \/ \E s : rx' = [rx EXCEPT ![n] = s]
           /\ Exchange(n, rest, <<x>>) /\ tx' = tx
  <2>1. Kept(n)
    BY <1>1, <1>6, PeerFacts DEF Kept
  <2> QED BY <1>1, <1>2, <1>3, <1>6, <2>1, EndsKeep
<1>7. CASE r.st = "DATA" /\ Misplaced(n, b, p.pos)
  <2>1. Stays(n, b, rest)
    BY <1>2, <1>5, <1>7, MisplacedFacts
  <2> QED BY <1>1, <1>2, <1>5, <1>7, <2>1, EndsStays
<1>8. CASE r.st = "DATA" /\ Misplaced(n, r, p.pos)
  BY <1>1, <1>2, <1>8, MisplacedFacts, EndsStays
<1> QED BY <1>4, <1>6, <1>7, <1>8

LEMMA EndsRest ==
    ASSUME Typed, Ends, NEW n \in Sides, RxTimeout(n) \/ Ignore(n) \/ Lose(n) \/ Stop(n)
    PROVE  Ends'
<1>0. /\ rx[n] \in Rx /\ link[n] \in Seq(Packets) /\ (rx[n].st = "DATA" => rx[n].file \in Files)
      /\ tx \in [Sides -> Tx]
  BY DEF Typed
<1>1. CASE RxTimeout(n)
  <2>1. Stays(n, rx[n], link[n]) /\ rx[n].st = "DATA"
    BY <1>0, <1>1, ResyncFacts DEF RxTimeout
  <2> QED BY <1>0, <2>1, EndsStays
<1>2. CASE Ignore(n)
  <2>1. link[n] # <<>> /\ Exchange(n, Tail(link[n]), <<>>) /\ tx' = tx /\ Kept(n)
    BY <1>2 DEF Ignore, Answer, Kept
  <2> QED BY <2>1, EndsKeep, HarmlessNone, HeadFacts
<1>3. CASE Lose(n)
  <2>1. link[n] # <<>> /\ link' = [link EXCEPT ![n] = Tail(link[n])] /\ tx' = tx /\ Kept(n)
    BY <1>3 DEF Lose, Kept
  <2>2. link'[n] = Tail(link[n]) /\ link'[Peer(n)] = link[Peer(n)]
    BY <2>1, PeerFacts DEF Typed
  <2>3. Spares(link[n], link'[n], {"END"})
    BY <2>1, <2>2, HeadFacts, SparesLess
  <2>4. /\ tx'[n].st \in {"ENDACK", "DONE"} => rx[n].st = "DONE"
        /\ tx'[n].st = "DONE" => rx[Peer(n)].st = "DONE"
    BY <2>1 DEF Ends
  <2> QED BY <2>1, <2>2, <2>3, <2>4, EndsLinks, SparesSame
<1>4. CASE Stop(n)
  <2>1. Give(n) /\ link' = link /\ Kept(n)
    BY <1>4, StopFacts DEF Kept
  <2>2. tx'[n].st = "Abort" /\ tx'[Peer(n)] = tx[Peer(n)]
    BY <1>0, <2>1, GiveFacts
  <2> QED BY <2>1, <2>2, EndsLinks, SparesSame
<1> QED BY <1>1, <1>2, <1>3, <1>4

LEMMA EndsNext ==
    ASSUME Typed, Ends, [Next]_vars
    PROVE  Ends'
<1>1. CASE UNCHANGED vars
  BY <1>1 DEF Ends, On, vars
<1>2. CASE Next
  <2>1. PICK n \in Sides :
           \/ Transmit(n) \/ Receive(n) \/ TxTimeout(n) \/ RxTimeout(n)
           \/ Lose(n) \/ CarrierLost(n)
    BY <1>2 DEF Next
  <2> QED BY <2>1, EndsBeginning, EndsInit, EndsOffers, EndsData, EndsRequests, EndsEnd, EndsTxTimeout,
             EndsFinfo, EndsBlock, EndsEof, EndsRest
          DEF Transmit, Receive, Stop
<1> QED BY <1>1, <1>2

-----------------------------------------------------------------------------
(* The invariant. *)

LEMMA Idle ==
    ASSUME Whole, Delivered, inbox' = inbox, sent' = sent
    PROVE  Whole' /\ Delivered'
<1>1. Whole'
  BY DEF Whole
<1>2. Delivered'
  BY DEF Delivered, Blocks
<1> QED BY <1>1, <1>2

LEMMA WaysNext ==
    ASSUME Typed, Orderly(work), Ways, Whole, Delivered, [Next]_vars
    PROVE  work' = work /\ Ways' /\ Whole' /\ Delivered'
<1>1. CASE UNCHANGED vars
  <2>1. work' = work /\ inbox' = inbox /\ sent' = sent
    BY <1>1 DEF vars
  <2>2. Ways'
    BY <1>1 DEF vars, Ways, Outgoing, Mine
  <2> QED BY <2>1, <2>2, Idle
<1>2. CASE Next
  <2>1. PICK n \in Sides :
           \/ Transmit(n) \/ Receive(n) \/ TxTimeout(n) \/ RxTimeout(n)
           \/ Lose(n) \/ CarrierLost(n)
    BY <1>2 DEF Next
  <2>2. CASE \/ HTX_START(n) \/ HTX_SWAIT(n) \/ HTX_INITACK(n) \/ HRX_INIT(n)
             \/ HTX_DATA(n) \/ DATAACK(n) \/ RPOS(n) \/ HTX_REND(n) \/ HTX_ENDACK(n) \/ TxTimeout(n)
    <3>1. work' = work /\ inbox' = inbox /\ sent' = sent
      BY <2>2 DEF HTX_START, HTX_SWAIT, HTX_INITACK, HRX_INIT, HTX_DATA, DATAACK, RPOS, HTX_REND,
                  HTX_ENDACK, TxTimeout
    <3>2. Ways'
      BY <2>2, WaysStart, WaysInitack, WaysInit, WaysData, WaysDataack, WaysRpos, WaysEnd,
         WaysTxTimeout
    <3> QED BY <3>1, <3>2, Idle
  <2>3. CASE HRX_FINFO(n) \/ FinfoAgain(n) \/ HRX_EOF(n)
    <3>1. work' = work /\ inbox' = inbox /\ sent' = sent
      BY <2>3 DEF HRX_FINFO, FinfoAgain, HRX_EOF
    <3> QED BY <2>3, <3>1, WaysFinfo, WaysAgain, WaysEof, Idle
  <2>4. CASE RxTimeout(n) \/ Ignore(n) \/ Lose(n) \/ Stop(n)
    <3>1. work' = work /\ inbox' = inbox /\ sent' = sent
      BY <2>4, StopFacts DEF RxTimeout, Ignore, Lose
    <3> QED BY <2>4, <3>1, WaysRest, Idle
  <2>5. CASE HTX_FINFOACK(n) \/ HTX_EOFACK(n)
    <3>1. work' = work /\ inbox' = inbox
      BY <2>5 DEF HTX_FINFOACK, HTX_EOFACK
    <3>2. Whole'
      BY <3>1 DEF Whole
    <3> QED BY <2>5, <3>1, <3>2, WaysFinfoack, WaysEofack
  <2>6. CASE HRX_DATA(n)
    <3>1. work' = work
      BY <2>6 DEF HRX_DATA
    <3> QED BY <2>6, <3>1, WaysBlock
  <2> QED BY <2>1, <2>2, <2>3, <2>4, <2>5, <2>6 DEF Transmit, Receive, Stop
<1> QED BY <1>1, <1>2

\* At the beginning nothing is on its way, and every file is still to be offered.
LEMMA WayInit ==
    ASSUME NEW e, NEW mine, NEW lk, NEW list \in Seq(Files), NEW q, NEW box, NEW ref,
           \A i \in 1..Len(list) : list[i] \in mine,
           \A f \in mine : \E i \in 1..Len(list) : list[i] = f,
           \A i, j \in 1..Len(list) : list[i] = list[j] => i = j,
           e = TRUE => \A i \in 1..Len(list) : Len(box[list[i]]) < Size[list[i]]
    PROVE  Way(e, mine, lk, Transmitter(list), q, Receiver, <<>>, <<>>, box, {}, ref)
<1>1. On(<<>>) = {}
  BY EmptySeq DEF On
<1>2. Transmitter(list).st = "START" /\ Transmitter(list).list = list /\ Receiver.st = "INIT"
  BY DEF Transmitter, Receiver
<1> DEFINE t == Transmitter(list)
           R == Receiver
           F == <<>>
<1>3. On(F) = {} /\ t.st = "START" /\ t.list = list /\ R.st = "INIT"
  BY <1>1, <1>2
<1> HIDE DEF t, R, F
<1>4. Stream(mine, R, F) /\ Writer(mine, R, box, ref)
  BY <1>3 DEF Stream, Writer
<1>5. Listed(e, mine, lk, t, R, F, box, {}, ref)
  BY <1>3 DEF Listed
<1>6. Beginning(t, R, F, F) /\ Ending(t, R)
  BY <1>3 DEF Beginning, None, Ending, Endings
<1>7. Offering(e, t, q, R, F, F, box, ref) /\ Transfer(t, q, R, F, F, box, ref)
  BY <1>3 DEF Offering, Transfer, Transfers
<1> QED BY <1>4, <1>5, <1>6, <1>7 DEF Way, t, R, F

LEMMA InitPart ==
    ASSUME Init, NEW f \in Files
    PROVE  /\ Len(inbox[f]) = work.part[f] /\ work.part[f] \in 0..Size[f] /\ Size[f] \in Nat
           /\ \A i \in 1..Len(inbox[f]) : inbox[f][i] = <<f, i - 1>>
<1>1. work \in Workload /\ work.part[f] <= Size[f] /\ Size[f] \in Nat
  BY WorkloadAssumption, HydraAssumption DEF Init
<1>2. work.part[f] \in Nat
  BY <1>1 DEF Workload
<1>3. inbox[f] = SubSeq(Blocks(f), 1, work.part[f])
  BY DEF Init
<1>4. Blocks(f) \in Seq(Marks) /\ Len(Blocks(f)) = Size[f] /\ \A i \in 1..Size[f] : Blocks(f)[i] = <<f, i - 1>>
  BY BlocksFacts
<1> DEFINE k == work.part[f]
           B == Blocks(f)
           S == SubSeq(B, 1, k)
<1>5. k \in 0..Size[f]
  BY <1>1, <1>2
<1>6. Len(S) = k /\ \A i \in 1..k : S[i] = B[i]
  <2> HIDE DEF k, B
  <2>1. B \in Seq(Marks) /\ Len(B) = Size[f]
    BY <1>4 DEF B
  <2> QED BY <1>1, <1>5, <2>1
<1> HIDE DEF B
<1> QED BY <1>1, <1>3, <1>4, <1>5, <1>6 DEF B

LEMMA WaysInit0 ==
    ASSUME Init, Orderly(work)
    PROVE  Ways /\ Whole /\ Delivered
<1>1. work \in Workload
  BY WorkloadAssumption DEF Init
<1>2. ASSUME NEW n \in Sides
      PROVE  Outgoing(n, tx[n], link[Peer(n)], link[n], sent[n], refused)
  <2> DEFINE list == work.out[n]
  <2>1. list \in Seq(Files) /\ DOMAIN list = 1..Len(list)
    BY <1>1 DEF Workload
  <2>2. /\ tx[n] = Transmitter(list) /\ rx[Peer(n)] = Receiver /\ link[Peer(n)] = <<>> /\ link[n] = <<>>
        /\ sent[n] = {}
    BY PeerFacts DEF Init
  <2>3. /\ \A i \in 1..Len(list) : list[i] \in Mine(n)
        /\ \A f \in Mine(n) : \E i \in 1..Len(list) : list[i] = f
    BY <2>1 DEF Mine
  <2>4. \A i, j \in 1..Len(list) : list[i] = list[j] => i = j
    BY <2>1 DEF Orderly
  <2>5. work.early = TRUE => \A i \in 1..Len(list) : Len(inbox[list[i]]) < Size[list[i]]
    <3> SUFFICES ASSUME work.early = TRUE, NEW i \in 1..Len(list)
                 PROVE  Len(inbox[list[i]]) < Size[list[i]]
      OBVIOUS
    <3>1. work.part[list[i]] < Size[list[i]]
      BY <2>1 DEF Orderly
    <3>2. list[i] \in Files
      BY <2>1
    <3> QED BY <3>1, <3>2, InitPart
  <2> HIDE DEF list
  <2>6. Way(work.early, Mine(n), work.locked, Transmitter(list), tx[Peer(n)].st, Receiver, <<>>, <<>>,
            inbox, {}, refused)
    BY <2>1, <2>3, <2>4, <2>5, WayInit
  <2> QED BY <2>2, <2>6 DEF Outgoing
<1>3. Whole
  BY InitPart DEF Whole
<1>4. Delivered
  BY DEF Delivered, Init
<1> QED BY <1>2, <1>3, <1>4 DEF Ways

LEMMA EndsInit0 ==
    ASSUME Init
    PROVE  Ends
<1> SUFFICES ASSUME NEW n \in Sides
             PROVE  On(link[n]) = {} /\ tx[n].st = "START"
  BY DEF Ends
<1> QED BY EmptySeq DEF Init, On, Transmitter

LEMMA WorkStays ==
    ASSUME [Next]_vars
    PROVE  work' = work
<1>1. ASSUME NEW n \in Sides, Transmit(n)
      PROVE  work' = work
  BY <1>1 DEF Transmit, HTX_START, HTX_DATA, HTX_DATAACK, HTX_REND
<1>2. ASSUME NEW n \in Sides, Receive(n)
      PROVE  work' = work
  <2>1. CASE HTX_SWAIT(n) \/ HTX_INITACK(n) \/ HRX_INIT(n) \/ HTX_FINFOACK(n) \/ HTX_EOFACK(n)
    BY <2>1 DEF HTX_SWAIT, HTX_INITACK, HRX_INIT, HTX_FINFOACK, HTX_EOFACK
  <2>2. CASE DATAACK(n) \/ RPOS(n) \/ HTX_ENDACK(n) \/ Ignore(n) \/ HangUp(n)
    BY <2>2 DEF DATAACK, RPOS, HTX_ENDACK, Ignore, HangUp
  <2>3. CASE HRX_FINFO(n) \/ FinfoAgain(n) \/ HRX_DATA(n) \/ HRX_EOF(n)
    BY <2>3 DEF HRX_FINFO, FinfoAgain, HRX_DATA, HRX_EOF
  <2> QED BY <1>2, <2>1, <2>2, <2>3 DEF Receive
<1>3. ASSUME NEW n \in Sides, TxTimeout(n) \/ RxTimeout(n) \/ Lose(n) \/ CarrierLost(n)
      PROVE  work' = work
  BY <1>3 DEF TxTimeout, RxTimeout, Lose, CarrierLost
<1>4. CASE UNCHANGED vars
  BY <1>4 DEF vars
<1> QED BY <1>1, <1>2, <1>3, <1>4 DEF Next

\* What holds in every state of every batch, and in addition in those of an orderly one.
Inv == Typed /\ Ends /\ (Orderly(work) => Ways /\ Whole /\ Delivered)

\* Every state of a batch is well typed, END is on its way only from a side that has received
\* everything, and in an orderly batch (Orderly) both directions are in step: what is on the
\* line belongs to the file that hydra_batch's transmitter and the other side's receiver are
\* at, or is read as an answer to the offer that was made.
THEOREM HydraInvariant == Spec => []Inv
<1>1. Init => Inv
  BY TypedInit, EndsInit0, WaysInit0 DEF Inv
<1>2. Inv /\ [Next]_vars => Inv'
  <2> SUFFICES ASSUME Inv, [Next]_vars
               PROVE  Inv'
    OBVIOUS
  <2>1. Typed' /\ Ends'
    BY TypedNext, EndsNext DEF Inv
  <2>2. work' = work
    BY WorkStays
  <2>3. Orderly(work) => Ways' /\ Whole' /\ Delivered'
    BY WaysNext DEF Inv
  <2>4. Orderly(work)' = Orderly(work)
    BY <2>2 DEF Orderly
  <2> QED BY <2>1, <2>3, <2>4 DEF Inv
<1> QED BY <1>1, <1>2, PTL DEF Spec

\* execute_disposition: in an orderly batch the sender lets go of a file (HTX_EOFACK, or
\* HTX_FINFOACK when the other side has it) only when the receiver has the whole of it,
\* whatever hyrxpkt dropped and however often packets were repeated.
THEOREM HydraDelivered == Spec => [](Orderly(work) => Delivered)
<1>1. Inv => (Orderly(work) => Delivered)
  BY DEF Inv
<1> QED BY <1>1, HydraInvariant, PTL

\* HRX_DATA: in an orderly batch what has been written of a file is a beginning of it, with no
\* block of another file, none missing and none twice.
THEOREM HydraIntact == Spec => [](Orderly(work) => Intact)
<1>1. ASSUME Typed, Whole
      PROVE  Intact
  <2> SUFFICES ASSUME NEW f \in Files
               PROVE  inbox[f] = SubSeq(Blocks(f), 1, Len(inbox[f]))
    BY DEF Intact
  <2> DEFINE b == inbox[f]
             B == Blocks(f)
             k == Len(b)
             S == SubSeq(B, 1, k)
  <2>1. /\ b \in Seq(Marks) /\ k \in 0..Size[f] /\ Size[f] \in Nat
        /\ B \in Seq(Marks) /\ Len(B) = Size[f]
    BY <1>1, WholeFacts, BlocksFacts
  <2>2. \A i \in 1..k : b[i] = B[i]
    <3>1. \A i \in 1..k : i \in 1..Size[f] /\ b[i] = <<f, i - 1>>
      BY <1>1, <2>1 DEF Whole
    <3> QED BY <3>1, BlocksFacts
  <2> HIDE DEF b, B
  <2>3. S \in Seq(Marks) /\ Len(S) = k /\ \A i \in 1..k : S[i] = B[i]
    <3> HIDE DEF k
    <3> QED BY <2>1
  <2>4. \A i \in 1..Len(b) : b[i] = S[i]
    BY <2>2, <2>3
  <2>5. b = S
    <3> HIDE DEF S
    <3> QED BY <2>1, <2>3, <2>4, SeqEqual
  <2> QED BY <2>5 DEF b, B
<1>2. Inv => (Orderly(work) => Intact)
  BY <1>1 DEF Inv
<1> QED BY <1>2, HydraInvariant, PTL

\* HTX_ENDACK: a side that ends an orderly batch well has offered all its files, and so has the
\* other side; each file was transferred, refused, or could not be opened by its sender.
THEOREM HydraGoodIsComplete == Spec => [](Orderly(work) => GoodIsComplete)
<1>1. ASSUME Typed, Ends, Ways
      PROVE  GoodIsComplete
  <2> SUFFICES ASSUME NEW n \in Sides, tx[n].st = "DONE"
               PROVE  /\ rx["org"].st = "DONE" /\ rx["ans"].st = "DONE"
                      /\ \A m \in Sides : \A i \in DOMAIN work.out[m] :
                            work.out[m][i] \in sent[m] \cup refused \cup work.locked
    BY DEF GoodIsComplete
  <2>1. rx[n].st = "DONE" /\ rx[Peer(n)].st = "DONE"
    BY <1>1 DEF Ends
  <2>2. rx["org"].st = "DONE" /\ rx["ans"].st = "DONE"
    BY <2>1 DEF Sides, Peer
  <2>3. ASSUME NEW m \in Sides, NEW i \in DOMAIN work.out[m]
        PROVE  work.out[m][i] \in sent[m] \cup refused \cup work.locked
    <3> DEFINE f == work.out[m][i]
    <3>1. f \in Mine(m)
      BY DEF Mine
    <3>2. rx[Peer(m)].st = "DONE"
      BY <2>2, PeerFacts DEF Sides
    <3>3. /\ rx[Peer(m)].st = "DONE" => tx[m].list = <<>>
          /\ \A g \in Mine(m) : g \in sent[m] \cup refused \cup work.locked
                                \/ \E j \in 1..Len(tx[m].list) : tx[m].list[j] = g
      BY <1>1 DEF Ways, Outgoing, Way, Listed
    <3> HIDE DEF f
    <3>4. f \in sent[m] \cup refused \cup work.locked \/ \E j \in 1..Len(<<>>) : TRUE
      BY <3>1, <3>2, <3>3
    <3> QED BY <3>4, EmptySeq DEF f
  <2> QED BY <2>2, <2>3
<1>2. Inv => (Orderly(work) => GoodIsComplete)
  BY <1>1 DEF Inv
<1> QED BY <1>2, HydraInvariant, PTL
=============================================================================
