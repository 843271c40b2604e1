------------------------- MODULE BinkpSession_proofs --------------------------
(***************************************************************************)
(* Proofs about BinkpSession, for any files, any workload and any number   *)
(* of sessions and faults.                                                 *)
(***************************************************************************)
EXTENDS BinkpSession, SequenceTheorems, WellFoundedInduction, TLAPS

-----------------------------------------------------------------------------
(* Types. *)

AboutFile == {"FILE", "DATA", "GET", "GOT", "SKIP"}

Frames ==
    {m \in [cmd: AboutFile \cup {"NUL", "EOB", "ERR", "BSY"}, file: Files \cup {None},
            n: Nat, ver: Nat] : m.cmd \in AboutFile => m.file \in Files}

Blocks == Files \X Nat \X Nat

ListStates == {"none", "NoState", "Sending", "IsSent", "Got", "Skipped"}

FtStates == {"Switch", "Transmit", "good", "bad", "crash"}

TxStates == {"GNF", "TryR", "WLA", "Done"}

RxStates == {"WaitF", "ReceD", "EOB", "Done"}

Name == Files \cup {None}

Handle == Files \cup {None, "freed"}

List == [Files -> ListStates]

Offsets == [Files -> Nat]

(* The answers to a file, which the receiver leaves to the transmitter. *)
Answer(m) == m.cmd \in {"GET", "GOT", "SKIP"}

Answers == {m \in Frames : Answer(m)}

Queue == Seq(Answers)

Count == 0..3

Flag == BOOLEAN

Side ==
    [ft: FtStates, tx: TxStates, cur: Name, fp: Name, pos: Nat, list: List, off: Offsets,
     queue: Queue, rx: RxStates, rname: Name, rver: Nat, rpos: Nat, rbytes: Nat,
     rfp: Handle, inf: Name, crcerr: Nat, local_EOB: Flag, remote_EOB: Flag,
     messages: Count, batchnr: Nat]

Ended(r) == r.ft \in {"good", "bad", "crash"}

(* A file is open while it is sent or received. *)
Open(r) ==
    ~Ended(r) => /\ r.tx = "TryR" => r.fp \in Files /\ r.cur \in Files
                 /\ r.rx = "ReceD" => r.rfp \in Files /\ r.rname \in Files

TypeOK ==
    /\ work \in Workload /\ session \in Nat /\ faults \in Nat /\ link \in BOOLEAN
    /\ chan \in [Sides -> Seq(Frames)]
    /\ st \in [Sides -> Side] /\ \A s \in Sides : Open(st[s])
    /\ ver \in [Files -> Nat]
    /\ gone \in [Sides -> SUBSET Files]
    /\ part \in [Sides -> [Files -> Seq(Blocks)]]
    /\ inbound \in [Sides -> [Files -> Seq(Blocks)]]

(* What the transmitter and the receiver of a side keep. *)
TxView(r) == <<r.tx, r.cur, r.fp, r.pos, r.list, r.off, r.queue>>

RxView(r) == <<r.rx, r.rname, r.rver, r.rpos, r.rbytes, r.rfp>>

(* q is r but for the counters of its frames. *)
Alike(r, q) ==
    /\ q \in Side /\ TxView(q) = TxView(r) /\ RxView(q) = RxView(r)
    /\ q.ft = r.ft /\ q.batchnr = r.batchnr

Up(n) == IF n < 3 THEN n + 1 ELSE 3

LEMMA UpType ==
    ASSUME NEW n \in Count
    PROVE  Up(n) \in Count /\ n <= Up(n) /\ Up(n) \in Nat /\ n \in Nat /\ n <= 3
BY DEF Up, Count

LEMMA CountedFacts ==
    ASSUME NEW r \in Side, NEW m \in Frames
    PROVE  /\ Alike(r, Counted(r, m))
           /\ Counted(r, m).local_EOB = r.local_EOB
           /\ Counted(r, m).remote_EOB = r.remote_EOB
           /\ Counted(r, m).messages = IF m.cmd = "DATA" THEN r.messages ELSE Up(r.messages)
<1> DEFINE n == Up(r.messages)
           q == [r EXCEPT !.messages = n]
<1>1. n \in Count
  BY UpType DEF Side
<1>2. Counted(r, m) = IF m.cmd = "DATA" THEN r ELSE q
  BY DEF Counted, Up
<1> HIDE DEF n
<1>3. q \in Side /\ q.messages = n
  BY <1>1 DEF Side
<1>4. /\ TxView(q) = TxView(r) /\ RxView(q) = RxView(r) /\ q.ft = r.ft
      /\ q.batchnr = r.batchnr /\ q.local_EOB = r.local_EOB /\ q.remote_EOB = r.remote_EOB
  BY DEF Side, TxView, RxView
<1> HIDE DEF q
<1> QED BY <1>2, <1>3, <1>4 DEF Alike, n

LEMMA SentFacts ==
    ASSUME NEW r \in Side, NEW m \in Frames
    PROVE  /\ Alike(r, Sent(r, m))
           /\ Sent(r, m).local_EOB = (r.local_EOB \/ m.cmd = "EOB")
           /\ Sent(r, m).remote_EOB = r.remote_EOB
           /\ Sent(r, m).messages = IF m.cmd = "DATA" THEN r.messages ELSE Up(r.messages)
<1> DEFINE q == Counted(r, m)
<1>1. /\ Alike(r, q) /\ q.local_EOB = r.local_EOB /\ q.remote_EOB = r.remote_EOB
      /\ q.messages = IF m.cmd = "DATA" THEN r.messages ELSE Up(r.messages)
  BY CountedFacts, Zenon
<1>2. q \in Side
  BY <1>1 DEF Alike
<1> HIDE DEF q
<1> DEFINE e == q.local_EOB \/ m.cmd = "EOB"
           p == [q EXCEPT !.local_EOB = e]
<1>0. e \in Flag
  BY DEF Flag
<1> HIDE DEF e
<1>3. p \in Side
  BY <1>0, <1>2 DEF Side
<1>4. /\ TxView(p) = TxView(q) /\ RxView(p) = RxView(q) /\ p.ft = q.ft
      /\ p.batchnr = q.batchnr /\ p.remote_EOB = q.remote_EOB /\ p.messages = q.messages
  BY <1>2 DEF Side, TxView, RxView
<1>5. p.local_EOB = e
  BY <1>2 DEF Side
<1>6. Sent(r, m) = p
  BY DEF Sent, q, e
<1> HIDE DEF p
<1> QED BY <1>1, <1>3, <1>4, <1>5, <1>6 DEF Alike, e

LEMMA PolledFacts ==
    ASSUME NEW r \in Side, NEW m \in Frames
    PROVE  /\ Alike(r, Polled(r, m))
           /\ Polled(r, m).remote_EOB = (r.remote_EOB \/ m.cmd = "EOB")
           /\ Polled(r, m).local_EOB = r.local_EOB
           /\ Polled(r, m).messages = IF m.cmd = "DATA" THEN r.messages ELSE Up(r.messages)
<1> DEFINE q == Counted(r, m)
<1>1. /\ Alike(r, q) /\ q.local_EOB = r.local_EOB /\ q.remote_EOB = r.remote_EOB
      /\ q.messages = IF m.cmd = "DATA" THEN r.messages ELSE Up(r.messages)
  BY CountedFacts, Zenon
<1>2. q \in Side
  BY <1>1 DEF Alike
<1> HIDE DEF q
<1> DEFINE e == q.remote_EOB \/ m.cmd = "EOB"
           p == [q EXCEPT !.remote_EOB = e]
<1>0. e \in Flag
  BY DEF Flag
<1> HIDE DEF e
<1>3. p \in Side
  BY <1>0, <1>2 DEF Side
<1>4. /\ TxView(p) = TxView(q) /\ RxView(p) = RxView(q) /\ p.ft = q.ft
      /\ p.batchnr = q.batchnr /\ p.local_EOB = q.local_EOB /\ p.messages = q.messages
  BY <1>2 DEF Side, TxView, RxView
<1>5. p.remote_EOB = e
  BY <1>2 DEF Side
<1>6. Polled(r, m) = p
  BY DEF Polled, q, e
<1> HIDE DEF p
<1> QED BY <1>1, <1>3, <1>4, <1>5, <1>6 DEF Alike, e

LEMMA SentNone ==
    ASSUME NEW r
    PROVE  SentAll(r, <<>>) = r
BY DEF SentAll

LEMMA SentOne ==
    ASSUME NEW r, NEW m
    PROVE  SentAll(r, <<m>>) = Sent(r, m)
<1>1. <<m>> # <<>> /\ Len(<<m>>) = 1 /\ <<m>>[1] = m
  OBVIOUS
<1> QED BY <1>1 DEF SentAll

LEMMA SentTwo ==
    ASSUME NEW r, NEW m, NEW n
    PROVE  SentAll(r, <<m, n>>) = Sent(Sent(r, m), n)
<1>1. <<m, n>> # <<>> /\ Len(<<m, n>>) = 2 /\ <<m, n>>[1] = m /\ <<m, n>>[2] = n
  OBVIOUS
<1> QED BY <1>1 DEF SentAll

-----------------------------------------------------------------------------
(* How the frames of a batch add up. *)

CView(r) == <<r.local_EOB, r.remote_EOB, r.messages, r.batchnr>>

EOBs(r) == (IF r.local_EOB THEN 1 ELSE 0) + (IF r.remote_EOB THEN 1 ELSE 0)

(* No file is empty: a list of files is always announced. *)
NoEmptyFile == \A f \in Files : Size[f] > 0

(* More to send in a batch that still sends files, none of them empty. *)
Left(r, todo) == NoEmptyFile /\ todo = TRUE /\ r.batchnr < MaxBatch

(* The batch has a message besides its EOB frames, where every list is announced. *)
Told(r) == NoEmptyFile => EOBs(r) + 1 <= r.messages

(* The EOB frames are among the messages of the batch, and so is the M_NUL that came with  *)
(* a list: a side that counted no more than the EOB frames had nothing to send when the    *)
(* batch began, unless empty files.                                                        *)
Tally(r, minor, todo) ==
    /\ ~Ended(r) =>
          /\ EOBs(r) <= r.messages
          /\ r.list # NoList => Told(r)
          /\ r.tx = "TryR" => r.list # NoList
          /\ r.tx = "WLA" /\ r.messages <= EOBs(r) => ~Left(r, todo)
    /\ minor = 1 /\ r.tx = "Done" /\ r.ft \notin {"bad", "crash"} => ~Left(r, todo)
    /\ r.ft = "good" => r.tx = "Done"

SideOK(r, minor, todo) == r \in Side /\ Open(r) /\ Tally(r, minor, todo)

LEMMA EOBsType ==
    ASSUME NEW r
    PROVE  EOBs(r) \in Nat /\ EOBs(r) <= 2
BY DEF EOBs

LEMMA TallyCounts ==
    ASSUME NEW r, NEW minor, NEW todo, SideOK(r, minor, todo), ~Ended(r), NEW q,
           Alike(r, q), q.messages = Up(r.messages),
           EOBs(q) <= EOBs(r) + 1
    PROVE  SideOK(q, minor, todo)
<1>1. /\ r \in Side /\ q \in Side /\ q.tx = r.tx /\ q.fp = r.fp /\ q.cur = r.cur
      /\ q.list = r.list /\ q.rx = r.rx /\ q.rfp = r.rfp /\ q.rname = r.rname
      /\ q.ft = r.ft /\ q.batchnr = r.batchnr
  BY DEF SideOK, Alike, TxView, RxView
<1>2. r.messages \in Count
  BY <1>1 DEF Side
<1>3. EOBs(q) \in Nat /\ EOBs(q) <= 2 /\ EOBs(r) \in Nat
  BY EOBsType
<1>4. Open(q)
  BY <1>1 DEF SideOK, Open
<1>5. /\ EOBs(r) <= r.messages => EOBs(q) <= q.messages
      /\ Told(r) => Told(q)
      /\ q.messages <= EOBs(q) => r.messages <= EOBs(r)
  BY <1>2, <1>3 DEF Up, Count, Told
<1>6. Left(q, todo) <=> Left(r, todo)
  BY <1>1 DEF Left
<1>7. Ended(q) <=> Ended(r)
  BY <1>1 DEF Ended
<1>8. Tally(q, minor, todo)
  BY <1>1, <1>5, <1>6, <1>7 DEF SideOK, Tally
<1> QED BY <1>1, <1>4, <1>8 DEF SideOK

LEMMA TallySent ==
    ASSUME NEW r, NEW minor, NEW todo, SideOK(r, minor, todo), ~Ended(r),
           NEW m \in Frames
    PROVE  SideOK(Sent(r, m), minor, todo) /\ ~Ended(Sent(r, m)) /\ Alike(r, Sent(r, m))
<1> DEFINE q == Sent(r, m)
<1>0. r \in Side
  BY DEF SideOK
<1>1. /\ Alike(r, q) /\ q.local_EOB = (r.local_EOB \/ m.cmd = "EOB")
      /\ q.remote_EOB = r.remote_EOB
      /\ q.messages = IF m.cmd = "DATA" THEN r.messages ELSE Up(r.messages)
  BY <1>0, SentFacts, Zenon
<1> HIDE DEF q
<1>2. ~Ended(q)
  BY <1>1 DEF Alike, Ended
<1>3. CASE m.cmd = "DATA"
  <2>1. /\ q \in Side /\ q.tx = r.tx /\ q.fp = r.fp /\ q.cur = r.cur
        /\ q.list = r.list /\ q.rx = r.rx /\ q.rfp = r.rfp /\ q.rname = r.rname
        /\ q.ft = r.ft /\ q.batchnr = r.batchnr /\ q.messages = r.messages
    BY <1>1, <1>3 DEF Alike, TxView, RxView
  <2>2. EOBs(q) = EOBs(r)
    BY <1>1, <1>3 DEF EOBs
  <2>3. Open(q) /\ (Left(q, todo) <=> Left(r, todo)) /\ (Told(q) <=> Told(r))
    BY <2>1, <2>2 DEF SideOK, Open, Left, Told
  <2>4. Tally(q, minor, todo)
    BY <2>1, <2>2, <2>3, <1>2 DEF SideOK, Tally
  <2> QED BY <2>1, <2>3, <2>4, <1>1, <1>2 DEF SideOK, q
<1>4. CASE m.cmd # "DATA"
  <2>1. EOBs(q) <= EOBs(r) + 1
    BY <1>1 DEF EOBs
  <2>2. SideOK(q, minor, todo)
    BY <1>1, <1>4, <2>1, TallyCounts
  <2> QED BY <2>2, <1>1, <1>2 DEF q
<1> QED BY <1>3, <1>4

LEMMA TallyPolled ==
    ASSUME NEW r, NEW minor, NEW todo, SideOK(r, minor, todo), ~Ended(r),
           NEW m \in Frames
    PROVE  /\ SideOK(Polled(r, m), minor, todo) /\ ~Ended(Polled(r, m))
           /\ Alike(r, Polled(r, m))
<1> DEFINE q == Polled(r, m)
<1>0. r \in Side
  BY DEF SideOK
<1>1. /\ Alike(r, q) /\ q.remote_EOB = (r.remote_EOB \/ m.cmd = "EOB")
      /\ q.local_EOB = r.local_EOB
      /\ q.messages = IF m.cmd = "DATA" THEN r.messages ELSE Up(r.messages)
  BY <1>0, PolledFacts, Zenon
<1> HIDE DEF q
<1>2. ~Ended(q)
  BY <1>1 DEF Alike, Ended
<1>3. CASE m.cmd = "DATA"
  <2>1. /\ q \in Side /\ q.tx = r.tx /\ q.fp = r.fp /\ q.cur = r.cur
        /\ q.list = r.list /\ q.rx = r.rx /\ q.rfp = r.rfp /\ q.rname = r.rname
        /\ q.ft = r.ft /\ q.batchnr = r.batchnr /\ q.messages = r.messages
    BY <1>1, <1>3 DEF Alike, TxView, RxView
  <2>2. EOBs(q) = EOBs(r)
    BY <1>1, <1>3 DEF EOBs
  <2>3. Open(q) /\ (Left(q, todo) <=> Left(r, todo)) /\ (Told(q) <=> Told(r))
    BY <2>1, <2>2 DEF SideOK, Open, Left, Told
  <2>4. Tally(q, minor, todo)
    BY <2>1, <2>2, <2>3, <1>2 DEF SideOK, Tally
  <2> QED BY <2>1, <2>3, <2>4, <1>1, <1>2 DEF SideOK, q
<1>4. CASE m.cmd # "DATA"
  <2>1. EOBs(q) <= EOBs(r) + 1
    BY <1>1 DEF EOBs
  <2>2. SideOK(q, minor, todo)
    BY <1>1, <1>4, <2>1, TallyCounts
  <2> QED BY <2>2, <1>1, <1>2 DEF q
<1> QED BY <1>3, <1>4

(* One or no frame is sent, or two. *)
Short(frames) ==
    \/ frames = <<>>
    \/ \E m \in Frames : frames = <<m>>
    \/ \E m, n \in Frames : frames = <<m, n>>

LEMMA TallySentAll ==
    ASSUME NEW r, NEW minor, NEW todo, SideOK(r, minor, todo), ~Ended(r),
           NEW frames, Short(frames)
    PROVE  /\ SideOK(SentAll(r, frames), minor, todo) /\ ~Ended(SentAll(r, frames))
           /\ Alike(r, SentAll(r, frames))
<1>1. CASE frames = <<>>
  <2>1. SentAll(r, frames) = r
    BY <1>1, SentNone
  <2>2. Alike(r, r)
    BY DEF Alike, SideOK
  <2> QED BY <2>1, <2>2
<1>2. ASSUME NEW m \in Frames, frames = <<m>>
      PROVE  /\ SideOK(SentAll(r, frames), minor, todo) /\ ~Ended(SentAll(r, frames))
             /\ Alike(r, SentAll(r, frames))
  <2>1. SentAll(r, frames) = Sent(r, m)
    BY <1>2, SentOne
  <2> QED BY <2>1, TallySent
<1>3. ASSUME NEW m \in Frames, NEW n \in Frames, frames = <<m, n>>
      PROVE  /\ SideOK(SentAll(r, frames), minor, todo) /\ ~Ended(SentAll(r, frames))
             /\ Alike(r, SentAll(r, frames))
  <2> DEFINE q == Sent(r, m)
             p == Sent(q, n)
  <2>0. SentAll(r, <<m, n>>) = Sent(Sent(r, m), n)
    BY SentTwo
  <2>1. SentAll(r, frames) = p
    BY <1>3, <2>0
  <2>2. SideOK(q, minor, todo) /\ ~Ended(q) /\ Alike(r, q)
    BY TallySent
  <2> HIDE DEF q
  <2>3. SideOK(p, minor, todo) /\ ~Ended(p) /\ Alike(q, p)
    BY <2>2, TallySent
  <2> HIDE DEF p
  <2>4. Alike(r, p)
    BY <2>2, <2>3 DEF Alike
  <2> QED BY <2>1, <2>3, <2>4
<1> QED BY <1>1, <1>2, <1>3 DEF Short

(* The same side as far as the tally goes. *)
LEMMA TallySame ==
    ASSUME NEW r, NEW minor, NEW todo, SideOK(r, minor, todo), ~Ended(r),
           NEW q \in Side, Open(q), ~Ended(q), q.tx = r.tx, q.list = r.list,
           CView(q) = CView(r)
    PROVE  SideOK(q, minor, todo)
<1>1. /\ q.local_EOB = r.local_EOB /\ q.remote_EOB = r.remote_EOB
      /\ q.messages = r.messages /\ q.batchnr = r.batchnr
  BY DEF CView
<1>2. EOBs(q) = EOBs(r) /\ (Left(q, todo) <=> Left(r, todo)) /\ (Told(q) <=> Told(r))
  BY <1>1 DEF EOBs, Left, Told
<1>3. Tally(q, minor, todo)
  BY <1>1, <1>2 DEF SideOK, Tally, Ended
<1> QED BY <1>3 DEF SideOK

(* A side that has failed or died. *)
LEMMA EndedSide ==
    ASSUME NEW r \in Side, r.ft \in {"bad", "crash"}, NEW minor, NEW todo
    PROVE  SideOK(r, minor, todo) /\ Ended(r)
BY DEF SideOK, Tally, Ended, Open

LEMMA NoListType == NoList \in List
BY DEF NoList, List, ListStates

LEMMA ClearedFacts ==
    ASSUME NEW r \in Side
    PROVE  LET q == Cleared(r) IN
           /\ q \in Side /\ q.list = NoList /\ q.tx = r.tx /\ q.cur = r.cur /\ q.fp = r.fp
           /\ q.pos = r.pos /\ q.off = r.off /\ q.queue = r.queue /\ q.ft = r.ft
           /\ RxView(q) = RxView(r) /\ CView(q) = CView(r)
BY NoListType DEF Cleared, Side, RxView, CView

LEMMA FtFacts ==
    ASSUME NEW r \in Side, NEW x \in FtStates
    PROVE  LET q == [r EXCEPT !.ft = x] IN
           /\ q \in Side /\ q.ft = x /\ TxView(q) = TxView(r) /\ RxView(q) = RxView(r)
           /\ CView(q) = CView(r)
BY DEF Side, TxView, RxView, CView

LEMMA ViewOpen ==
    ASSUME NEW r, NEW q, Open(r), ~Ended(r), TxView(q) = TxView(r), RxView(q) = RxView(r)
    PROVE  Open(q)
BY DEF Open, TxView, RxView

LEMMA FailedFacts ==
    ASSUME NEW r \in Side, NEW minor, NEW todo
    PROVE  SideOK(Failed(r), minor, todo) /\ Ended(Failed(r))
<1> DEFINE c == Cleared(r)
           q == [c EXCEPT !.ft = "bad"]
<1>1. c \in Side
  BY ClearedFacts, Zenon
<1> HIDE DEF c
<1>2. "bad" \in FtStates
  BY DEF FtStates
<1>3. q \in Side /\ q.ft = "bad"
  BY <1>1, <1>2, FtFacts, Zenon
<1>4. Failed(r) = q
  BY DEF Failed, c
<1> HIDE DEF q
<1> QED BY <1>3, <1>4, EndedSide

(* The side once the receiver has returned Ok. *)
Returned(r, frames) ==
    [SentAll(r, frames) EXCEPT
        !.ft = IF r.local_EOB /\ r.remote_EOB THEN "Transmit" ELSE "Switch"]

LEMMA RxOkSide ==
    ASSUME NEW r, NEW minor, NEW todo, SideOK(r, minor, todo), ~Ended(r),
           NEW frames, Short(frames)
    PROVE  LET q == Returned(r, frames) IN
           /\ SideOK(q, minor, todo) /\ ~Ended(q)
           /\ TxView(q) = TxView(r) /\ RxView(q) = RxView(r)
<1> DEFINE a == SentAll(r, frames)
           x == IF r.local_EOB /\ r.remote_EOB THEN "Transmit" ELSE "Switch"
           q == [a EXCEPT !.ft = x]
<1>1. SideOK(a, minor, todo) /\ ~Ended(a) /\ Alike(r, a)
  BY TallySentAll
<1>2. x \in FtStates /\ x \in {"Transmit", "Switch"}
  BY DEF FtStates
<1>3. Returned(r, frames) = q
  BY DEF Returned
<1> HIDE DEF a, x
<1>4. a \in Side
  BY <1>1 DEF SideOK
<1>5. /\ q \in Side /\ q.ft = x /\ TxView(q) = TxView(a) /\ RxView(q) = RxView(a)
      /\ CView(q) = CView(a)
  BY <1>2, <1>4, FtFacts, Zenon
<1> HIDE DEF q
<1>6. ~Ended(q)
  BY <1>2, <1>5 DEF Ended
<1>7. Open(q) /\ q.tx = a.tx /\ q.list = a.list
  BY <1>1, <1>5, ViewOpen DEF SideOK, TxView
<1>8. SideOK(q, minor, todo)
  BY <1>1, <1>5, <1>6, <1>7, TallySame
<1> QED BY <1>1, <1>3, <1>5, <1>6, <1>8 DEF Alike

LEMMA RxFailureSide ==
    ASSUME NEW r, NEW minor, NEW todo, SideOK(r, minor, todo), ~Ended(r),
           NEW frames, Short(frames)
    PROVE  LET q == Failed([SentAll(r, frames) EXCEPT !.rx = "Done"]) IN
           SideOK(q, minor, todo) /\ Ended(q)
<1> DEFINE a == SentAll(r, frames)
           q == [a EXCEPT !.rx = "Done"]
<1>1. SideOK(a, minor, todo)
  BY TallySentAll
<1> HIDE DEF a
<1>2. a \in Side /\ "Done" \in RxStates
  BY <1>1 DEF SideOK, RxStates
<1>3. q \in Side
  BY <1>2 DEF Side
<1> HIDE DEF q
<1> QED BY <1>3, FailedFacts DEF q, a

-----------------------------------------------------------------------------
(* What the receiver does to a side. *)

LEMMA FrameFields ==
    ASSUME NEW m \in Frames
    PROVE  /\ m.file \in Name /\ m.n \in Nat /\ m.ver \in Nat
           /\ m.cmd \in AboutFile => m.file \in Files
           /\ m.cmd \in AboutFile \cup {"NUL", "EOB", "ERR", "BSY"}
BY DEF Frames, Name

LEMMA CmdFrame ==
    ASSUME NEW f \in Files, NEW n \in Nat, NEW v \in Nat,
           NEW c \in {"FILE", "DATA", "GET", "GOT", "SKIP"}
    PROVE  /\ Cmd(c, f, n, v) \in Frames /\ Cmd(c, f, n, v).cmd = c
           /\ Cmd(c, f, n, v).file = f /\ Cmd(c, f, n, v).n = n /\ Cmd(c, f, n, v).ver = v
BY DEF Cmd, Frames, AboutFile

LEMMA PlainFrame ==
    ASSUME NEW c \in {"NUL", "EOB", "ERR", "BSY"}
    PROVE  Plain(c) \in Frames /\ Plain(c).cmd = c
BY DEF Plain, Cmd, Frames, AboutFile

LEMMA QueuedFacts ==
    ASSUME NEW r \in Side, NEW m \in Frames, Answer(m)
    PROVE  LET q == [r EXCEPT !.queue = Append(@, m)] IN
           /\ q \in Side /\ q.queue = Append(r.queue, m)
           /\ q.tx = r.tx /\ q.cur = r.cur /\ q.fp = r.fp /\ q.pos = r.pos
           /\ q.list = r.list /\ q.off = r.off /\ q.ft = r.ft
           /\ RxView(q) = RxView(r) /\ CView(q) = CView(r)
<1> DEFINE Q == Append(r.queue, m)
<1>1. r.queue \in Seq(Answers) /\ m \in Answers
  BY DEF Side, Queue, Answers
<1>2. Q \in Queue
  BY <1>1 DEF Queue
<1> HIDE DEF Q
<1>3. LET q == [r EXCEPT !.queue = Q] IN
      /\ q \in Side /\ q.queue = Q
      /\ q.tx = r.tx /\ q.cur = r.cur /\ q.fp = r.fp /\ q.pos = r.pos
      /\ q.list = r.list /\ q.off = r.off /\ q.ft = r.ft
      /\ RxView(q) = RxView(r) /\ CView(q) = CView(r)
  BY <1>2 DEF Side, RxView, CView
<1> QED BY <1>2, <1>3 DEF Q, Queue

(* A step of the receiver proper: q is r but for what the receiver keeps. *)
Received(r, q) ==
    q \in Side /\ TxView(q) = TxView(r) /\ CView(q) = CView(r) /\ q.ft = r.ft

LEMMA ReceivedSide ==
    ASSUME NEW r, NEW minor, NEW todo, SideOK(r, minor, todo), ~Ended(r),
           NEW q, Received(r, q), q.rx = "ReceD" => q.rfp \in Files /\ q.rname \in Files
    PROVE  SideOK(q, minor, todo) /\ ~Ended(q)
<1>1. /\ q \in Side /\ q.tx = r.tx /\ q.fp = r.fp /\ q.cur = r.cur /\ q.list = r.list
      /\ CView(q) = CView(r) /\ q.ft = r.ft
  BY DEF Received, TxView
<1>2. Open(q) /\ ~Ended(q)
  BY <1>1 DEF SideOK, Open, Ended
<1> QED BY <1>1, <1>2, TallySame

LEMMA RxTo ==
    ASSUME NEW r \in Side, NEW x \in RxStates
    PROVE  LET q == [r EXCEPT !.rx = x] IN
           /\ Received(r, q) /\ q.rx = x /\ q.rfp = r.rfp /\ q.rname = r.rname
           /\ q.rver = r.rver /\ q.rpos = r.rpos /\ q.rbytes = r.rbytes
BY DEF Received, Side, TxView, CView

LEMMA RfpTo ==
    ASSUME NEW r \in Side, NEW x \in Handle
    PROVE  LET q == [r EXCEPT !.rfp = x] IN
           /\ Received(r, q) /\ q.rfp = x /\ q.rx = r.rx /\ q.rname = r.rname
           /\ q.rver = r.rver /\ q.rpos = r.rpos /\ q.rbytes = r.rbytes
BY DEF Received, Side, TxView, CView

LEMMA SavedFacts ==
    ASSUME NEW r \in Side
    PROVE  LET q == Saved(r) IN
           /\ Received(r, q) /\ q.rx = r.rx /\ q.rname = r.rname
           /\ q.rver = r.rver /\ q.rpos = r.rpos /\ q.rbytes = r.rbytes
           /\ q.rfp = IF r.rx = "ReceD" THEN None ELSE r.rfp
<1> DEFINE q == [r EXCEPT !.inf = None, !.rfp = None]
<1>1. None \in Name /\ None \in Handle
  BY DEF Name, Handle
<1>2. /\ Received(r, q) /\ q.rx = r.rx /\ q.rname = r.rname
      /\ q.rver = r.rver /\ q.rpos = r.rpos /\ q.rbytes = r.rbytes /\ q.rfp = None
  BY <1>1 DEF Received, Side, TxView, CView
<1>3. Received(r, r)
  BY DEF Received
<1> HIDE DEF q
<1> QED BY <1>2, <1>3 DEF Saved, q

LEMMA OpenedFacts ==
    ASSUME NEW s, NEW r \in Side, NEW m \in Frames, m.file \in Files,
           Len(part[s][m.file]) \in Nat
    PROVE  LET q == Opened(s, r, m) IN
           /\ Received(r, q) /\ q.rx = r.rx /\ q.rname = m.file
           /\ q.rver = m.ver /\ q.rpos = m.n
           /\ q.rbytes = IF SameHandle(r, m) THEN r.rbytes ELSE Len(part[s][m.file])
           /\ q.rfp = IF SameHandle(r, m) THEN r.rfp ELSE m.file
<1> DEFINE n == Len(part[s][m.file])
           f == m.file
           x == m.ver
           y == m.n
           a == [r EXCEPT !.rfp = f, !.inf = f, !.rbytes = n]
           b == IF SameHandle(r, m) THEN r ELSE a
           q == [b EXCEPT !.rname = f, !.rver = x, !.rpos = y]
<1>1. f \in Name /\ f \in Handle /\ x \in Nat /\ y \in Nat /\ n \in Nat
  BY FrameFields DEF Name, Handle
<1>2. Opened(s, r, m) = q
  BY DEF Opened
<1> HIDE DEF n, f, x, y
<1>3. Received(r, a) /\ a.rx = r.rx /\ a.rfp = f /\ a.rbytes = n
  BY <1>1 DEF Received, Side, TxView, CView
<1> HIDE DEF a
<1>4. /\ Received(r, b) /\ b.rx = r.rx
      /\ b.rbytes = IF SameHandle(r, m) THEN r.rbytes ELSE n
      /\ b.rfp = IF SameHandle(r, m) THEN r.rfp ELSE f
  BY <1>3 DEF Received
<1> HIDE DEF b
<1>5. b \in Side
  BY <1>4 DEF Received
<1>6. /\ Received(b, q) /\ q.rx = b.rx /\ q.rname = f /\ q.rver = x /\ q.rpos = y
      /\ q.rbytes = b.rbytes /\ q.rfp = b.rfp
  BY <1>1, <1>5 DEF Received, Side, TxView, CView
<1> HIDE DEF q
<1>7. Received(r, q)
  BY <1>4, <1>6 DEF Received
<1> QED BY <1>2, <1>4, <1>6, <1>7 DEF n, f, x, y

LEMMA NewBatchFacts ==
    ASSUME NEW r \in Side, ~Ended(r), NEW minor, NEW todo, r.batchnr + 1 \in Nat
    PROVE  LET q == NewBatch(r) IN
           /\ SideOK(q, minor, todo) /\ ~Ended(q) /\ q.ft = r.ft
           /\ q.tx = "GNF" /\ q.rx = "WaitF" /\ q.list = NoList
           /\ q.queue = r.queue /\ q.rbytes = r.rbytes /\ q.rfp = r.rfp
<1> DEFINE b == r.batchnr + 1
           a == [r EXCEPT !.batchnr = b, !.local_EOB = FALSE, !.remote_EOB = FALSE,
                          !.messages = 0, !.tx = "GNF", !.rx = "WaitF"]
           q == Cleared(a)
<1>1. /\ b \in Nat /\ FALSE \in Flag /\ 0 \in Count /\ "GNF" \in TxStates
      /\ "WaitF" \in RxStates
  BY DEF Flag, Count, TxStates, RxStates
<1>2. NewBatch(r) = q
  BY DEF NewBatch
<1> HIDE DEF b
<1>3. /\ a \in Side /\ a.tx = "GNF" /\ a.rx = "WaitF" /\ a.ft = r.ft /\ a.messages = 0
      /\ a.local_EOB = FALSE /\ a.remote_EOB = FALSE /\ a.queue = r.queue
      /\ a.rbytes = r.rbytes /\ a.rfp = r.rfp
  BY <1>1 DEF Side
<1> HIDE DEF a
<1>4. /\ q \in Side /\ q.list = NoList /\ q.tx = a.tx /\ q.queue = a.queue /\ q.ft = a.ft
      /\ RxView(q) = RxView(a) /\ CView(q) = CView(a)
  BY <1>3, ClearedFacts, Zenon
<1> HIDE DEF q
<1>5. /\ q.rx = "WaitF" /\ q.rbytes = r.rbytes /\ q.rfp = r.rfp /\ q.messages = 0
      /\ q.local_EOB = FALSE /\ q.remote_EOB = FALSE
  BY <1>3, <1>4 DEF RxView, CView
<1>6. Open(q) /\ EOBs(q) = 0 /\ ~Ended(q)
  BY <1>3, <1>4, <1>5 DEF Open, EOBs, Ended
<1>7. Tally(q, minor, todo)
  BY <1>3, <1>4, <1>5, <1>6 DEF Tally, Ended
<1> QED BY <1>2, <1>3, <1>4, <1>5, <1>6, <1>7 DEF SideOK

-----------------------------------------------------------------------------
(* What the transmitter does to a side. *)

(* Nothing but the files of out[s] that are not gone is listed. *)
LEMMA ListedFacts ==
    ASSUME NEW s, NEW r \in Side
    PROVE  LET q == Listed(s, r) IN
           /\ q \in Side /\ q.tx = r.tx /\ q.fp = r.fp /\ q.pos = r.pos
           /\ q.queue = r.queue /\ q.ft = r.ft
           /\ RxView(q) = RxView(r) /\ CView(q) = CView(r)
           /\ ~NeedsList(r) => q = r
           /\ NeedsList(r) =>
                 /\ q.off = [f \in Files |-> 0]
                 /\ q.list = [f \in Files |-> IF r.batchnr < MaxBatch /\ f \in ToSend(s)
                                              THEN "NoState" ELSE "none"]
<1> DEFINE L == [f \in Files |-> IF r.batchnr < MaxBatch /\ f \in ToSend(s)
                                 THEN "NoState" ELSE "none"]
           Z == [f \in Files |-> 0]
           q == [r EXCEPT !.cur = None, !.off = Z, !.list = L]
<1>1. L \in List /\ Z \in Offsets /\ None \in Name
  BY DEF List, ListStates, Offsets, Name
<1>2. Listed(s, r) = IF ~NeedsList(r) THEN r ELSE q
  BY DEF Listed
<1> HIDE DEF L, Z
<1>3. /\ q \in Side /\ q.tx = r.tx /\ q.fp = r.fp /\ q.pos = r.pos
      /\ q.queue = r.queue /\ q.ft = r.ft
      /\ RxView(q) = RxView(r) /\ CView(q) = CView(r) /\ q.off = Z /\ q.list = L
  BY <1>1 DEF Side, RxView, CView
<1> HIDE DEF q
<1> QED BY <1>2, <1>3 DEF L, Z

LEMMA NextFileFacts ==
    ASSUME NEW s \in Sides, work \in Workload, NEW q, NEW f \in NextFile(s, q)
    PROVE  f \in Files /\ f \in ToSet(work.out[s]) /\ q.list[f] = "NoState"
<1>1. PICK i \in DOMAIN work.out[s] : f = work.out[s][i] /\ q.list[f] = "NoState"
  BY DEF NextFile
<1>2. work.out[s] \in Seq(Files)
  BY DEF Workload
<1> QED BY <1>1, <1>2 DEF ToSet

LEMMA OutFiles ==
    ASSUME NEW s \in Sides, work \in Workload
    PROVE  ToSet(work.out[s]) \subseteq Files
<1>1. work.out[s] \in Seq(Files)
  BY DEF Workload
<1> QED BY <1>1 DEF ToSet

LEMMA TallyFull ==
    ASSUME NEW r \in Side, Open(r), ~Ended(r), EOBs(r) <= r.messages, Told(r),
           r.tx = "TryR" => r.list # NoList, r.tx # "Done", NEW minor, NEW todo
    PROVE  SideOK(r, minor, todo)
<1>1. r.messages \in Nat /\ EOBs(r) \in Nat
  BY EOBsType DEF Side, Count
<1>2. r.messages <= EOBs(r) => ~Left(r, todo)
  BY <1>1 DEF Told, Left
<1>3. Tally(r, minor, todo)
  BY <1>2 DEF Tally, Ended
<1> QED BY <1>3 DEF SideOK

(* The M_NUL that goes out with a list is what the list is counted by. *)
LEMMA TallyAnnounced ==
    ASSUME NEW r \in Side, Open(r), ~Ended(r), EOBs(r) <= r.messages,
           r.tx = "TryR" => r.list # NoList, r.tx # "Done", NEW minor, NEW todo
    PROVE  LET q == Sent(r, Plain("NUL")) IN
           SideOK(q, minor, todo) /\ ~Ended(q) /\ Alike(r, q)
<1> DEFINE m == Plain("NUL")
           q == Sent(r, m)
<1>1. m \in Frames /\ m.cmd = "NUL"
  BY PlainFrame
<1> HIDE DEF m
<1>2. /\ Alike(r, q) /\ q.local_EOB = (r.local_EOB \/ m.cmd = "EOB")
      /\ q.remote_EOB = r.remote_EOB
      /\ q.messages = IF m.cmd = "DATA" THEN r.messages ELSE Up(r.messages)
  BY <1>1, SentFacts, Zenon
<1> HIDE DEF q
<1>3. q.messages = Up(r.messages) /\ EOBs(q) = EOBs(r)
  BY <1>1, <1>2 DEF EOBs, Side, Flag
<1>4. /\ q \in Side /\ q.tx = r.tx /\ q.fp = r.fp /\ q.cur = r.cur
      /\ q.list = r.list /\ q.rx = r.rx /\ q.rfp = r.rfp /\ q.rname = r.rname
      /\ q.ft = r.ft
  BY <1>2 DEF Alike, TxView, RxView
<1>5. Open(q) /\ ~Ended(q)
  BY <1>4 DEF Open, Ended
<1>6. EOBs(q) <= q.messages /\ Told(q)
  <2>1. r.messages \in Count
    BY DEF Side
  <2> QED BY <2>1, <1>3, EOBsType DEF Up, Count, Told
<1>7. SideOK(q, minor, todo)
  BY <1>4, <1>5, <1>6, TallyFull
<1> QED BY <1>2, <1>5, <1>7 DEF q, m

(* The start of a file, a locked file and the end of the list. *)
LEMMA StartedFacts ==
    ASSUME NEW q \in Side, NEW f \in Files
    PROVE  LET x == [q EXCEPT !.list[f] = "Sending", !.cur = f, !.fp = f,
                              !.pos = q.off[f], !.tx = "TryR", !.ft = "Transmit"] IN
           /\ x \in Side /\ x.list = [q.list EXCEPT ![f] = "Sending"] /\ x.cur = f
           /\ x.fp = f /\ x.pos = q.off[f] /\ x.tx = "TryR" /\ x.ft = "Transmit"
           /\ x.off = q.off /\ x.queue = q.queue
           /\ RxView(x) = RxView(q) /\ CView(x) = CView(q)
<1> DEFINE L == [q.list EXCEPT ![f] = "Sending"]
           n == q.off[f]
<1>1. q.list \in List /\ q.off \in Offsets
  BY DEF Side
<1>2. /\ L \in List /\ n \in Nat /\ f \in Name /\ "TryR" \in TxStates
      /\ "Transmit" \in FtStates
  BY <1>1 DEF List, ListStates, Offsets, Name, TxStates, FtStates
<1> HIDE DEF L, n
<1>3. LET x == [q EXCEPT !.list = L, !.cur = f, !.fp = f, !.pos = n, !.tx = "TryR",
                         !.ft = "Transmit"] IN
      /\ x \in Side /\ x.list = L /\ x.cur = f
      /\ x.fp = f /\ x.pos = n /\ x.tx = "TryR" /\ x.ft = "Transmit"
      /\ x.off = q.off /\ x.queue = q.queue
      /\ RxView(x) = RxView(q) /\ CView(x) = CView(q)
  BY <1>2 DEF Side, RxView, CView
<1> QED BY <1>3 DEF L, n

LEMMA SkippedFacts ==
    ASSUME NEW q \in Side, NEW f \in Files
    PROVE  LET x == [q EXCEPT !.list[f] = "Skipped", !.fp = None, !.ft = "Switch"] IN
           /\ x \in Side /\ x.list = [q.list EXCEPT ![f] = "Skipped"] /\ x.cur = q.cur
           /\ x.fp = None /\ x.pos = q.pos /\ x.tx = q.tx /\ x.ft = "Switch"
           /\ x.off = q.off /\ x.queue = q.queue
           /\ RxView(x) = RxView(q) /\ CView(x) = CView(q)
<1> DEFINE L == [q.list EXCEPT ![f] = "Skipped"]
<1>1. q.list \in List
  BY DEF Side
<1>2. L \in List /\ None \in Name /\ "Switch" \in FtStates
  BY <1>1 DEF List, ListStates, Name, FtStates
<1> HIDE DEF L
<1>3. LET x == [q EXCEPT !.list = L, !.fp = None, !.ft = "Switch"] IN
      /\ x \in Side /\ x.list = L /\ x.cur = q.cur
      /\ x.fp = None /\ x.pos = q.pos /\ x.tx = q.tx /\ x.ft = "Switch"
      /\ x.off = q.off /\ x.queue = q.queue
      /\ RxView(x) = RxView(q) /\ CView(x) = CView(q)
  BY <1>2 DEF Side, RxView, CView
<1> QED BY <1>3 DEF L

LEMMA WaitingFacts ==
    ASSUME NEW q \in Side
    PROVE  LET x == [q EXCEPT !.tx = "WLA", !.ft = "Transmit"] IN
           /\ x \in Side /\ x.list = q.list /\ x.cur = q.cur
           /\ x.fp = q.fp /\ x.pos = q.pos /\ x.tx = "WLA" /\ x.ft = "Transmit"
           /\ x.off = q.off /\ x.queue = q.queue
           /\ RxView(x) = RxView(q) /\ CView(x) = CView(q)
<1>1. "WLA" \in TxStates /\ "Transmit" \in FtStates
  BY DEF TxStates, FtStates
<1> QED BY <1>1 DEF Side, RxView, CView

LEMMA SentWholeFacts ==
    ASSUME NEW r \in Side, r.cur \in Files
    PROVE  LET x == SentWhole(r) IN
           /\ x \in Side /\ x.list = [r.list EXCEPT ![r.cur] = "IsSent"] /\ x.cur = None
           /\ x.fp = None /\ x.pos = r.pos /\ x.tx = "GNF" /\ x.ft = r.ft
           /\ x.off = r.off /\ x.queue = r.queue
           /\ RxView(x) = RxView(r) /\ CView(x) = CView(r)
<1> DEFINE c == r.cur
           L == [r.list EXCEPT ![c] = "IsSent"]
<1>1. r.list \in List
  BY DEF Side
<1>2. L \in List /\ None \in Name /\ "GNF" \in TxStates
  BY <1>1 DEF List, ListStates, Name, TxStates
<1>3. SentWhole(r) = [r EXCEPT !.fp = None, !.list = L, !.cur = None, !.tx = "GNF"]
  BY DEF SentWhole, Side
<1> HIDE DEF L
<1>4. LET x == [r EXCEPT !.fp = None, !.list = L, !.cur = None, !.tx = "GNF"] IN
      /\ x \in Side /\ x.list = L /\ x.cur = None
      /\ x.fp = None /\ x.pos = r.pos /\ x.tx = "GNF" /\ x.ft = r.ft
      /\ x.off = r.off /\ x.queue = r.queue
      /\ RxView(x) = RxView(r) /\ CView(x) = CView(r)
  BY <1>2 DEF Side, RxView, CView
<1> QED BY <1>3, <1>4 DEF L

LEMMA PosTo ==
    ASSUME NEW r \in Side
    PROVE  LET x == [r EXCEPT !.pos = @ + 1] IN
           /\ x \in Side /\ x.list = r.list /\ x.cur = r.cur
           /\ x.fp = r.fp /\ x.pos = r.pos + 1 /\ x.tx = r.tx /\ x.ft = r.ft
           /\ x.off = r.off /\ x.queue = r.queue
           /\ RxView(x) = RxView(r) /\ CView(x) = CView(r)
<1> DEFINE n == r.pos + 1
<1>1. n \in Nat
  BY DEF Side
<1> HIDE DEF n
<1>2. LET x == [r EXCEPT !.pos = n] IN
      /\ x \in Side /\ x.list = r.list /\ x.cur = r.cur
      /\ x.fp = r.fp /\ x.pos = n /\ x.tx = r.tx /\ x.ft = r.ft
      /\ x.off = r.off /\ x.queue = r.queue
      /\ RxView(x) = RxView(r) /\ CView(x) = CView(r)
  BY <1>1 DEF Side, RxView, CView
<1> QED BY <1>2 DEF n

LEMMA ClosedFacts ==
    ASSUME NEW r \in Side
    PROVE  LET x == Closed(r) IN
           /\ x \in Side /\ x.list = r.list /\ x.pos = r.pos /\ x.tx = "GNF"
           /\ x.ft \in {r.ft, "crash"} /\ x.off = r.off /\ x.queue = r.queue
           /\ RxView(x) = RxView(r) /\ CView(x) = CView(r)
<1> DEFINE t == IF r.fp = None THEN "crash" ELSE r.ft
<1>1. t \in FtStates /\ t \in {r.ft, "crash"} /\ None \in Name /\ "GNF" \in TxStates
  BY DEF Side, FtStates, Name, TxStates
<1>2. Closed(r) = [r EXCEPT !.fp = None, !.cur = None, !.tx = "GNF", !.ft = t]
  BY DEF Closed
<1> HIDE DEF t
<1>3. LET x == [r EXCEPT !.fp = None, !.cur = None, !.tx = "GNF", !.ft = t] IN
      /\ x \in Side /\ x.list = r.list /\ x.pos = r.pos /\ x.tx = "GNF"
      /\ x.ft = t /\ x.off = r.off /\ x.queue = r.queue
      /\ RxView(x) = RxView(r) /\ CView(x) = CView(r)
  BY <1>1 DEF Side, RxView, CView
<1> QED BY <1>1, <1>2, <1>3

-----------------------------------------------------------------------------
(* The messages of the queue. *)

(* What one message about f does to side r, or that it does nothing. *)
Dealt(r, q, f, m) ==
    /\ q \in Side /\ RxView(q) = RxView(r) /\ CView(q) = CView(r)
    /\ q.queue = r.queue /\ q.pos = r.pos /\ q.ft \in {r.ft, "crash"}
    /\ \A g \in Files \ {f} : q.list[g] = r.list[g] /\ q.off[g] = r.off[g]
    /\ q.list[f] = "none" <=> r.list[f] = "none"
    /\ \/ q.list[f] = r.list[f] /\ q.off[f] = r.off[f]
       \/ q.list[f] \in {"Got", "Skipped"} /\ q.off[f] = r.off[f]
       \/ m.cmd = "GET" /\ q.off[f] = m.n
    /\ \/ q.tx = "GNF"
       \/ q.tx = r.tx /\ q.fp = r.fp /\ q.cur = r.cur
    /\ q.tx # "GNF" /\ r.list[f] = "Sending" => q.list[f] = r.list[f]

LEMMA MarkFacts ==
    ASSUME NEW q \in Side, NEW f \in Files, NEW x \in {"Got", "Skipped"}
    PROVE  LET p == [q EXCEPT !.list[f] = x] IN
           /\ p \in Side /\ p.list = [q.list EXCEPT ![f] = x] /\ p.cur = q.cur
           /\ p.fp = q.fp /\ p.pos = q.pos /\ p.tx = q.tx /\ p.ft = q.ft
           /\ p.off = q.off /\ p.queue = q.queue
           /\ RxView(p) = RxView(q) /\ CView(p) = CView(q)
<1> DEFINE L == [q.list EXCEPT ![f] = x]
<1>1. q.list \in List
  BY DEF Side
<1>2. L \in List
  BY <1>1 DEF List, ListStates
<1> HIDE DEF L
<1>3. LET p == [q EXCEPT !.list = L] IN
      /\ p \in Side /\ p.list = L /\ p.cur = q.cur
      /\ p.fp = q.fp /\ p.pos = q.pos /\ p.tx = q.tx /\ p.ft = q.ft
      /\ p.off = q.off /\ p.queue = q.queue
      /\ RxView(p) = RxView(q) /\ CView(p) = CView(q)
  BY <1>2 DEF Side, RxView, CView
<1> QED BY <1>3 DEF L

LEMMA MarkedDealt ==
    ASSUME NEW r \in Side, NEW f \in Files, NEW m, NEW x \in {"Got", "Skipped"},
           r.list[f] # "none"
    PROVE  LET q == IF r.list[f] = "Sending" THEN Closed(r) ELSE r
           IN  Dealt(r, [q EXCEPT !.list[f] = x], f, m)
<1> DEFINE c == Closed(r)
           q == IF r.list[f] = "Sending" THEN c ELSE r
           p == [q EXCEPT !.list[f] = x]
<1>1. /\ c \in Side /\ c.list = r.list /\ c.pos = r.pos /\ c.tx = "GNF"
      /\ c.ft \in {r.ft, "crash"} /\ c.off = r.off /\ c.queue = r.queue
      /\ RxView(c) = RxView(r) /\ CView(c) = CView(r)
  BY ClosedFacts, Zenon
<1> HIDE DEF c
<1>2. /\ q \in Side /\ q.list = r.list /\ q.pos = r.pos
      /\ q.ft \in {r.ft, "crash"} /\ q.off = r.off /\ q.queue = r.queue
      /\ RxView(q) = RxView(r) /\ CView(q) = CView(r)
      /\ IF r.list[f] = "Sending" THEN q.tx = "GNF"
         ELSE q.tx = r.tx /\ q.fp = r.fp /\ q.cur = r.cur
  BY <1>1
<1> HIDE DEF q
<1>3. /\ p \in Side /\ p.list = [q.list EXCEPT ![f] = x] /\ p.cur = q.cur
      /\ p.fp = q.fp /\ p.pos = q.pos /\ p.tx = q.tx /\ p.ft = q.ft
      /\ p.off = q.off /\ p.queue = q.queue
      /\ RxView(p) = RxView(q) /\ CView(p) = CView(q)
  BY <1>2, MarkFacts, Zenon
<1>4. r.list \in [Files -> ListStates]
  BY DEF Side, List
<1>5. p.list[f] = x /\ \A g \in Files \ {f} : p.list[g] = r.list[g]
  BY <1>2, <1>3, <1>4
<1> HIDE DEF p
<1>6. Dealt(r, p, f, m)
  BY <1>2, <1>3, <1>5 DEF Dealt
<1> QED BY <1>6 DEF p, q, c


LEMMA AskedAgainDealt ==
    ASSUME NEW r \in Side, NEW f \in Files, NEW m \in Frames, m.cmd = "GET",
           r.list[f] # "none"
    PROVE  LET q == [r EXCEPT !.list[f] = "NoState", !.off[f] = m.n, !.tx = "GNF"] IN
           Dealt(r, q, f, m)
<1> DEFINE L == [r.list EXCEPT ![f] = "NoState"]
           n == m.n
           Z == [r.off EXCEPT ![f] = n]
           q == [r EXCEPT !.list = L, !.off = Z, !.tx = "GNF"]
<1>1. r.list \in [Files -> ListStates] /\ r.off \in [Files -> Nat] /\ n \in Nat
  BY FrameFields DEF Side, List, Offsets
<1>2. L \in List /\ Z \in Offsets /\ "GNF" \in TxStates
  BY <1>1 DEF List, ListStates, Offsets, TxStates
<1>3. /\ L[f] = "NoState" /\ Z[f] = n
      /\ \A g \in Files \ {f} : L[g] = r.list[g] /\ Z[g] = r.off[g]
  BY <1>1
<1> HIDE DEF L, Z, n
<1>4. /\ q \in Side /\ q.list = L /\ q.off = Z /\ q.pos = r.pos /\ q.tx = "GNF"
      /\ q.ft = r.ft /\ q.queue = r.queue
      /\ RxView(q) = RxView(r) /\ CView(q) = CView(r)
  BY <1>2 DEF Side, RxView, CView
<1> HIDE DEF q
<1>5. Dealt(r, q, f, m)
  BY <1>3, <1>4 DEF Dealt, n
<1> QED BY <1>5 DEF q, L, Z, n

LEMMA SameDealt ==
    ASSUME NEW r \in Side, NEW f \in Files, NEW m
    PROVE  Dealt(r, r, f, m)
BY DEF Dealt

LEMMA ApplyFacts ==
    ASSUME NEW a, a.r \in Side, NEW m \in Answers
    PROVE  /\ Dealt(a.r, Apply(a, m).r, m.file, m)
           /\ \A f \in Apply(a, m).got : f \in a.got \/ (m.cmd = "GOT" /\ f = m.file)
           /\ a.r.ft # "crash" /\ a.r.list[m.file] # "none" /\ m.cmd = "GOT"
              => m.file \in Apply(a, m).got
<1> DEFINE r == a.r
           f == m.file
           q == IF r.list[f] = "Sending" THEN Closed(r) ELSE r
<1>0. m \in Frames /\ m.cmd \in {"GET", "GOT", "SKIP"} /\ f \in Files
  BY FrameFields DEF Answers, Answer, AboutFile
<1>1. CASE r.list[f] = "none" \/ r.ft = "crash"
  <2>1. Apply(a, m) = a
    BY <1>1 DEF Apply
  <2> QED BY <2>1, <1>0, <1>1, SameDealt
<1>2. CASE r.list[f] # "none" /\ r.ft # "crash" /\ m.cmd = "GET"
  <2> DEFINE p == [r EXCEPT !.list[f] = "NoState", !.off[f] = m.n, !.tx = "GNF"]
  <2>1. Apply(a, m) = [a EXCEPT !.r = p]
    BY <1>2 DEF Apply
  <2>2. Dealt(r, p, f, m)
    BY <1>0, <1>2, AskedAgainDealt, Zenon
  <2> HIDE DEF p
  <2>3. Apply(a, m).got = a.got
    BY <2>1
  <2>4. Apply(a, m).r = p
    BY <2>1
  <2> QED BY <2>2, <2>3, <2>4, <1>2
<1>3. CASE r.list[f] # "none" /\ r.ft # "crash" /\ m.cmd = "GOT"
  <2> DEFINE p == [q EXCEPT !.list[f] = "Got"]
  <2>1. Apply(a, m) = [r |-> p, got |-> a.got \cup {f}]
    BY <1>3 DEF Apply
  <2>2. Dealt(r, p, f, m)
    BY <1>0, <1>3, MarkedDealt, Zenon
  <2> HIDE DEF p
  <2> QED BY <2>1, <2>2, <1>3
<1>4. CASE r.list[f] # "none" /\ r.ft # "crash" /\ m.cmd = "SKIP"
  <2> DEFINE p == [q EXCEPT !.list[f] = "Skipped"]
  <2>1. Apply(a, m) = [a EXCEPT !.r = p]
    BY <1>4 DEF Apply
  <2>2. Dealt(r, p, f, m)
    BY <1>0, <1>4, MarkedDealt, Zenon
  <2> HIDE DEF p
  <2>3. Apply(a, m).got = a.got
    BY <2>1
  <2>4. Apply(a, m).r = p
    BY <2>1
  <2> QED BY <2>2, <2>3, <2>4, <1>4
<1> QED BY <1>0, <1>1, <1>2, <1>3, <1>4


(* Induction over the naturals, for a set in place of a predicate. *)
LEMMA SetInduction ==
    ASSUME NEW T, 0 \in T, \A n \in Nat : n \in T => n + 1 \in T
    PROVE  \A n \in Nat : n \in T
<1> SUFFICES ASSUME \E n \in Nat : n \notin T PROVE FALSE
  OBVIOUS
<1> DEFINE S == {n \in Nat : n \notin T}
           R == {ss \in Nat \X Nat : ss[1] < ss[2]}
<1>1. IsWellFoundedOn(R, Nat)
  BY NatLessThanWellFounded DEF OpToRel
<1> HIDE DEF R
<1>2. PICK x \in S : \A y \in S : <<y, x>> \notin R
  BY <1>1, WFMin
<1>3. x \in Nat /\ x \notin T /\ x # 0
  BY <1>2
<1>4. x - 1 \in Nat /\ x - 1 < x /\ (x - 1) + 1 = x
  BY <1>3
<1>5. <<x - 1, x>> \in R
  BY <1>3, <1>4 DEF R
<1>6. x - 1 \in T
  BY <1>2, <1>4, <1>5
<1> QED BY <1>3, <1>4, <1>6

(* What binkp_process_messages starts with and what one message adds. *)
Turn(r, Q, acc, i) ==
    IF i = 0 THEN [r |-> r, got |-> {}] ELSE Apply(acc[i - 1], Q[i])

LEMMA AppliedExist ==
    ASSUME NEW r, NEW Q, NEW n \in Nat
    PROVE  \E acc : acc = [i \in 0..n |-> Turn(r, Q, acc, i)]
<1> DEFINE T == {k \in Nat : \E acc : acc = [i \in 0..k |-> Turn(r, Q, acc, i)]}
<1>1. 0 \in T
  <2> DEFINE f == [i \in 0..0 |-> [r |-> r, got |-> {}]]
  <2>1. f = [i \in 0..0 |-> Turn(r, Q, f, i)]
    BY DEF Turn
  <2> QED BY <2>1
<1>2. ASSUME NEW k \in Nat, k \in T PROVE k + 1 \in T
  <2>1. PICK g : g = [i \in 0..k |-> Turn(r, Q, g, i)]
    BY <1>2
  <2> DEFINE f == [i \in 0..k + 1 |-> IF i = k + 1 THEN Turn(r, Q, g, k + 1) ELSE g[i]]
  <2>2. f[k + 1] = Turn(r, Q, g, k + 1) /\ \A i \in 0..k : f[i] = g[i]
    OBVIOUS
  <2>3. f = [i \in 0..k + 1 |-> f[i]]
    OBVIOUS
  <2> HIDE DEF f
  <2>4. ASSUME NEW i \in 0..k + 1 PROVE f[i] = Turn(r, Q, f, i)
    <3>1. f[i] = Turn(r, Q, g, i)
      <4>1. CASE i = k + 1
        BY <2>2, <4>1
      <4>2. CASE i \in 0..k
        BY <2>1, <2>2, <4>2
      <4> QED BY <4>1, <4>2
    <3>2. CASE i = 0
      BY <3>1, <3>2 DEF Turn
    <3>3. CASE i # 0
      <4>1. i - 1 \in 0..k
        BY <3>3
      <4>2. f[i - 1] = g[i - 1]
        BY <2>2, <4>1
      <4> QED BY <3>1, <3>3, <4>2 DEF Turn
    <3> QED BY <3>2, <3>3
  <2>5. f = [i \in 0..k + 1 |-> Turn(r, Q, f, i)]
    BY <2>3, <2>4
  <2> QED BY <2>5
<1>3. \A k \in Nat : k \in T
  <2> HIDE DEF T
  <2> QED BY <1>1, <1>2, SetInduction
<1> QED BY <1>3

LEMMA AppliedDef ==
    ASSUME NEW r, NEW Q, Len(Q) \in Nat
    PROVE  \A i \in 0..Len(Q) :
              Applied(r, Q)[i] = IF i = 0 THEN [r |-> r, got |-> {}]
                                 ELSE Apply(Applied(r, Q)[i - 1], Q[i])
<1> DEFINE n == Len(Q)
<1>1. \E acc : acc = [i \in 0..n |-> Turn(r, Q, acc, i)]
  BY AppliedExist
<1>2. Applied(r, Q) = CHOOSE acc : acc = [i \in 0..n |-> Turn(r, Q, acc, i)]
  BY DEF Applied, Turn
<1>3. Applied(r, Q) = [i \in 0..n |-> Turn(r, Q, Applied(r, Q), i)]
  <2> DEFINE P(acc) == acc = [i \in 0..n |-> Turn(r, Q, acc, i)]
  <2>1. \E acc : P(acc)
    BY <1>1
  <2>2. P(CHOOSE acc : P(acc))
    <3> HIDE DEF P
    <3> QED BY <2>1
  <2> QED BY <1>2, <2>2
<1>4. ASSUME NEW i \in 0..n
      PROVE  Applied(r, Q)[i] = Turn(r, Q, Applied(r, Q), i)
  BY <1>3
<1> QED BY <1>4 DEF Turn

(* What is left of side r and what it has to dispose of, once the first i messages of Q *)
(* have been dealt with.                                                                *)
Same(r, q) ==
    /\ q \in Side /\ RxView(q) = RxView(r) /\ CView(q) = CView(r)
    /\ q.queue = r.queue /\ q.pos = r.pos /\ q.ft \in {r.ft, "crash"}
    /\ \/ q.tx = "GNF"
       \/ q.tx = r.tx /\ q.fp = r.fp /\ q.cur = r.cur

Kept(r, q, Q, i) ==
    /\ \A g \in Files : (\A k \in 1..i : Q[k].file # g)
                        => q.list[g] = r.list[g] /\ q.off[g] = r.off[g]
    /\ \A g \in Files : q.list[g] = "none" <=> r.list[g] = "none"
    /\ \A g \in Files : q.tx # "GNF" /\ r.list[g] = "Sending" => q.list[g] = "Sending"

Restarted(r, q, Q, i) ==
    \A g \in Files : q.list[g] = "NoState" =>
        \/ r.list[g] = "NoState" /\ q.off[g] = r.off[g]
        \/ \E k \in 1..i : Q[k].cmd = "GET" /\ Q[k].file = g /\ q.off[g] = Q[k].n

Disposes(G, Q, i) == \A g \in G : \E k \in 1..i : Q[k].cmd = "GOT" /\ Q[k].file = g

Progress(r, a, Q, i) ==
    Same(r, a.r) /\ Kept(r, a.r, Q, i) /\ Restarted(r, a.r, Q, i) /\ Disposes(a.got, Q, i)

LEMMA ProgressStep ==
    ASSUME NEW r \in Side, NEW Q \in Queue, NEW i \in Nat, i + 1 <= Len(Q), NEW a,
           Progress(r, a, Q, i)
    PROVE  Progress(r, Apply(a, Q[i + 1]), Q, i + 1)
<1> DEFINE m == Q[i + 1]
           b == Apply(a, m)
           p == a.r
           q == b.r
           f == m.file
<1>0. m \in Answers /\ p \in Side
  BY DEF Progress, Same, Queue
<1>1. Dealt(p, q, f, m)
  BY <1>0, ApplyFacts, Zenon
<1>2. \A g \in b.got : g \in a.got \/ (m.cmd = "GOT" /\ g = m.file)
  BY <1>0, ApplyFacts, Zenon
<1>3. /\ i + 1 \in 1..i + 1 /\ Q[i + 1] = m
      /\ \A k \in 1..i : k \in 1..i + 1
  OBVIOUS
<1>4. Same(r, p) /\ Kept(r, p, Q, i) /\ Restarted(r, p, Q, i) /\ Disposes(a.got, Q, i)
  BY DEF Progress
<1> HIDE DEF b, p, q, m
<1>5. Same(r, q)
  BY <1>1, <1>4 DEF Same, Dealt
<1>6. Disposes(b.got, Q, i + 1)
  BY <1>2, <1>3, <1>4 DEF Disposes
<1>7. Kept(r, q, Q, i + 1)
  <2>1. ASSUME NEW g \in Files, \A k \in 1..i + 1 : Q[k].file # g
        PROVE  q.list[g] = r.list[g] /\ q.off[g] = r.off[g]
    <3>1. g # f /\ \A k \in 1..i : Q[k].file # g
      BY <2>1, <1>3
    <3> QED BY <3>1, <1>1, <1>4 DEF Kept, Dealt
  <2>2. ASSUME NEW g \in Files PROVE q.list[g] = "none" <=> r.list[g] = "none"
    BY <1>1, <1>4 DEF Kept, Dealt
  <2>3. ASSUME NEW g \in Files, q.tx # "GNF", r.list[g] = "Sending"
        PROVE  q.list[g] = "Sending"
    <3>1. p.tx # "GNF"
      BY <2>3, <1>1 DEF Dealt
    <3>2. p.list[g] = "Sending"
      BY <3>1, <2>3, <1>4 DEF Kept
    <3> QED BY <3>2, <2>3, <1>1 DEF Dealt
  <2> QED BY <2>1, <2>2, <2>3 DEF Kept
<1>8. Restarted(r, q, Q, i + 1)
  <2> SUFFICES ASSUME NEW g \in Files, q.list[g] = "NoState"
               PROVE  \/ r.list[g] = "NoState" /\ q.off[g] = r.off[g]
                      \/ \E k \in 1..i + 1 :
                            Q[k].cmd = "GET" /\ Q[k].file = g /\ q.off[g] = Q[k].n
    BY DEF Restarted
  <2>1. CASE q.list[g] = p.list[g] /\ q.off[g] = p.off[g]
    <3>1. \/ r.list[g] = "NoState" /\ p.off[g] = r.off[g]
          \/ \E k \in 1..i : Q[k].cmd = "GET" /\ Q[k].file = g /\ p.off[g] = Q[k].n
      BY <2>1, <1>4 DEF Restarted
    <3> QED BY <3>1, <2>1, <1>3
  <2>2. CASE g = f /\ m.cmd = "GET" /\ q.off[f] = m.n
    BY <2>2, <1>3
  <2>3. \/ q.list[g] = p.list[g] /\ q.off[g] = p.off[g]
        \/ g = f /\ m.cmd = "GET" /\ q.off[f] = m.n
    BY <1>1 DEF Dealt
  <2> QED BY <2>1, <2>2, <2>3
<1> QED BY <1>5, <1>6, <1>7, <1>8 DEF Progress, b, q, m

LEMMA ProgressAll ==
    ASSUME NEW r \in Side, NEW Q \in Queue
    PROVE  Progress(r, Applied(r, Q)[Len(Q)], Q, Len(Q))
<1> DEFINE A == Applied(r, Q)
           T == {k \in Nat : k <= Len(Q) => Progress(r, A[k], Q, k)}
<1>0. Len(Q) \in Nat
  BY DEF Queue
<1>1. \A i \in 0..Len(Q) : A[i] = IF i = 0 THEN [r |-> r, got |-> {}]
                                  ELSE Apply(A[i - 1], Q[i])
  BY <1>0, AppliedDef, Zenon
<1> HIDE DEF A
<1>2. 0 \in T
  <2>0. 0 \in 0..Len(Q)
    BY <1>0
  <2>1. A[0] = [r |-> r, got |-> {}]
    BY <2>0, <1>1, Zenon
  <2>2. A[0].r = r /\ A[0].got = {}
    BY <2>1
  <2> QED BY <2>2 DEF Progress, Same, Kept, Restarted, Disposes
<1>3. ASSUME NEW k \in Nat, k \in T PROVE k + 1 \in T
  <2> SUFFICES ASSUME k + 1 <= Len(Q) PROVE Progress(r, A[k + 1], Q, k + 1)
    OBVIOUS
  <2>1. Progress(r, A[k], Q, k)
    BY <1>3, <1>0
  <2>2. k + 1 \in 0..Len(Q) /\ (k + 1) - 1 = k /\ k + 1 # 0
    BY <1>0
  <2>3. A[k + 1] = Apply(A[k], Q[k + 1])
    BY <2>2, <1>1
  <2> QED BY <2>1, <2>3, ProgressStep
<1>4. \A k \in Nat : k \in T
  <2> HIDE DEF T
  <2> QED BY <1>2, <1>3, SetInduction
<1> QED BY <1>0, <1>4 DEF A


-----------------------------------------------------------------------------
(* What every step keeps: the types, and the tally of each side. *)

Owes(s) == ToSend(s) # {}

CoreInv == TypeOK /\ \A s \in Sides : SideOK(st[s], work.minor, Owes(s))

Channels == [Sides -> Seq(Frames)]

(* Side s makes a step that leaves it sound. *)
Moved(s) ==
    \E q : /\ SideOK(q, work.minor, Owes(s)) /\ st' = [st EXCEPT ![s] = q]
           /\ chan' \in Channels

LEMMA OtherSide ==
    ASSUME NEW s \in Sides
    PROVE  Other(s) \in Sides /\ Other(s) # s /\ Other(Other(s)) = s
BY DEF Other, Sides

LEMMA ShortType ==
    ASSUME NEW frames, Short(frames)
    PROVE  frames \in Seq(Frames)
<1>1. <<>> \in Seq(Frames)
  OBVIOUS
<1>2. ASSUME NEW m \in Frames PROVE <<m>> \in Seq(Frames)
  OBVIOUS
<1>3. ASSUME NEW m \in Frames, NEW n \in Frames PROVE <<m, n>> \in Seq(Frames)
  OBVIOUS
<1> QED BY <1>1, <1>2, <1>3, Zenon DEF Short

LEMMA ShortForms ==
    ASSUME NEW m \in Frames, NEW n \in Frames
    PROVE  Short(<<>>) /\ Short(<<m>>) /\ Short(<<m, n>>)
BY DEF Short

LEMMA NothingShort == Short(<<>>)
BY DEF Short

LEMMA CarryType ==
    ASSUME NEW s \in Sides, NEW frames, Short(frames), NEW c \in Channels
    PROVE  Carry(s, frames, c) \in Channels
<1>1. frames \in Seq(Frames)
  BY ShortType
<1>2. c[s] \o frames \in Seq(Frames)
  BY <1>1 DEF Channels
<1> QED BY <1>2 DEF Carry, Channels

LEMMA TakenType ==
    ASSUME TypeOK, NEW s \in Sides, chan[Other(s)] # <<>>
    PROVE  /\ Head(chan[Other(s)]) \in Frames
           /\ [chan EXCEPT ![Other(s)] = Tail(@)] \in Channels
<1>1. chan[Other(s)] \in Seq(Frames) /\ Other(s) \in Sides
  BY OtherSide DEF TypeOK
<1>2. Tail(chan[Other(s)]) \in Seq(Frames) /\ Head(chan[Other(s)]) \in Frames
  BY <1>1
<1> QED BY <1>2 DEF TypeOK, Channels

LEMMA RxOkStep ==
    ASSUME TypeOK, NEW s \in Sides, chan[Other(s)] # <<>>, NEW r,
           SideOK(r, work.minor, Owes(s)), ~Ended(r), NEW frames, Short(frames),
           RxOk(s, r, frames)
    PROVE  Moved(s)
<1> DEFINE q == Returned(r, frames)
           c == [chan EXCEPT ![Other(s)] = Tail(@)]
<1>1. SideOK(q, work.minor, Owes(s))
  BY RxOkSide, Zenon
<1>2. st' = [st EXCEPT ![s] = q] /\ chan' = Carry(s, frames, c)
  BY DEF RxOk, Returned
<1>3. c \in Channels
  BY TakenType, Zenon
<1> HIDE DEF q, c
<1> QED BY <1>1, <1>2, <1>3, CarryType DEF Moved

LEMMA RxFailureStep ==
    ASSUME TypeOK, NEW s \in Sides, chan[Other(s)] # <<>>, NEW r,
           SideOK(r, work.minor, Owes(s)), ~Ended(r), NEW frames, Short(frames),
           RxFailure(s, r, frames)
    PROVE  Moved(s)
<1> DEFINE q == Failed([SentAll(r, frames) EXCEPT !.rx = "Done"])
           c == [chan EXCEPT ![Other(s)] = Tail(@)]
<1>1. SideOK(q, work.minor, Owes(s))
  BY RxFailureSide, Zenon
<1>2. st' = [st EXCEPT ![s] = q] /\ chan' = Carry(s, frames, c)
  BY DEF RxFailure
<1>3. c \in Channels
  BY TakenType, Zenon
<1> HIDE DEF q, c
<1> QED BY <1>1, <1>2, <1>3, CarryType DEF Moved

LEMMA CrashStep ==
    ASSUME TypeOK, NEW s \in Sides, chan[Other(s)] # <<>>, NEW r \in Side,
           Crash(s, r)
    PROVE  Moved(s)
<1> DEFINE q == [r EXCEPT !.ft = "crash"]
           c == [chan EXCEPT ![Other(s)] = Tail(@)]
<1>0. "crash" \in FtStates
  BY DEF FtStates
<1>1. q \in Side /\ q.ft = "crash" /\ TxView(q) = TxView(r) /\ RxView(q) = RxView(r)
  BY <1>0, FtFacts, Zenon
<1>2. st' = [st EXCEPT ![s] = q] /\ chan' = c
  BY DEF Crash
<1>3. c \in Channels
  BY TakenType, Zenon
<1> HIDE DEF q, c
<1>4. SideOK(q, work.minor, Owes(s))
  BY <1>1, EndedSide
<1> QED BY <1>2, <1>3, <1>4 DEF Moved

(* The side whose frame was polled. *)
LEMMA PolledSide ==
    ASSUME CoreInv, NEW s \in Sides, st[s].ft = "Switch", NEW m \in Frames
    PROVE  LET r == Polled(st[s], m) IN
           SideOK(r, work.minor, Owes(s)) /\ ~Ended(r) /\ Alike(st[s], r) /\ r \in Side
<1>1. SideOK(st[s], work.minor, Owes(s)) /\ ~Ended(st[s])
  BY DEF CoreInv, Ended
<1>2. /\ SideOK(Polled(st[s], m), work.minor, Owes(s)) /\ ~Ended(Polled(st[s], m))
      /\ Alike(st[s], Polled(st[s], m))
  BY <1>1, TallyPolled, Zenon
<1> QED BY <1>2 DEF Alike


LEMMA RxMessageStep ==
    ASSUME TypeOK, NEW s \in Sides, chan[Other(s)] # <<>>, NEW m \in Frames, NEW r,
           SideOK(r, work.minor, Owes(s)), ~Ended(r), RxMessage(s, r, m)
    PROVE  Moved(s)
<1> DEFINE q == [r EXCEPT !.queue = Append(@, m)]
<1>0. r \in Side /\ Answer(m) /\ Open(r)
  BY DEF SideOK, RxMessage, Answer
<1>1. /\ q \in Side /\ q.tx = r.tx /\ q.cur = r.cur /\ q.fp = r.fp
      /\ q.list = r.list /\ q.ft = r.ft
      /\ RxView(q) = RxView(r) /\ CView(q) = CView(r)
  BY <1>0, QueuedFacts, Zenon
<1>2. RxOk(s, q, <<>>)
  BY DEF RxMessage
<1> HIDE DEF q
<1>3. Open(q) /\ ~Ended(q)
  BY <1>0, <1>1 DEF Open, RxView, Ended
<1>4. SideOK(q, work.minor, Owes(s))
  BY <1>1, <1>3, TallySame
<1> QED BY <1>2, <1>3, <1>4, NothingShort, RxOkStep

LEMMA RxEOBStep ==
    ASSUME TypeOK, NEW s \in Sides, chan[Other(s)] # <<>>, NEW m \in Frames, NEW r,
           SideOK(r, work.minor, Owes(s)), ~Ended(r), RxEOB(s, r, m)
    PROVE  Moved(s)
<1>0. r \in Side
  BY DEF SideOK
<1>1. CASE RxFailure(s, r, <<>>)
  BY <1>1, NothingShort, RxFailureStep
<1>2. CASE RxOk(s, [r EXCEPT !.rx = "EOB"], <<>>)
  <2> DEFINE q == [r EXCEPT !.rx = "EOB"]
  <2>1. "EOB" \in RxStates
    BY DEF RxStates
  <2>2. Received(r, q) /\ q.rx = "EOB"
    BY <1>0, <2>1, RxTo, Zenon
  <2>3. RxOk(s, q, <<>>)
    BY <1>2
  <2> HIDE DEF q
  <2>4. SideOK(q, work.minor, Owes(s)) /\ ~Ended(q)
    BY <2>2, ReceivedSide
  <2> QED BY <2>3, <2>4, NothingShort, RxOkStep
<1>3. CASE RxOk(s, NewBatch(r), <<>>)
  <2>1. r.batchnr + 1 \in Nat
    BY <1>0 DEF Side
  <2>2. SideOK(NewBatch(r), work.minor, Owes(s)) /\ ~Ended(NewBatch(r))
    BY <1>0, <2>1, NewBatchFacts, Zenon
  <2> QED BY <1>3, <2>2, NothingShort, RxOkStep
<1>4. CASE RxOk(s, r, <<>>)
  BY <1>4, NothingShort, RxOkStep
<1> QED BY <1>1, <1>2, <1>3, <1>4 DEF RxEOB

(* Once a file is open the receiver waits for the next frame, or for the data. *)
LEMMA AcceptStep ==
    ASSUME TypeOK, NEW s \in Sides, chan[Other(s)] # <<>>, NEW m \in Frames, NEW r,
           SideOK(r, work.minor, Owes(s)), ~Ended(r), m.file \in Files,
           r.rfp \in Files, r.rname \in Files, Accept(s, r, m)
    PROVE  Moved(s)
<1> DEFINE f == m.file
           w == [r EXCEPT !.rx = "WaitF"]
           z == [w EXCEPT !.rfp = None]
           d == [r EXCEPT !.rx = "ReceD"]
<1>0. r \in Side /\ "WaitF" \in RxStates /\ "ReceD" \in RxStates /\ None \in Handle
  BY DEF SideOK, RxStates, Handle
<1>1. Received(r, w) /\ w.rx = "WaitF"
  BY <1>0, RxTo, Zenon
<1>2. Received(r, d) /\ d.rfp = r.rfp /\ d.rname = r.rname
  BY <1>0, RxTo, Zenon
<1>3. \/ RxOk(s, z, <<Reply("GOT", f)>>)
      \/ RxOk(s, w, <<Cmd("GET", f, r.rbytes, 0)>>)
      \/ RxOk(s, d, <<>>)
  BY DEF Accept
<1> HIDE DEF w, d
<1>4. Received(w, z) /\ z.rx = "WaitF"
  BY <1>0, <1>1, RfpTo, Zenon DEF Received
<1> HIDE DEF z
<1>5. SideOK(w, work.minor, Owes(s)) /\ ~Ended(w)
  BY <1>1, ReceivedSide
<1>6. SideOK(d, work.minor, Owes(s)) /\ ~Ended(d)
  BY <1>2, ReceivedSide
<1>7. SideOK(z, work.minor, Owes(s)) /\ ~Ended(z)
  BY <1>4, <1>5, ReceivedSide
<1>8. r.rbytes \in Nat /\ 0 \in Nat
  BY <1>0 DEF Side
<1>9. Reply("GOT", f) \in Frames /\ Cmd("GET", f, r.rbytes, 0) \in Frames
  BY <1>8, CmdFrame, Zenon DEF Reply
<1> HIDE DEF f
<1>10. CASE RxOk(s, z, <<Reply("GOT", f)>>)
  BY <1>10, <1>7, <1>9, ShortForms, RxOkStep
<1>11. CASE RxOk(s, w, <<Cmd("GET", f, r.rbytes, 0)>>)
  BY <1>11, <1>5, <1>9, ShortForms, RxOkStep
<1>12. CASE RxOk(s, d, <<>>)
  BY <1>12, <1>6, NothingShort, RxOkStep
<1> QED BY <1>3, <1>10, <1>11, <1>12


LEMMA OpenedOpen ==
    ASSUME TypeOK, NEW s \in Sides, NEW m \in Frames, m.file \in Files, NEW r,
           SideOK(r, work.minor, Owes(s)), ~Ended(r)
    PROVE  LET q == Opened(s, Saved(r), m) IN
           /\ q \in Side /\ q.rname = m.file /\ Received(r, q)
           /\ q.rfp \in Files =>
                 SideOK(q, work.minor, Owes(s)) /\ ~Ended(q)
           /\ q.rx = r.rx /\ Received(r, Saved(r))
<1> DEFINE p == Saved(r)
           q == Opened(s, p, m)
<1>0. r \in Side
  BY DEF SideOK
<1>1. Received(r, p) /\ p.rx = r.rx
  BY <1>0, SavedFacts, Zenon
<1> HIDE DEF p
<1>2. p \in Side /\ Len(part[s][m.file]) \in Nat
  BY <1>1 DEF Received, TypeOK
<1>3. Received(p, q) /\ q.rx = p.rx /\ q.rname = m.file
  BY <1>2, OpenedFacts, Zenon
<1> HIDE DEF q
<1>4. Received(r, q)
  BY <1>1, <1>3 DEF Received
<1>5. q \in Side
  BY <1>3 DEF Received
<1>6. ASSUME q.rfp \in Files PROVE SideOK(q, work.minor, Owes(s)) /\ ~Ended(q)
  BY <1>3, <1>4, <1>6, ReceivedSide
<1> QED BY <1>1, <1>3, <1>4, <1>5, <1>6 DEF q, p

(* RxFailure closes the receiver first: no file needs to be open. *)
LEMMA FailingStep ==
    ASSUME TypeOK, NEW s \in Sides, chan[Other(s)] # <<>>, NEW q \in Side,
           NEW m \in Frames, RxFailure(s, q, <<m>>)
    PROVE  Moved(s)
<1> DEFINE a == Sent(q, m)
           b == [a EXCEPT !.rx = "Done"]
           c == [chan EXCEPT ![Other(s)] = Tail(@)]
<1>0. "Done" \in RxStates
  BY DEF RxStates
<1>1. Alike(q, a)
  BY <1>0, SentFacts, Zenon
<1>2. SentAll(q, <<m>>) = a
  BY SentOne
<1>3. st' = [st EXCEPT ![s] = Failed(b)] /\ chan' = Carry(s, <<m>>, c)
  BY <1>2 DEF RxFailure
<1>4. c \in Channels
  BY TakenType, Zenon
<1> HIDE DEF a, c
<1>5. a \in Side
  BY <1>1 DEF Alike
<1>6. Received(a, b)
  BY <1>0, <1>5, RxTo, Zenon
<1> HIDE DEF b
<1>7. b \in Side
  BY <1>6 DEF Received
<1>8. SideOK(Failed(b), work.minor, Owes(s))
  BY <1>7, FailedFacts, Zenon
<1>9. Short(<<m>>)
  BY ShortForms
<1> QED BY <1>3, <1>4, <1>8, <1>9, CarryType DEF Moved


LEMMA RxFileStep ==
    ASSUME TypeOK, NEW s \in Sides, chan[Other(s)] # <<>>, NEW m \in Frames, NEW r,
           SideOK(r, work.minor, Owes(s)), ~Ended(r), RxFile(s, r, m)
    PROVE  Moved(s) /\ faults' \in Nat /\ UNCHANGED store
<1> DEFINE p == Saved(r)
           q == Opened(s, p, m)
           w == [p EXCEPT !.rx = "WaitF"]
<1>0. m.file \in Files /\ "WaitF" \in RxStates
  BY FrameFields DEF RxFile, AboutFile, RxStates
<1>1. /\ q \in Side /\ q.rname = m.file
      /\ q.rfp \in Files => SideOK(q, work.minor, Owes(s)) /\ ~Ended(q)
      /\ Received(r, p)
  BY <1>0, OpenedOpen, Zenon
<1>2. UNCHANGED store /\ faults' \in Nat
  BY DEF RxFile, Fault, TypeOK
<1>3. \/ RxOk(s, w, <<Reply("GOT", m.file)>>)
      \/ Crash(s, q)
      \/ q.rfp \in Files /\ Accept(s, q, m)
      \/ RxFailure(s, q, <<Plain("BSY")>>)
  BY DEF RxFile
<1> HIDE DEF p
<1>4. Received(p, w) /\ w.rx = "WaitF"
  BY <1>0, <1>1, RxTo, Zenon DEF Received
<1> HIDE DEF q, w
<1>5. CASE RxOk(s, w, <<Reply("GOT", m.file)>>)
  <2>1. Received(r, w)
    BY <1>1, <1>4 DEF Received
  <2>2. SideOK(w, work.minor, Owes(s)) /\ ~Ended(w)
    BY <1>4, <2>1, ReceivedSide
  <2>3. Reply("GOT", m.file) \in Frames
    BY <1>0, CmdFrame DEF Reply
  <2> QED BY <1>2, <1>5, <2>2, <2>3, ShortForms, RxOkStep
<1>6. CASE Crash(s, q)
  BY <1>1, <1>2, <1>6, CrashStep
<1>7. CASE q.rfp \in Files /\ Accept(s, q, m)
  BY <1>0, <1>1, <1>2, <1>7, AcceptStep
<1>8. CASE RxFailure(s, q, <<Plain("BSY")>>)
  BY <1>1, <1>2, <1>8, PlainFrame, FailingStep
<1> QED BY <1>3, <1>5, <1>6, <1>7, <1>8

Store == [Sides -> [Files -> Seq(Blocks)]]

LEMMA StoreTo ==
    ASSUME NEW P \in Store, NEW s \in Sides, NEW g \in Files, NEW x \in Seq(Blocks)
    PROVE  [P EXCEPT ![s][g] = x] \in Store
BY DEF Store

LEMMA BlockType ==
    ASSUME NEW m \in Frames, m.file \in Files
    PROVE  Block(m) \in Blocks
BY FrameFields DEF Block, Blocks

(* What becomes of a side that has written a block. *)
LEMMA WrittenFacts ==
    ASSUME NEW r \in Side
    PROVE  LET q == [r EXCEPT !.rpos = @ + 1] IN
           /\ Received(r, q) /\ q.rpos = r.rpos + 1 /\ q.rx = r.rx /\ q.rname = r.rname
           /\ q.rver = r.rver /\ q.rbytes = r.rbytes /\ q.rfp = r.rfp /\ q.crcerr = r.crcerr
<1> DEFINE n == r.rpos + 1
<1>1. n \in Nat
  BY DEF Side
<1> HIDE DEF n
<1>2. LET q == [r EXCEPT !.rpos = n] IN
      /\ Received(r, q) /\ q.rpos = n /\ q.rx = r.rx /\ q.rname = r.rname
      /\ q.rver = r.rver /\ q.rbytes = r.rbytes /\ q.rfp = r.rfp /\ q.crcerr = r.crcerr
  BY <1>1 DEF Side, Received, TxView, CView
<1> QED BY <1>2 DEF n

LEMMA DoneFacts ==
    ASSUME NEW r \in Side
    PROVE  LET q == [r EXCEPT !.inf = None, !.rfp = "freed", !.rx = "WaitF"] IN
           /\ Received(r, q) /\ q.rpos = r.rpos /\ q.rx = "WaitF" /\ q.rname = r.rname
           /\ q.rver = r.rver /\ q.rbytes = r.rbytes /\ q.rfp = "freed"
<1>1. None \in Name /\ "freed" \in Handle /\ "WaitF" \in RxStates
  BY DEF Name, Handle, RxStates
<1> QED BY <1>1 DEF Side, Received, TxView, CView

LEMMA CrcFacts ==
    ASSUME NEW r \in Side
    PROVE  LET q == [r EXCEPT !.crcerr = 1] IN Received(r, q) /\ RxView(q) = RxView(r)
<1>1. 1 \in Nat
  OBVIOUS
<1> QED BY <1>1 DEF Side, Received, TxView, CView, RxView

LEMMA RxDataStep ==
    ASSUME TypeOK, NEW s \in Sides, chan[Other(s)] # <<>>, NEW m \in Frames, NEW r,
           SideOK(r, work.minor, Owes(s)), ~Ended(r), RxData(s, r, m)
    PROVE  Moved(s) /\ faults' \in Nat /\ part' \in Store /\ inbound' \in Store
<1> DEFINE g    == r.rfp
           file == Append(part[s][g], Block(m))
           q    == [r EXCEPT !.rpos = @ + 1]
           done == [q EXCEPT !.inf = None, !.rfp = "freed", !.rx = "WaitF"]
           skip == [done EXCEPT !.crcerr = 1]
<1>0. m.file \in Files /\ r.rx = "ReceD" /\ g \in Files /\ r.rname \in Files /\ r \in Side
  BY FrameFields DEF RxData, AboutFile, SideOK, Open
<1>1. part \in Store /\ inbound \in Store /\ faults \in Nat
  BY DEF TypeOK, Store
<1>2. file \in Seq(Blocks) /\ <<>> \in Seq(Blocks)
  BY <1>0, <1>1, BlockType DEF Store
<1>3. /\ RxOk(s, q, <<>>) \/ RxOk(s, skip, <<Reply("SKIP", r.rname)>>)
         \/ RxFailure(s, done, <<Plain("ERR")>>) \/ RxOk(s, done, <<Reply("GOT", r.rname)>>)
      /\ \/ part' = [part EXCEPT ![s][g] = file]
         \/ part' = [part EXCEPT ![s][g] = <<>>]
      /\ inbound' = inbound \/ inbound' = [inbound EXCEPT ![s][g] = file]
      /\ faults' = faults \/ faults' = faults + 1
  BY DEF RxData, Fault
<1> HIDE DEF file
<1>a. [part EXCEPT ![s][g] = file] \in Store /\ [part EXCEPT ![s][g] = <<>>] \in Store
  BY <1>0, <1>1, <1>2, StoreTo
<1>b. [inbound EXCEPT ![s][g] = file] \in Store
  BY <1>0, <1>1, <1>2, StoreTo
<1>4. part' \in Store
  BY <1>a, <1>3
<1>5. inbound' \in Store
  BY <1>b, <1>1, <1>3
<1>6. faults' \in Nat
  BY <1>1, <1>3
<1>7. Received(r, q) /\ q.rx = r.rx /\ q.rname = r.rname /\ q.rfp = r.rfp
  BY <1>0, WrittenFacts, Zenon
<1> HIDE DEF q
<1>8. Received(q, done) /\ done.rx = "WaitF"
  BY <1>7, DoneFacts, Zenon DEF Received
<1> HIDE DEF done
<1>9. Received(done, skip) /\ RxView(skip) = RxView(done)
  BY <1>8, CrcFacts, Zenon DEF Received
<1> HIDE DEF skip
<1>10. SideOK(q, work.minor, Owes(s)) /\ ~Ended(q)
  BY <1>0, <1>7, ReceivedSide
<1>11. SideOK(done, work.minor, Owes(s)) /\ ~Ended(done)
  BY <1>8, <1>10, ReceivedSide
<1>12. SideOK(skip, work.minor, Owes(s)) /\ ~Ended(skip)
  <2>1. skip.rx # "ReceD"
    BY <1>8, <1>9 DEF RxView
  <2> QED BY <1>9, <1>11, <2>1, ReceivedSide
<1>13. Reply("SKIP", r.rname) \in Frames /\ Reply("GOT", r.rname) \in Frames
  BY <1>0, CmdFrame, Zenon DEF Reply
<1>14. CASE RxOk(s, q, <<>>)
  BY <1>4, <1>5, <1>6, <1>10, <1>14, NothingShort, RxOkStep
<1>15. CASE RxOk(s, skip, <<Reply("SKIP", r.rname)>>)
  BY <1>4, <1>5, <1>6, <1>12, <1>13, <1>15, ShortForms, RxOkStep
<1>16. CASE RxOk(s, done, <<Reply("GOT", r.rname)>>)
  BY <1>4, <1>5, <1>6, <1>11, <1>13, <1>16, ShortForms, RxOkStep
<1>17. CASE RxFailure(s, done, <<Plain("ERR")>>)
  <2>1. done \in Side
    BY <1>8 DEF Received
  <2> QED BY <1>4, <1>5, <1>6, <1>17, <2>1, PlainFrame, FailingStep
<1> QED BY <1>3, <1>14, <1>15, <1>16, <1>17


LEMMA ReceiveStep ==
    ASSUME CoreInv, NEW s \in Sides, Receive(s)
    PROVE  /\ Moved(s) /\ faults' \in Nat /\ part' \in Store /\ inbound' \in Store
           /\ UNCHANGED <<work, session, link, files>>
<1> DEFINE m == Head(chan[Other(s)])
           r == Polled(st[s], m)
<1>0. TypeOK /\ chan[Other(s)] # <<>> /\ st[s].ft = "Switch"
  BY DEF CoreInv, Receive
<1>1. m \in Frames
  BY <1>0, TakenType, Zenon
<1>2. part \in Store /\ inbound \in Store /\ faults \in Nat
  BY <1>0 DEF TypeOK, Store
<1>3. /\ \/ RxMessage(s, r, m) \/ RxNul(s, r, m) \/ RxEOB(s, r, m)
         \/ RxError(s, r, m) \/ RxFile(s, r, m) \/ RxLateFile(s, r, m)
         \/ RxStray(s, r, m) \/ RxData(s, r, m)
      /\ UNCHANGED <<work, session, link, files>>
  BY DEF Receive
<1> HIDE DEF m
<1>4. SideOK(r, work.minor, Owes(s)) /\ ~Ended(r)
  BY <1>0, <1>1, PolledSide, Zenon
<1> HIDE DEF r
<1>5. CASE RxMessage(s, r, m)
  <2>1. Moved(s)
    BY <1>0, <1>1, <1>4, <1>5, RxMessageStep
  <2> QED BY <1>2, <1>3, <1>5, <2>1 DEF RxMessage, store
<1>6. CASE RxNul(s, r, m)
  <2>1. RxOk(s, r, <<>>) /\ UNCHANGED <<faults, store>>
    BY <1>6 DEF RxNul
  <2>2. Moved(s)
    BY <1>0, <1>4, <2>1, NothingShort, RxOkStep
  <2> QED BY <1>2, <1>3, <2>1, <2>2 DEF store
<1>7. CASE RxEOB(s, r, m)
  <2>1. Moved(s)
    BY <1>0, <1>1, <1>4, <1>7, RxEOBStep
  <2> QED BY <1>2, <1>3, <1>7, <2>1 DEF RxEOB, store
<1>8. CASE RxError(s, r, m) \/ RxLateFile(s, r, m)
  <2>1. RxFailure(s, r, <<>>) /\ UNCHANGED <<faults, store>>
    BY <1>8 DEF RxError, RxLateFile
  <2>2. Moved(s)
    BY <1>0, <1>4, <2>1, NothingShort, RxFailureStep
  <2> QED BY <1>2, <1>3, <2>1, <2>2 DEF store
<1>9. CASE RxFile(s, r, m)
  <2>1. Moved(s) /\ faults' \in Nat /\ UNCHANGED store
    BY <1>0, <1>1, <1>4, <1>9, RxFileStep
  <2> QED BY <1>2, <1>3, <2>1 DEF store
<1>10. CASE RxStray(s, r, m)
  <2>1. RxOk(s, r, <<>>) /\ UNCHANGED <<faults, store>>
    BY <1>10 DEF RxStray
  <2>2. Moved(s)
    BY <1>0, <1>4, <2>1, NothingShort, RxOkStep
  <2> QED BY <1>2, <1>3, <2>1, <2>2 DEF store
<1>11. CASE RxData(s, r, m)
  BY <1>0, <1>1, <1>3, <1>4, <1>11, RxDataStep
<1> QED BY <1>3, <1>5, <1>6, <1>7, <1>8, <1>9, <1>10, <1>11


-----------------------------------------------------------------------------
(* The steps of the transmitter. *)

LEMMA TxMoved ==
    ASSUME TypeOK, NEW s \in Sides, NEW r, NEW frames, Short(frames), Tx(s, r, frames),
           SideOK(SentAll(r, frames), work.minor, Owes(s))
    PROVE  Moved(s)
<1>1. chan \in Channels
  BY DEF TypeOK, Channels
<1>2. Carry(s, frames, chan) \in Channels
  BY <1>1, CarryType
<1> QED BY <1>2 DEF Tx, Moved

LEMMA TxStep ==
    ASSUME TypeOK, NEW s \in Sides, NEW r, SideOK(r, work.minor, Owes(s)), ~Ended(r),
           NEW frames, Short(frames), Tx(s, r, frames)
    PROVE  Moved(s)
<1>1. SideOK(SentAll(r, frames), work.minor, Owes(s))
  BY TallySentAll
<1> QED BY <1>1, TxMoved

LEMMA ReadySide ==
    ASSUME CoreInv, NEW s \in Sides, Ready(s)
    PROVE  SideOK(st[s], work.minor, Owes(s)) /\ ~Ended(st[s]) /\ st[s] \in Side /\ TypeOK
BY DEF CoreInv, Ready, Ended, SideOK

LEMMA TwoFrames ==
    ASSUME NEW n, NEW m
    PROVE  <<n>> \o <<m>> = <<n, m>>
<1> DEFINE T == {n, m}
           c == <<n>> \o <<m>>
           d == <<n, m>>
<1>1. <<n>> \in Seq(T) /\ <<m>> \in Seq(T)
  OBVIOUS
<1>2. c \in Seq(T) /\ d \in Seq(T) /\ Len(d) = 2 /\ d[1] = n /\ d[2] = m
  BY <1>1
<1>3. Len(c) = 2 /\ c[1] = n /\ c[2] = m
  BY <1>1
<1> HIDE DEF c, d
<1>4. \A i \in 1..2 : c[i] = d[i]
  BY <1>2, <1>3
<1>5. c = d
  BY <1>2, <1>3, <1>4, SeqEqual
<1> QED BY <1>5 DEF c, d

(* The frames of a step that may announce its list first. *)
LEMMA AnnounceForms ==
    ASSUME NEW s, NEW r, NEW m
    PROVE  \/ Announce(s, r) = <<>> /\ Announce(s, r) \o <<m>> = <<m>>
              /\ (NeedsList(r) => r.batchnr # 0 /\ ~Holds(Listed(s, r).list))
           \/ /\ Announce(s, r) = <<Plain("NUL")>>
              /\ Announce(s, r) \o <<m>> = <<Plain("NUL"), m>>
              /\ NeedsList(r)
<1> DEFINE n == Plain("NUL")
<1>1. <<>> \o <<m>> = <<m>>
  OBVIOUS
<1>2. <<n>> \o <<m>> = <<n, m>>
  BY TwoFrames
<1> QED BY <1>1, <1>2 DEF Announce

(* Where no file is empty, a list of files holds something. *)
LEMMA ListHolds ==
    ASSUME NEW s, NEW r \in Side, NoEmptyFile, Listed(s, r).list # NoList
    PROVE  Holds(Listed(s, r).list)
<1> DEFINE q == Listed(s, r)
<1>1. q \in Side
  BY ListedFacts, Zenon
<1> HIDE DEF q
<1>2. q.list \in [Files -> ListStates]
  BY <1>1 DEF Side, List
<1>3. q.list # NoList
  BY DEF q
<1>4. PICK f \in Files : q.list[f] # "none"
  BY <1>2, <1>3 DEF NoList
<1> QED BY <1>4 DEF Holds, NoEmptyFile, q

(* The transmitter goes on to x, and says so with m. *)
LEMMA AnnouncedStep ==
    ASSUME TypeOK, NEW s \in Sides, NEW r, SideOK(r, work.minor, Owes(s)), ~Ended(r),
           NEW x \in Side, ~Ended(x), CView(x) = CView(r), x.tx # "Done", Open(x),
           x.tx = "TryR" => x.list # NoList,
           NeedsList(r) => Listed(s, r).list # NoList,
           NEW m \in Frames,
           \/ Tx(s, x, Announce(s, r) \o <<m>>)
           \/ Tx(s, x, Announce(s, r))
    PROVE  Moved(s)
<1> DEFINE n == Plain("NUL")
           a == Sent(x, n)
<1>0. n \in Frames
  BY PlainFrame
<1>1. EOBs(x) = EOBs(r) /\ x.messages = r.messages
  BY DEF CView, EOBs
<1>2. /\ EOBs(r) <= r.messages
      /\ ~NeedsList(r) => Told(r)
  BY DEF SideOK, Tally, NeedsList
<1>3. CASE Announce(s, r) = <<>> /\ Announce(s, r) \o <<m>> = <<m>>
  <2>1. Told(r)
    <3>1. CASE NeedsList(r)
      <4>1. <<n>> # <<>>
        <5> HIDE DEF n
        <5> QED OBVIOUS
      <4>2. ~Holds(Listed(s, r).list)
        BY <3>1, <4>1, <1>3 DEF Announce
      <4>3. r \in Side /\ Listed(s, r).list # NoList
        BY <3>1 DEF SideOK
      <4>4. ~NoEmptyFile
        BY <4>2, <4>3, ListHolds
      <4> QED BY <4>4 DEF Told
    <3>2. CASE ~NeedsList(r)
      BY <3>2, <1>2
    <3> QED BY <3>1, <3>2
  <2>2. SideOK(x, work.minor, Owes(s))
    <3>1. EOBs(x) <= x.messages /\ Told(x)
      BY <2>1, <1>1, <1>2 DEF Told
    <3> QED BY <3>1, TallyFull
  <2>3. CASE Tx(s, x, <<m>>)
    BY <2>2, <2>3, ShortForms, TxStep
  <2>4. CASE Tx(s, x, <<>>)
    BY <2>2, <2>4, NothingShort, TxStep
  <2> QED BY <1>3, <2>3, <2>4
<1>4. CASE Announce(s, r) = <<n>> /\ Announce(s, r) \o <<m>> = <<n, m>>
  <2>1. EOBs(x) <= x.messages
    BY <1>1, <1>2
  <2>2. SideOK(a, work.minor, Owes(s)) /\ ~Ended(a)
    BY <2>1, TallyAnnounced, Zenon
  <2> HIDE DEF n
  <2>3. SentAll(x, <<n>>) = a
    BY SentOne
  <2>4. SentAll(x, <<n, m>>) = Sent(a, m)
    BY SentTwo
  <2>5. Short(<<n>>) /\ Short(<<n, m>>)
    BY <1>0, ShortForms
  <2> HIDE DEF a
  <2>6. SideOK(Sent(a, m), work.minor, Owes(s))
    BY <2>2, TallySent
  <2>7. CASE Tx(s, x, <<n, m>>)
    BY <2>4, <2>5, <2>6, <2>7, TxMoved
  <2>8. CASE Tx(s, x, <<n>>)
    BY <2>2, <2>3, <2>5, <2>8, TxMoved
  <2> QED BY <1>4, <2>7, <2>8
<1> QED BY <1>3, <1>4, AnnounceForms

LEMMA TxFileStep ==
    ASSUME CoreInv, NEW s \in Sides, TxFile(s)
    PROVE  Moved(s)
<1> DEFINE r == st[s]
           q == Listed(s, r)
<1>1. PICK f \in NextFile(s, q) :
          Tx(s, [q EXCEPT !.list[f] = "Sending", !.cur = f, !.fp = f,
                          !.pos = q.off[f], !.tx = "TryR", !.ft = "Transmit"],
             Announce(s, r) \o <<File(f, q.off[f], ver[f])>>)
  BY DEF TxFile
<1> DEFINE x == [q EXCEPT !.list[f] = "Sending", !.cur = f, !.fp = f,
                          !.pos = q.off[f], !.tx = "TryR", !.ft = "Transmit"]
           m == File(f, q.off[f], ver[f])
<1>2. SideOK(r, work.minor, Owes(s)) /\ ~Ended(r) /\ r \in Side /\ TypeOK
  BY ReadySide DEF TxFile
<1>3. q \in Side /\ CView(q) = CView(r) /\ RxView(q) = RxView(r)
  BY <1>2, ListedFacts, Zenon
<1>4. f \in Files /\ q.list[f] = "NoState"
  BY <1>2, NextFileFacts, Zenon DEF TypeOK
<1> HIDE DEF q
<1>5. /\ x \in Side /\ x.list = [q.list EXCEPT ![f] = "Sending"] /\ x.cur = f
      /\ x.fp = f /\ x.pos = q.off[f] /\ x.tx = "TryR" /\ x.ft = "Transmit"
      /\ x.off = q.off /\ x.queue = q.queue
      /\ RxView(x) = RxView(q) /\ CView(x) = CView(q)
  BY <1>3, <1>4, StartedFacts
<1>6. q.off[f] \in Nat /\ ver[f] \in Nat
  BY <1>2, <1>3, <1>4 DEF Side, Offsets, TypeOK
<1>7. m \in Frames
  BY <1>4, <1>6, CmdFrame, Zenon DEF File
<1>8. Tx(s, x, Announce(s, r) \o <<m>>)
  BY <1>1
<1>9. Listed(s, r).list # NoList /\ q.list \in [Files -> ListStates]
  BY <1>3, <1>4 DEF NoList, Side, List, q
<1> HIDE DEF x, m
<1>10. x.list # NoList
  BY <1>4, <1>5, <1>9 DEF NoList
<1>11. Open(x) /\ ~Ended(x)
  BY <1>2, <1>3, <1>4, <1>5 DEF Open, RxView, Ended, SideOK
<1> QED BY <1>2, <1>3, <1>5, <1>7, <1>8, <1>9, <1>10, <1>11, AnnouncedStep

LEMMA TxLockedStep ==
    ASSUME CoreInv, NEW s \in Sides, TxLocked(s)
    PROVE  Moved(s)
<1> DEFINE r == st[s]
           q == Listed(s, r)
<1>1. PICK f \in NextFile(s, q) :
          Tx(s, [q EXCEPT !.list[f] = "Skipped", !.fp = None, !.ft = "Switch"],
             Announce(s, r))
  BY DEF TxLocked
<1> DEFINE x == [q EXCEPT !.list[f] = "Skipped", !.fp = None, !.ft = "Switch"]
<1>2. SideOK(r, work.minor, Owes(s)) /\ ~Ended(r) /\ r \in Side /\ TypeOK /\ r.tx = "GNF"
  BY ReadySide DEF TxLocked
<1>3. q \in Side /\ CView(q) = CView(r) /\ RxView(q) = RxView(r) /\ q.tx = r.tx
  BY <1>2, ListedFacts, Zenon
<1>4. f \in Files /\ q.list[f] = "NoState"
  BY <1>2, NextFileFacts, Zenon DEF TypeOK
<1>5. /\ x \in Side /\ x.tx = q.tx /\ x.ft = "Switch"
      /\ RxView(x) = RxView(q) /\ CView(x) = CView(q)
  BY <1>3, <1>4, SkippedFacts, Zenon
<1>6. Tx(s, x, Announce(s, r))
  BY <1>1
<1>7. Listed(s, r).list # NoList /\ Plain("NUL") \in Frames
  BY <1>4, PlainFrame DEF NoList
<1> HIDE DEF x, q
<1>8. Open(x) /\ ~Ended(x)
  BY <1>2, <1>3, <1>5 DEF Open, RxView, Ended, SideOK
<1> QED BY <1>2, <1>3, <1>5, <1>6, <1>7, <1>8, AnnouncedStep


(* With no next file there is none that waits: the first of them would be the next. *)
LEMMA NoneNext ==
    ASSUME NEW s \in Sides, work \in Workload, NEW q, NextFile(s, q) = {}
    PROVE  \A f \in ToSet(work.out[s]) : q.list[f] # "NoState"
<1> DEFINE c == work.out[s]
           T == {n \in Nat : \A i \in 1..n : i \in DOMAIN c => q.list[c[i]] # "NoState"}
<1>1. c \in Seq(Files) /\ DOMAIN c = 1..Len(c)
  BY DEF Workload
<1>2. 0 \in T
  OBVIOUS
<1>3. ASSUME NEW n \in Nat, n \in T PROVE n + 1 \in T
  <2> SUFFICES ASSUME n + 1 \in DOMAIN c, q.list[c[n + 1]] = "NoState" PROVE FALSE
    BY <1>3
  <2>1. \A j \in 1..(n + 1) - 1 : q.list[c[j]] # "NoState"
    BY <1>1, <1>3
  <2>2. c[n + 1] \in NextFile(s, q)
    BY <2>1 DEF NextFile
  <2> QED BY <2>2
<1>4. \A n \in Nat : n \in T
  <2> HIDE DEF T
  <2> QED BY <1>2, <1>3, SetInduction
<1>5. ASSUME NEW f \in ToSet(c) PROVE q.list[f] # "NoState"
  <2>1. PICK i \in 1..Len(c) : f = c[i]
    BY <1>1 DEF ToSet
  <2>2. i \in T
    BY <1>1, <1>4
  <2> QED BY <1>1, <2>1, <2>2
<1> QED BY <1>5

LEMMA TxNoMoreStep ==
    ASSUME CoreInv, NEW s \in Sides, TxNoMore(s)
    PROVE  Moved(s)
<1> DEFINE r == st[s]
           q == Listed(s, r)
           x == [q EXCEPT !.tx = "WLA", !.ft = "Transmit"]
           m == Plain("EOB")
<1>1. SideOK(r, work.minor, Owes(s)) /\ ~Ended(r) /\ r \in Side /\ TypeOK
  BY ReadySide DEF TxNoMore
<1>2. /\ q \in Side /\ CView(q) = CView(r) /\ RxView(q) = RxView(r)
      /\ ~NeedsList(r) => q = r
      /\ NeedsList(r) =>
            q.list = [f \in Files |-> IF r.batchnr < MaxBatch /\ f \in ToSend(s)
                                      THEN "NoState" ELSE "none"]
  BY <1>1, ListedFacts, Zenon
<1>3. Tx(s, x, Announce(s, r) \o <<m>>) /\ NextFile(s, q) = {}
  BY DEF TxNoMore
<1>4. m \in Frames /\ Plain("NUL") \in Frames
  BY PlainFrame
<1>5. Short(Announce(s, r) \o <<m>>)
  <2> HIDE DEF m
  <2>1. Short(<<m>>) /\ Short(<<Plain("NUL"), m>>)
    BY <1>4, ShortForms
  <2> QED BY <2>1, AnnounceForms
<1> HIDE DEF q, m
<1>6. /\ x \in Side /\ x.list = q.list /\ x.tx = "WLA" /\ x.ft = "Transmit"
      /\ RxView(x) = RxView(q) /\ CView(x) = CView(q)
  BY <1>2, WaitingFacts, Zenon
<1> HIDE DEF x
<1>7. /\ Open(x) /\ ~Ended(x) /\ EOBs(x) = EOBs(r) /\ x.messages = r.messages
      /\ x.batchnr = r.batchnr
  BY <1>1, <1>2, <1>6 DEF Open, RxView, Ended, SideOK, CView, EOBs
<1>8. \A f \in ToSet(work.out[s]) : q.list[f] # "NoState"
  BY <1>1, <1>3, NoneNext DEF TypeOK
<1>9. ASSUME NeedsList(r) PROVE ~Left(x, Owes(s))
  <2>1. ASSUME r.batchnr < MaxBatch PROVE ToSend(s) = {}
    <3>1. ASSUME NEW f \in ToSend(s) PROVE FALSE
      <4>1. f \in ToSet(work.out[s]) /\ f \in Files
        BY <1>1, OutFiles DEF ToSend, TypeOK
      <4>2. q.list[f] = "NoState"
        BY <1>2, <1>9, <2>1, <4>1
      <4> QED BY <1>8, <4>1, <4>2
    <3> QED BY <3>1
  <2> QED BY <2>1, <1>7 DEF Left, Owes
<1>10. ASSUME NeedsList(r) PROVE x.list = NoList
  <2>1. \A f \in Files : q.list[f] # "NoState"
    <3>1. ASSUME NEW f \in Files, q.list[f] = "NoState" PROVE FALSE
      <4>1. f \in ToSend(s)
        BY <1>2, <1>10, <3>1
      <4> QED BY <1>8, <3>1, <4>1 DEF ToSend
    <3> QED BY <3>1
  <2>2. q.list = [f \in Files |-> q.list[f]] /\ \A f \in Files : q.list[f] = "none"
    BY <1>2, <1>10, <2>1
  <2> QED BY <1>6, <2>2 DEF NoList
<1>11. SideOK(x, work.minor, Owes(s))
  <2>1. CASE NeedsList(r)
    <3>1. EOBs(r) <= r.messages
      BY <1>1 DEF SideOK, Tally
    <3>2. Tally(x, work.minor, Owes(s))
      BY <1>6, <1>7, <1>9, <1>10, <2>1, <3>1 DEF Tally, Ended
    <3> QED BY <1>6, <1>7, <3>2 DEF SideOK
  <2>2. CASE ~NeedsList(r)
    <3>1. EOBs(x) <= x.messages /\ Told(x)
      BY <1>1, <1>7, <2>2 DEF SideOK, Tally, NeedsList, Told
    <3> QED BY <1>6, <1>7, <3>1, TallyFull
  <2> QED BY <2>1, <2>2
<1> QED BY <1>1, <1>3, <1>5, <1>7, <1>11, TxStep

LEMMA TxReadStep ==
    ASSUME CoreInv, NEW s \in Sides, TxRead(s)
    PROVE  Moved(s)
<1> DEFINE r == st[s]
           q == [r EXCEPT !.ft = "Switch"]
           w == SentWhole(q)
           m == Data(r.fp, ver[r.fp], r.pos + 1)
           a == [w EXCEPT !.pos = @ + 1]
           b == [q EXCEPT !.pos = @ + 1]
<1>1. /\ SideOK(r, work.minor, Owes(s)) /\ ~Ended(r) /\ r \in Side /\ TypeOK
      /\ r.tx = "TryR"
  BY ReadySide DEF TxRead
<1>2. /\ r.fp \in Files /\ r.cur \in Files /\ EOBs(r) <= r.messages /\ Told(r)
      /\ r.list # NoList
  BY <1>1 DEF SideOK, Open, Tally
<1>3. m \in Frames
  <2>1. r.pos + 1 \in Nat /\ ver[r.fp] \in Nat
    BY <1>1, <1>2 DEF Side, TypeOK
  <2> QED BY <1>2, <2>1, CmdFrame DEF Data
<1>4. Tx(s, w, <<>>) \/ Tx(s, a, <<m>>) \/ Tx(s, b, <<m>>)
  <2>1. CASE Tx(s, w, <<>>)
    BY <2>1
  <2>2. ASSUME NEW eof \in {FALSE, (r.pos + 1 = Size[r.fp])},
               Tx(s, [(IF eof THEN w ELSE q) EXCEPT !.pos = @ + 1], <<m>>)
        PROVE  Tx(s, a, <<m>>) \/ Tx(s, b, <<m>>)
    <3>1. CASE eof
      BY <2>2, <3>1
    <3>2. CASE ~eof
      BY <2>2, <3>2
    <3> QED BY <3>1, <3>2
  <2> QED BY <2>1, <2>2 DEF TxRead
<1>5. "Switch" \in FtStates
  BY DEF FtStates
<1>6. /\ q \in Side /\ q.ft = "Switch" /\ TxView(q) = TxView(r) /\ RxView(q) = RxView(r)
      /\ CView(q) = CView(r)
  BY <1>1, <1>5, FtFacts, Zenon
<1> HIDE DEF q, m
<1>7. q.cur = r.cur /\ q.fp = r.fp /\ q.tx = r.tx /\ q.list = r.list
  BY <1>6 DEF TxView
<1>8. /\ w \in Side /\ w.tx = "GNF" /\ w.ft = q.ft
      /\ RxView(w) = RxView(q) /\ CView(w) = CView(q)
  BY <1>2, <1>6, <1>7, SentWholeFacts, Zenon
<1> HIDE DEF w
<1>9. /\ a \in Side /\ a.tx = w.tx /\ a.ft = w.ft
      /\ RxView(a) = RxView(w) /\ CView(a) = CView(w)
  BY <1>8, PosTo, Zenon
<1>10. /\ b \in Side /\ b.list = q.list /\ b.cur = q.cur /\ b.fp = q.fp
       /\ b.tx = q.tx /\ b.ft = q.ft
       /\ RxView(b) = RxView(q) /\ CView(b) = CView(q)
  BY <1>6, PosTo, Zenon
<1> HIDE DEF a, b
<1>11. SideOK(w, work.minor, Owes(s)) /\ ~Ended(w)
  <2>1. EOBs(w) <= w.messages /\ Told(w)
    BY <1>2, <1>6, <1>8 DEF CView, EOBs, Told
  <2>2. Open(w) /\ ~Ended(w)
    BY <1>1, <1>6, <1>8 DEF Open, RxView, Ended, SideOK
  <2> QED BY <1>8, <2>1, <2>2, TallyFull
<1>12. SideOK(a, work.minor, Owes(s)) /\ ~Ended(a)
  <2>1. EOBs(a) <= a.messages /\ Told(a)
    BY <1>2, <1>6, <1>8, <1>9 DEF CView, EOBs, Told
  <2>2. Open(a) /\ ~Ended(a)
    BY <1>1, <1>6, <1>8, <1>9 DEF Open, RxView, Ended, SideOK
  <2> QED BY <1>8, <1>9, <2>1, <2>2, TallyFull
<1>13. SideOK(b, work.minor, Owes(s)) /\ ~Ended(b)
  <2>1. EOBs(b) <= b.messages /\ Told(b)
    BY <1>2, <1>6, <1>10 DEF CView, EOBs, Told
  <2>2. Open(b) /\ ~Ended(b)
    BY <1>1, <1>6, <1>7, <1>10 DEF Open, RxView, Ended, SideOK
  <2>3. b.list # NoList /\ b.tx # "Done"
    BY <1>1, <1>2, <1>7, <1>10
  <2> QED BY <1>10, <2>1, <2>2, <2>3, TallyFull
<1>14. Short(<<m>>)
  BY <1>3, ShortForms
<1> QED BY <1>1, <1>4, <1>11, <1>12, <1>13, <1>14, NothingShort, TxStep


LEMMA EmptiedFacts ==
    ASSUME NEW r \in Side
    PROVE  LET q == [r EXCEPT !.ft = "Transmit", !.queue = <<>>] IN
           /\ q \in Side /\ q.list = r.list /\ q.cur = r.cur
           /\ q.fp = r.fp /\ q.pos = r.pos /\ q.tx = r.tx /\ q.ft = "Transmit"
           /\ q.off = r.off /\ q.queue = <<>>
           /\ RxView(q) = RxView(r) /\ CView(q) = CView(r)
<1>1. <<>> \in Queue /\ "Transmit" \in FtStates
  BY DEF Queue, FtStates
<1> QED BY <1>1 DEF Side, RxView, CView

(* The files of the messages are files. *)
LEMMA QueueFiles ==
    ASSUME NEW Q \in Queue
    PROVE  \A k \in 1..Len(Q) : Q[k] \in Answers /\ Q[k].file \in Files /\ Q[k].n \in Nat
<1> SUFFICES ASSUME NEW k \in 1..Len(Q)
             PROVE  Q[k] \in Answers /\ Q[k].file \in Files /\ Q[k].n \in Nat
  OBVIOUS
<1>1. Q[k] \in Answers
  BY DEF Queue
<1>2. Q[k] \in Frames /\ Q[k].cmd \in AboutFile
  BY <1>1 DEF Answers, Answer, AboutFile
<1> QED BY <1>1, <1>2, FrameFields

LEMMA TxMessagesStep ==
    ASSUME CoreInv, NEW s \in Sides, TxMessages(s)
    PROVE  Moved(s) /\ gone' \in [Sides -> SUBSET Files] /\ gone[s] \subseteq gone'[s]
           /\ gone'[Other(s)] = gone[Other(s)]
<1> DEFINE Q == st[s].queue
           r == [st[s] EXCEPT !.ft = "Transmit", !.queue = <<>>]
           a == Applied(r, Q)[Len(Q)]
           x == a.r
<1>1. /\ SideOK(st[s], work.minor, Owes(s)) /\ ~Ended(st[s]) /\ st[s] \in Side /\ TypeOK
      /\ Tx(s, x, <<>>) /\ gone' = [gone EXCEPT ![s] = @ \cup a.got]
      /\ st[s].tx \in {"TryR", "WLA"}
  <2>1. r.tx = st[s].tx
    BY ReadySide, EmptiedFacts, Zenon DEF TxMessages
  <2> QED BY <2>1, ReadySide DEF TxMessages
<1>2. /\ r \in Side /\ r.list = st[s].list /\ r.cur = st[s].cur /\ r.fp = st[s].fp
      /\ r.tx = st[s].tx /\ r.ft = "Transmit"
      /\ RxView(r) = RxView(st[s]) /\ CView(r) = CView(st[s])
  BY <1>1, EmptiedFacts, Zenon
<1> HIDE DEF r
<1>3. Q \in Queue
  BY <1>1 DEF Side
<1>4. Progress(r, a, Q, Len(Q))
  BY <1>2, <1>3, ProgressAll, Zenon
<1> HIDE DEF a, Q
<1>5. /\ x \in Side /\ RxView(x) = RxView(r) /\ CView(x) = CView(r)
      /\ x.ft \in {"Transmit", "crash"}
      /\ x.tx = "GNF" \/ (x.tx = r.tx /\ x.fp = r.fp /\ x.cur = r.cur)
      /\ \A g \in Files : x.list[g] = "none" <=> r.list[g] = "none"
  BY <1>2, <1>4 DEF Progress, Same, Kept
<1>6. a.got \subseteq Files
  BY <1>3, <1>4, QueueFiles DEF Progress, Disposes
<1> HIDE DEF x
<1>7. x.list = NoList <=> r.list = NoList
  <2>1. x.list \in [Files -> ListStates] /\ r.list \in [Files -> ListStates]
    BY <1>2, <1>5 DEF Side, List
  <2> QED BY <1>5, <2>1 DEF NoList
<1>8. SideOK(x, work.minor, Owes(s))
  <2>1. CASE x.ft = "crash"
    BY <1>5, <2>1, EndedSide
  <2>2. CASE x.ft = "Transmit"
    <3>1. Open(x) /\ ~Ended(x)
      BY <1>1, <1>2, <1>5, <2>2 DEF Open, Ended, RxView, SideOK
    <3>2. /\ EOBs(x) = EOBs(st[s]) /\ x.messages = st[s].messages
          /\ x.batchnr = st[s].batchnr
      BY <1>2, <1>5 DEF CView, EOBs
    <3>3. (Left(x, Owes(s)) <=> Left(st[s], Owes(s))) /\ (Told(x) <=> Told(st[s]))
      BY <3>2 DEF Left, Told
    <3>4. Tally(x, work.minor, Owes(s))
      BY <1>1, <1>2, <1>5, <1>7, <2>2, <3>2, <3>3 DEF SideOK, Tally
    <3> QED BY <1>5, <3>1, <3>4 DEF SideOK
  <2> QED BY <1>5, <2>1, <2>2
<1>9. Moved(s)
  BY <1>1, <1>8, NothingShort, SentNone, TxMoved
<1> QED BY <1>1, <1>6, <1>9, OtherSide DEF TypeOK

LEMMA ClosingFacts ==
    ASSUME NEW r \in Side
    PROVE  LET q == [r EXCEPT !.tx = "Done", !.rx = "Done"] IN
           /\ q \in Side /\ q.tx = "Done" /\ q.rx = "Done" /\ q.list = r.list /\ q.ft = r.ft
           /\ q.queue = r.queue /\ q.off = r.off /\ q.rbytes = r.rbytes /\ q.rfp = r.rfp
           /\ CView(q) = CView(r)
<1>1. "Done" \in TxStates /\ "Done" \in RxStates
  BY DEF TxStates, RxStates
<1> QED BY <1>1 DEF Side, CView

(* Where TxWLA leads: the session ends with a batch in which both ends of the batch were *)
(* all that was said.                                                                    *)
LEMMA WaitedSide ==
    ASSUME NEW r, NEW todo, work.minor \in {0, 1},
           SideOK(r, work.minor, todo), ~Ended(r), r.tx = "WLA"
    PROVE  SideOK(Waited(r), work.minor, todo) /\ ~Ended(Waited(r))
<1> DEFINE q == [r EXCEPT !.ft = "Switch"]
           c == Cleared(q)
           d == [c EXCEPT !.tx = "Done", !.rx = "Done"]
<1>0. r \in Side /\ Open(r) /\ "Switch" \in FtStates
  BY DEF SideOK, FtStates
<1>1. /\ q \in Side /\ q.ft = "Switch" /\ TxView(q) = TxView(r) /\ RxView(q) = RxView(r)
      /\ CView(q) = CView(r)
  BY <1>0, FtFacts, Zenon
<1>2. /\ Waited(r) \in {q, c, d, NewBatch(q)}
      /\ Waited(r) = d => \/ work.minor = 0
                          \/ r.local_EOB /\ r.remote_EOB /\ r.messages < 3
                          \/ d \in {q, c, NewBatch(q)}
  BY DEF Waited
<1> HIDE DEF q
<1>3. /\ c \in Side /\ c.list = NoList /\ c.tx = q.tx /\ c.cur = q.cur /\ c.fp = q.fp
      /\ c.ft = q.ft /\ RxView(c) = RxView(q) /\ CView(c) = CView(q)
  BY <1>1, ClearedFacts, Zenon
<1> HIDE DEF c
<1>4. /\ d \in Side /\ d.tx = "Done" /\ d.rx = "Done" /\ d.list = c.list /\ d.ft = c.ft
      /\ CView(d) = CView(c)
  BY <1>3, ClosingFacts, Zenon
<1> HIDE DEF d
<1>5. ~Ended(q) /\ ~Ended(c) /\ ~Ended(d)
  BY <1>1, <1>3, <1>4 DEF Ended
<1>6. q.tx = "WLA" /\ q.list = r.list
  BY <1>1 DEF TxView
<1>7. Open(q)
  BY <1>0, <1>1, ViewOpen
<1>8. SideOK(q, work.minor, todo)
  BY <1>1, <1>5, <1>6, <1>7, TallySame
<1>9. EOBs(c) = EOBs(r) /\ c.messages = r.messages /\ (Left(c, todo) <=> Left(r, todo))
  BY <1>1, <1>3 DEF CView, EOBs, Left
<1>10. EOBs(d) = EOBs(r) /\ d.messages = r.messages /\ (Left(d, todo) <=> Left(r, todo))
  BY <1>9, <1>4 DEF CView, EOBs, Left
<1>11. EOBs(r) <= r.messages /\ (r.messages <= EOBs(r) => ~Left(r, todo))
  BY DEF SideOK, Tally
<1>12. SideOK(c, work.minor, todo)
  <2>1. Open(c)
    BY <1>3, <1>6, <1>7, <1>5 DEF Open, RxView
  <2>2. Tally(c, work.minor, todo)
    BY <1>3, <1>5, <1>6, <1>9, <1>11 DEF Tally, Ended
  <2> QED BY <1>3, <2>1, <2>2 DEF SideOK
<1>13. r.messages \in Nat
  BY <1>0, UpType DEF Side
<1>14. ASSUME work.minor = 0 \/ (r.local_EOB /\ r.remote_EOB /\ r.messages < 3)
       PROVE  SideOK(d, work.minor, todo)
  <2>1. Open(d)
    BY <1>4 DEF Open
  <2>2. work.minor = 1 => EOBs(r) = 2 /\ r.messages < 3
    BY <1>14 DEF EOBs
  <2>3. work.minor = 1 => ~Left(r, todo)
    BY <2>2, <1>11, <1>13
  <2>4. Tally(d, work.minor, todo)
    BY <1>3, <1>4, <1>5, <1>10, <1>11, <2>3 DEF Tally, Ended
  <2> QED BY <1>4, <2>1, <2>4 DEF SideOK
<1>15. SideOK(NewBatch(q), work.minor, todo) /\ ~Ended(NewBatch(q))
  <2>1. q.batchnr + 1 \in Nat
    BY <1>1 DEF Side
  <2> QED BY <1>1, <1>5, <2>1, NewBatchFacts, Zenon
<1> QED BY <1>2, <1>5, <1>8, <1>12, <1>14, <1>15

LEMMA TxWaitStep ==
    ASSUME CoreInv, NEW s \in Sides, TxWait(s)
    PROVE  Moved(s)
<1> DEFINE r == st[s]
<1>1. /\ SideOK(r, work.minor, Owes(s)) /\ ~Ended(r) /\ TypeOK /\ r.tx = "WLA"
      /\ Tx(s, Waited(r), <<>>)
  BY ReadySide DEF TxWait
<1>2. work.minor \in {0, 1}
  BY <1>1 DEF TypeOK, Workload
<1> HIDE DEF r
<1>3. SideOK(Waited(r), work.minor, Owes(s)) /\ ~Ended(Waited(r))
  BY <1>1, <1>2, WaitedSide
<1> QED BY <1>1, <1>3, NothingShort, TxStep


-----------------------------------------------------------------------------
(* Every step. *)

LEMMA TallyLess ==
    ASSUME NEW r, NEW minor, NEW todo, NEW less, SideOK(r, minor, todo),
           less = TRUE => todo = TRUE
    PROVE  SideOK(r, minor, less)
BY DEF SideOK, Tally, Left

LEMMA NewSideFacts ==
    ASSUME NEW minor, NEW todo
    PROVE  SideOK(NewSide, minor, todo) /\ ~Ended(NewSide)
<1> DEFINE Z == [f \in Files |-> 0]
<1>1. /\ "Switch" \in FtStates /\ "GNF" \in TxStates /\ None \in Name /\ NoList \in List
      /\ Z \in Offsets /\ <<>> \in Queue /\ "WaitF" \in RxStates /\ None \in Handle
      /\ 0 \in Nat /\ 0 \in Count /\ FALSE \in Flag
  BY NoListType DEF FtStates, TxStates, Name, Offsets, Queue, RxStates, Handle, Count, Flag
<1> HIDE DEF Z
<1>2. NewSide \in Side
  BY <1>1 DEF NewSide, Side, Z
<1>3. /\ NewSide.ft = "Switch" /\ NewSide.tx = "GNF" /\ NewSide.rx = "WaitF"
      /\ NewSide.list = NoList /\ NewSide.messages = 0 /\ NewSide.local_EOB = FALSE
      /\ NewSide.remote_EOB = FALSE
  BY DEF NewSide
<1>4. Open(NewSide) /\ EOBs(NewSide) = 0 /\ ~Ended(NewSide)
  BY <1>3 DEF Open, EOBs, Ended
<1>5. Tally(NewSide, minor, todo)
  BY <1>3, <1>4 DEF Tally
<1> QED BY <1>2, <1>4, <1>5 DEF SideOK

LEMMA MovedTypes ==
    ASSUME CoreInv, NEW s \in Sides, Moved(s), UNCHANGED work,
           gone[s] \subseteq gone'[s], gone'[Other(s)] = gone[Other(s)]
    PROVE  /\ st' \in [Sides -> Side] /\ chan' \in Channels
           /\ \A t \in Sides : Open(st'[t]) /\ SideOK(st'[t], work'.minor, Owes(t)')
<1>1. PICK q : /\ SideOK(q, work.minor, Owes(s)) /\ st' = [st EXCEPT ![s] = q]
               /\ chan' \in Channels
  BY DEF Moved
<1>2. st \in [Sides -> Side] /\ \A t \in Sides : SideOK(st[t], work.minor, Owes(t))
  BY DEF CoreInv, TypeOK
<1>3. q \in Side
  BY <1>1 DEF SideOK
<1>4. \A t \in Sides : st'[t] = IF t = s THEN q ELSE st[t]
  BY <1>1, <1>2
<1>5. st' \in [Sides -> Side]
  BY <1>1, <1>2, <1>3
<1>6. ASSUME NEW t \in Sides
      PROVE  Open(st'[t]) /\ SideOK(st'[t], work'.minor, Owes(t)')
  <2>1. SideOK(st'[t], work.minor, Owes(t))
    BY <1>1, <1>2, <1>4
  <2>2. gone[t] \subseteq gone'[t]
    BY DEF Other, Sides
  <2>3. Owes(t)' = TRUE => Owes(t) = TRUE
    BY <2>2 DEF Owes, ToSend
  <2>4. SideOK(st'[t], work.minor, Owes(t)')
    BY <2>1, <2>3, TallyLess
  <2> QED BY <2>4 DEF SideOK
<1> QED BY <1>1, <1>5, <1>6

LEMMA TransmitStep ==
    ASSUME CoreInv, NEW s \in Sides, Transmit(s)
    PROVE  /\ Moved(s) /\ faults' \in Nat /\ UNCHANGED <<work, session, link, ver, store>>
           /\ gone' \in [Sides -> SUBSET Files] /\ gone[s] \subseteq gone'[s]
           /\ gone'[Other(s)] = gone[Other(s)]
<1>0. gone \in [Sides -> SUBSET Files] /\ faults \in Nat
  BY DEF CoreInv, TypeOK
<1>1. CASE TxFile(s)
  <2>1. UNCHANGED <<work, session, faults, link, files, store>>
    BY <1>1 DEF TxFile
  <2> QED BY <1>0, <1>1, <2>1, TxFileStep DEF files
<1>2. CASE TxLocked(s)
  <2>1. UNCHANGED <<work, session, link, files, store>> /\ faults' = faults + 1
    BY <1>2 DEF TxLocked, Fault
  <2> QED BY <1>0, <1>2, <2>1, TxLockedStep DEF files
<1>3. CASE TxNoMore(s)
  <2>1. UNCHANGED <<work, session, faults, link, files, store>>
    BY <1>3 DEF TxNoMore
  <2> QED BY <1>0, <1>3, <2>1, TxNoMoreStep DEF files
<1>4. CASE TxRead(s)
  <2>1. UNCHANGED <<work, session, faults, link, files, store>>
    BY <1>4 DEF TxRead
  <2> QED BY <1>0, <1>4, <2>1, TxReadStep DEF files
<1>5. CASE TxMessages(s)
  <2>1. UNCHANGED <<work, session, faults, link, ver, store>>
    BY <1>5 DEF TxMessages
  <2> QED BY <1>0, <1>5, <2>1, TxMessagesStep
<1>6. CASE TxWait(s)
  <2>1. UNCHANGED <<work, session, faults, link, files, store>>
    BY <1>6 DEF TxWait
  <2> QED BY <1>0, <1>6, <2>1, TxWaitStep DEF files
<1> QED BY <1>1, <1>2, <1>3, <1>4, <1>5, <1>6 DEF Transmit

(* A side ends well only when it has nothing left to do. *)
LEMMA FinishStep ==
    ASSUME CoreInv, NEW s \in Sides, Finish(s)
    PROVE  Moved(s)
<1> DEFINE r == st[s]
           q == [r EXCEPT !.ft = "good"]
<1>1. SideOK(r, work.minor, Owes(s)) /\ r \in Side /\ r.ft = "Switch" /\ r.tx = "Done"
  BY DEF CoreInv, SideOK, Finish
<1>2. "good" \in FtStates
  BY DEF FtStates
<1>3. st' = [st EXCEPT ![s] = q] /\ chan' \in Channels
  BY DEF Finish, CoreInv, TypeOK, Channels
<1>4. /\ q \in Side /\ q.ft = "good" /\ TxView(q) = TxView(r) /\ RxView(q) = RxView(r)
      /\ CView(q) = CView(r)
  BY <1>1, <1>2, FtFacts, Zenon
<1> HIDE DEF q, r
<1>5. Open(q) /\ Ended(q) /\ q.tx = "Done" /\ (Left(q, Owes(s)) <=> Left(r, Owes(s)))
  BY <1>1, <1>4 DEF Open, Ended, TxView, CView, Left
<1>6. Tally(q, work.minor, Owes(s))
  BY <1>1, <1>4, <1>5 DEF Tally, SideOK
<1>7. SideOK(q, work.minor, Owes(s))
  BY <1>4, <1>5, <1>6 DEF SideOK
<1> QED BY <1>3, <1>7 DEF Moved, r

LEMMA BadStep ==
    ASSUME CoreInv, NEW s \in Sides, Lost(s) \/ Expire(s)
    PROVE  Moved(s)
<1>1. st' = [st EXCEPT ![s] = Failed(st[s])] /\ chan' \in Channels /\ st[s] \in Side
  BY DEF Lost, Expire, CoreInv, TypeOK, Channels
<1>2. SideOK(Failed(st[s]), work.minor, Owes(s))
  BY <1>1, FailedFacts
<1> QED BY <1>1, <1>2 DEF Moved


LEMMA CoreInit == Init => CoreInv
<1> SUFFICES ASSUME Init PROVE CoreInv
  OBVIOUS
<1>1. \A s \in Sides : st[s] = NewSide
  BY DEF Init
<1>2. \A s \in Sides : SideOK(st[s], work.minor, Owes(s))
  BY <1>1, NewSideFacts
<1>3. \A s \in Sides : Open(st[s]) /\ st[s] \in Side
  BY <1>2 DEF SideOK
<1>4. st \in [Sides -> Side]
  BY <1>3 DEF Init
<1>5. work \in Workload /\ session \in Nat /\ faults \in Nat /\ link \in BOOLEAN
  BY WorkloadAssumption DEF Init
<1>6. chan \in [Sides -> Seq(Frames)]
  BY DEF Init
<1>7. ver \in [Files -> Nat] /\ gone \in [Sides -> SUBSET Files]
  BY DEF Init
<1>8. part \in [Sides -> [Files -> Seq(Blocks)]] /\ inbound \in [Sides -> [Files -> Seq(Blocks)]]
  BY DEF Init
<1> QED BY <1>2, <1>3, <1>4, <1>5, <1>6, <1>7, <1>8 DEF CoreInv, TypeOK

LEMMA CoreMoved ==
    ASSUME CoreInv, NEW s \in Sides, Moved(s), UNCHANGED <<work, session, link>>,
           faults' \in Nat, ver' \in [Files -> Nat], gone' \in [Sides -> SUBSET Files],
           gone[s] \subseteq gone'[s], gone'[Other(s)] = gone[Other(s)],
           part' \in Store, inbound' \in Store
    PROVE  CoreInv'
<1>1. /\ st' \in [Sides -> Side] /\ chan' \in Channels
      /\ \A t \in Sides : Open(st'[t]) /\ SideOK(st'[t], work'.minor, Owes(t)')
  BY MovedTypes
<1>2. work' \in Workload /\ session' \in Nat /\ link' \in BOOLEAN
  BY DEF CoreInv, TypeOK
<1>3. TypeOK'
  BY <1>1, <1>2 DEF TypeOK, Channels, Store
<1>4. \A t \in Sides : SideOK(st[t], work.minor, Owes(t))'
  BY <1>1
<1> QED BY <1>3, <1>4 DEF CoreInv

LEMMA CoreKept ==
    ASSUME CoreInv, UNCHANGED <<work, st, gone>>, session' \in Nat, faults' \in Nat,
           link' \in BOOLEAN, chan' \in Channels, ver' \in [Files -> Nat], UNCHANGED store
    PROVE  CoreInv'
<1>1. \A t \in Sides : SideOK(st[t], work.minor, Owes(t))'
  BY DEF CoreInv, Owes, ToSend
<1>2. TypeOK'
  BY DEF CoreInv, TypeOK, Channels, store
<1> QED BY <1>1, <1>2 DEF CoreInv

LEMMA BreakStep ==
    ASSUME TypeOK, Break
    PROVE  chan' \in Channels
<1>1. PICK i \in 0..Len(chan["org"]), j \in 0..Len(chan["ans"]) :
          chan' = [chan EXCEPT !["org"] = SubSeq(@, 1, i), !["ans"] = SubSeq(@, 1, j)]
  BY DEF Break
<1>2. chan["org"] \in Seq(Frames) /\ chan["ans"] \in Seq(Frames)
  BY DEF TypeOK, Sides
<1>3. SubSeq(chan["org"], 1, i) \in Seq(Frames)
  BY <1>2
<1>4. SubSeq(chan["ans"], 1, j) \in Seq(Frames)
  BY <1>2
<1> QED BY <1>1, <1>3, <1>4 DEF TypeOK, Channels

LEMMA CoreNext == CoreInv /\ [Next]_vars => CoreInv'
<1> SUFFICES ASSUME CoreInv, [Next]_vars PROVE CoreInv'
  OBVIOUS
<1>0. /\ TypeOK /\ session \in Nat /\ faults \in Nat /\ ver \in [Files -> Nat]
      /\ gone \in [Sides -> SUBSET Files] /\ part \in Store /\ inbound \in Store
      /\ chan \in Channels /\ link \in BOOLEAN
  BY DEF CoreInv, TypeOK, Store, Channels
<1>1. ASSUME NEW s \in Sides, Receive(s) PROVE CoreInv'
  <2>1. /\ Moved(s) /\ faults' \in Nat /\ part' \in Store /\ inbound' \in Store
        /\ UNCHANGED <<work, session, link, files>>
    BY <1>1, ReceiveStep
  <2> QED BY <1>0, <2>1, CoreMoved DEF files
<1>2. ASSUME NEW s \in Sides, Transmit(s) PROVE CoreInv'
  <2>1. /\ Moved(s) /\ faults' \in Nat /\ UNCHANGED <<work, session, link, ver, store>>
        /\ gone' \in [Sides -> SUBSET Files] /\ gone[s] \subseteq gone'[s]
        /\ gone'[Other(s)] = gone[Other(s)]
    BY <1>2, TransmitStep
  <2> QED BY <1>0, <2>1, CoreMoved DEF store
<1>3. ASSUME NEW s \in Sides, Finish(s) \/ Lost(s) \/ Expire(s) PROVE CoreInv'
  <2>1. Moved(s)
    BY <1>3, FinishStep, BadStep
  <2>2. UNCHANGED <<work, session, link, files, store>> /\ faults' \in Nat
    BY <1>0, <1>3 DEF Finish, Lost, Expire, Fault
  <2> QED BY <1>0, <2>1, <2>2, CoreMoved DEF files, store
<1>4. CASE Break
  <2>1. UNCHANGED <<work, session, st, files, store>> /\ link' = FALSE
    BY <1>4 DEF Break
  <2>2. faults' \in Nat
    BY <1>0, <1>4 DEF Break, Fault
  <2>3. chan' \in Channels
    BY <1>0, <1>4, BreakStep
  <2> QED BY <1>0, <2>1, <2>2, <2>3, CoreKept DEF files
<1>5. CASE NewSession
  <2>1. /\ session' \in Nat /\ link' = TRUE /\ UNCHANGED <<work, faults, files, store>>
        /\ chan' = [s \in Sides |-> <<>>] /\ st' = [s \in Sides |-> NewSide]
    BY <1>0, <1>5 DEF NewSession
  <2>2. ASSUME NEW t \in Sides
        PROVE  SideOK(st'[t], work'.minor, Owes(t)') /\ Open(st'[t]) /\ st'[t] \in Side
    BY <2>1, NewSideFacts DEF SideOK
  <2>3. st' \in [Sides -> Side]
    BY <2>1, <2>2
  <2>4. chan' \in Channels
    BY <2>1 DEF Channels
  <2>5. TypeOK'
    BY <1>0, <2>1, <2>2, <2>3, <2>4 DEF TypeOK, Channels, files, store
  <2>6. \A t \in Sides : SideOK(st[t], work.minor, Owes(t))'
    BY <2>2
  <2> QED BY <2>5, <2>6 DEF CoreInv
<1>6. ASSUME NEW f \in Files, Change(f) PROVE CoreInv'
  <2>1. /\ UNCHANGED <<work, session, link, chan, st, gone, store>>
        /\ ver' = [ver EXCEPT ![f] = @ + 1] /\ faults' \in Nat
    BY <1>0, <1>6 DEF Change, Fault
  <2>2. ver' \in [Files -> Nat]
    BY <1>0, <2>1
  <2> QED BY <1>0, <2>1, <2>2, CoreKept
<1>7. CASE UNCHANGED vars
  BY <1>0, <1>7, CoreKept DEF vars, store
<1> QED BY <1>1, <1>2, <1>3, <1>4, <1>5, <1>6, <1>7 DEF Next, Step

(* The globals of both mailers keep their types and a file is open while it is sent or  *)
(* received; the end of each batch is among its messages.                               *)
THEOREM BinkpInvariant == Spec => []CoreInv
BY CoreInit, CoreNext, PTL DEF Spec

(* Where no file is empty, a binkp/1.1 session that ends well has emptied the outbound,  *)
(* whatever the workload, the faults and the number of batches.  (An empty file that is  *)
(* locked in a batch after the first is not announced, and the session ends without it.) *)
THEOREM BinkpGoodIsComplete ==
    ASSUME NoEmptyFile
    PROVE  Spec => []GoodIsComplete
<1>1. CoreInv => GoodIsComplete
  <2> SUFFICES ASSUME CoreInv, NEW s \in Sides, st[s].ft = "good", work.minor = 1,
                      st[s].batchnr < MaxBatch
               PROVE  ToSend(s) = {}
    BY DEF GoodIsComplete
  <2>1. Tally(st[s], work.minor, Owes(s))
    BY DEF CoreInv, SideOK
  <2>2. ~Left(st[s], Owes(s))
    BY <2>1 DEF Tally
  <2> QED BY <2>2 DEF Left, Owes
<1> QED BY <1>1, BinkpInvariant, PTL


-----------------------------------------------------------------------------
(* Delivery.  What the frames of a channel say, in their order. *)

Carrier(m) == m.cmd \in {"FILE", "DATA"}

(* A block follows the frame before it that is about a file. *)
Linked(c) ==
    \A i, j \in 1..Len(c) :
        /\ i < j /\ Carrier(c[i]) /\ c[j].cmd = "DATA"
        /\ \A k \in 1..Len(c) : i < k /\ k < j => ~Carrier(c[k])
        => c[j].file = c[i].file /\ c[j].n = c[i].n + 1

(* The first block is the one after block n of f. *)
Begins(c, f, n) ==
    \A j \in 1..Len(c) :
        c[j].cmd = "DATA" /\ (\A k \in 1..Len(c) : k < j => ~Carrier(c[k]))
        => c[j].file = f /\ c[j].n = n + 1

(* The last frame about a file is block n of f, or the announcement of what follows it. *)
Ends(c, f, n) ==
    \A i \in 1..Len(c) :
        Carrier(c[i]) /\ (\A k \in 1..Len(c) : i < k => ~Carrier(c[k]))
        => c[i].file = f /\ c[i].n = n

Quiet(c) == \A i \in 1..Len(c) : ~Carrier(c[i])

(* A frame of one of the kinds K about f, and at most one about each file. *)
Says(c, K, f) == \E i \in 1..Len(c) : c[i].cmd \in K /\ c[i].file = f

Once(c, K) ==
    \A i, j \in 1..Len(c) : c[i].cmd \in K /\ c[j].cmd \in K /\ c[i].file = c[j].file => i = j

Asking == {"FILE"}

Answering == {"GET", "GOT", "SKIP"}

LEMMA TailFrames ==
    ASSUME NEW c \in Seq(Frames), c # <<>>
    PROVE  /\ Tail(c) \in Seq(Frames) /\ Len(c) \in Nat /\ 1 <= Len(c) /\ Head(c) = c[1]
           /\ Len(Tail(c)) = Len(c) - 1 /\ 1 \in 1..Len(c)
           /\ \A i \in 1..Len(Tail(c)) : i + 1 \in 1..Len(c) /\ Tail(c)[i] = c[i + 1]
           /\ \A k \in 1..Len(c) : k # 1 => k - 1 \in 1..Len(Tail(c)) /\ Tail(c)[k - 1] = c[k]
OBVIOUS

LEMMA MoreFrames ==
    ASSUME NEW c \in Seq(Frames), NEW m \in Frames
    PROVE  /\ c \o <<m>> \in Seq(Frames) /\ Len(c) \in Nat
           /\ Len(c \o <<m>>) = Len(c) + 1
           /\ \A i \in 1..Len(c) : i \in 1..Len(c) + 1 /\ (c \o <<m>>)[i] = c[i]
           /\ (c \o <<m>>)[Len(c) + 1] = m
           /\ \A i \in 1..Len(c) + 1 : i \in 1..Len(c) \/ i = Len(c) + 1
<1>1. <<m>> \in Seq(Frames) /\ Len(<<m>>) = 1 /\ <<m>>[1] = m
  OBVIOUS
<1> QED BY <1>1

LEMMA LessFrames ==
    ASSUME NEW c \in Seq(Frames), NEW n \in 0..Len(c)
    PROVE  LET d == SubSeq(c, 1, n) IN
           /\ d \in Seq(Frames) /\ Len(c) \in Nat /\ Len(d) = n
           /\ \A i \in 1..Len(d) : i \in 1..Len(c) /\ d[i] = c[i]
<1>1. n \in Nat /\ n <= Len(c) /\ Len(c) \in Nat
  OBVIOUS
<1> QED BY <1>1

LEMMA LinkedTail ==
    ASSUME NEW c \in Seq(Frames), c # <<>>, Linked(c)
    PROVE  Linked(Tail(c))
<1> DEFINE d == Tail(c)
<1>1. /\ Len(c) \in Nat /\ Len(d) = Len(c) - 1
      /\ \A i \in 1..Len(d) : i + 1 \in 1..Len(c) /\ d[i] = c[i + 1]
      /\ \A k \in 1..Len(c) : k # 1 => k - 1 \in 1..Len(d) /\ d[k - 1] = c[k]
  BY TailFrames
<1> HIDE DEF d
<1> SUFFICES ASSUME NEW i \in 1..Len(d), NEW j \in 1..Len(d), i < j, Carrier(d[i]),
                    d[j].cmd = "DATA",
                    \A k \in 1..Len(d) : i < k /\ k < j => ~Carrier(d[k])
             PROVE  d[j].file = d[i].file /\ d[j].n = d[i].n + 1
  BY DEF Linked, d
<1>2. /\ i + 1 \in 1..Len(c) /\ j + 1 \in 1..Len(c) /\ d[i] = c[i + 1] /\ d[j] = c[j + 1]
      /\ i + 1 < j + 1
  BY <1>1
<1>3. ASSUME NEW k \in 1..Len(c), i + 1 < k, k < j + 1 PROVE ~Carrier(c[k])
  <2>1. k # 1 /\ i < k - 1 /\ k - 1 < j
    BY <1>3, <1>1
  <2> QED BY <1>1, <2>1
<1> QED BY <1>2, <1>3 DEF Linked

LEMMA LinkedLess ==
    ASSUME NEW c \in Seq(Frames), NEW n \in 0..Len(c), Linked(c)
    PROVE  Linked(SubSeq(c, 1, n))
<1> DEFINE d == SubSeq(c, 1, n)
<1>1. /\ Len(c) \in Nat /\ Len(d) = n
      /\ \A i \in 1..Len(d) : i \in 1..Len(c) /\ d[i] = c[i]
  BY LessFrames
<1> HIDE DEF d
<1> SUFFICES ASSUME NEW i \in 1..Len(d), NEW j \in 1..Len(d), i < j, Carrier(d[i]),
                    d[j].cmd = "DATA",
                    \A k \in 1..Len(d) : i < k /\ k < j => ~Carrier(d[k])
             PROVE  d[j].file = d[i].file /\ d[j].n = d[i].n + 1
  BY DEF Linked, d
<1>2. i \in 1..Len(c) /\ j \in 1..Len(c) /\ d[i] = c[i] /\ d[j] = c[j]
  BY <1>1
<1>3. ASSUME NEW k \in 1..Len(c), i < k, k < j PROVE ~Carrier(c[k])
  <2>1. k \in 1..Len(d)
    BY <1>1, <1>3
  <2> QED BY <1>1, <1>3, <2>1
<1> QED BY <1>2, <1>3 DEF Linked

LEMMA LinkedMore ==
    ASSUME NEW c \in Seq(Frames), NEW m \in Frames, Linked(c),
           m.cmd = "DATA" => \E n \in Nat : Ends(c, m.file, n) /\ m.n = n + 1
    PROVE  Linked(c \o <<m>>)
<1> DEFINE d == c \o <<m>>
<1>1. /\ Len(c) \in Nat /\ Len(d) = Len(c) + 1
      /\ \A i \in 1..Len(c) : i \in 1..Len(d) /\ d[i] = c[i]
      /\ d[Len(c) + 1] = m
      /\ \A i \in 1..Len(d) : i \in 1..Len(c) \/ i = Len(c) + 1
  BY MoreFrames
<1> HIDE DEF d
<1> SUFFICES ASSUME NEW i \in 1..Len(d), NEW j \in 1..Len(d), i < j, Carrier(d[i]),
                    d[j].cmd = "DATA",
                    \A k \in 1..Len(d) : i < k /\ k < j => ~Carrier(d[k])
             PROVE  d[j].file = d[i].file /\ d[j].n = d[i].n + 1
  BY DEF Linked, d
<1>2. i \in 1..Len(c) /\ d[i] = c[i]
  BY <1>1
<1>3. CASE j \in 1..Len(c)
  <2>1. \A k \in 1..Len(c) : i < k /\ k < j => ~Carrier(c[k])
    BY <1>1
  <2> QED BY <1>1, <1>2, <1>3, <2>1 DEF Linked
<1>4. CASE j = Len(c) + 1
  <2>1. PICK n \in Nat : Ends(c, m.file, n) /\ m.n = n + 1
    BY <1>1, <1>4
  <2>2. \A k \in 1..Len(c) : i < k => ~Carrier(c[k])
    BY <1>1, <1>4
  <2>3. c[i].file = m.file /\ c[i].n = n
    BY <1>2, <2>1, <2>2 DEF Ends
  <2> QED BY <1>1, <1>2, <1>4, <2>1, <2>3
<1> QED BY <1>1, <1>3, <1>4


LEMMA BeginsTail ==
    ASSUME NEW c \in Seq(Frames), c # <<>>, NEW f, NEW n, Begins(c, f, n),
           ~Carrier(Head(c))
    PROVE  Begins(Tail(c), f, n)
<1> DEFINE d == Tail(c)
<1>1. /\ Len(c) \in Nat /\ Len(d) = Len(c) - 1 /\ Head(c) = c[1]
      /\ \A i \in 1..Len(d) : i + 1 \in 1..Len(c) /\ d[i] = c[i + 1]
      /\ \A k \in 1..Len(c) : k # 1 => k - 1 \in 1..Len(d) /\ d[k - 1] = c[k]
  BY TailFrames
<1> HIDE DEF d
<1> SUFFICES ASSUME NEW j \in 1..Len(d), d[j].cmd = "DATA",
                    \A k \in 1..Len(d) : k < j => ~Carrier(d[k])
             PROVE  d[j].file = f /\ d[j].n = n + 1
  BY DEF Begins, d
<1>2. j + 1 \in 1..Len(c) /\ d[j] = c[j + 1]
  BY <1>1
<1>3. ASSUME NEW k \in 1..Len(c), k < j + 1 PROVE ~Carrier(c[k])
  <2>1. CASE k = 1
    BY <1>1, <2>1
  <2>2. CASE k # 1
    <3>1. k - 1 \in 1..Len(d) /\ k - 1 < j
      BY <1>1, <1>3, <2>2
    <3> QED BY <1>1, <2>2, <3>1
  <2> QED BY <2>1, <2>2
<1> QED BY <1>2, <1>3 DEF Begins

(* What follows an announcement or a block. *)
LEMMA BeginsLinked ==
    ASSUME NEW c \in Seq(Frames), c # <<>>, Linked(c), Carrier(Head(c))
    PROVE  Begins(Tail(c), Head(c).file, Head(c).n)
<1> DEFINE d == Tail(c)
           h == Head(c)
<1>1. /\ Len(c) \in Nat /\ Len(d) = Len(c) - 1 /\ h = c[1] /\ 1 \in 1..Len(c)
      /\ \A i \in 1..Len(d) : i + 1 \in 1..Len(c) /\ d[i] = c[i + 1]
      /\ \A k \in 1..Len(c) : k # 1 => k - 1 \in 1..Len(d) /\ d[k - 1] = c[k]
  BY TailFrames
<1> HIDE DEF d, h
<1> SUFFICES ASSUME NEW j \in 1..Len(d), d[j].cmd = "DATA",
                    \A k \in 1..Len(d) : k < j => ~Carrier(d[k])
             PROVE  d[j].file = h.file /\ d[j].n = h.n + 1
  BY DEF Begins, d, h
<1>2. j + 1 \in 1..Len(c) /\ d[j] = c[j + 1] /\ 1 < j + 1
  BY <1>1
<1>3. ASSUME NEW k \in 1..Len(c), 1 < k, k < j + 1 PROVE ~Carrier(c[k])
  <2>1. k # 1 /\ k - 1 < j
    BY <1>1, <1>3
  <2> QED BY <1>1, <2>1
<1>4. Carrier(c[1])
  BY <1>1 DEF h
<1> QED BY <1>1, <1>2, <1>3, <1>4 DEF Linked

LEMMA BeginsLess ==
    ASSUME NEW c \in Seq(Frames), NEW i \in 0..Len(c), NEW f, NEW n, Begins(c, f, n)
    PROVE  Begins(SubSeq(c, 1, i), f, n)
<1> DEFINE d == SubSeq(c, 1, i)
<1>1. /\ Len(c) \in Nat /\ Len(d) = i
      /\ \A k \in 1..Len(d) : k \in 1..Len(c) /\ d[k] = c[k]
  BY LessFrames
<1> HIDE DEF d
<1> SUFFICES ASSUME NEW j \in 1..Len(d), d[j].cmd = "DATA",
                    \A k \in 1..Len(d) : k < j => ~Carrier(d[k])
             PROVE  d[j].file = f /\ d[j].n = n + 1
  BY DEF Begins, d
<1>2. j \in 1..Len(c) /\ d[j] = c[j]
  BY <1>1
<1>3. ASSUME NEW k \in 1..Len(c), k < j PROVE ~Carrier(c[k])
  <2>1. k \in 1..Len(d)
    BY <1>1, <1>3
  <2> QED BY <1>1, <1>3, <2>1
<1> QED BY <1>2, <1>3 DEF Begins

LEMMA BeginsMore ==
    ASSUME NEW c \in Seq(Frames), NEW m \in Frames, NEW f, NEW n, Begins(c, f, n),
           m.cmd = "DATA" /\ Quiet(c) => m.file = f /\ m.n = n + 1
    PROVE  Begins(c \o <<m>>, f, n)
<1> DEFINE d == c \o <<m>>
<1>1. /\ Len(c) \in Nat /\ Len(d) = Len(c) + 1
      /\ \A i \in 1..Len(c) : i \in 1..Len(d) /\ d[i] = c[i]
      /\ d[Len(c) + 1] = m
      /\ \A i \in 1..Len(d) : i \in 1..Len(c) \/ i = Len(c) + 1
  BY MoreFrames
<1> HIDE DEF d
<1> SUFFICES ASSUME NEW j \in 1..Len(d), d[j].cmd = "DATA",
                    \A k \in 1..Len(d) : k < j => ~Carrier(d[k])
             PROVE  d[j].file = f /\ d[j].n = n + 1
  BY DEF Begins, d
<1>2. CASE j \in 1..Len(c)
  <2>1. \A k \in 1..Len(c) : k < j => ~Carrier(c[k])
    BY <1>1
  <2> QED BY <1>1, <1>2, <2>1 DEF Begins
<1>3. CASE j = Len(c) + 1
  <2>1. \A k \in 1..Len(c) : ~Carrier(c[k])
    BY <1>1, <1>3
  <2> QED BY <1>1, <1>3, <2>1 DEF Quiet
<1> QED BY <1>1, <1>2, <1>3

LEMMA EndsTail ==
    ASSUME NEW c \in Seq(Frames), c # <<>>, NEW f, NEW n, Ends(c, f, n)
    PROVE  /\ Ends(Tail(c), f, n)
           /\ Quiet(Tail(c)) /\ Carrier(Head(c)) => Head(c).file = f /\ Head(c).n = n
           /\ Quiet(Tail(c)) /\ ~Carrier(Head(c)) => Quiet(c)
<1> DEFINE d == Tail(c)
           h == Head(c)
<1>1. /\ Len(c) \in Nat /\ Len(d) = Len(c) - 1 /\ h = c[1] /\ 1 \in 1..Len(c)
      /\ \A i \in 1..Len(d) : i + 1 \in 1..Len(c) /\ d[i] = c[i + 1]
      /\ \A k \in 1..Len(c) : k # 1 => k - 1 \in 1..Len(d) /\ d[k - 1] = c[k]
  BY TailFrames
<1> HIDE DEF d, h
<1>2. ASSUME NEW i \in 1..Len(d), Carrier(d[i]),
             \A k \in 1..Len(d) : i < k => ~Carrier(d[k])
      PROVE  d[i].file = f /\ d[i].n = n
  <2>1. i + 1 \in 1..Len(c) /\ d[i] = c[i + 1]
    BY <1>1
  <2>2. ASSUME NEW k \in 1..Len(c), i + 1 < k PROVE ~Carrier(c[k])
    <3>1. k # 1 /\ i < k - 1
      BY <1>1, <2>2
    <3> QED BY <1>1, <1>2, <3>1
  <2> QED BY <1>2, <2>1, <2>2 DEF Ends
<1>3. Ends(d, f, n)
  BY <1>2 DEF Ends
<1>4. ASSUME Quiet(d) PROVE \A k \in 1..Len(c) : 1 < k => ~Carrier(c[k])
  <2> SUFFICES ASSUME NEW k \in 1..Len(c), 1 < k PROVE ~Carrier(c[k])
    OBVIOUS
  <2>1. k # 1
    BY <1>1
  <2> QED BY <1>1, <1>4, <2>1 DEF Quiet
<1>5. Quiet(d) /\ Carrier(h) => h.file = f /\ h.n = n
  BY <1>1, <1>4 DEF Ends
<1>6. Quiet(d) /\ ~Carrier(h) => Quiet(c)
  <2> SUFFICES ASSUME Quiet(d), ~Carrier(h), NEW k \in 1..Len(c) PROVE ~Carrier(c[k])
    BY DEF Quiet
  <2>1. CASE k = 1
    BY <1>1, <2>1
  <2>2. CASE k # 1
    BY <1>1, <2>2 DEF Quiet
  <2> QED BY <2>1, <2>2
<1> QED BY <1>3, <1>5, <1>6 DEF d, h

LEMMA EndsMore ==
    ASSUME NEW c \in Seq(Frames), NEW m \in Frames
    PROVE  /\ ~Carrier(m) =>
                 /\ \A f, n : Ends(c, f, n) => Ends(c \o <<m>>, f, n)
                 /\ Quiet(c \o <<m>>) => Quiet(c)
           /\ Carrier(m) => Ends(c \o <<m>>, m.file, m.n) /\ ~Quiet(c \o <<m>>)
<1> DEFINE d == c \o <<m>>
<1>1. /\ Len(c) \in Nat /\ Len(d) = Len(c) + 1
      /\ \A i \in 1..Len(c) : i \in 1..Len(d) /\ d[i] = c[i]
      /\ d[Len(c) + 1] = m /\ Len(c) + 1 \in 1..Len(d)
      /\ \A i \in 1..Len(d) : i \in 1..Len(c) \/ i = Len(c) + 1
  BY MoreFrames
<1> HIDE DEF d
<1>2. ASSUME ~Carrier(m), NEW f, NEW n, Ends(c, f, n) PROVE Ends(d, f, n)
  <2> SUFFICES ASSUME NEW i \in 1..Len(d), Carrier(d[i]),
                      \A k \in 1..Len(d) : i < k => ~Carrier(d[k])
               PROVE  d[i].file = f /\ d[i].n = n
    BY DEF Ends
  <2>1. i \in 1..Len(c) /\ d[i] = c[i]
    BY <1>1, <1>2
  <2>2. \A k \in 1..Len(c) : i < k => ~Carrier(c[k])
    BY <1>1
  <2> QED BY <1>2, <2>1, <2>2 DEF Ends
<1>3. Quiet(d) => Quiet(c)
  BY <1>1 DEF Quiet
<1>4. ASSUME Carrier(m) PROVE Ends(d, m.file, m.n) /\ ~Quiet(d)
  <2>1. ~Quiet(d)
    BY <1>1, <1>4 DEF Quiet
  <2>2. ASSUME NEW i \in 1..Len(d), \A k \in 1..Len(d) : i < k => ~Carrier(d[k])
        PROVE  d[i] = m
    BY <1>1, <1>4, <2>2
  <2> QED BY <2>1, <2>2 DEF Ends
<1> QED BY <1>2, <1>3, <1>4 DEF d

LEMMA SaysTail ==
    ASSUME NEW c \in Seq(Frames), c # <<>>, NEW K
    PROVE  /\ \A f : Says(Tail(c), K, f) => Says(c, K, f)
           /\ Once(c, K) => Once(Tail(c), K)
           /\ Head(c).cmd \in K => Says(c, K, Head(c).file)
           /\ Once(c, K) /\ Head(c).cmd \in K => ~Says(Tail(c), K, Head(c).file)
<1> DEFINE d == Tail(c)
           h == Head(c)
<1>1. /\ Len(c) \in Nat /\ Len(d) = Len(c) - 1 /\ h = c[1] /\ 1 \in 1..Len(c)
      /\ \A i \in 1..Len(d) : i + 1 \in 1..Len(c) /\ d[i] = c[i + 1]
  BY TailFrames
<1> HIDE DEF d, h
<1>2. \A f : Says(d, K, f) => Says(c, K, f)
  BY <1>1 DEF Says
<1>3. ASSUME Once(c, K) PROVE Once(d, K)
  <2> SUFFICES ASSUME NEW i \in 1..Len(d), NEW j \in 1..Len(d), d[i].cmd \in K,
                      d[j].cmd \in K, d[i].file = d[j].file
               PROVE  i = j
    BY DEF Once
  <2>1. i + 1 = j + 1
    BY <1>1, <1>3 DEF Once
  <2> QED BY <2>1
<1>4. h.cmd \in K => Says(c, K, h.file)
  BY <1>1 DEF Says
<1>5. ASSUME Once(c, K), h.cmd \in K, Says(d, K, h.file) PROVE FALSE
  <2>1. PICK i \in 1..Len(d) : d[i].cmd \in K /\ d[i].file = h.file
    BY <1>5 DEF Says
  <2>2. i + 1 = 1
    BY <1>1, <1>5, <2>1 DEF Once
  <2> QED BY <2>2
<1> QED BY <1>2, <1>3, <1>4, <1>5 DEF d, h

LEMMA SaysMore ==
    ASSUME NEW c \in Seq(Frames), NEW m \in Frames, NEW K
    PROVE  /\ \A f : Says(c \o <<m>>, K, f)
                     => Says(c, K, f) \/ (m.cmd \in K /\ m.file = f)
           /\ Once(c, K) /\ (m.cmd \in K => ~Says(c, K, m.file)) => Once(c \o <<m>>, K)
<1> DEFINE d == c \o <<m>>
<1>1. /\ Len(c) \in Nat /\ Len(d) = Len(c) + 1
      /\ \A i \in 1..Len(c) : i \in 1..Len(d) /\ d[i] = c[i]
      /\ d[Len(c) + 1] = m
      /\ \A i \in 1..Len(d) : i \in 1..Len(c) \/ i = Len(c) + 1
  BY MoreFrames
<1> HIDE DEF d
<1>2. ASSUME NEW f, Says(d, K, f) PROVE Says(c, K, f) \/ (m.cmd \in K /\ m.file = f)
  BY <1>1, <1>2 DEF Says
<1>3. ASSUME Once(c, K), m.cmd \in K => ~Says(c, K, m.file) PROVE Once(d, K)
  BY <1>1, <1>3 DEF Once, Says
<1> QED BY <1>2, <1>3 DEF d

LEMMA SaysLess ==
    ASSUME NEW c \in Seq(Frames), NEW n \in 0..Len(c), NEW K
    PROVE  /\ \A f : Says(SubSeq(c, 1, n), K, f) => Says(c, K, f)
           /\ Once(c, K) => Once(SubSeq(c, 1, n), K)
<1> DEFINE d == SubSeq(c, 1, n)
<1>1. \A i \in 1..Len(d) : i \in 1..Len(c) /\ d[i] = c[i]
  BY LessFrames
<1> HIDE DEF d
<1>2. \A f : Says(d, K, f) => Says(c, K, f)
  BY <1>1 DEF Says
<1>3. Once(c, K) => Once(d, K)
  BY <1>1 DEF Once
<1> QED BY <1>2, <1>3 DEF d


-----------------------------------------------------------------------------
(* The invariant of one direction: S is the side that sends, R the one that receives,   *)
(* F the frames on their way to R, B those on their way back, O the files of S, P and I *)
(* what R has of them in part and in whole, v their versions, lk that the link stands.  *)

Each(c, T) == \A i \in 1..Len(c) : c[i] \in T

Carriers(O, P, v) ==
    {m \in Frames :
        /\ m.cmd = "FILE" => /\ m.file \in O /\ m.ver = v[m.file]
                             /\ m.n # 0 => m.n = Len(P[m.file])
        /\ m.cmd = "DATA" => m.file \in O /\ m.ver = v[m.file]}

Replies(O, P, I, v) ==
    {m \in Frames :
        Answer(m) => /\ m.file \in O
                     /\ m.cmd = "GET" => m.n # 0 /\ m.n = Len(P[m.file])
                     /\ m.cmd = "GOT" => I[m.file] = Content(m.file, v[m.file])}

(* What R has stored: never a whole file in tmp/, and without checksums the first blocks *)
(* of the only version.                                                                  *)
Stored(P, I, v, crc) ==
    /\ \A f \in Files : Len(P[f]) < Size[f] \/ Len(P[f]) = 0
    /\ \A f \in Files : Size[f] = 0 => I[f] = <<>>
    /\ ~crc => \A f \in Files :
          v[f] = 1 /\ \A i \in 1..Len(P[f]) : P[f][i] = <<f, 1, i>>

(* R is where its file is, and the file that is open is the one that was announced. *)
Receiving(R, O, P, v) ==
    /\ R.rx = "ReceD" =>
          /\ R.rfp = R.rname /\ R.rname \in O /\ R.rver = v[R.rname]
          /\ R.rpos = Len(P[R.rname]) /\ R.rpos < Size[R.rname]
    /\ R.rbytes # 0 /\ R.rfp \in Files => R.rfp \in O /\ Size[R.rfp] > 1

Forward(R, F, O, P, v) ==
    /\ Each(F, Carriers(O, P, v)) /\ Linked(F) /\ Once(F, Asking)
    /\ R.rx = "ReceD" => Begins(F, R.rname, R.rpos) /\ ~Says(F, Asking, R.rname)

(* S is where the last frame is, and R where S is when there is none. *)
Pace(S, R, F) ==
    S.tx = "TryR" =>
        /\ Ends(F, S.fp, S.pos)
        /\ R.rx = "ReceD" /\ Quiet(F) => R.rname = S.fp /\ R.rpos = S.pos

Waits(S, f) == S.list[f] \in {"Sending", "IsSent"}

Sending(S, O, P) ==
    /\ \A f \in Files : S.list[f] # "none" => f \in O
    /\ S.tx = "TryR" => S.cur = S.fp /\ S.fp \in O /\ S.list[S.fp] = "Sending"
    /\ \A f \in Files :
          S.list[f] = "NoState" /\ S.off[f] # 0 => S.off[f] = Len(P[f])

Backward(S, B, O, P, I, v) ==
    /\ Each(B, Replies(O, P, I, v)) /\ Each(S.queue, Replies(O, P, I, v))
    /\ Once(B, Answering) /\ Once(S.queue, Answering)
    /\ \A f \in Files : ~(Says(B, Answering, f) /\ Says(S.queue, Answering, f))
    /\ \A f \in Files :
          Says(B, Answering, f) \/ Says(S.queue, Answering, f) => Waits(S, f)

(* A file is asked for, received and answered once at a time, and only while S waits for *)
(* the answer.                                                                           *)
Unanswered(S, B, f) ==
    Waits(S, f) /\ ~Says(B, Answering, f) /\ ~Says(S.queue, Answering, f)

Turned(S, R, F, B) ==
    \A f \in Files :
        Says(F, Asking, f) \/ (R.rx = "ReceD" /\ R.rname = f) => Unanswered(S, B, f)

InOK(R, F, O, P, v) == ~Ended(R) => Receiving(R, O, P, v) /\ Forward(R, F, O, P, v)

OutOK(S, B, O, P, I, v) == ~Ended(S) => Sending(S, O, P) /\ Backward(S, B, O, P, I, v)

BothOK(S, R, F, B, lk) ==
    ~Ended(S) /\ ~Ended(R) => Turned(S, R, F, B) /\ (lk => Pace(S, R, F))

Flow(S, R, F, B, O, P, I, v, crc, lk) ==
    /\ Stored(P, I, v, crc) /\ InOK(R, F, O, P, v)
    /\ OutOK(S, B, O, P, I, v) /\ BothOK(S, R, F, B, lk)

LEMMA EachTail ==
    ASSUME NEW c \in Seq(Frames), c # <<>>, NEW T, Each(c, T)
    PROVE  Each(Tail(c), T) /\ Head(c) \in T
BY TailFrames DEF Each

LEMMA EachMore ==
    ASSUME NEW c \in Seq(Frames), NEW m \in Frames, NEW T, Each(c, T), m \in T
    PROVE  Each(c \o <<m>>, T)
BY MoreFrames DEF Each

LEMMA EachLess ==
    ASSUME NEW c \in Seq(Frames), NEW n \in 0..Len(c), NEW T, Each(c, T)
    PROVE  Each(SubSeq(c, 1, n), T)
BY LessFrames DEF Each

(* Only what a side keeps for the transfer matters, and nothing once it has ended. *)
LEMMA FlowViews ==
    ASSUME NEW S, NEW R, NEW F, NEW B, NEW O, NEW P, NEW I, NEW v, NEW crc, NEW lk,
           Flow(S, R, F, B, O, P, I, v, crc, lk), NEW S1, NEW R1,
           Ended(S1) \/ (~Ended(S) /\ TxView(S1) = TxView(S)),
           Ended(R1) \/ (~Ended(R) /\ RxView(R1) = RxView(R))
    PROVE  Flow(S1, R1, F, B, O, P, I, v, crc, lk)
<1>1. InOK(R1, F, O, P, v)
  <2>1. CASE Ended(R1)
    BY <2>1 DEF InOK
  <2>2. CASE ~Ended(R) /\ RxView(R1) = RxView(R)
    <3>1. /\ R1.rx = R.rx /\ R1.rname = R.rname /\ R1.rver = R.rver /\ R1.rpos = R.rpos
          /\ R1.rbytes = R.rbytes /\ R1.rfp = R.rfp
      BY <2>2 DEF RxView
    <3>2. Receiving(R, O, P, v) /\ Forward(R, F, O, P, v)
      BY <2>2 DEF Flow, InOK
    <3>3. Receiving(R1, O, P, v) /\ Forward(R1, F, O, P, v)
      BY <3>1, <3>2 DEF Receiving, Forward
    <3> QED BY <3>3 DEF InOK
  <2> QED BY <2>1, <2>2
<1>2. OutOK(S1, B, O, P, I, v)
  <2>1. CASE Ended(S1)
    BY <2>1 DEF OutOK
  <2>2. CASE ~Ended(S) /\ TxView(S1) = TxView(S)
    <3>1. /\ S1.tx = S.tx /\ S1.cur = S.cur /\ S1.fp = S.fp /\ S1.pos = S.pos
          /\ S1.list = S.list /\ S1.off = S.off /\ S1.queue = S.queue
      BY <2>2 DEF TxView
    <3>2. Sending(S, O, P) /\ Backward(S, B, O, P, I, v)
      BY <2>2 DEF Flow, OutOK
    <3>3. Sending(S1, O, P) /\ Backward(S1, B, O, P, I, v)
      BY <3>1, <3>2 DEF Sending, Backward, Waits
    <3> QED BY <3>3 DEF OutOK
  <2> QED BY <2>1, <2>2
<1>3. BothOK(S1, R1, F, B, lk)
  <2> SUFFICES ASSUME ~Ended(S1), ~Ended(R1)
               PROVE  Turned(S1, R1, F, B) /\ (lk => Pace(S1, R1, F))
    BY DEF BothOK
  <2>1. /\ R1.rx = R.rx /\ R1.rname = R.rname /\ R1.rpos = R.rpos /\ ~Ended(R)
        /\ S1.tx = S.tx /\ S1.fp = S.fp /\ S1.pos = S.pos /\ ~Ended(S)
        /\ S1.list = S.list /\ S1.queue = S.queue
    BY DEF TxView, RxView
  <2>2. Turned(S, R, F, B) /\ (lk => Pace(S, R, F))
    BY <2>1 DEF Flow, BothOK
  <2> QED BY <2>1, <2>2 DEF Turned, Pace, Unanswered, Waits
<1> QED BY <1>1, <1>2, <1>3 DEF Flow


(* Frames that do not concern the direction. *)
LEMMA FlowBack ==
    ASSUME NEW S, NEW R, NEW F \in Seq(Frames), NEW B \in Seq(Frames), NEW O, NEW P, NEW I,
           NEW v, NEW crc, NEW lk, Flow(S, R, F, B, O, P, I, v, crc, lk),
           NEW m \in Frames, ~Answer(m)
    PROVE  Flow(S, R, F, B \o <<m>>, O, P, I, v, crc, lk)
<1> DEFINE C == B \o <<m>>
<1>0. m \in Replies(O, P, I, v) /\ m.cmd \notin Answering
  BY DEF Replies, Answer, Answering
<1>1. \A f : Says(C, Answering, f) => Says(B, Answering, f)
  BY <1>0, SaysMore
<1>2. Once(B, Answering) => Once(C, Answering)
  BY <1>0, SaysMore
<1>3. Each(B, Replies(O, P, I, v)) => Each(C, Replies(O, P, I, v))
  BY <1>0, EachMore
<1> HIDE DEF C
<1>4. OutOK(S, C, O, P, I, v)
  BY <1>1, <1>2, <1>3 DEF Flow, OutOK, Backward
<1>5. BothOK(S, R, F, C, lk)
  BY <1>1 DEF Flow, BothOK, Turned, Unanswered
<1> QED BY <1>4, <1>5 DEF Flow, C

LEMMA FlowFore ==
    ASSUME NEW S, NEW R, NEW F \in Seq(Frames), NEW B \in Seq(Frames), NEW O, NEW P, NEW I,
           NEW v, NEW crc, NEW lk, Flow(S, R, F, B, O, P, I, v, crc, lk),
           NEW m \in Frames, ~Carrier(m)
    PROVE  Flow(S, R, F \o <<m>>, B, O, P, I, v, crc, lk)
<1> DEFINE G == F \o <<m>>
<1>0. m \in Carriers(O, P, v) /\ m.cmd \notin Asking /\ m.cmd # "DATA"
  BY DEF Carriers, Carrier, Asking
<1>1. \A f : Says(G, Asking, f) => Says(F, Asking, f)
  BY <1>0, SaysMore
<1>2. Once(F, Asking) => Once(G, Asking)
  BY <1>0, SaysMore
<1>3. Each(F, Carriers(O, P, v)) => Each(G, Carriers(O, P, v))
  BY <1>0, EachMore
<1>4. Linked(F) => Linked(G)
  BY <1>0, LinkedMore
<1>5. \A f, n : Begins(F, f, n) => Begins(G, f, n)
  BY <1>0, BeginsMore
<1>6. (\A f, n : Ends(F, f, n) => Ends(G, f, n)) /\ (Quiet(G) => Quiet(F))
  BY EndsMore
<1> HIDE DEF G
<1>7. InOK(R, G, O, P, v)
  BY <1>1, <1>2, <1>3, <1>4, <1>5 DEF Flow, InOK, Forward
<1>8. BothOK(S, R, G, B, lk)
  BY <1>1, <1>6 DEF Flow, BothOK, Turned, Pace
<1> QED BY <1>7, <1>8 DEF Flow, G

(* A frame is taken from a channel. *)
LEMMA FlowTakeF ==
    ASSUME NEW S, NEW R, NEW F \in Seq(Frames), NEW B \in Seq(Frames), NEW O, NEW P, NEW I,
           NEW v, NEW crc, NEW lk, Flow(S, R, F, B, O, P, I, v, crc, lk),
           F # <<>>, ~Carrier(Head(F)) \/ R.rx # "ReceD"
    PROVE  Flow(S, R, Tail(F), B, O, P, I, v, crc, lk)
<1> DEFINE G == Tail(F)
<1>1. \A f : Says(G, Asking, f) => Says(F, Asking, f)
  BY SaysTail
<1>2. Once(F, Asking) => Once(G, Asking)
  BY SaysTail
<1>3. Each(F, Carriers(O, P, v)) => Each(G, Carriers(O, P, v))
  BY EachTail
<1>4. Linked(F) => Linked(G)
  BY LinkedTail
<1>5. ~Carrier(Head(F)) => \A f, n : Begins(F, f, n) => Begins(G, f, n)
  BY BeginsTail
<1>6. \A f, n : Ends(F, f, n) => Ends(G, f, n)
  BY EndsTail
<1>7. ~Carrier(Head(F)) => \A f, n : Ends(F, f, n) /\ Quiet(G) => Quiet(F)
  BY EndsTail
<1> HIDE DEF G
<1>8. InOK(R, G, O, P, v)
  BY <1>1, <1>2, <1>3, <1>4, <1>5 DEF Flow, InOK, Forward
<1>9. BothOK(S, R, G, B, lk)
  BY <1>1, <1>6, <1>7 DEF Flow, BothOK, Turned, Pace
<1> QED BY <1>8, <1>9 DEF Flow, G

LEMMA FlowTakeB ==
    ASSUME NEW S, NEW R, NEW F \in Seq(Frames), NEW B \in Seq(Frames), NEW O, NEW P, NEW I,
           NEW v, NEW crc, NEW lk, Flow(S, R, F, B, O, P, I, v, crc, lk), B # <<>>
    PROVE  Flow(S, R, F, Tail(B), O, P, I, v, crc, lk)
<1> DEFINE C == Tail(B)
<1>1. \A f : Says(C, Answering, f) => Says(B, Answering, f)
  BY SaysTail
<1>2. Once(B, Answering) => Once(C, Answering)
  BY SaysTail
<1>3. Each(B, Replies(O, P, I, v)) => Each(C, Replies(O, P, I, v))
  BY EachTail
<1> HIDE DEF C
<1>4. OutOK(S, C, O, P, I, v)
  BY <1>1, <1>2, <1>3 DEF Flow, OutOK, Backward
<1>5. BothOK(S, R, F, C, lk)
  BY <1>1 DEF Flow, BothOK, Turned, Unanswered
<1> QED BY <1>4, <1>5 DEF Flow, C

(* An answer goes from the channel to the queue. *)
LEMMA FlowQueue ==
    ASSUME NEW S \in Side, NEW R, NEW F \in Seq(Frames), NEW B \in Seq(Frames), NEW O,
           NEW P, NEW I, NEW v, NEW crc, NEW lk, Flow(S, R, F, B, O, P, I, v, crc, lk),
           ~Ended(S), B # <<>>, Answer(Head(B)), NEW S1,
           S1.tx = S.tx, S1.cur = S.cur, S1.fp = S.fp, S1.pos = S.pos, S1.list = S.list,
           S1.off = S.off, S1.queue = S.queue \o <<Head(B)>>
    PROVE  Flow(S1, R, F, Tail(B), O, P, I, v, crc, lk)
<1> DEFINE m == Head(B)
           C == Tail(B)
           Q == S.queue
           D == S.queue \o <<m>>
           T == Replies(O, P, I, v)
<1>1. m \in Frames /\ m.cmd \in Answering /\ m.file \in Files
  <2>1. m \in Frames /\ m.cmd \in Answering
    BY TailFrames DEF Answer, Answering
  <2>2. m.cmd \in AboutFile
    BY <2>1 DEF Answering, AboutFile
  <2> QED BY <2>1, <2>2, FrameFields, Zenon
<1>2. Q \in Seq(Frames)
  BY DEF Side, Queue, Answers
<1>3. Sending(S, O, P) /\ Backward(S, B, O, P, I, v)
  BY DEF Flow, OutOK
<1>4. Each(B, T) /\ Each(Q, T) /\ Once(B, Answering) /\ Once(Q, Answering)
  BY <1>3 DEF Backward
<1>5. Each(C, T) /\ m \in T
  BY <1>4, EachTail
<1>6. Each(D, T)
  BY <1>1, <1>2, <1>4, <1>5, EachMore
<1>7. /\ \A f : Says(C, Answering, f) => Says(B, Answering, f)
      /\ Once(C, Answering)
      /\ Says(B, Answering, m.file) /\ ~Says(C, Answering, m.file)
  BY <1>1, <1>4, SaysTail
<1>8. /\ \A f : Says(D, Answering, f) => Says(Q, Answering, f) \/ m.file = f
      /\ ~Says(Q, Answering, m.file) => Once(D, Answering)
  BY <1>1, <1>2, <1>4, SaysMore
<1> HIDE DEF m, C, Q, D
<1>9. ~Says(Q, Answering, m.file)
  BY <1>1, <1>3, <1>7 DEF Backward, Q
<1>10. S1.queue = D
  BY DEF D, m
<1>11. Backward(S1, C, O, P, I, v)
  <2>1. ASSUME NEW f \in Files, Says(C, Answering, f), Says(D, Answering, f) PROVE FALSE
    BY <1>3, <1>7, <1>8, <2>1 DEF Backward, Q
  <2>2. ASSUME NEW f \in Files, Says(C, Answering, f) \/ Says(D, Answering, f)
        PROVE  Waits(S1, f)
    BY <1>3, <1>7, <1>8, <2>2 DEF Backward, Q, Waits
  <2> QED BY <1>5, <1>6, <1>7, <1>8, <1>9, <1>10, <2>1, <2>2 DEF Backward
<1>12. Sending(S1, O, P)
  BY <1>3 DEF Sending
<1>13. OutOK(S1, C, O, P, I, v)
  BY <1>11, <1>12 DEF OutOK
<1>14. BothOK(S1, R, F, C, lk)
  <2> SUFFICES ASSUME ~Ended(R) PROVE Turned(S1, R, F, C) /\ (lk => Pace(S1, R, F))
    BY DEF BothOK
  <2>1. Turned(S, R, F, B) /\ (lk => Pace(S, R, F))
    BY DEF Flow, BothOK
  <2>2. ASSUME NEW f \in Files, Unanswered(S, B, f) PROVE Unanswered(S1, C, f)
    BY <1>7, <1>8, <1>10, <2>2 DEF Unanswered, Waits, Q
  <2> QED BY <2>1, <2>2 DEF Turned, Pace
<1> QED BY <1>13, <1>14 DEF Flow, C

(* The receiver waits for the next file, or has closed. *)
LEMMA FlowIdle ==
    ASSUME NEW S, NEW R, NEW F, NEW B, NEW O, NEW P, NEW I, NEW v, NEW crc, NEW lk,
           Flow(S, R, F, B, O, P, I, v, crc, lk), ~Ended(R), NEW R1, R1.rx # "ReceD",
           R1.rbytes # 0 /\ R1.rfp \in Files => R1.rfp \in O /\ Size[R1.rfp] > 1
    PROVE  Flow(S, R1, F, B, O, P, I, v, crc, lk)
<1>1. Receiving(R1, O, P, v)
  BY DEF Receiving
<1>2. Forward(R1, F, O, P, v)
  BY DEF Flow, InOK, Forward
<1>3. BothOK(S, R1, F, B, lk)
  BY DEF Flow, BothOK, Turned, Pace
<1> QED BY <1>1, <1>2, <1>3 DEF Flow, InOK

(* The transmitter sends no file: it may forget only files that no answer is due for. *)
LEMMA FlowRest ==
    ASSUME NEW S, NEW R, NEW F, NEW B, NEW O, NEW P, NEW I, NEW v, NEW crc, NEW lk,
           Flow(S, R, F, B, O, P, I, v, crc, lk), ~Ended(S), NEW S1, S1.tx # "TryR",
           S1.queue = S.queue,
           \A f \in Files : S1.list[f] # "none" => f \in O,
           \A f \in Files : Waits(S, f) => Waits(S1, f),
           \A f \in Files : S1.list[f] = "NoState" /\ S1.off[f] # 0 => S1.off[f] = Len(P[f])
    PROVE  Flow(S1, R, F, B, O, P, I, v, crc, lk)
<1>1. Sending(S1, O, P)
  BY DEF Sending
<1>2. Backward(S1, B, O, P, I, v)
  BY DEF Flow, OutOK, Backward
<1>3. BothOK(S1, R, F, B, lk)
  BY DEF Flow, BothOK, Turned, Pace, Unanswered
<1> QED BY <1>1, <1>2, <1>3 DEF Flow, OutOK

(* The link breaks: what still arrives is a prefix of what was sent. *)
LEMMA FlowLess ==
    ASSUME NEW S, NEW R, NEW F \in Seq(Frames), NEW B \in Seq(Frames), NEW O, NEW P, NEW I,
           NEW v, NEW crc, NEW lk, Flow(S, R, F, B, O, P, I, v, crc, lk),
           NEW i \in 0..Len(F), NEW j \in 0..Len(B)
    PROVE  Flow(S, R, SubSeq(F, 1, i), SubSeq(B, 1, j), O, P, I, v, crc, FALSE)
<1> DEFINE G == SubSeq(F, 1, i)
           C == SubSeq(B, 1, j)
<1>1. /\ \A f : Says(G, Asking, f) => Says(F, Asking, f)
      /\ Once(F, Asking) => Once(G, Asking)
  BY SaysLess
<1>2. /\ \A f : Says(C, Answering, f) => Says(B, Answering, f)
      /\ Once(B, Answering) => Once(C, Answering)
  BY SaysLess
<1>3. Each(F, Carriers(O, P, v)) => Each(G, Carriers(O, P, v))
  BY EachLess
<1>4. Each(B, Replies(O, P, I, v)) => Each(C, Replies(O, P, I, v))
  BY EachLess
<1>5. (Linked(F) => Linked(G)) /\ \A f, n : Begins(F, f, n) => Begins(G, f, n)
  BY LinkedLess, BeginsLess
<1> HIDE DEF G, C
<1>6. InOK(R, G, O, P, v)
  BY <1>1, <1>3, <1>5 DEF Flow, InOK, Forward
<1>7. OutOK(S, C, O, P, I, v)
  BY <1>2, <1>4 DEF Flow, OutOK, Backward
<1>8. BothOK(S, R, G, C, FALSE)
  BY <1>1, <1>2 DEF Flow, BothOK, Turned, Unanswered
<1> QED BY <1>6, <1>7, <1>8 DEF Flow, G, C


(* The transmitter announces a file.  Nobody has asked for it or answered it: it waits. *)
Starts(S, S1, f) ==
    /\ S.list \in [Files -> ListStates] /\ S.list[f] = "NoState"
    /\ S1.list = [S.list EXCEPT ![f] = "Sending"] /\ S1.cur = f /\ S1.fp = f
    /\ S1.pos = S.off[f] /\ S1.off = S.off /\ S1.queue = S.queue

Announces(m, S, f, v) ==
    m.cmd = "FILE" /\ m.file = f /\ m.n = S.off[f] /\ m.ver = v[f]

\* G is F with m behind it, or F itself because nobody reads.
Carried(G, F, m, lk, R) ==
    (G = F \o <<m>> /\ lk /\ ~Ended(R)) \/ (G = F /\ ~(lk /\ ~Ended(R)))

LEMMA FlowStart ==
    ASSUME NEW S, NEW R, NEW F \in Seq(Frames), NEW B \in Seq(Frames), NEW O, NEW P, NEW I,
           NEW v, NEW crc, NEW lk, Flow(S, R, F, B, O, P, I, v, crc, lk), ~Ended(S),
           NEW f \in Files, NEW m \in Frames, Announces(m, S, f, v), NEW S1,
           Starts(S, S1, f), NEW G, Carried(G, F, m, lk, R)
    PROVE  Flow(S1, R, G, B, O, P, I, v, crc, lk)
<1> USE DEF Starts, Announces, Carried
<1>1. Sending(S, O, P) /\ Backward(S, B, O, P, I, v)
  BY DEF Flow, OutOK
<1>2. /\ S1.list[f] = "Sending" /\ \A g \in Files : g # f => S1.list[g] = S.list[g]
      /\ \A g \in Files : Waits(S, g) => Waits(S1, g)
      /\ Waits(S1, f) /\ ~Waits(S, f)
  BY DEF Waits
<1>3. Sending(S1, O, P)
  BY <1>1, <1>2 DEF Sending
<1>4. Backward(S1, B, O, P, I, v)
  BY <1>1, <1>2 DEF Backward
<1>5. ~Says(B, Answering, f) /\ ~Says(S.queue, Answering, f)
  BY <1>1, <1>2 DEF Backward
<1>6. m \in Carriers(O, P, v)
  BY <1>1 DEF Sending, Carriers
<1>7. CASE G = F \o <<m>>
  <2>1. /\ \A g : Says(G, Asking, g) => Says(F, Asking, g) \/ g = f
        /\ Once(F, Asking) /\ ~Says(F, Asking, f) => Once(G, Asking)
    <3>1. /\ \A g : Says(F \o <<m>>, Asking, g)
                    => Says(F, Asking, g) \/ (m.cmd \in Asking /\ m.file = g)
          /\ Once(F, Asking) /\ (m.cmd \in Asking => ~Says(F, Asking, m.file))
                    => Once(F \o <<m>>, Asking)
      BY SaysMore, Zenon
    <3> QED BY <1>7, <3>1, Zenon
  <2>2. Each(F, Carriers(O, P, v)) => Each(G, Carriers(O, P, v))
    BY <1>6, <1>7, EachMore
  <2>3. Linked(F) => Linked(G)
    BY <1>7, LinkedMore
  <2>4. \A g, n : Begins(F, g, n) => Begins(G, g, n)
    BY <1>7, BeginsMore
  <2>5. Ends(G, f, S.off[f]) /\ ~Quiet(G)
    BY <1>7, EndsMore DEF Carrier
  <2>6. ASSUME ~Ended(R) PROVE Turned(S, R, F, B)
    BY <2>6 DEF Flow, BothOK
  <2>7. ASSUME ~Ended(R) PROVE ~Says(F, Asking, f) /\ ~(R.rx = "ReceD" /\ R.rname = f)
    BY <1>2, <2>6, <2>7 DEF Turned, Unanswered
  <2>8. InOK(R, G, O, P, v)
    BY <2>1, <2>2, <2>3, <2>4, <2>7 DEF Flow, InOK, Forward
  <2>9. BothOK(S1, R, G, B, lk)
    <3> SUFFICES ASSUME ~Ended(R) PROVE Turned(S1, R, G, B) /\ Pace(S1, R, G)
      BY DEF BothOK
    <3>1. Pace(S1, R, G)
      BY <2>5 DEF Pace
    <3>2. Unanswered(S1, B, f)
      BY <1>2, <1>5 DEF Unanswered
    <3>3. \A g \in Files : Unanswered(S, B, g) => Unanswered(S1, B, g)
      BY <1>2 DEF Unanswered
    <3> QED BY <2>1, <2>6, <3>1, <3>2, <3>3 DEF Turned
  <2> QED BY <1>3, <1>4, <2>8, <2>9 DEF Flow, OutOK
<1>8. CASE G = F /\ ~(lk /\ ~Ended(R))
  <2>1. BothOK(S1, R, G, B, lk)
    BY <1>2, <1>8 DEF Flow, BothOK, Turned, Unanswered
  <2> QED BY <1>3, <1>4, <1>8, <2>1 DEF Flow, OutOK
<1> QED BY <1>7, <1>8

(* The transmitter sends the next block of its file. *)
Advances(S, S1) ==
    /\ S.tx = "TryR" /\ S.pos \in Nat /\ S1.list = S.list /\ S1.cur = S.cur
    /\ S1.fp = S.fp /\ S1.tx = S.tx /\ S1.pos = S.pos + 1 /\ S1.off = S.off
    /\ S1.queue = S.queue

Carries(m, S, v) ==
    m.cmd = "DATA" /\ m.file = S.fp /\ m.n = S.pos + 1 /\ m.ver = v[S.fp]

LEMMA FlowBlock ==
    ASSUME NEW S, NEW R, NEW F \in Seq(Frames), NEW B \in Seq(Frames), NEW O, NEW P, NEW I,
           NEW v, NEW crc, NEW lk, Flow(S, R, F, B, O, P, I, v, crc, lk), ~Ended(S),
           NEW m \in Frames, Carries(m, S, v), NEW S1, Advances(S, S1),
           NEW G, Carried(G, F, m, lk, R)
    PROVE  Flow(S1, R, G, B, O, P, I, v, crc, lk)
<1> USE DEF Carries, Advances, Carried
<1>1. Sending(S, O, P) /\ Backward(S, B, O, P, I, v)
  BY DEF Flow, OutOK
<1>2. Sending(S1, O, P) /\ Backward(S1, B, O, P, I, v)
  BY <1>1 DEF Sending, Backward, Waits
<1>3. m \in Carriers(O, P, v)
  BY <1>1 DEF Sending, Carriers
<1>4. CASE G = F \o <<m>> /\ lk /\ ~Ended(R)
  <2>0. Turned(S, R, F, B) /\ Pace(S, R, F)
    BY <1>4 DEF Flow, BothOK
  <2>1. /\ \A g : Says(G, Asking, g) => Says(F, Asking, g)
        /\ Once(F, Asking) => Once(G, Asking)
    BY <1>4, SaysMore DEF Asking
  <2>2. Each(F, Carriers(O, P, v)) => Each(G, Carriers(O, P, v))
    BY <1>3, <1>4, EachMore
  <2>3. Linked(F) => Linked(G)
    BY <1>4, <2>0, LinkedMore DEF Pace
  <2>4. R.rx = "ReceD" /\ Begins(F, R.rname, R.rpos) => Begins(G, R.rname, R.rpos)
    BY <1>4, <2>0, BeginsMore DEF Pace
  <2>5. Ends(G, S.fp, S.pos + 1) /\ ~Quiet(G)
    BY <1>4, EndsMore DEF Carrier
  <2>6. InOK(R, G, O, P, v)
    BY <2>1, <2>2, <2>3, <2>4 DEF Flow, InOK, Forward
  <2>7. BothOK(S1, R, G, B, lk)
    BY <2>0, <2>1, <2>5 DEF BothOK, Turned, Pace, Unanswered, Waits
  <2> QED BY <1>2, <2>6, <2>7 DEF Flow, OutOK
<1>5. CASE G = F /\ ~(lk /\ ~Ended(R))
  <2>1. BothOK(S1, R, G, B, lk)
    BY <1>5 DEF Flow, BothOK, Turned, Unanswered, Waits
  <2> QED BY <1>2, <1>5, <2>1 DEF Flow, OutOK
<1> QED BY <1>4, <1>5

Arrived(K, O, I, v) == \A g \in K : g \in O /\ I[g] = Content(g, v[g])

Empties(S, r, a) ==
    /\ r.list = S.list /\ r.cur = S.cur /\ r.fp = S.fp /\ r.tx = S.tx /\ r.pos = S.pos
    /\ r.off = S.off /\ r.queue = <<>> /\ Progress(r, a, S.queue, Len(S.queue))

(* The transmitter deals with its queue.  What it disposes of has arrived. *)
LEMMA FlowMessages ==
    ASSUME NEW S \in Side, NEW R, NEW F, NEW B, NEW O \in SUBSET Files, NEW P, NEW I,
           NEW v, NEW crc, NEW lk, Flow(S, R, F, B, O, P, I, v, crc, lk), ~Ended(S),
           NEW r, NEW a, Empties(S, r, a)
    PROVE  Flow(a.r, R, F, B, O, P, I, v, crc, lk) /\ Arrived(a.got, O, I, v)
<1> USE DEF Empties, Arrived
<1> DEFINE Q == S.queue
           S1 == a.r
<1>1. Sending(S, O, P) /\ Backward(S, B, O, P, I, v)
  BY DEF Flow, OutOK
<1>2. \A k \in 1..Len(Q) : /\ Q[k] \in Answers /\ Q[k].file \in Files
                           /\ Q[k].cmd \in Answering /\ Answer(Q[k])
  <2>1. Q \in Queue
    BY DEF Side
  <2> QED BY <2>1, QueueFiles DEF Answers, Answer, Answering
<1>3. \A k \in 1..Len(Q) : Q[k] \in Replies(O, P, I, v)
  BY <1>1 DEF Backward, Each
<1>4. Same(r, S1) /\ Kept(r, S1, Q, Len(Q)) /\ Restarted(r, S1, Q, Len(Q))
      /\ Disposes(a.got, Q, Len(Q))
  BY DEF Progress
<1> HIDE DEF Q, S1
<1>5. ASSUME NEW g \in a.got PROVE g \in O /\ I[g] = Content(g, v[g])
  <2>1. PICK k \in 1..Len(Q) : Q[k].cmd = "GOT" /\ Q[k].file = g
    BY <1>4 DEF Disposes
  <2> QED BY <1>2, <1>3, <2>1 DEF Replies
<1>6. ASSUME NEW g \in Files, ~Says(Q, Answering, g)
      PROVE  S1.list[g] = S.list[g] /\ (Waits(S, g) => Waits(S1, g))
  <2>1. \A k \in 1..Len(Q) : Q[k].file # g
    BY <1>2, <1>6 DEF Says
  <2> QED BY <1>4, <2>1 DEF Kept, Waits
<1>7. S1.queue = <<>> /\ \A g : ~Says(S1.queue, Answering, g)
  BY <1>4 DEF Same, Says
<1>8. Sending(S1, O, P)
  <2>1. \A g \in Files : S1.list[g] # "none" => g \in O
    BY <1>1, <1>4 DEF Kept, Sending
  <2>2. ASSUME S1.tx = "TryR" PROVE S1.cur = S1.fp /\ S1.fp \in O /\ S1.list[S1.fp] = "Sending"
    <3>1. S1.tx = S.tx /\ S1.fp = S.fp /\ S1.cur = S.cur
      BY <1>4, <2>2 DEF Same
    <3>2. S.fp \in O /\ S.list[S.fp] = "Sending" /\ S.cur = S.fp
      BY <1>1, <2>2, <3>1 DEF Sending
    <3>3. S.fp \in Files
      BY <3>2
    <3> QED BY <1>4, <2>2, <3>1, <3>2, <3>3 DEF Kept
  <2>3. ASSUME NEW g \in Files, S1.list[g] = "NoState", S1.off[g] # 0
        PROVE  S1.off[g] = Len(P[g])
    <3>1. \/ r.list[g] = "NoState" /\ S1.off[g] = r.off[g]
          \/ \E k \in 1..Len(Q) : Q[k].cmd = "GET" /\ Q[k].file = g /\ S1.off[g] = Q[k].n
      BY <1>4, <2>3 DEF Restarted
    <3>2. CASE r.list[g] = "NoState" /\ S1.off[g] = r.off[g]
      BY <1>1, <2>3, <3>2 DEF Sending
    <3>3. ASSUME NEW k \in 1..Len(Q), Q[k].cmd = "GET", Q[k].file = g, S1.off[g] = Q[k].n
          PROVE  S1.off[g] = Len(P[g])
      BY <1>2, <1>3, <3>3 DEF Replies
    <3> QED BY <3>1, <3>2, <3>3
  <2> QED BY <2>1, <2>2, <2>3 DEF Sending
<1>9. Backward(S1, B, O, P, I, v)
  <2>1. Each(S1.queue, Replies(O, P, I, v)) /\ Once(S1.queue, Answering)
    BY <1>7 DEF Each, Once
  <2>2. ASSUME NEW g \in Files, Says(B, Answering, g) PROVE Waits(S1, g)
    BY <1>1, <1>6, <2>2 DEF Backward, Q
  <2> QED BY <1>1, <1>7, <2>1, <2>2 DEF Backward
<1>10. BothOK(S1, R, F, B, lk)
  <2> SUFFICES ASSUME ~Ended(R) PROVE Turned(S1, R, F, B) /\ (lk => Pace(S1, R, F))
    BY DEF BothOK
  <2>1. Turned(S, R, F, B) /\ (lk => Pace(S, R, F))
    BY DEF Flow, BothOK
  <2>2. ASSUME NEW g \in Files, Unanswered(S, B, g) PROVE Unanswered(S1, B, g)
    BY <1>6, <1>7, <2>2 DEF Unanswered, Q
  <2>3. S1.tx = "TryR" => S.tx = "TryR" /\ S1.fp = S.fp /\ S1.pos = S.pos
    BY <1>4 DEF Same
  <2> QED BY <2>1, <2>2, <2>3 DEF Turned, Pace
<1> QED BY <1>5, <1>8, <1>9, <1>10 DEF Flow, OutOK, S1


(* The receiver answers a file that it is not asked for again. *)
LEMMA FlowAnswer ==
    ASSUME NEW S, NEW R, NEW F \in Seq(Frames), NEW B \in Seq(Frames), NEW O, NEW P, NEW I,
           NEW v, NEW crc, NEW lk, Flow(S, R, F, B, O, P, I, v, crc, lk), ~Ended(S),
           NEW m \in Replies(O, P, I, v), Answer(m), Unanswered(S, B, m.file),
           ~Says(F, Asking, m.file), R.rx # "ReceD"
    PROVE  Flow(S, R, F, B \o <<m>>, O, P, I, v, crc, lk)
<1> DEFINE C == B \o <<m>>
           f == m.file
<1>0. m \in Frames /\ m.cmd \in Answering
  BY DEF Replies, Answer, Answering
<1>1. Sending(S, O, P) /\ Backward(S, B, O, P, I, v)
  BY DEF Flow, OutOK
<1>2. Waits(S, f) /\ ~Says(B, Answering, f) /\ ~Says(S.queue, Answering, f)
  BY DEF Unanswered
<1>3. /\ \A g : Says(C, Answering, g) => Says(B, Answering, g) \/ (m.cmd \in Answering /\ m.file = g)
      /\ Once(B, Answering) /\ (m.cmd \in Answering => ~Says(B, Answering, m.file))
         => Once(C, Answering)
  BY <1>0, SaysMore, Zenon
<1>4. Each(B, Replies(O, P, I, v)) => Each(C, Replies(O, P, I, v))
  BY <1>0, EachMore
<1> HIDE DEF C, f
<1>5. \A g : Says(C, Answering, g) => Says(B, Answering, g) \/ f = g
  BY <1>3, Zenon DEF f
<1>6. Once(B, Answering) => Once(C, Answering)
  BY <1>2, <1>3, Zenon DEF f
<1>7. Backward(S, C, O, P, I, v)
  BY <1>1, <1>2, <1>4, <1>5, <1>6 DEF Backward
<1>8. BothOK(S, R, F, C, lk)
  <2> SUFFICES ASSUME ~Ended(R) PROVE Turned(S, R, F, C) /\ (lk => Pace(S, R, F))
    BY DEF BothOK
  <2>1. Turned(S, R, F, B) /\ (lk => Pace(S, R, F))
    BY DEF Flow, BothOK
  <2>2. ASSUME NEW g \in Files, Says(F, Asking, g) PROVE Unanswered(S, C, g)
    <3>1. g # f /\ Unanswered(S, B, g)
      BY <2>1, <2>2 DEF f, Turned
    <3> QED BY <1>5, <3>1 DEF Unanswered
  <2> QED BY <2>1, <2>2 DEF Turned
<1> QED BY <1>1, <1>7, <1>8 DEF Flow, OutOK, C

(* The receiver opens the file that the next frame announces. *)
LEMMA FlowOpen ==
    ASSUME NEW S, NEW R, NEW F \in Seq(Frames), NEW B \in Seq(Frames), NEW O, NEW P, NEW I,
           NEW v, NEW crc, NEW lk, Flow(S, R, F, B, O, P, I, v, crc, lk), ~Ended(R),
           F # <<>>, Head(F).cmd = "FILE", Head(F).file \in Files,
           NEW R1, R1.rx = "ReceD", R1.rname = Head(F).file, R1.rfp = Head(F).file,
           R1.rver = Head(F).ver, R1.rpos = Head(F).n,
           Head(F).n = Len(P[Head(F).file]), R1.rbytes = Len(P[Head(F).file]),
           Size[Head(F).file] \in Nat, Size[Head(F).file] # 0, Len(P[Head(F).file]) \in Nat
    PROVE  Flow(S, R1, Tail(F), B, O, P, I, v, crc, lk)
<1> DEFINE m == Head(F)
           f == m.file
           G == Tail(F)
<1>1. Each(F, Carriers(O, P, v)) /\ Linked(F) /\ Once(F, Asking)
  BY DEF Flow, InOK, Forward
<1>2. Each(G, Carriers(O, P, v)) /\ m \in Carriers(O, P, v)
  BY <1>1, EachTail
<1>3. f \in O /\ m.ver = v[f]
  BY <1>2 DEF Carriers
<1>4. Linked(G)
  BY <1>1, LinkedTail
<1>5. Begins(G, f, m.n)
  BY <1>1, BeginsLinked DEF Carrier
<1>6. /\ \A g : Says(G, Asking, g) => Says(F, Asking, g)
      /\ Once(G, Asking)
      /\ Says(F, Asking, f) /\ ~Says(G, Asking, f)
  BY <1>1, SaysTail DEF Asking
<1>7. \A g, n : Ends(F, g, n) => Ends(G, g, n) /\ (Quiet(G) => f = g /\ m.n = n)
  BY EndsTail DEF Carrier
<1>8. Len(P[f]) < Size[f]
  BY DEF Flow, Stored
<1>9. Receiving(R1, O, P, v)
  <2>1. R1.rbytes # 0 => Size[f] > 1
    BY <1>8
  <2> QED BY <1>3, <1>8, <2>1 DEF Receiving
<1> HIDE DEF G, f, m
<1>10. R1.rname = f /\ R1.rpos = m.n
  BY DEF f, m
<1>11. Forward(R1, G, O, P, v)
  BY <1>2, <1>4, <1>5, <1>6, <1>10 DEF Forward
<1>12. BothOK(S, R1, G, B, lk)
  <2> SUFFICES ASSUME ~Ended(S) PROVE Turned(S, R1, G, B) /\ (lk => Pace(S, R1, G))
    BY DEF BothOK
  <2>1. Turned(S, R, F, B) /\ (lk => Pace(S, R, F))
    BY DEF Flow, BothOK
  <2>2. Turned(S, R1, G, B)
    BY <1>6, <1>10, <2>1 DEF Turned
  <2>3. lk => Pace(S, R1, G)
    BY <1>7, <1>10, <2>1 DEF Pace
  <2> QED BY <2>2, <2>3
<1> QED BY <1>9, <1>11, <1>12 DEF Flow, InOK, G

(* The block that a receiver takes is the next one of its file. *)
LEMMA NextBlock ==
    ASSUME NEW R, NEW F \in Seq(Frames), NEW O, NEW P, NEW v, ~Ended(R), R.rx = "ReceD",
           InOK(R, F, O, P, v), F # <<>>, Head(F).cmd = "DATA"
    PROVE  /\ Head(F).file = R.rname /\ Head(F).n = R.rpos + 1 /\ Head(F).ver = v[R.rname]
           /\ R.rfp = R.rname /\ R.rname \in O /\ R.rver = v[R.rname]
           /\ R.rpos = Len(P[R.rname]) /\ R.rpos < Size[R.rname]
<1>1. Receiving(R, O, P, v) /\ Forward(R, F, O, P, v)
  BY DEF InOK
<1>2. Head(F) = F[1] /\ 1 \in 1..Len(F) /\ Len(F) \in Nat
  BY TailFrames
<1>3. Head(F).file = R.rname /\ Head(F).n = R.rpos + 1
  BY <1>1, <1>2 DEF Forward, Begins
<1>4. Head(F) \in Carriers(O, P, v)
  BY <1>1, EachTail DEF Forward
<1>5. Head(F).ver = v[Head(F).file]
  BY <1>4 DEF Carriers
<1> QED BY <1>1, <1>3, <1>5 DEF Receiving

(* What R has of f changes while nothing that is on its way speaks of it. *)
LEMMA InStore ==
    ASSUME NEW F \in Seq(Frames), NEW O, NEW P, NEW v, NEW f, ~Says(F, Asking, f),
           Each(F, Carriers(O, P, v)), NEW P1, \A g \in Files : g # f => P1[g] = P[g]
    PROVE  Each(F, Carriers(O, P1, v))
<1> SUFFICES ASSUME NEW i \in 1..Len(F) PROVE F[i] \in Carriers(O, P1, v)
  BY DEF Each
<1> DEFINE m == F[i]
<1>1. m \in Carriers(O, P, v)
  BY DEF Each
<1>2. m \in Frames /\ (m.cmd = "FILE" => m.file # f /\ m.file \in Files)
  <2>1. m \in Frames
    BY <1>1 DEF Carriers
  <2>2. m.cmd = "FILE" => m.file # f
    BY DEF Says, Asking
  <2> QED BY <2>1, <2>2, FrameFields DEF AboutFile
<1> HIDE DEF m
<1>3. m \in Carriers(O, P1, v)
  BY <1>1, <1>2 DEF Carriers
<1> QED BY <1>3 DEF m

LEMMA RepliesStore ==
    ASSUME NEW B, NEW O, NEW P, NEW I, NEW v, NEW f, ~Says(B, Answering, f),
           Each(B, Replies(O, P, I, v)), NEW P1, NEW I1,
           \A g \in Files : g # f => P1[g] = P[g] /\ I1[g] = I[g]
    PROVE  Each(B, Replies(O, P1, I1, v))
<1> SUFFICES ASSUME NEW i \in 1..Len(B) PROVE B[i] \in Replies(O, P1, I1, v)
  BY DEF Each
<1> DEFINE m == B[i]
<1>1. m \in Replies(O, P, I, v)
  BY DEF Each
<1>2. m \in Frames /\ (Answer(m) => m.file # f /\ m.file \in Files)
  <2>1. m \in Frames
    BY <1>1 DEF Replies
  <2>2. Answer(m) => m.file # f
    BY DEF Says, Answering, Answer
  <2> QED BY <2>1, <2>2, FrameFields DEF AboutFile, Answer
<1> HIDE DEF m
<1>3. m \in Replies(O, P1, I1, v)
  BY <1>1, <1>2 DEF Replies
<1> QED BY <1>3 DEF m

(* Only file f is touched. *)
Elsewhere(f, P, I, P1, I1) == \A g \in Files : g # f => P1[g] = P[g] /\ I1[g] = I[g]

LEMMA OutStore ==
    ASSUME NEW S, NEW B, NEW O, NEW P, NEW I, NEW v, NEW f, OutOK(S, B, O, P, I, v),
           ~Ended(S) => Unanswered(S, B, f), NEW P1, NEW I1,
           Elsewhere(f, P, I, P1, I1)
    PROVE  OutOK(S, B, O, P1, I1, v)
<1> SUFFICES ASSUME ~Ended(S) PROVE Sending(S, O, P1) /\ Backward(S, B, O, P1, I1, v)
  BY DEF OutOK
<1>1. Sending(S, O, P) /\ Backward(S, B, O, P, I, v)
  BY DEF OutOK
<1>2. Waits(S, f) /\ ~Says(B, Answering, f) /\ ~Says(S.queue, Answering, f)
  BY DEF Unanswered
<1>3. Sending(S, O, P1)
  BY <1>1, <1>2 DEF Sending, Waits, Elsewhere
<1>4. Each(B, Replies(O, P1, I1, v))
  BY <1>1, <1>2, RepliesStore DEF Backward, Elsewhere
<1>5. Each(S.queue, Replies(O, P1, I1, v))
  BY <1>1, <1>2, RepliesStore DEF Backward, Elsewhere
<1> QED BY <1>1, <1>3, <1>4, <1>5 DEF Backward


(* A block that is not the last is appended to the file. *)
LEMMA FlowWrite ==
    ASSUME NEW S, NEW R, NEW F \in Seq(Frames), NEW B \in Seq(Frames), NEW O,
           NEW P \in [Files -> Seq(Blocks)], NEW I, NEW v, NEW crc, NEW lk,
           Flow(S, R, F, B, O, P, I, v, crc, lk), ~Ended(R),
           R.rx = "ReceD", R.rname \in Files, R.rpos \in Nat, Size[R.rname] \in Nat,
           F # <<>>, Head(F).cmd = "DATA", R.rpos + 1 # Size[R.rname], NEW P1,
           P1 = [P EXCEPT ![R.rname] = Append(@, <<R.rname, v[R.rname], R.rpos + 1>>)],
           <<R.rname, v[R.rname], R.rpos + 1>> \in Blocks,
           NEW R1, R1.rx = "ReceD", R1.rname = R.rname, R1.rfp = R.rfp, R1.rver = R.rver,
           R1.rpos = R.rpos + 1, R1.rbytes = R.rbytes
    PROVE  Flow(S, R1, Tail(F), B, O, P1, I, v, crc, lk)
<1> DEFINE m == Head(F)
           f == R.rname
           G == Tail(F)
           x == <<f, v[f], R.rpos + 1>>
<1>1. Receiving(R, O, P, v) /\ Forward(R, F, O, P, v) /\ InOK(R, F, O, P, v)
  BY DEF Flow, InOK
<1>2. /\ m.file = f /\ m.n = R.rpos + 1 /\ R.rfp = f /\ f \in O /\ R.rver = v[f]
      /\ R.rpos = Len(P[f]) /\ R.rpos < Size[f]
  BY <1>1, NextBlock
<1>3. /\ \A g \in Files : g # f => P1[g] = P[g]
      /\ Len(P1[f]) = Len(P[f]) + 1 /\ \A i \in 1..Len(P[f]) : P1[f][i] = P[f][i]
      /\ P1[f][Len(P[f]) + 1] = x
  OBVIOUS
<1>4. /\ Each(F, Carriers(O, P, v)) /\ Linked(F) /\ Once(F, Asking)
      /\ ~Says(F, Asking, f)
  BY <1>1 DEF Forward
<1>5. Each(F, Carriers(O, P1, v))
  BY <1>3, <1>4, InStore
<1>6. Each(G, Carriers(O, P1, v)) /\ Linked(G)
  BY <1>4, <1>5, EachTail, LinkedTail
<1>7. Begins(G, f, R.rpos + 1)
  BY <1>2, <1>4, BeginsLinked DEF Carrier
<1>8. Once(G, Asking) /\ \A g : Says(G, Asking, g) => Says(F, Asking, g)
  BY <1>4, SaysTail
<1>9. \A g, n : Ends(F, g, n) => Ends(G, g, n) /\ (Quiet(G) => f = g /\ R.rpos + 1 = n)
  BY <1>2, EndsTail DEF Carrier
<1>10. Stored(P1, I, v, crc)
  <2>1. Stored(P, I, v, crc)
    BY DEF Flow
  <2>2. ASSUME NEW g \in Files PROVE Len(P1[g]) < Size[g] \/ Len(P1[g]) = 0
    <3>1. CASE g = f
      BY <1>2, <1>3, <3>1
    <3>2. CASE g # f
      BY <1>3, <2>1, <3>2 DEF Stored
    <3> QED BY <3>1, <3>2
  <2>3. ASSUME ~crc, NEW g \in Files
        PROVE  v[g] = 1 /\ \A i \in 1..Len(P1[g]) : P1[g][i] = <<g, 1, i>>
    <3>1. v[g] = 1 /\ \A i \in 1..Len(P[g]) : P[g][i] = <<g, 1, i>>
      BY <2>1, <2>3 DEF Stored
    <3>2. CASE g # f
      BY <1>3, <3>1, <3>2
    <3>3. CASE g = f
      <4>1. ASSUME NEW i \in 1..Len(P[f]) + 1 PROVE P1[f][i] = <<f, 1, i>>
        <5>1. CASE i \in 1..Len(P[f])
          BY <1>3, <3>1, <3>3, <5>1
        <5>2. CASE i = Len(P[f]) + 1
          BY <1>2, <1>3, <3>1, <3>3, <5>2
        <5> QED BY <1>2, <5>1, <5>2
      <4> QED BY <1>3, <3>1, <3>3, <4>1
    <3> QED BY <3>2, <3>3
  <2> QED BY <2>1, <2>2, <2>3 DEF Stored
<1> HIDE DEF G, m
<1>11. Receiving(R1, O, P1, v)
  BY <1>1, <1>2, <1>3 DEF Receiving
<1>12. Forward(R1, G, O, P1, v)
  BY <1>4, <1>6, <1>7, <1>8 DEF Forward
<1>13. ASSUME ~Ended(S) PROVE Turned(S, R, F, B) /\ Unanswered(S, B, f)
  BY <1>13 DEF Flow, BothOK, Turned
<1>14. OutOK(S, B, O, P1, I, v)
  <2>1. OutOK(S, B, O, P, I, v)
    BY DEF Flow
  <2>2. Elsewhere(f, P, I, P1, I)
    BY <1>3 DEF Elsewhere
  <2>3. ~Ended(S) => Unanswered(S, B, f)
    BY <1>13
  <2> HIDE DEF f
  <2> QED BY <2>1, <2>2, <2>3, OutStore, Zenon
<1>15. BothOK(S, R1, G, B, lk)
  <2> SUFFICES ASSUME ~Ended(S) PROVE Turned(S, R1, G, B) /\ (lk => Pace(S, R1, G))
    BY DEF BothOK
  <2>1. Turned(S, R1, G, B)
    BY <1>8, <1>13 DEF Turned
  <2>2. lk => Pace(S, R, F)
    BY DEF Flow, BothOK
  <2>3. lk => Pace(S, R1, G)
    BY <1>9, <2>2 DEF Pace
  <2> QED BY <2>1, <2>3
<1> QED BY <1>10, <1>11, <1>12, <1>14, <1>15 DEF Flow, InOK, G

(* The last block: the file leaves tmp/, for the inbound or for good. *)
LEMMA FlowFinish ==
    ASSUME NEW S, NEW R, NEW F \in Seq(Frames), NEW B \in Seq(Frames), NEW O,
           NEW P \in [Files -> Seq(Blocks)], NEW I, NEW v, NEW crc, NEW lk,
           Flow(S, R, F, B, O, P, I, v, crc, lk), ~Ended(R),
           R.rx = "ReceD", R.rname \in Files, Size[R.rname] \in Nat, R.rpos \in Nat,
           F # <<>>, Head(F).cmd = "DATA", NEW P1, P1 = [P EXCEPT ![R.rname] = <<>>],
           NEW I1, \A g \in Files : g # R.rname => I1[g] = I[g],
           NEW R1, R1.rx # "ReceD", R1.rfp \notin Files
    PROVE  /\ Flow(S, R1, Tail(F), B, O, P1, I1, v, crc, lk)
           /\ ~Says(Tail(F), Asking, R.rname)
           /\ ~Ended(S) => Unanswered(S, B, R.rname)
<1> DEFINE f == R.rname
           G == Tail(F)
<1>1. Receiving(R, O, P, v) /\ Forward(R, F, O, P, v)
  BY DEF Flow, InOK
<1>2. R.rpos < Size[f]
  BY <1>1 DEF Receiving
<1>3. /\ \A g \in Files : g # f => P1[g] = P[g]
      /\ P1[f] = <<>> /\ Len(P1[f]) = 0
  OBVIOUS
<1>4. /\ Each(F, Carriers(O, P, v)) /\ Linked(F) /\ Once(F, Asking)
      /\ ~Says(F, Asking, f)
  BY <1>1 DEF Forward
<1>5. Each(F, Carriers(O, P1, v))
  BY <1>3, <1>4, InStore
<1>6. Each(G, Carriers(O, P1, v)) /\ Linked(G)
  BY <1>4, <1>5, EachTail, LinkedTail
<1>7. Once(G, Asking) /\ \A g : Says(G, Asking, g) => Says(F, Asking, g)
  BY <1>4, SaysTail
<1>8. \A g, n : Ends(F, g, n) => Ends(G, g, n)
  BY EndsTail
<1>9. Stored(P1, I1, v, crc)
  <2>1. Stored(P, I, v, crc)
    BY DEF Flow
  <2>2. Size[f] # 0
    BY <1>2
  <2>3. ASSUME NEW g \in Files PROVE Len(P1[g]) < Size[g] \/ Len(P1[g]) = 0
    BY <1>3, <2>1 DEF Stored
  <2>4. ASSUME ~crc, NEW g \in Files
        PROVE  v[g] = 1 /\ \A i \in 1..Len(P1[g]) : P1[g][i] = <<g, 1, i>>
    BY <1>3, <2>1, <2>4 DEF Stored
  <2>5. ASSUME NEW g \in Files, Size[g] = 0 PROVE I1[g] = <<>>
    BY <2>1, <2>2, <2>5 DEF Stored
  <2> QED BY <2>3, <2>4, <2>5 DEF Stored
<1> HIDE DEF G
<1>10. Receiving(R1, O, P1, v) /\ Forward(R1, G, O, P1, v)
  BY <1>6, <1>7 DEF Receiving, Forward
<1>11. ASSUME ~Ended(S) PROVE Turned(S, R, F, B) /\ Unanswered(S, B, f)
  BY <1>11 DEF Flow, BothOK, Turned
<1>12. OutOK(S, B, O, P1, I1, v)
  <2>1. OutOK(S, B, O, P, I, v)
    BY DEF Flow
  <2>2. Elsewhere(f, P, I, P1, I1)
    BY <1>3 DEF Elsewhere
  <2>3. ~Ended(S) => Unanswered(S, B, f)
    BY <1>11
  <2> HIDE DEF f
  <2> QED BY <2>1, <2>2, <2>3, OutStore, Zenon
<1>13. BothOK(S, R1, G, B, lk)
  <2> SUFFICES ASSUME ~Ended(S) PROVE Turned(S, R1, G, B) /\ (lk => Pace(S, R1, G))
    BY DEF BothOK
  <2>1. Turned(S, R1, G, B)
    BY <1>7, <1>11 DEF Turned
  <2>2. lk => Pace(S, R, F)
    BY DEF Flow, BothOK
  <2> QED BY <1>8, <2>1, <2>2 DEF Pace
<1> QED BY <1>4, <1>7, <1>9, <1>10, <1>11, <1>12, <1>13 DEF Flow, InOK, G

(* With the last block the file is complete: by its checksum, or because nothing but the *)
(* first blocks of its only version was kept.                                            *)
LEMMA WholeFile ==
    ASSUME NEW p \in Seq(Blocks), NEW f, Size[f] \in Nat, Len(p) + 1 = Size[f],
           NEW n, \A i \in 1..Len(p) : p[i] = <<f, n, i>>,
           NEW x \in Blocks, x = <<f, n, Size[f]>>
    PROVE  Append(p, x) = Content(f, n)
<1> DEFINE a == Append(p, x)
           b == Content(f, n)
<1>2. /\ a \in Seq(Blocks) /\ Len(a) = Size[f] /\ a[Size[f]] = x
      /\ \A i \in 1..Len(p) : a[i] = p[i]
  OBVIOUS
<1>3. b = [i \in 1..Size[f] |-> <<f, n, i>>]
  BY DEF Content
<1> HIDE DEF a
<1>4. ASSUME NEW i \in 1..Size[f] PROVE a[i] = <<f, n, i>>
  <2>1. CASE i = Size[f]
    BY <1>2, <2>1
  <2>2. CASE i # Size[f]
    <3>1. i \in 1..Len(p)
      BY <2>2
    <3> QED BY <1>2, <3>1
  <2> QED BY <2>1, <2>2
<1>5. a = [i \in 1..Size[f] |-> a[i]]
  <2>1. DOMAIN a = 1..Size[f]
    BY <1>2
  <2>2. a = [i \in DOMAIN a |-> a[i]]
    BY <1>2
  <2> QED BY <2>1, <2>2
<1> QED BY <1>3, <1>4, <1>5 DEF a

LEMMA EmptyContent ==
    ASSUME NEW f, NEW n, Size[f] = 0
    PROVE  Content(f, n) = <<>>
<1>1. Content(f, n) = [i \in 1..0 |-> <<f, n, i>>]
  BY DEF Content
<1> QED BY <1>1

-----------------------------------------------------------------------------
(* Both directions at a side s that has become q: a holds the frames from s, b those to  *)
(* s, and P and I are what s has received.                                               *)

Out(s) == ToSet(work.out[s])

Duplex(s, q, a, b, P, I) ==
    /\ Flow(q, st[Other(s)], a, b, Out(s), part[Other(s)], inbound[Other(s)], ver,
            work.crc, link)
    /\ Flow(st[Other(s)], q, b, a, Out(Other(s)), P, I, ver, work.crc, link)

FlowOf(s) == Flow(st[s], st[Other(s)], chan[s], chan[Other(s)], Out(s), part[Other(s)],
                  inbound[Other(s)], ver, work.crc, link)

(* The frames that s sends reach its channel only while somebody reads them. *)
Sends(s, a, frames) == IF link /\ ~Over(Other(s)) THEN a \o frames ELSE a

LEMMA DuplexView ==
    ASSUME NEW s, NEW q, NEW a, NEW b, NEW P, NEW I, Duplex(s, q, a, b, P, I), NEW q1,
           Ended(q1) \/ (~Ended(q) /\ TxView(q1) = TxView(q) /\ RxView(q1) = RxView(q))
    PROVE  Duplex(s, q1, a, b, P, I)
<1> DEFINE o == Other(s)
<1>1. /\ Flow(q, st[o], a, b, Out(s), part[o], inbound[o], ver, work.crc, link)
      /\ Flow(st[o], q, b, a, Out(o), P, I, ver, work.crc, link)
  BY DEF Duplex
<1>2. Ended(st[o]) \/ (~Ended(st[o]) /\ TxView(st[o]) = TxView(st[o])
                       /\ RxView(st[o]) = RxView(st[o]))
  OBVIOUS
<1>3. Flow(q1, st[o], a, b, Out(s), part[o], inbound[o], ver, work.crc, link)
  BY <1>1, <1>2, FlowViews, Zenon
<1>4. Flow(st[o], q1, b, a, Out(o), P, I, ver, work.crc, link)
  BY <1>1, <1>2, FlowViews, Zenon
<1> QED BY <1>3, <1>4 DEF Duplex

LEMMA DuplexSay ==
    ASSUME NEW s, NEW q, NEW a \in Seq(Frames), NEW b \in Seq(Frames), NEW P, NEW I,
           Duplex(s, q, a, b, P, I), NEW m \in Frames, ~Carrier(m), ~Answer(m)
    PROVE  Duplex(s, q, a \o <<m>>, b, P, I)
<1> DEFINE o == Other(s)
<1>1. /\ Flow(q, st[o], a, b, Out(s), part[o], inbound[o], ver, work.crc, link)
      /\ Flow(st[o], q, b, a, Out(o), P, I, ver, work.crc, link)
  BY DEF Duplex
<1>3. Flow(q, st[o], a \o <<m>>, b, Out(s), part[o], inbound[o], ver, work.crc, link)
  BY <1>1, FlowFore, Zenon
<1>4. Flow(st[o], q, b, a \o <<m>>, Out(o), P, I, ver, work.crc, link)
  BY <1>1, FlowBack, Zenon
<1> QED BY <1>3, <1>4 DEF Duplex

LEMMA DuplexTake ==
    ASSUME NEW s, NEW q, NEW a \in Seq(Frames), NEW b \in Seq(Frames), NEW P, NEW I,
           Duplex(s, q, a, b, P, I), b # <<>>, ~Carrier(Head(b)) \/ q.rx # "ReceD"
    PROVE  Duplex(s, q, a, Tail(b), P, I)
<1> DEFINE o == Other(s)
<1>1. /\ Flow(q, st[o], a, b, Out(s), part[o], inbound[o], ver, work.crc, link)
      /\ Flow(st[o], q, b, a, Out(o), P, I, ver, work.crc, link)
  BY DEF Duplex
<1>3. Flow(q, st[o], a, Tail(b), Out(s), part[o], inbound[o], ver, work.crc, link)
  BY <1>1, FlowTakeB, Zenon
<1>4. Flow(st[o], q, Tail(b), a, Out(o), P, I, ver, work.crc, link)
  BY <1>1, FlowTakeF, Zenon
<1> QED BY <1>3, <1>4 DEF Duplex

(* A side that ends takes a frame in any state. *)
LEMMA DuplexOver ==
    ASSUME NEW s, NEW q, NEW a \in Seq(Frames), NEW b \in Seq(Frames), NEW P, NEW I,
           Duplex(s, q, a, b, P, I), b # <<>>, NEW q1, Ended(q1)
    PROVE  Duplex(s, q1, a, Tail(b), P, I)
<1> DEFINE z == [ft |-> "bad", rx |-> "Done"]
<1>1. Ended(z) /\ z.rx # "ReceD"
  BY DEF Ended
<1> HIDE DEF z
<1>2. Duplex(s, z, a, b, P, I)
  BY <1>1, DuplexView, Zenon
<1>3. Duplex(s, z, a, Tail(b), P, I)
  BY <1>1, <1>2, DuplexTake, Zenon
<1> QED BY <1>3, DuplexView, Zenon

LEMMA SendsPlain ==
    ASSUME NEW s, NEW q, NEW a \in Seq(Frames), NEW b \in Seq(Frames), NEW P, NEW I,
           Duplex(s, q, a, b, P, I), NEW m \in Frames, ~Carrier(m), ~Answer(m)
    PROVE  Duplex(s, q, Sends(s, a, <<m>>), b, P, I)
BY DuplexSay, Zenon DEF Sends

LEMMA SendsNothing ==
    ASSUME NEW s, NEW a \in Seq(Frames)
    PROVE  Sends(s, a, <<>>) = a
BY DEF Sends

LEMMA SendsTwo ==
    ASSUME NEW s, NEW a \in Seq(Frames), NEW m \in Frames, NEW n \in Frames
    PROVE  Sends(s, a, <<m, n>>) = Sends(s, Sends(s, a, <<m>>), <<n>>)
<1>0. <<m>> \in Seq(Frames) /\ <<n>> \in Seq(Frames)
  OBVIOUS
<1>1. a \o <<m, n>> = (a \o <<m>>) \o <<n>>
  <2> DEFINE x == <<m>>
             y == <<n>>
  <2>0. x \in Seq(Frames) /\ y \in Seq(Frames)
    BY <1>0
  <2> HIDE DEF x, y
  <2>3. (a \o x) \o y = a \o (x \o y)
    BY <2>0, ConcatAssociative
  <2>1. (a \o <<m>>) \o <<n>> = a \o (<<m>> \o <<n>>)
    BY <2>3 DEF x, y
  <2>2. <<m>> \o <<n>> = <<m, n>>
    BY TwoFrames, Zenon
  <2> QED BY <2>1, <2>2, Zenon
<1> QED BY <1>1 DEF Sends

LEMMA SendsType ==
    ASSUME NEW s, NEW a \in Seq(Frames), NEW frames, Short(frames)
    PROVE  Sends(s, a, frames) \in Seq(Frames)
<1>1. frames \in Seq(Frames)
  BY ShortType
<1> QED BY <1>1 DEF Sends

LEMMA CarrySends ==
    ASSUME NEW s \in Sides, NEW c \in Channels, NEW frames
    PROVE  /\ Carry(s, frames, c)[s] = Sends(s, c[s], frames)
           /\ Carry(s, frames, c)[Other(s)] = c[Other(s)]
BY OtherSide DEF Carry, Sends, Channels

(* A step of side s, in terms of both directions. *)
LEMMA FlowsMoved ==
    ASSUME TypeOK, NEW s \in Sides, NEW q, st' = [st EXCEPT ![s] = q],
           Duplex(s, q, chan'[s], chan'[Other(s)], part'[s], inbound'[s]),
           part'[Other(s)] = part[Other(s)], inbound'[Other(s)] = inbound[Other(s)],
           work' = work, link' = link, ver' = ver
    PROVE  \A d \in Sides : FlowOf(d)'
<1> DEFINE o == Other(s)
<1>1. o \in Sides /\ o # s /\ Other(o) = s /\ \A d \in Sides : d = s \/ d = o
  BY DEF Other, Sides
<1>2. st'[s] = q /\ st'[o] = st[o]
  BY <1>1 DEF TypeOK
<1>3. \A d : Out(d)' = Out(d)
  BY DEF Out
<1> HIDE DEF o
<1>4. FlowOf(s)'
  BY <1>1, <1>2, <1>3 DEF Duplex, FlowOf, o
<1>5. FlowOf(o)'
  BY <1>1, <1>2, <1>3 DEF Duplex, FlowOf, o
<1> QED BY <1>1, <1>4, <1>5

LEMMA FlowsDuplex ==
    ASSUME NEW s \in Sides, \A d \in Sides : FlowOf(d)
    PROVE  Duplex(s, st[s], chan[s], chan[Other(s)], part[s], inbound[s])
<1> DEFINE o == Other(s)
<1>1. o \in Sides /\ Other(o) = s
  BY OtherSide
<1>2. FlowOf(s) /\ FlowOf(o)
  BY <1>1
<1> HIDE DEF o
<1> QED BY <1>1, <1>2 DEF Duplex, FlowOf, o

-----------------------------------------------------------------------------
(* The receiver: what its returns do to both directions. *)

(* What a step of side s leaves alone, when it writes no file of the other side. *)
Aside(s) ==
    /\ part'[Other(s)] = part[Other(s)] /\ inbound'[Other(s)] = inbound[Other(s)]
    /\ work' = work /\ link' = link /\ ver' = ver

LEMMA TakenChannels ==
    ASSUME TypeOK, NEW s \in Sides, chan[Other(s)] # <<>>, NEW frames,
           chan' = Carry(s, frames, [chan EXCEPT ![Other(s)] = Tail(@)])
    PROVE  /\ chan'[s] = Sends(s, chan[s], frames)
           /\ chan'[Other(s)] = Tail(chan[Other(s)])
<1> DEFINE c == [chan EXCEPT ![Other(s)] = Tail(@)]
<1>1. c \in Channels
  BY TakenType, Zenon
<1>2. c[s] = chan[s] /\ c[Other(s)] = Tail(chan[Other(s)])
  BY OtherSide DEF TypeOK
<1> HIDE DEF c
<1>3. chan' = Carry(s, frames, c)
  BY DEF c
<1> QED BY <1>1, <1>2, <1>3, CarrySends

LEMMA RxOkFlows ==
    ASSUME TypeOK, NEW s \in Sides, chan[Other(s)] # <<>>, NEW r,
           SideOK(r, work.minor, Owes(s)), ~Ended(r), NEW frames, Short(frames),
           RxOk(s, r, frames), Aside(s),
           Duplex(s, r, Sends(s, chan[s], frames), Tail(chan[Other(s)]), part'[s], inbound'[s])
    PROVE  \A d \in Sides : FlowOf(d)'
<1> DEFINE q == Returned(r, frames)
           a == Sends(s, chan[s], frames)
           b == Tail(chan[Other(s)])
<1>1. ~Ended(q) /\ TxView(q) = TxView(r) /\ RxView(q) = RxView(r)
  BY RxOkSide, Zenon
<1>2. /\ st' = [st EXCEPT ![s] = q]
      /\ chan' = Carry(s, frames, [chan EXCEPT ![Other(s)] = Tail(@)])
  BY DEF RxOk, Returned
<1>3. chan'[s] = a /\ chan'[Other(s)] = b
  BY <1>2, TakenChannels, Zenon
<1> HIDE DEF q, a, b
<1>4. Duplex(s, r, a, b, part'[s], inbound'[s])
  BY DEF a, b
<1>5. Duplex(s, q, a, b, part'[s], inbound'[s])
  BY <1>1, <1>4, DuplexView, Zenon
<1>6. Duplex(s, q, chan'[s], chan'[Other(s)], part'[s], inbound'[s])
  BY <1>3, <1>5
<1> QED BY <1>2, <1>6, FlowsMoved, Zenon DEF Aside

LEMMA EndedFlows ==
    ASSUME TypeOK, NEW s \in Sides, chan[Other(s)] # <<>>, NEW q, Ended(q),
           NEW frames, frames = <<>> \/ \E m \in Frames : frames = <<m>> /\ ~Carrier(m) /\ ~Answer(m),
           st' = [st EXCEPT ![s] = q],
           chan' = Carry(s, frames, [chan EXCEPT ![Other(s)] = Tail(@)]), Aside(s),
           NEW r, Duplex(s, r, chan[s], Tail(chan[Other(s)]), part'[s], inbound'[s])
    PROVE  \A d \in Sides : FlowOf(d)'
<1> DEFINE a == chan[s]
           b == Tail(chan[Other(s)])
           P == part'[s]
           I == inbound'[s]
<1>1. a \in Seq(Frames) /\ b \in Seq(Frames)
  BY OtherSide DEF TypeOK
<1>2. chan'[s] = Sends(s, a, frames) /\ chan'[Other(s)] = b
  BY TakenChannels, Zenon
<1>3. Duplex(s, q, a, b, P, I)
  BY DuplexView, Zenon
<1> HIDE DEF a, b, P, I
<1>4. Duplex(s, q, Sends(s, a, frames), b, P, I)
  <2>1. CASE frames = <<>>
    BY <1>1, <1>3, <2>1, SendsNothing
  <2>2. CASE \E m \in Frames : frames = <<m>> /\ ~Carrier(m) /\ ~Answer(m)
    <3>1. PICK m \in Frames : frames = <<m>> /\ ~Carrier(m) /\ ~Answer(m)
      BY <2>2
    <3>2. Duplex(s, q, Sends(s, a, <<m>>), b, P, I)
      BY <1>1, <1>3, <3>1, SendsPlain, Zenon
    <3> QED BY <3>1, <3>2
  <2> QED BY <2>1, <2>2
<1>5. Duplex(s, q, chan'[s], chan'[Other(s)], P, I)
  BY <1>2, <1>4
<1> QED BY <1>5, FlowsMoved, Zenon DEF Aside, P, I

LEMMA RxFailureFlows ==
    ASSUME TypeOK, NEW s \in Sides, chan[Other(s)] # <<>>, NEW q, q \in Side,
           NEW frames, frames = <<>> \/ \E c \in {"ERR", "BSY"} : frames = <<Plain(c)>>,
           RxFailure(s, q, frames), Aside(s),
           NEW r, Duplex(s, r, chan[s], Tail(chan[Other(s)]), part'[s], inbound'[s])
    PROVE  \A d \in Sides : FlowOf(d)'
<1> DEFINE z == SentAll(q, frames)
           y == [z EXCEPT !.rx = "Done"]
           x == Failed(y)
<1>1. \/ frames = <<>> /\ z = q
      \/ \E m \in Frames : frames = <<m>> /\ ~Carrier(m) /\ ~Answer(m) /\ z = Sent(q, m)
  BY PlainFrame, SentNone, SentOne DEF Carrier, Answer
<1>2. z \in Side
  BY <1>1, SentFacts DEF Alike
<1>3. st' = [st EXCEPT ![s] = x]
      /\ chan' = Carry(s, frames, [chan EXCEPT ![Other(s)] = Tail(@)])
  BY DEF RxFailure
<1> HIDE DEF z
<1>4. "Done" \in RxStates
  BY DEF RxStates
<1>5. y \in Side
  BY <1>2, <1>4, RxTo, Zenon DEF Received
<1> HIDE DEF y
<1>6. Ended(x)
  BY <1>5, FailedFacts
<1> HIDE DEF x
<1>7. frames = <<>> \/ \E m \in Frames : frames = <<m>> /\ ~Carrier(m) /\ ~Answer(m)
  BY <1>1
<1> QED BY <1>3, <1>6, <1>7, EndedFlows, Zenon

(* r is side s with frame m counted, before it is dealt with. *)
Polling(s, r, m) ==
    /\ chan[Other(s)] # <<>> /\ m = Head(chan[Other(s)]) /\ m \in Frames
    /\ SideOK(r, work.minor, Owes(s)) /\ ~Ended(r)
    /\ Duplex(s, r, chan[s], chan[Other(s)], part[s], inbound[s])

LEMMA PollingTypes ==
    ASSUME TypeOK, NEW s \in Sides, NEW r, NEW m, Polling(s, r, m)
    PROVE  /\ chan[s] \in Seq(Frames) /\ chan[Other(s)] \in Seq(Frames)
           /\ Tail(chan[Other(s)]) \in Seq(Frames) /\ r \in Side /\ Open(r)
           /\ part[s] \in [Files -> Seq(Blocks)] /\ Out(Other(s)) \in SUBSET Files
           /\ Receiving(r, Out(Other(s)), part[s], ver)
           /\ Stored(part[s], inbound[s], ver, work.crc)
<1>1. chan[s] \in Seq(Frames) /\ chan[Other(s)] \in Seq(Frames) /\ chan[Other(s)] # <<>>
  BY OtherSide DEF TypeOK, Polling
<1>2. Tail(chan[Other(s)]) \in Seq(Frames)
  BY <1>1
<1>3. Receiving(r, Out(Other(s)), part[s], ver) /\ Stored(part[s], inbound[s], ver, work.crc)
  BY DEF Polling, Duplex, Flow, InOK
<1>4. Out(Other(s)) \in SUBSET Files
  BY OtherSide, OutFiles DEF Out, TypeOK
<1>5. r \in Side /\ Open(r) /\ part[s] \in [Files -> Seq(Blocks)]
  BY DEF TypeOK, Polling, SideOK
<1> QED BY <1>1, <1>2, <1>3, <1>4, <1>5

(* The receiver comes to rest. *)
LEMMA DuplexIdle ==
    ASSUME NEW s, NEW r, NEW a, NEW b, NEW P, NEW I, Duplex(s, r, a, b, P, I), ~Ended(r),
           NEW q, TxView(q) = TxView(r), q.rx # "ReceD",
           q.rbytes # 0 /\ q.rfp \in Files => q.rfp \in Out(Other(s)) /\ Size[q.rfp] > 1
    PROVE  Duplex(s, q, a, b, P, I)
<1> DEFINE o == Other(s)
<1>1. /\ Flow(r, st[o], a, b, Out(s), part[o], inbound[o], ver, work.crc, link)
      /\ Flow(st[o], r, b, a, Out(o), P, I, ver, work.crc, link)
  BY DEF Duplex
<1>2. Ended(st[o]) \/ (~Ended(st[o]) /\ RxView(st[o]) = RxView(st[o]))
  OBVIOUS
<1>3. Flow(q, st[o], a, b, Out(s), part[o], inbound[o], ver, work.crc, link)
  BY <1>1, <1>2, FlowViews, Zenon
<1>4. Flow(st[o], q, b, a, Out(o), P, I, ver, work.crc, link)
  BY <1>1, FlowIdle, Zenon
<1> QED BY <1>3, <1>4 DEF Duplex

LEMMA RxPlainFlows ==
    ASSUME TypeOK, NEW s \in Sides, NEW r, NEW m, Polling(s, r, m),
           ~Carrier(m) \/ r.rx # "ReceD", RxOk(s, r, <<>>), Aside(s),
           part'[s] = part[s], inbound'[s] = inbound[s]
    PROVE  \A d \in Sides : FlowOf(d)'
<1> DEFINE a == chan[s]
           b == chan[Other(s)]
<1>1. /\ a \in Seq(Frames) /\ b \in Seq(Frames) /\ b # <<>> /\ m = Head(b)
      /\ Duplex(s, r, a, b, part[s], inbound[s])
      /\ SideOK(r, work.minor, Owes(s)) /\ ~Ended(r)
  BY PollingTypes DEF Polling
<1>2. Duplex(s, r, a, Tail(b), part[s], inbound[s])
  BY <1>1, DuplexTake, Zenon
<1>3. Duplex(s, r, Sends(s, a, <<>>), Tail(b), part'[s], inbound'[s])
  BY <1>1, <1>2, SendsNothing
<1> QED BY <1>1, <1>3, NothingShort, RxOkFlows, Zenon

LEMMA RxFailingFlows ==
    ASSUME TypeOK, NEW s \in Sides, NEW r, NEW m, Polling(s, r, m), NEW q \in Side,
           NEW frames, frames = <<>> \/ \E c \in {"ERR", "BSY"} : frames = <<Plain(c)>>,
           RxFailure(s, q, frames), Aside(s), part'[s] = part[s], inbound'[s] = inbound[s]
    PROVE  \A d \in Sides : FlowOf(d)'
<1> DEFINE a == chan[s]
           b == chan[Other(s)]
           z == [ft |-> "bad"]
<1>1. /\ a \in Seq(Frames) /\ b \in Seq(Frames) /\ b # <<>>
      /\ Duplex(s, r, a, b, part[s], inbound[s])
  BY PollingTypes DEF Polling
<1>2. Ended(z)
  BY DEF Ended
<1> HIDE DEF z
<1>3. Duplex(s, z, a, Tail(b), part[s], inbound[s])
  BY <1>1, <1>2, DuplexOver, Zenon
<1>4. Duplex(s, z, a, Tail(b), part'[s], inbound'[s])
  BY <1>3
<1> QED BY <1>1, <1>4, RxFailureFlows, Zenon

LEMMA RxMessageFlows ==
    ASSUME TypeOK, NEW s \in Sides, NEW r, NEW m, Polling(s, r, m), RxMessage(s, r, m),
           Aside(s), part'[s] = part[s], inbound'[s] = inbound[s]
    PROVE  \A d \in Sides : FlowOf(d)'
<1> DEFINE q == [r EXCEPT !.queue = Append(@, m)]
           o == Other(s)
           a == chan[s]
           b == chan[o]
           P == part[s]
           I == inbound[s]
<1>0. r \in Side /\ Answer(m) /\ Open(r) /\ m \in Frames /\ ~Carrier(m)
  BY DEF SideOK, RxMessage, Answer, Polling, Carrier
<1>1. /\ q \in Side /\ q.tx = r.tx /\ q.cur = r.cur /\ q.fp = r.fp /\ q.pos = r.pos
      /\ q.list = r.list /\ q.off = r.off /\ q.ft = r.ft /\ q.queue = Append(r.queue, m)
      /\ RxView(q) = RxView(r) /\ CView(q) = CView(r)
  BY <1>0, QueuedFacts, Zenon
<1>2. RxOk(s, q, <<>>)
  BY DEF RxMessage
<1>3. /\ a \in Seq(Frames) /\ b \in Seq(Frames) /\ b # <<>> /\ m = Head(b)
      /\ Flow(r, st[o], a, b, Out(s), part[o], inbound[o], ver, work.crc, link)
      /\ Flow(st[o], r, b, a, Out(o), P, I, ver, work.crc, link)
      /\ SideOK(r, work.minor, Owes(s)) /\ ~Ended(r)
  BY PollingTypes DEF Polling, Duplex
<1> HIDE DEF q
<1>4. Open(q) /\ ~Ended(q)
  BY <1>0, <1>1, <1>3 DEF Open, RxView, Ended
<1>5. SideOK(q, work.minor, Owes(s))
  BY <1>1, <1>3, <1>4, TallySame
<1>6. q.queue = r.queue \o <<m>>
  BY <1>0, <1>1 DEF Side, Queue
<1>7. Flow(q, st[o], a, Tail(b), Out(s), part[o], inbound[o], ver, work.crc, link)
  BY <1>0, <1>1, <1>3, <1>6, FlowQueue
<1>8. Flow(st[o], r, Tail(b), a, Out(o), P, I, ver, work.crc, link)
  BY <1>0, <1>3, FlowTakeF, Zenon
<1>9. Ended(st[o]) \/ (~Ended(st[o]) /\ TxView(st[o]) = TxView(st[o]))
  OBVIOUS
<1>10. Flow(st[o], q, Tail(b), a, Out(o), P, I, ver, work.crc, link)
  BY <1>1, <1>3, <1>8, <1>9, FlowViews, Zenon
<1>11. Duplex(s, q, Sends(s, a, <<>>), Tail(b), part'[s], inbound'[s])
  BY <1>3, <1>7, <1>10, SendsNothing DEF Duplex
<1> QED BY <1>2, <1>3, <1>4, <1>5, <1>11, NothingShort, RxOkFlows, Zenon

LEMMA RxEOBFlows ==
    ASSUME TypeOK, NEW s \in Sides, NEW r, NEW m, Polling(s, r, m), RxEOB(s, r, m),
           Aside(s), part'[s] = part[s], inbound'[s] = inbound[s]
    PROVE  \A d \in Sides : FlowOf(d)'
<1> DEFINE o == Other(s)
           a == chan[s]
           b == chan[o]
           P == part[s]
           I == inbound[s]
<1>1. /\ a \in Seq(Frames) /\ b \in Seq(Frames) /\ b # <<>> /\ m = Head(b)
      /\ Duplex(s, r, a, b, P, I) /\ r \in Side /\ ~Carrier(m) /\ ~Ended(r)
      /\ SideOK(r, work.minor, Owes(s)) /\ Receiving(r, Out(o), P, ver)
  BY PollingTypes DEF Polling, RxEOB, Carrier
<1>2. r.rbytes # 0 /\ r.rfp \in Files => r.rfp \in Out(o) /\ Size[r.rfp] > 1
  BY <1>1 DEF Receiving
<1>3. ASSUME NEW q, SideOK(q, work.minor, Owes(s)), ~Ended(q), RxOk(s, q, <<>>),
             Duplex(s, q, a, b, P, I)
      PROVE  \A d \in Sides : FlowOf(d)'
  <2>1. Duplex(s, q, a, Tail(b), P, I)
    BY <1>1, <1>3, DuplexTake, Zenon
  <2>2. Duplex(s, q, Sends(s, a, <<>>), Tail(b), part'[s], inbound'[s])
    BY <1>1, <2>1, SendsNothing
  <2> QED BY <1>1, <1>3, <2>2, NothingShort, RxOkFlows, Zenon
<1>4. CASE RxFailure(s, r, <<>>)
  BY <1>1, <1>4, RxFailingFlows, Zenon
<1>5. CASE RxOk(s, [r EXCEPT !.rx = "EOB"], <<>>)
  <2> DEFINE q == [r EXCEPT !.rx = "EOB"]
  <2>1. "EOB" \in RxStates
    BY DEF RxStates
  <2>2. Received(r, q) /\ q.rx = "EOB" /\ q.rfp = r.rfp /\ q.rbytes = r.rbytes
    BY <1>1, <2>1, RxTo, Zenon
  <2>3. RxOk(s, q, <<>>)
    BY <1>5
  <2> HIDE DEF q
  <2>4. SideOK(q, work.minor, Owes(s)) /\ ~Ended(q)
    BY <1>1, <2>2, ReceivedSide
  <2>5. TxView(q) = TxView(r) /\ q.rx # "ReceD"
    BY <2>2 DEF Received
  <2>6. q.rbytes # 0 /\ q.rfp \in Files => q.rfp \in Out(o) /\ Size[q.rfp] > 1
    BY <1>2, <2>2
  <2>7. Duplex(s, q, a, b, P, I)
    BY <1>1, <2>5, <2>6, DuplexIdle, Zenon
  <2> QED BY <1>3, <2>3, <2>4, <2>7
<1>6. CASE RxOk(s, NewBatch(r), <<>>) /\ Pending(r) = {}
  <2> DEFINE q == NewBatch(r)
  <2>1. r.batchnr + 1 \in Nat
    BY <1>1 DEF Side
  <2>2. /\ SideOK(q, work.minor, Owes(s)) /\ ~Ended(q) /\ q.tx = "GNF" /\ q.rx = "WaitF"
        /\ q.list = NoList /\ q.queue = r.queue /\ q.rbytes = r.rbytes /\ q.rfp = r.rfp
    BY <1>1, <2>1, NewBatchFacts, Zenon
  <2>3. RxOk(s, q, <<>>)
    BY <1>6
  <2> HIDE DEF q
  <2>4. \A f \in Files : q.list[f] = "none" /\ ~Waits(r, f)
    BY <1>6, <2>2 DEF NoList, Pending, Waits
  <2>5. /\ Flow(r, st[o], a, b, Out(s), part[o], inbound[o], ver, work.crc, link)
        /\ Flow(st[o], r, b, a, Out(o), P, I, ver, work.crc, link)
    BY <1>1 DEF Duplex
  <2>6. q.tx # "TryR" /\ q.rx # "ReceD" /\ "none" # "NoState"
    BY <2>2
  <2>7. Flow(q, st[o], a, b, Out(s), part[o], inbound[o], ver, work.crc, link)
    BY <1>1, <2>2, <2>4, <2>5, <2>6, FlowRest
  <2>8. q.rbytes # 0 /\ q.rfp \in Files => q.rfp \in Out(o) /\ Size[q.rfp] > 1
    BY <1>2, <2>2
  <2>9. Flow(st[o], q, b, a, Out(o), P, I, ver, work.crc, link)
    BY <1>1, <2>5, <2>6, <2>8, FlowIdle, Zenon
  <2>10. Duplex(s, q, a, b, P, I)
    BY <2>7, <2>9 DEF Duplex
  <2> QED BY <1>3, <2>2, <2>3, <2>10
<1>7. CASE RxOk(s, r, <<>>)
  BY <1>1, <1>3, <1>7
<1> QED BY <1>4, <1>5, <1>6, <1>7 DEF RxEOB

(* An announcement is about a file of the other side, which waits for an answer. *)
Due(m, S, F, B, O, P, v) ==
    /\ m.file \in O /\ m.ver = v[m.file]
    /\ m.n # 0 => m.n = Len(P[m.file])
    /\ ~Says(Tail(F), Asking, m.file)
    /\ ~Ended(S) => Unanswered(S, B, m.file)

LEMMA HeadAsked ==
    ASSUME NEW S, NEW R, NEW F \in Seq(Frames), NEW B, NEW O, NEW P, NEW I, NEW v, NEW crc,
           NEW lk, Flow(S, R, F, B, O, P, I, v, crc, lk), ~Ended(R), F # <<>>,
           NEW m, m = Head(F), m.cmd = "FILE", m.file \in Files
    PROVE  Due(m, S, F, B, O, P, v)
<1> DEFINE f == m.file
<1>1. Forward(R, F, O, P, v) /\ (~Ended(S) => Turned(S, R, F, B))
  BY DEF Flow, InOK, BothOK
<1>2. Each(F, Carriers(O, P, v)) /\ Once(F, Asking)
  BY <1>1 DEF Forward
<1>3. m \in Carriers(O, P, v)
  BY <1>2, EachTail
<1>4. f \in O /\ m.ver = v[f] /\ (m.n # 0 => m.n = Len(P[f]))
  BY <1>3 DEF Carriers
<1>5. Says(F, Asking, f) /\ ~Says(Tail(F), Asking, f)
  <2>1. m.cmd \in Asking
    BY DEF Asking
  <2> QED BY <1>2, <2>1, SaysTail
<1>6. ASSUME ~Ended(S) PROVE Unanswered(S, B, f)
  BY <1>1, <1>5, <1>6 DEF Turned
<1> QED BY <1>4, <1>5, <1>6 DEF Due

LEMMA DuplexAnswer ==
    ASSUME NEW s \in Sides, NEW q, NEW a \in Seq(Frames), NEW b \in Seq(Frames), NEW P,
           NEW I, Duplex(s, q, a, b, P, I), q.rx # "ReceD",
           NEW m \in Replies(Out(Other(s)), P, I, ver), Answer(m),
           ~Ended(st[Other(s)]) => Unanswered(st[Other(s)], a, m.file),
           ~Says(b, Asking, m.file)
    PROVE  Duplex(s, q, Sends(s, a, <<m>>), b, P, I)
<1> DEFINE o == Other(s)
<1>1. /\ Flow(q, st[o], a, b, Out(s), part[o], inbound[o], ver, work.crc, link)
      /\ Flow(st[o], q, b, a, Out(o), P, I, ver, work.crc, link)
  BY DEF Duplex
<1>2. m \in Frames /\ ~Carrier(m)
  BY DEF Replies, Answer, Carrier
<1>3. Over(o) <=> Ended(st[o])
  BY DEF Over, Ended
<1>4. CASE Sends(s, a, <<m>>) = a
  BY <1>4
<1>5. CASE Sends(s, a, <<m>>) = a \o <<m>> /\ ~Ended(st[o])
  <2>1. Flow(q, st[o], a \o <<m>>, b, Out(s), part[o], inbound[o], ver, work.crc, link)
    BY <1>1, <1>2, FlowFore, Zenon
  <2>2. Flow(st[o], q, b, a \o <<m>>, Out(o), P, I, ver, work.crc, link)
    BY <1>1, <1>5, FlowAnswer, Zenon
  <2> QED BY <1>5, <2>1, <2>2 DEF Duplex
<1> QED BY <1>3, <1>4, <1>5 DEF Sends

(* The workloads for which delivery is proved.  A side has at most one file that is long *)
(* enough to be left in part: with two of them the handle that is open may be that of    *)
(* the other one (SameHandle).                                                           *)
Resumable(w) ==
    /\ "move" \notin w.faults
    /\ "change" \in w.faults => w.crc = TRUE
    /\ ToSet(w.out["org"]) \cap ToSet(w.out["ans"]) = {}
    /\ \A s \in Sides : \A f, g \in ToSet(w.out[s]) :
          Size[f] > 1 /\ Size[g] > 1 => f = g

(* The handle that the transfer goes on with is that of the file. *)
LEMMA OpenedRight ==
    ASSUME TypeOK, Resumable(work), NEW s \in Sides, NEW r, NEW m, Polling(s, r, m),
           m.cmd = "FILE", m.file \in Files, Size[m.file] # 0
    PROVE  LET q == Opened(s, Saved(r), m) IN
           q.rfp \in Files =>
              /\ q.rfp = m.file /\ q.rbytes = Len(part[s][m.file])
              /\ Len(part[s][m.file]) \in Nat /\ Size[m.file] \in Nat
              /\ Len(part[s][m.file]) < Size[m.file]
              /\ q.rbytes # 0 => Size[m.file] > 1
<1> DEFINE p == Saved(r)
           q == Opened(s, p, m)
           f == m.file
           n == Len(part[s][f])
           b == chan[Other(s)]
<1>1. /\ r \in Side /\ b \in Seq(Frames) /\ m \in Frames
      /\ part[s] \in [Files -> Seq(Blocks)] /\ Out(Other(s)) \in SUBSET Files
      /\ Receiving(r, Out(Other(s)), part[s], ver)
      /\ Stored(part[s], inbound[s], ver, work.crc)
  BY PollingTypes DEF Polling
<1>2. /\ p \in Side /\ p.rbytes = r.rbytes /\ p.rfp = IF r.rx = "ReceD" THEN None ELSE r.rfp
  BY <1>1, SavedFacts, Zenon DEF Received
<1>3. n \in Nat /\ Size[f] \in Nat /\ n < Size[f]
  BY <1>1, BinkpAssumption DEF Stored
<1> HIDE DEF p
<1>4. /\ q.rbytes = IF SameHandle(p, m) THEN p.rbytes ELSE n
      /\ q.rfp = IF SameHandle(p, m) THEN p.rfp ELSE f
  BY <1>1, <1>2, <1>3, OpenedFacts, Zenon
<1>5. /\ f \in Out(Other(s)) /\ (m.n # 0 => m.n = n)
  <2>1. /\ Flow(st[Other(s)], r, b, chan[s], Out(Other(s)), part[s], inbound[s], ver,
                work.crc, link)
        /\ b # <<>> /\ m = Head(b) /\ ~Ended(r)
    BY DEF Polling, Duplex
  <2>2. b \in Seq(Frames)
    BY <1>1
  <2> HIDE DEF b
  <2>3. Due(m, st[Other(s)], b, chan[s], Out(Other(s)), part[s], ver)
    BY <2>1, <2>2, HeadAsked, Zenon
  <2> QED BY <2>3 DEF Due
<1> HIDE DEF q
<1>6. ASSUME q.rfp \in Files
      PROVE  q.rfp = f /\ q.rbytes = n
  <2>1. CASE ~SameHandle(p, m)
    BY <1>4, <2>1
  <2>2. CASE SameHandle(p, m)
    <3>1. m.n # 0 /\ m.n = p.rbytes
      BY <2>2 DEF SameHandle
    <3>2. q.rbytes = n /\ q.rfp = p.rfp
      BY <1>4, <1>5, <2>2, <3>1
    <3>3. p.rfp = r.rfp
      BY <1>2, <1>6, <3>2, BinkpAssumption
    <3>4. r.rbytes # 0 /\ r.rfp \in Files
      BY <1>2, <1>6, <3>1, <3>2, <3>3
    <3>5. r.rfp \in Out(Other(s)) /\ Size[r.rfp] > 1
      BY <1>1, <3>4 DEF Receiving
    <3>6. Size[f] > 1
      BY <1>2, <1>3, <1>5, <3>1
    <3>7. r.rfp = f
      BY <1>5, <3>5, <3>6, OtherSide DEF Resumable, Out
    <3> QED BY <3>2, <3>3, <3>7
  <2> QED BY <2>1, <2>2
<1>7. ASSUME q.rfp \in Files, q.rbytes # 0 PROVE Size[f] > 1
  BY <1>3, <1>6, <1>7
<1> QED BY <1>3, <1>6, <1>7 DEF q, p

(* The receiver answers an announcement. *)
LEMMA AnswerFlows ==
    ASSUME TypeOK, NEW s \in Sides, NEW r, NEW m, Polling(s, r, m), m.cmd = "FILE",
           m.file \in Files, NEW q, Received(r, q), q.rx = "WaitF",
           q.rbytes # 0 /\ q.rfp \in Files => q.rfp \in Out(Other(s)) /\ Size[q.rfp] > 1,
           NEW n, n \in Frames, n.file = m.file, Answer(n),
           n.cmd = "GET" => n.n # 0 /\ n.n = Len(part[s][m.file]),
           n.cmd = "GOT" => inbound[s][m.file] = Content(m.file, ver[m.file]),
           RxOk(s, q, <<n>>), Aside(s), part'[s] = part[s], inbound'[s] = inbound[s]
    PROVE  \A d \in Sides : FlowOf(d)'
<1> DEFINE o == Other(s)
           a == chan[s]
           b == chan[o]
           P == part[s]
           I == inbound[s]
<1>1. /\ a \in Seq(Frames) /\ b \in Seq(Frames) /\ Tail(b) \in Seq(Frames) /\ b # <<>>
      /\ m = Head(b) /\ Duplex(s, r, a, b, P, I) /\ ~Ended(r)
      /\ SideOK(r, work.minor, Owes(s))
  BY PollingTypes DEF Polling
<1>2. /\ m.file \in Out(o) /\ ~Says(Tail(b), Asking, m.file)
      /\ ~Ended(st[o]) => Unanswered(st[o], a, m.file)
  <2>1. Flow(st[o], r, b, a, Out(o), P, I, ver, work.crc, link)
    BY <1>1 DEF Duplex
  <2>2. Due(m, st[o], b, a, Out(o), P, ver)
    BY <1>1, <2>1, HeadAsked, Zenon
  <2> QED BY <2>2 DEF Due
<1>3. SideOK(q, work.minor, Owes(s)) /\ ~Ended(q) /\ q.rx # "ReceD" /\ TxView(q) = TxView(r)
  BY <1>1, ReceivedSide DEF Received
<1>4. Duplex(s, q, a, b, P, I)
  BY <1>1, <1>3, DuplexIdle, Zenon
<1>5. Duplex(s, q, a, Tail(b), P, I)
  BY <1>1, <1>3, <1>4, DuplexTake, Zenon
<1>6. n \in Replies(Out(o), P, I, ver)
  BY <1>2 DEF Replies
<1>7. Duplex(s, q, Sends(s, a, <<n>>), Tail(b), P, I)
  BY <1>1, <1>2, <1>3, <1>5, <1>6, DuplexAnswer
<1>8. Duplex(s, q, Sends(s, a, <<n>>), Tail(b), part'[s], inbound'[s])
  BY <1>7
<1>9. Short(<<n>>)
  BY ShortForms
<1> QED BY <1>1, <1>3, <1>8, <1>9, RxOkFlows, Zenon

LEMMA AcceptFlows ==
    ASSUME TypeOK, Resumable(work), NEW s \in Sides, NEW r, NEW m, Polling(s, r, m),
           m.cmd = "FILE", m.file \in Files, Size[m.file] # 0, NEW q,
           q = Opened(s, Saved(r), m), q.rfp \in Files, Accept(s, q, m), Aside(s),
           part'[s] = part[s], inbound'[s] = inbound[s]
    PROVE  \A d \in Sides : FlowOf(d)'
<1> DEFINE f == m.file
           n == Len(part[s][f])
           o == Other(s)
           a == chan[s]
           b == chan[o]
           P == part[s]
           I == inbound[s]
           w == [q EXCEPT !.rx = "WaitF"]
           d == [q EXCEPT !.rx = "ReceD"]
<1>1. /\ a \in Seq(Frames) /\ b \in Seq(Frames) /\ Tail(b) \in Seq(Frames) /\ b # <<>>
      /\ m = Head(b) /\ Duplex(s, r, a, b, P, I) /\ ~Ended(r) /\ m \in Frames
      /\ SideOK(r, work.minor, Owes(s)) /\ Out(o) \in SUBSET Files
  BY PollingTypes DEF Polling
<1>2. /\ q.rfp = f /\ q.rbytes = n /\ n \in Nat /\ Size[f] \in Nat /\ n < Size[f]
      /\ q.rbytes # 0 => Size[f] > 1
  BY OpenedRight, Zenon
<1>3. q \in Side /\ q.rname = f /\ Received(r, q)
  BY <1>1, OpenedOpen, Zenon
<1>4. q.rver = m.ver /\ q.rpos = m.n
  <2>1. Saved(r) \in Side
    BY <1>1, SavedFacts, Zenon DEF SideOK, Received
  <2> QED BY <1>1, <1>2, <2>1, OpenedFacts, Zenon
<1>5. /\ Flow(r, st[o], a, b, Out(s), part[o], inbound[o], ver, work.crc, link)
      /\ Flow(st[o], r, b, a, Out(o), P, I, ver, work.crc, link)
  BY <1>1 DEF Duplex
<1>6. f \in Out(o) /\ (m.n # 0 => m.n = n)
  <2>1. b \in Seq(Frames) /\ b # <<>> /\ m = Head(b) /\ ~Ended(r)
    BY <1>1
  <2> HIDE DEF b
  <2>2. Due(m, st[o], b, a, Out(o), P, ver)
    BY <1>5, <2>1, HeadAsked, Zenon
  <2> QED BY <2>2 DEF Due
<1>7. "WaitF" \in RxStates /\ "ReceD" \in RxStates
  BY DEF RxStates
<1>8. /\ Received(q, w) /\ w.rx = "WaitF" /\ w.rfp = q.rfp /\ w.rbytes = q.rbytes
      /\ Received(q, d) /\ d.rx = "ReceD" /\ d.rfp = q.rfp /\ d.rname = q.rname
      /\ d.rver = q.rver /\ d.rpos = q.rpos /\ d.rbytes = q.rbytes
  BY <1>3, <1>7, RxTo, Zenon
<1>9. q.rbytes # Size[f] /\ q.rbytes < Size[f]
  BY <1>2
<1>10. \/ m.n = 0 /\ q.rbytes # 0 /\ RxOk(s, w, <<Cmd("GET", f, q.rbytes, 0)>>)
       \/ ~(m.n = 0 /\ q.rbytes # 0) /\ RxOk(s, d, <<>>)
  BY <1>9 DEF Accept
<1> HIDE DEF w, d, n
<1>11. Received(r, w) /\ Received(r, d)
  BY <1>3, <1>8 DEF Received
<1>12. CASE q.rbytes # 0 /\ RxOk(s, w, <<Cmd("GET", f, q.rbytes, 0)>>)
  <2> DEFINE x == Cmd("GET", f, q.rbytes, 0)
  <2>1. /\ x \in Frames /\ x.cmd = "GET" /\ x.file = f /\ x.n = q.rbytes
    BY <1>2, CmdFrame
  <2>2. RxOk(s, w, <<x>>)
    BY <1>12
  <2> HIDE DEF x
  <2>3. Answer(x) /\ x.n # 0 /\ x.n = Len(part[s][f]) /\ x.cmd # "GOT"
    BY <1>2, <1>12, <2>1 DEF Answer, n
  <2>4. w.rbytes # 0 /\ w.rfp \in Files => w.rfp \in Out(Other(s)) /\ Size[w.rfp] > 1
    BY <1>2, <1>6, <1>8
  <2> QED BY <1>8, <1>11, <2>1, <2>2, <2>3, <2>4, AnswerFlows
<1>13. CASE ~(m.n = 0 /\ q.rbytes # 0) /\ RxOk(s, d, <<>>)
  <2>1. m.n = Len(P[f])
    BY <1>2, <1>6, <1>13 DEF n
  <2>2. SideOK(d, work.minor, Owes(s)) /\ ~Ended(d)
    BY <1>1, <1>2, <1>3, <1>8, <1>11, ReceivedSide
  <2>3. Flow(r, st[o], a, Tail(b), Out(s), part[o], inbound[o], ver, work.crc, link)
    BY <1>1, <1>5, FlowTakeB, Zenon
  <2>4. Ended(st[o]) \/ (~Ended(st[o]) /\ RxView(st[o]) = RxView(st[o]))
    OBVIOUS
  <2>5. TxView(d) = TxView(r)
    BY <1>11 DEF Received
  <2>6. Flow(d, st[o], a, Tail(b), Out(s), part[o], inbound[o], ver, work.crc, link)
    BY <1>1, <2>3, <2>4, <2>5, FlowViews, Zenon
  <2>7. /\ d.rx = "ReceD" /\ d.rname = m.file /\ d.rfp = m.file /\ d.rver = m.ver
        /\ d.rpos = m.n /\ d.rbytes = Len(P[m.file]) /\ Size[m.file] # 0
        /\ Size[m.file] \in Nat /\ Len(P[m.file]) \in Nat
    BY <1>2, <1>3, <1>4, <1>8 DEF n
  <2>8. Flow(st[o], d, Tail(b), a, Out(o), P, I, ver, work.crc, link)
    BY <1>1, <1>5, <2>1, <2>7, FlowOpen
  <2>9. Duplex(s, d, Sends(s, a, <<>>), Tail(b), part'[s], inbound'[s])
    BY <1>1, <2>6, <2>8, SendsNothing DEF Duplex
  <2> QED BY <1>1, <1>13, <2>2, <2>9, NothingShort, RxOkFlows, Zenon
<1> QED BY <1>10, <1>12, <1>13

LEMMA CrashFlows ==
    ASSUME TypeOK, NEW s \in Sides, NEW r, NEW m, Polling(s, r, m), NEW q \in Side,
           Crash(s, q), Aside(s), part'[s] = part[s], inbound'[s] = inbound[s]
    PROVE  \A d \in Sides : FlowOf(d)'
<1> DEFINE x == [q EXCEPT !.ft = "crash"]
           a == chan[s]
           b == chan[Other(s)]
<1>1. /\ a \in Seq(Frames) /\ b \in Seq(Frames) /\ b # <<>>
      /\ Duplex(s, r, a, b, part[s], inbound[s])
  BY PollingTypes DEF Polling
<1>2. "crash" \in FtStates
  BY DEF FtStates
<1>3. x.ft = "crash"
  BY <1>2, FtFacts, Zenon
<1>4. st' = [st EXCEPT ![s] = x] /\ chan' = [chan EXCEPT ![Other(s)] = Tail(@)]
  BY DEF Crash
<1>5. chan'[s] = a /\ chan'[Other(s)] = Tail(b)
  BY <1>4, OtherSide DEF TypeOK
<1> HIDE DEF x
<1>6. Ended(x)
  BY <1>3 DEF Ended
<1>7. Duplex(s, x, a, Tail(b), part[s], inbound[s])
  BY <1>1, <1>6, DuplexOver, Zenon
<1>8. Duplex(s, x, chan'[s], chan'[Other(s)], part'[s], inbound'[s])
  BY <1>5, <1>7
<1> QED BY <1>4, <1>8, FlowsMoved, Zenon DEF Aside

LEMMA RxFileFlows ==
    ASSUME TypeOK, Resumable(work), NEW s \in Sides, NEW r, NEW m, Polling(s, r, m),
           RxFile(s, r, m), Aside(s), part'[s] = part[s], inbound'[s] = inbound[s]
    PROVE  \A d \in Sides : FlowOf(d)'
<1> DEFINE p == Saved(r)
           q == Opened(s, p, m)
           w == [p EXCEPT !.rx = "WaitF"]
           n == Reply("GOT", m.file)
<1>0. m \in Frames /\ m.cmd = "FILE" /\ m.file \in Files /\ "WaitF" \in RxStates
  BY FrameFields DEF RxFile, AboutFile, RxStates, Polling
<1>1. /\ r \in Side /\ Receiving(r, Out(Other(s)), part[s], ver)
      /\ Stored(part[s], inbound[s], ver, work.crc) /\ ~Ended(r)
      /\ SideOK(r, work.minor, Owes(s))
  BY PollingTypes DEF Polling
<1>2. q \in Side
  BY <1>0, <1>1, OpenedOpen, Zenon
<1>3. /\ Received(r, p) /\ p.rbytes = r.rbytes
      /\ p.rfp = IF r.rx = "ReceD" THEN None ELSE r.rfp
  BY <1>1, SavedFacts, Zenon
<1>4. \/ Size[m.file] = 0 /\ RxOk(s, w, <<n>>)
      \/ Crash(s, q)
      \/ Size[m.file] # 0 /\ q.rfp \in Files /\ Accept(s, q, m)
      \/ RxFailure(s, q, <<Plain("BSY")>>)
  BY DEF RxFile
<1>5. CASE Size[m.file] # 0 /\ q.rfp \in Files /\ Accept(s, q, m)
  BY <1>0, <1>5, AcceptFlows, Zenon
<1> HIDE DEF q
<1>6. CASE Crash(s, q)
  BY <1>2, <1>6, CrashFlows, Zenon
<1>7. CASE RxFailure(s, q, <<Plain("BSY")>>)
  <2> DEFINE frames == <<Plain("BSY")>>
  <2>1. \E c \in {"ERR", "BSY"} : frames = <<Plain(c)>>
    OBVIOUS
  <2>2. RxFailure(s, q, frames)
    BY <1>7
  <2> HIDE DEF frames
  <2> QED BY <1>2, <2>1, <2>2, RxFailingFlows, Zenon
<1>8. CASE Size[m.file] = 0 /\ RxOk(s, w, <<n>>)
  <2> HIDE DEF p
  <2>1. /\ Received(p, w) /\ w.rx = "WaitF" /\ w.rbytes = p.rbytes /\ w.rfp = p.rfp
    BY <1>0, <1>3, RxTo, Zenon DEF Received
  <2> HIDE DEF w
  <2>2. Received(r, w)
    BY <1>3, <2>1 DEF Received
  <2>3. w.rbytes # 0 /\ w.rfp \in Files => w.rfp \in Out(Other(s)) /\ Size[w.rfp] > 1
    BY <1>1, <1>3, <2>1, BinkpAssumption DEF Receiving
  <2>4. n \in Frames /\ n.cmd = "GOT" /\ n.file = m.file
    BY <1>0, CmdFrame DEF Reply
  <2>5. inbound[s][m.file] = Content(m.file, ver[m.file])
    BY <1>0, <1>1, <1>8, EmptyContent DEF Stored
  <2> HIDE DEF n
  <2>6. Answer(n) /\ n.cmd # "GET"
    BY <2>4 DEF Answer
  <2>7. RxOk(s, w, <<n>>)
    BY <1>8
  <2> QED BY <1>0, <2>1, <2>2, <2>3, <2>4, <2>5, <2>6, <2>7, AnswerFlows, Zenon
<1> QED BY <1>4, <1>5, <1>6, <1>7, <1>8

(* What side s has in its inbound it keeps, or it becomes the file as it is now. *)
Grows(s) ==
    \A f \in Files : inbound'[s][f] \in {inbound[s][f], Content(f, ver[f])}

(* The last block leaves nothing in tmp/; I1 is the inbound after it. *)
LEMMA FinishDuplex ==
    ASSUME TypeOK, NEW s \in Sides, NEW r, NEW m, Polling(s, r, m), m.cmd = "DATA",
           r.rx = "ReceD", NEW I1, \A g \in Files : g # r.rname => I1[g] = inbound[s][g],
           NEW q, q.rx # "ReceD", q.rfp \notin Files, TxView(q) = TxView(r)
    PROVE  /\ Duplex(s, q, chan[s], Tail(chan[Other(s)]),
                     [part[s] EXCEPT ![r.rname] = <<>>], I1)
           /\ ~Says(Tail(chan[Other(s)]), Asking, r.rname)
           /\ ~Ended(st[Other(s)]) => Unanswered(st[Other(s)], chan[s], r.rname)
<1> DEFINE o == Other(s)
           a == chan[s]
           b == chan[o]
           P1 == [part[s] EXCEPT ![r.rname] = <<>>]
<1>1. /\ a \in Seq(Frames) /\ b \in Seq(Frames) /\ b # <<>> /\ m = Head(b) /\ ~Ended(r)
      /\ Flow(r, st[o], a, b, Out(s), part[o], inbound[o], ver, work.crc, link)
      /\ Flow(st[o], r, b, a, Out(o), part[s], inbound[s], ver, work.crc, link)
      /\ r \in Side /\ Open(r) /\ part[s] \in [Files -> Seq(Blocks)]
  BY PollingTypes DEF Polling, Duplex
<1>2. r.rname \in Files /\ r.rpos \in Nat /\ Size[r.rname] \in Nat
  BY <1>1, BinkpAssumption DEF Open, Side
<1>3. Flow(r, st[o], a, Tail(b), Out(s), part[o], inbound[o], ver, work.crc, link)
  BY <1>1, FlowTakeB, Zenon
<1>4. Ended(st[o]) \/ (~Ended(st[o]) /\ RxView(st[o]) = RxView(st[o]))
  OBVIOUS
<1>5. Flow(q, st[o], a, Tail(b), Out(s), part[o], inbound[o], ver, work.crc, link)
  BY <1>1, <1>3, <1>4, FlowViews, Zenon
<1>6. P1 = [part[s] EXCEPT ![r.rname] = <<>>] /\ Head(b).cmd = "DATA"
  BY <1>1
<1> HIDE DEF P1
<1>7. /\ Flow(st[o], q, Tail(b), a, Out(o), P1, I1, ver, work.crc, link)
      /\ ~Says(Tail(b), Asking, r.rname)
      /\ ~Ended(st[o]) => Unanswered(st[o], a, r.rname)
  BY <1>1, <1>2, <1>6, FlowFinish
<1> QED BY <1>5, <1>7 DEF Duplex, P1

LEMMA ReplyFrame ==
    ASSUME NEW f \in Files, NEW c \in {"GOT", "SKIP"}
    PROVE  Reply(c, f) \in Frames /\ Reply(c, f).cmd = c /\ Reply(c, f).file = f
<1>1. 0 \in Nat /\ c \in {"FILE", "DATA", "GET", "GOT", "SKIP"}
  OBVIOUS
<1> QED BY <1>1, CmdFrame DEF Reply

(* A block for the file that is open. *)
LEMMA BlockFacts ==
    ASSUME TypeOK, NEW s \in Sides, NEW r, NEW m, Polling(s, r, m), m.cmd = "DATA",
           r.rx = "ReceD"
    PROVE  /\ r.rname \in Files /\ r.rfp = r.rname /\ r.rname \in Out(Other(s))
           /\ r.rver = ver[r.rname] /\ r.rpos = Len(part[s][r.rname]) /\ r.rpos \in Nat
           /\ Size[r.rname] \in Nat /\ Block(m) = <<r.rname, ver[r.rname], r.rpos + 1>>
           /\ Block(m) \in Blocks
<1> DEFINE b == chan[Other(s)]
<1>1. /\ b \in Seq(Frames) /\ b # <<>> /\ m = Head(b) /\ ~Ended(r) /\ r \in Side /\ Open(r)
      /\ InOK(r, b, Out(Other(s)), part[s], ver) /\ m \in Frames
  BY PollingTypes DEF Polling, Duplex, Flow
<1>2. r.rname \in Files /\ r.rpos \in Nat /\ Size[r.rname] \in Nat /\ m.file \in Files
  BY <1>1, FrameFields, BinkpAssumption DEF Open, Side, AboutFile
<1>3. Block(m) \in Blocks
  BY <1>1, <1>2, BlockType
<1> HIDE DEF b
<1>4. /\ Head(b).file = r.rname /\ Head(b).n = r.rpos + 1 /\ Head(b).ver = ver[r.rname]
      /\ r.rfp = r.rname /\ r.rname \in Out(Other(s)) /\ r.rver = ver[r.rname]
      /\ r.rpos = Len(part[s][r.rname])
  BY <1>1, NextBlock
<1> QED BY <1>1, <1>2, <1>3, <1>4 DEF Block

LEMMA WriteFlows ==
    ASSUME TypeOK, NEW s \in Sides, NEW r, NEW m, Polling(s, r, m), m.cmd = "DATA",
           r.rx = "ReceD", r.rpos + 1 # Size[r.rname],
           RxOk(s, [r EXCEPT !.rpos = @ + 1], <<>>), Aside(s),
           part'[s] = [part[s] EXCEPT ![r.rname] = Append(@, Block(m))],
           inbound'[s] = inbound[s]
    PROVE  \A d \in Sides : FlowOf(d)'
<1> DEFINE o == Other(s)
           a == chan[s]
           b == chan[o]
           P1 == part'[s]
           q == [r EXCEPT !.rpos = @ + 1]
<1>1. /\ a \in Seq(Frames) /\ b \in Seq(Frames) /\ b # <<>> /\ m = Head(b) /\ ~Ended(r)
      /\ Flow(r, st[o], a, b, Out(s), part[o], inbound[o], ver, work.crc, link)
      /\ Flow(st[o], r, b, a, Out(o), part[s], inbound[s], ver, work.crc, link)
      /\ r \in Side /\ Open(r) /\ part[s] \in [Files -> Seq(Blocks)]
      /\ SideOK(r, work.minor, Owes(s))
  BY PollingTypes DEF Polling, Duplex
<1>2. /\ r.rname \in Files /\ r.rpos \in Nat /\ Size[r.rname] \in Nat /\ r.rfp = r.rname
      /\ Block(m) = <<r.rname, ver[r.rname], r.rpos + 1>> /\ Block(m) \in Blocks
  BY BlockFacts, Zenon
<1>3. /\ Received(r, q) /\ q.rpos = r.rpos + 1 /\ q.rx = "ReceD" /\ q.rname = r.rname
      /\ q.rver = r.rver /\ q.rbytes = r.rbytes /\ q.rfp = r.rfp
  BY <1>1, WrittenFacts
<1>4. RxOk(s, q, <<>>)
  OBVIOUS
<1> HIDE DEF q
<1>5. SideOK(q, work.minor, Owes(s)) /\ ~Ended(q) /\ TxView(q) = TxView(r)
  BY <1>1, <1>2, <1>3, ReceivedSide DEF Received
<1>6. Flow(r, st[o], a, Tail(b), Out(s), part[o], inbound[o], ver, work.crc, link)
  BY <1>1, FlowTakeB, Zenon
<1>7. Ended(st[o]) \/ (~Ended(st[o]) /\ RxView(st[o]) = RxView(st[o]))
  OBVIOUS
<1>8. Flow(q, st[o], a, Tail(b), Out(s), part[o], inbound[o], ver, work.crc, link)
  BY <1>1, <1>5, <1>6, <1>7, FlowViews, Zenon
<1>9. /\ P1 = [part[s] EXCEPT ![r.rname] =
                  Append(@, <<r.rname, ver[r.rname], r.rpos + 1>>)]
      /\ <<r.rname, ver[r.rname], r.rpos + 1>> \in Blocks /\ Head(b).cmd = "DATA"
  BY <1>1, <1>2
<1> HIDE DEF P1
<1>10. Flow(st[o], q, Tail(b), a, Out(o), P1, inbound[s], ver, work.crc, link)
  BY <1>1, <1>2, <1>3, <1>9, FlowWrite
<1>11. Duplex(s, q, Sends(s, a, <<>>), Tail(b), part'[s], inbound'[s])
  BY <1>1, <1>8, <1>10, SendsNothing DEF Duplex, P1
<1> QED BY <1>1, <1>4, <1>5, <1>11, NothingShort, RxOkFlows, Zenon

(* The side after the last block of a file. *)
LEMMA ClosedSide ==
    ASSUME NEW r \in Side, r.rname \in Files, NEW minor, NEW todo,
           SideOK(r, minor, todo), ~Ended(r), r.rfp \in Files
    PROVE  LET q    == [r EXCEPT !.rpos = @ + 1]
               done == [q EXCEPT !.inf = None, !.rfp = "freed", !.rx = "WaitF"]
               skip == [done EXCEPT !.crcerr = 1]
           IN  /\ q.rpos = r.rpos + 1
               /\ SideOK(done, minor, todo) /\ ~Ended(done) /\ TxView(done) = TxView(r)
               /\ done.rx # "ReceD" /\ done.rfp \notin Files
               /\ SideOK(skip, minor, todo) /\ ~Ended(skip) /\ TxView(skip) = TxView(r)
               /\ skip.rx # "ReceD" /\ skip.rfp \notin Files
<1> DEFINE q    == [r EXCEPT !.rpos = @ + 1]
           done == [q EXCEPT !.inf = None, !.rfp = "freed", !.rx = "WaitF"]
           skip == [done EXCEPT !.crcerr = 1]
<1>1. Received(r, q) /\ q.rx = r.rx /\ q.rname = r.rname /\ q.rfp = r.rfp /\ q.rpos = r.rpos + 1
  BY WrittenFacts, Zenon
<1> HIDE DEF q
<1>2. Received(q, done) /\ done.rx = "WaitF" /\ done.rfp = "freed"
  BY <1>1, DoneFacts, Zenon DEF Received
<1> HIDE DEF done
<1>3. Received(done, skip) /\ RxView(skip) = RxView(done)
  BY <1>2, CrcFacts, Zenon DEF Received
<1> HIDE DEF skip
<1>4. skip.rx = "WaitF" /\ skip.rfp = "freed"
  BY <1>2, <1>3 DEF RxView
<1>5. Received(r, done) /\ Received(r, skip)
  BY <1>1, <1>2, <1>3 DEF Received
<1>6. SideOK(done, minor, todo) /\ ~Ended(done)
  BY <1>2, <1>5, ReceivedSide
<1>7. SideOK(skip, minor, todo) /\ ~Ended(skip)
  BY <1>4, <1>5, ReceivedSide
<1> QED BY <1>1, <1>2, <1>4, <1>5, <1>6, <1>7, BinkpAssumption DEF Received, q, done, skip

(* The receiver answers the last block of a file. *)
LEMMA FinishFlows ==
    ASSUME TypeOK, NEW s \in Sides, NEW r, NEW m, Polling(s, r, m), m.cmd = "DATA",
           r.rx = "ReceD", NEW q, SideOK(q, work.minor, Owes(s)), ~Ended(q),
           TxView(q) = TxView(r), q.rx # "ReceD", q.rfp \notin Files,
           part'[s] = [part[s] EXCEPT ![r.rname] = <<>>],
           \A g \in Files : g # r.rname => inbound'[s][g] = inbound[s][g],
           NEW n, n \in Frames, n.file = r.rname, n.cmd \in {"GOT", "SKIP"},
           n.cmd = "GOT" => inbound'[s][r.rname] = Content(r.rname, ver[r.rname]),
           RxOk(s, q, <<n>>), Aside(s)
    PROVE  \A d \in Sides : FlowOf(d)'
<1> DEFINE o == Other(s)
           a == chan[s]
           b == Tail(chan[o])
           P == part'[s]
           I == inbound'[s]
<1>1. a \in Seq(Frames) /\ b \in Seq(Frames) /\ chan[o] # <<>>
  BY PollingTypes DEF Polling
<1>2. r.rname \in Out(o)
  BY BlockFacts, Zenon
<1>3. /\ Duplex(s, q, a, b, P, I) /\ ~Says(b, Asking, n.file)
      /\ ~Ended(st[o]) => Unanswered(st[o], a, n.file)
  <2> DEFINE J == I
  <2>1. \A g \in Files : g # r.rname => J[g] = inbound[s][g]
    OBVIOUS
  <2> HIDE DEF J
  <2>2. /\ Duplex(s, q, a, b, [part[s] EXCEPT ![r.rname] = <<>>], J)
        /\ ~Says(b, Asking, r.rname)
        /\ ~Ended(st[o]) => Unanswered(st[o], a, r.rname)
    BY <2>1, FinishDuplex, Zenon
  <2> QED BY <2>2 DEF J
<1> HIDE DEF P, I
<1>4. Answer(n) /\ n \in Replies(Out(o), P, I, ver)
  BY <1>2 DEF Answer, Replies, I
<1>5. Duplex(s, q, Sends(s, a, <<n>>), b, P, I)
  BY <1>1, <1>3, <1>4, DuplexAnswer, Zenon
<1>6. Short(<<n>>)
  BY ShortForms
<1> QED BY <1>1, <1>5, <1>6, RxOkFlows, Zenon DEF P, I

(* The last block of a file that is not found bad completes it. *)
LEMMA CompleteFile ==
    ASSUME TypeOK, NEW s \in Sides, NEW r, NEW m, Polling(s, r, m), m.cmd = "DATA",
           r.rx = "ReceD", r.rpos + 1 = Size[r.rname],
           ~BadCRC(r, Append(part[s][r.rname], Block(m)))
    PROVE  Append(part[s][r.rname], Block(m)) = Content(r.rname, ver[r.rname])
<1> DEFINE f == r.rname
<1>1. /\ f \in Files /\ r.rver = ver[f] /\ r.rpos = Len(part[s][f]) /\ Size[f] \in Nat
      /\ Block(m) = <<f, ver[f], r.rpos + 1>> /\ Block(m) \in Blocks
  BY BlockFacts, Zenon
<1>2. /\ part[s] \in [Files -> Seq(Blocks)]
      /\ Stored(part[s], inbound[s], ver, work.crc)
  BY PollingTypes, Zenon
<1>3. CASE work.crc
  BY <1>1, <1>3 DEF BadCRC
<1>4. CASE ~work.crc
  <2> DEFINE p == part[s][f]
             x == Block(m)
  <2>1. /\ p \in Seq(Blocks) /\ ver[f] = 1 /\ \A i \in 1..Len(p) : p[i] = <<f, 1, i>>
    BY <1>1, <1>2, <1>4 DEF Stored
  <2>2. /\ Size[f] \in Nat /\ Len(p) + 1 = Size[f] /\ x = <<f, 1, Size[f]>> /\ x \in Blocks
    BY <1>1, <2>1
  <2> HIDE DEF p, x, f
  <2>3. Append(p, x) = Content(f, 1)
    BY <2>1, <2>2, WholeFile
  <2> QED BY <2>1, <2>3 DEF p, x, f
<1> QED BY <1>3, <1>4

LEMMA RxDataFlows ==
    ASSUME TypeOK, Resumable(work), NEW s \in Sides, NEW r, NEW m, Polling(s, r, m),
           RxData(s, r, m), work' = work, link' = link, ver' = ver
    PROVE  /\ \A d \in Sides : FlowOf(d)'
           /\ Grows(s) /\ inbound'[Other(s)] = inbound[Other(s)]
<1> DEFINE f    == r.rname
           file == Append(part[s][f], Block(m))
           q    == [r EXCEPT !.rpos = @ + 1]
           done == [q EXCEPT !.inf = None, !.rfp = "freed", !.rx = "WaitF"]
           skip == [done EXCEPT !.crcerr = 1]
<1>0. m.cmd = "DATA" /\ r.rx = "ReceD"
  BY DEF RxData
<1>1. /\ f \in Files /\ r.rfp = f /\ Block(m) \in Blocks /\ r.rpos \in Nat
  BY <1>0, BlockFacts, Zenon
<1>2. /\ r \in Side /\ SideOK(r, work.minor, Owes(s)) /\ ~Ended(r)
      /\ part \in Store /\ inbound \in Store /\ part[s][f] \in Seq(Blocks)
  BY <1>1, PollingTypes DEF Polling, TypeOK, Store
<1>3. /\ q.rpos = r.rpos + 1
      /\ SideOK(done, work.minor, Owes(s)) /\ ~Ended(done) /\ TxView(done) = TxView(r)
      /\ done.rx # "ReceD" /\ done.rfp \notin Files
      /\ SideOK(skip, work.minor, Owes(s)) /\ ~Ended(skip) /\ TxView(skip) = TxView(r)
      /\ skip.rx # "ReceD" /\ skip.rfp \notin Files
  BY <1>1, <1>2, ClosedSide, Zenon
<1>4. ~Fault("move")
  BY DEF Fault, Resumable
<1>5. \/ /\ r.rpos + 1 # Size[f] /\ RxOk(s, q, <<>>)
         /\ part' = [part EXCEPT ![s][f] = file] /\ inbound' = inbound
      \/ /\ RxOk(s, skip, <<Reply("SKIP", f)>>) \/ RxFailure(s, done, <<Plain("ERR")>>)
         /\ part' = [part EXCEPT ![s][f] = <<>>] /\ inbound' = inbound
      \/ /\ r.rpos + 1 = Size[f] /\ ~BadCRC(r, file)
         /\ RxOk(s, done, <<Reply("GOT", f)>>)
         /\ part' = [part EXCEPT ![s][f] = <<>>]
         /\ inbound' = [inbound EXCEPT ![s][f] = file]
  BY <1>1, <1>3, <1>4 DEF RxData
<1>6. CASE /\ r.rpos + 1 # Size[f] /\ RxOk(s, q, <<>>)
           /\ part' = [part EXCEPT ![s][f] = file] /\ inbound' = inbound
  <2>1. part'[s] = [part[s] EXCEPT ![f] = file] /\ part'[Other(s)] = part[Other(s)]
    <3>1. f \in Files /\ part' = [part EXCEPT ![s][f] = file]
      BY <1>1, <1>6
    <3> HIDE DEF f, file
    <3> QED BY <1>2, <3>1, OtherSide DEF Store
  <2>2. part'[s] = [part[s] EXCEPT ![f] = Append(@, Block(m))]
    BY <2>1
  <2>3. Aside(s) /\ Grows(s) /\ inbound'[s] = inbound[s]
    BY <1>6, <2>1 DEF Aside, Grows
  <2>4. \A d \in Sides : FlowOf(d)'
    BY <1>0, <1>6, <2>2, <2>3, WriteFlows, Zenon
  <2> QED BY <1>6, <2>3, <2>4
<1> HIDE DEF q, done, skip
<1>7. CASE /\ RxOk(s, skip, <<Reply("SKIP", f)>>) \/ RxFailure(s, done, <<Plain("ERR")>>)
           /\ part' = [part EXCEPT ![s][f] = <<>>] /\ inbound' = inbound
  <2>1. part'[s] = [part[s] EXCEPT ![f] = <<>>] /\ part'[Other(s)] = part[Other(s)]
    <3>1. f \in Files /\ part' = [part EXCEPT ![s][f] = <<>>]
      BY <1>1, <1>7
    <3> HIDE DEF f
    <3> QED BY <1>2, <3>1, OtherSide DEF Store
  <2>3. Aside(s) /\ Grows(s) /\ inbound'[s] = inbound[s]
    BY <1>7, <2>1 DEF Aside, Grows
  <2>4. CASE RxOk(s, skip, <<Reply("SKIP", f)>>)
    <3> DEFINE n == Reply("SKIP", f)
    <3>1. n \in Frames /\ n.file = f /\ n.cmd = "SKIP"
      BY <1>1, ReplyFrame
    <3>2. RxOk(s, skip, <<n>>)
      BY <2>4
    <3> HIDE DEF n
    <3>3. n.cmd \in {"GOT", "SKIP"} /\ n.cmd # "GOT"
      BY <3>1
    <3>4. \A g \in Files : g # r.rname => inbound'[s][g] = inbound[s][g]
      BY <2>3
    <3>5. \A d \in Sides : FlowOf(d)'
      BY <1>0, <1>3, <2>1, <2>3, <3>1, <3>2, <3>3, <3>4, FinishFlows, Zenon
    <3> QED BY <1>7, <2>3, <3>5
  <2>5. CASE RxFailure(s, done, <<Plain("ERR")>>)
    <3> DEFINE I1 == inbound[s]
               frames == <<Plain("ERR")>>
    <3>1. \A g \in Files : g # r.rname => I1[g] = inbound[s][g]
      OBVIOUS
    <3>2. Duplex(s, done, chan[s], Tail(chan[Other(s)]), [part[s] EXCEPT ![f] = <<>>], I1)
      BY <1>0, <1>3, <3>1, FinishDuplex, Zenon
    <3>3. Duplex(s, done, chan[s], Tail(chan[Other(s)]), part'[s], inbound'[s])
      BY <2>1, <2>3, <3>2
    <3>4. \E c \in {"ERR", "BSY"} : frames = <<Plain(c)>>
      OBVIOUS
    <3>5. RxFailure(s, done, frames) /\ done \in Side /\ chan[Other(s)] # <<>>
      BY <1>3, <2>5 DEF SideOK, Polling
    <3> HIDE DEF frames
    <3>6. \A d \in Sides : FlowOf(d)'
      BY <2>3, <3>3, <3>4, <3>5, RxFailureFlows, Zenon
    <3> QED BY <1>7, <2>3, <3>6
  <2> QED BY <1>7, <2>4, <2>5
<1>8. CASE /\ r.rpos + 1 = Size[f] /\ ~BadCRC(r, file)
           /\ RxOk(s, done, <<Reply("GOT", f)>>)
           /\ part' = [part EXCEPT ![s][f] = <<>>]
           /\ inbound' = [inbound EXCEPT ![s][f] = file]
  <2>1. part'[s] = [part[s] EXCEPT ![f] = <<>>] /\ part'[Other(s)] = part[Other(s)]
    <3>1. f \in Files /\ part' = [part EXCEPT ![s][f] = <<>>]
      BY <1>1, <1>8
    <3> HIDE DEF f
    <3> QED BY <1>2, <3>1, OtherSide DEF Store
  <2>2. file = Content(f, ver[f])
    BY <1>0, <1>8, CompleteFile, Zenon
  <2>3. /\ inbound'[s][f] = file /\ inbound'[Other(s)] = inbound[Other(s)]
        /\ \A g \in Files : g # f => inbound'[s][g] = inbound[s][g]
    <3>1. f \in Files /\ inbound' = [inbound EXCEPT ![s][f] = file]
      BY <1>1, <1>8
    <3> HIDE DEF f, file
    <3> QED BY <1>2, <3>1, OtherSide DEF Store
  <2>4. Aside(s) /\ Grows(s)
    BY <2>1, <2>2, <2>3 DEF Aside, Grows
  <2> DEFINE n == Reply("GOT", f)
  <2>5. n \in Frames /\ n.file = f /\ n.cmd = "GOT"
    BY <1>1, ReplyFrame
  <2>6. RxOk(s, done, <<n>>)
    BY <1>8
  <2> HIDE DEF n
  <2>7. n.cmd \in {"GOT", "SKIP"} /\ inbound'[s][f] = Content(f, ver[f])
    BY <2>2, <2>3, <2>5
  <2>8. \A d \in Sides : FlowOf(d)'
    BY <1>0, <1>3, <2>1, <2>3, <2>4, <2>5, <2>6, <2>7, FinishFlows, Zenon
  <2> QED BY <2>3, <2>4, <2>8
<1> QED BY <1>5, <1>6, <1>7, <1>8

(* The receiver keeps both directions as they should be. *)
LEMMA ReceiveFlows ==
    ASSUME CoreInv, Resumable(work), \A d \in Sides : FlowOf(d), NEW s \in Sides, Receive(s)
    PROVE  /\ \A d \in Sides : FlowOf(d)'
           /\ Grows(s) /\ inbound'[Other(s)] = inbound[Other(s)]
           /\ work' = work /\ ver' = ver /\ gone' = gone
<1> DEFINE m == Head(chan[Other(s)])
           r == Polled(st[s], m)
<1>0. TypeOK /\ chan[Other(s)] # <<>> /\ st[s].ft = "Switch" /\ st[s] \in Side
  BY DEF CoreInv, Receive, TypeOK
<1>1. m \in Frames
  BY <1>0, TakenType, Zenon
<1>2. Duplex(s, st[s], chan[s], chan[Other(s)], part[s], inbound[s])
  BY FlowsDuplex, Zenon
<1>3. /\ \/ RxMessage(s, r, m) \/ RxNul(s, r, m) \/ RxEOB(s, r, m)
         \/ RxError(s, r, m) \/ RxFile(s, r, m) \/ RxLateFile(s, r, m)
         \/ RxStray(s, r, m) \/ RxData(s, r, m)
      /\ work' = work /\ link' = link /\ ver' = ver /\ gone' = gone
  BY DEF Receive, files
<1>4. SideOK(r, work.minor, Owes(s)) /\ ~Ended(r) /\ Alike(st[s], r) /\ r \in Side
  BY <1>0, <1>1, PolledSide, Zenon
<1>5. m = Head(chan[Other(s)])
  OBVIOUS
<1> HIDE DEF m, r
<1>6. Polling(s, r, m)
  <2>1. ~Ended(st[s])
    BY <1>0 DEF Ended
  <2>2. TxView(r) = TxView(st[s]) /\ RxView(r) = RxView(st[s])
    BY <1>4 DEF Alike
  <2>3. Duplex(s, r, chan[s], chan[Other(s)], part[s], inbound[s])
    BY <1>2, <2>1, <2>2, DuplexView, Zenon
  <2> QED BY <1>0, <1>1, <1>4, <1>5, <2>3 DEF Polling
<1>7. ASSUME UNCHANGED store
      PROVE  /\ Aside(s) /\ Grows(s) /\ part'[s] = part[s] /\ inbound'[s] = inbound[s]
             /\ inbound'[Other(s)] = inbound[Other(s)]
  BY <1>3, <1>7 DEF store, Aside, Grows
<1>8. CASE RxData(s, r, m)
  BY <1>0, <1>3, <1>6, <1>8, RxDataFlows, Zenon
<1>9. CASE RxFile(s, r, m)
  <2>1. UNCHANGED store
    BY <1>9 DEF RxFile
  <2>2. \A d \in Sides : FlowOf(d)'
    BY <1>0, <1>6, <1>7, <1>9, <2>1, RxFileFlows, Zenon
  <2> QED BY <1>3, <1>7, <2>1, <2>2
<1>10. CASE RxMessage(s, r, m)
  <2>1. UNCHANGED store
    BY <1>10 DEF RxMessage
  <2>2. \A d \in Sides : FlowOf(d)'
    BY <1>0, <1>6, <1>7, <1>10, <2>1, RxMessageFlows, Zenon
  <2> QED BY <1>3, <1>7, <2>1, <2>2
<1>11. CASE RxEOB(s, r, m)
  <2>1. UNCHANGED store
    BY <1>11 DEF RxEOB
  <2>2. \A d \in Sides : FlowOf(d)'
    BY <1>0, <1>6, <1>7, <1>11, <2>1, RxEOBFlows, Zenon
  <2> QED BY <1>3, <1>7, <2>1, <2>2
<1>12. CASE RxNul(s, r, m) \/ RxStray(s, r, m)
  <2>1. UNCHANGED store /\ RxOk(s, r, <<>>) /\ (~Carrier(m) \/ r.rx # "ReceD")
    BY <1>12 DEF RxNul, RxStray, Carrier
  <2>2. \A d \in Sides : FlowOf(d)'
    BY <1>0, <1>6, <1>7, <2>1, RxPlainFlows, Zenon
  <2> QED BY <1>3, <1>7, <2>1, <2>2
<1>13. CASE RxError(s, r, m) \/ RxLateFile(s, r, m)
  <2>1. UNCHANGED store /\ RxFailure(s, r, <<>>)
    BY <1>13 DEF RxError, RxLateFile
  <2>2. \A d \in Sides : FlowOf(d)'
    BY <1>0, <1>4, <1>6, <1>7, <2>1, RxFailingFlows, Zenon
  <2> QED BY <1>3, <1>7, <2>1, <2>2
<1> QED BY <1>3, <1>8, <1>9, <1>10, <1>11, <1>12, <1>13

-----------------------------------------------------------------------------
(* The transmitter. *)

(* It becomes q, with what it sends still to be counted. *)
LEMMA TxFlows ==
    ASSUME TypeOK, NEW s \in Sides, NEW q \in Side, NEW frames, Short(frames),
           Tx(s, q, frames), UNCHANGED <<work, link, ver, store>>, ~Ended(q) \/ frames = <<>>,
           Duplex(s, q, Sends(s, chan[s], frames), chan[Other(s)], part[s], inbound[s])
    PROVE  \A d \in Sides : FlowOf(d)'
<1> DEFINE z == SentAll(q, frames)
           a == Sends(s, chan[s], frames)
<1>1. chan \in Channels
  BY DEF TypeOK, Channels
<1>2. st' = [st EXCEPT ![s] = z] /\ chan' = Carry(s, frames, chan)
  BY DEF Tx
<1>3. chan'[s] = a /\ chan'[Other(s)] = chan[Other(s)]
  BY <1>1, <1>2, CarrySends
<1>4. frames = <<>> => z = q
  BY SentNone
<1>5. z.ft = q.ft /\ TxView(z) = TxView(q) /\ RxView(z) = RxView(q)
  <2>1. CASE frames = <<>>
    BY <1>4, <2>1
  <2>2. ASSUME NEW m \in Frames, frames = <<m>> PROVE Alike(q, z)
    BY <2>2, SentOne, SentFacts
  <2>3. ASSUME NEW m \in Frames, NEW n \in Frames, frames = <<m, n>> PROVE Alike(q, z)
    <3>1. Alike(q, Sent(q, m)) /\ Sent(q, m) \in Side
      BY SentFacts DEF Alike
    <3>2. Alike(Sent(q, m), Sent(Sent(q, m), n))
      BY <3>1, SentFacts, Zenon
    <3>3. z = Sent(Sent(q, m), n)
      BY <2>3, SentTwo
    <3> QED BY <3>1, <3>2, <3>3 DEF Alike
  <2> QED BY <2>1, <2>2, <2>3 DEF Short, Alike
<1> HIDE DEF z, a
<1>6. Ended(z) \/ (~Ended(q) /\ TxView(z) = TxView(q) /\ RxView(z) = RxView(q))
  BY <1>5 DEF Ended
<1>7. Duplex(s, q, a, chan[Other(s)], part[s], inbound[s])
  BY DEF a
<1>8. Duplex(s, z, a, chan[Other(s)], part[s], inbound[s])
  BY <1>6, <1>7, DuplexView, Zenon
<1>9. Duplex(s, z, chan'[s], chan'[Other(s)], part'[s], inbound'[s])
  BY <1>3, <1>8 DEF store
<1>10. /\ part'[Other(s)] = part[Other(s)] /\ inbound'[Other(s)] = inbound[Other(s)]
       /\ work' = work /\ link' = link /\ ver' = ver
  BY DEF store
<1> QED BY <1>2, <1>9, <1>10, FlowsMoved, Zenon

LEMMA ReadyDuplex ==
    ASSUME CoreInv, \A d \in Sides : FlowOf(d), NEW s \in Sides, Ready(s)
    PROVE  /\ Duplex(s, st[s], chan[s], chan[Other(s)], part[s], inbound[s])
           /\ TypeOK /\ st[s] \in Side /\ ~Ended(st[s]) /\ Open(st[s])
           /\ chan[s] \in Seq(Frames) /\ chan[Other(s)] \in Seq(Frames)
           /\ Out(s) \in SUBSET Files /\ Sending(st[s], Out(s), part[Other(s)])
<1>1. Duplex(s, st[s], chan[s], chan[Other(s)], part[s], inbound[s])
  BY FlowsDuplex, Zenon
<1>2. TypeOK /\ st[s] \in Side /\ ~Ended(st[s]) /\ Open(st[s])
  BY ReadySide DEF SideOK
<1>3. chan[s] \in Seq(Frames) /\ chan[Other(s)] \in Seq(Frames)
  BY <1>2, OtherSide DEF TypeOK
<1>4. Out(s) \in SUBSET Files
  BY <1>2, OutFiles DEF Out, TypeOK
<1>5. Sending(st[s], Out(s), part[Other(s)])
  BY <1>1, <1>2 DEF Duplex, Flow, OutOK
<1> QED BY <1>1, <1>2, <1>3, <1>4, <1>5

(* The transmitter is between two files. *)
LEMMA DuplexRest ==
    ASSUME NEW s, NEW r, NEW a, NEW b, NEW P, NEW I, Duplex(s, r, a, b, P, I), ~Ended(r),
           NEW q, q.tx # "TryR", q.queue = r.queue, RxView(q) = RxView(r),
           \A f \in Files : q.list[f] # "none" => f \in Out(s),
           \A f \in Files : Waits(r, f) => Waits(q, f),
           \A f \in Files : q.list[f] = "NoState" /\ q.off[f] # 0
                            => q.off[f] = Len(part[Other(s)][f])
    PROVE  Duplex(s, q, a, b, P, I)
<1> DEFINE o == Other(s)
<1>1. /\ Flow(r, st[o], a, b, Out(s), part[o], inbound[o], ver, work.crc, link)
      /\ Flow(st[o], r, b, a, Out(o), P, I, ver, work.crc, link)
  BY DEF Duplex
<1>2. Ended(st[o]) \/ (~Ended(st[o]) /\ TxView(st[o]) = TxView(st[o]))
  OBVIOUS
<1>3. Flow(q, st[o], a, b, Out(s), part[o], inbound[o], ver, work.crc, link)
  BY <1>1, FlowRest, Zenon
<1>4. Flow(st[o], q, b, a, Out(o), P, I, ver, work.crc, link)
  BY <1>1, <1>2, FlowViews, Zenon
<1> QED BY <1>3, <1>4 DEF Duplex

LEMMA DuplexListed ==
    ASSUME TypeOK, NEW s \in Sides, NEW r \in Side, ~Ended(r), r.tx = "GNF", NEW a, NEW b,
           NEW P, NEW I, Duplex(s, r, a, b, P, I)
    PROVE  /\ Duplex(s, Listed(s, r), a, b, P, I) /\ Listed(s, r) \in Side
           /\ ~Ended(Listed(s, r)) /\ Listed(s, r).tx = "GNF"
<1> DEFINE q == Listed(s, r)
<1>1. /\ q \in Side /\ q.tx = r.tx /\ q.queue = r.queue /\ q.ft = r.ft
      /\ RxView(q) = RxView(r) /\ (~NeedsList(r) => q = r)
      /\ NeedsList(r) =>
            /\ q.off = [f \in Files |-> 0]
            /\ q.list = [f \in Files |-> IF r.batchnr < MaxBatch /\ f \in ToSend(s)
                                         THEN "NoState" ELSE "none"]
  BY ListedFacts, Zenon
<1> HIDE DEF q
<1>2. CASE ~NeedsList(r)
  BY <1>1, <1>2 DEF q
<1>3. CASE NeedsList(r)
  <2>1. \A f \in Files : q.off[f] = 0 /\ ~Waits(r, f)
    BY <1>1, <1>3 DEF NeedsList, NoList, Waits
  <2>2. \A f \in Files : q.list[f] # "none" => f \in Out(s)
    BY <1>1, <1>3 DEF ToSend, Out
  <2>3. q.tx # "TryR"
    BY <1>1
  <2>4. Duplex(s, q, a, b, P, I)
    BY <1>1, <2>1, <2>2, <2>3, DuplexRest
  <2> QED BY <1>1, <2>4 DEF q, Ended
<1> QED BY <1>2, <1>3

LEMMA DuplexAnnounced ==
    ASSUME NEW s, NEW r, NEW q, NEW a \in Seq(Frames), NEW b \in Seq(Frames), NEW P, NEW I,
           Duplex(s, q, a, b, P, I), NEW m \in Frames
    PROVE  LET A == Sends(s, a, Announce(s, r)) IN
           /\ Duplex(s, q, A, b, P, I) /\ A \in Seq(Frames)
           /\ Short(Announce(s, r)) /\ Short(Announce(s, r) \o <<m>>)
<1> DEFINE n == Plain("NUL")
<1>1. n \in Frames /\ ~Carrier(n) /\ ~Answer(n)
  BY PlainFrame DEF Carrier, Answer
<1>2. \/ Announce(s, r) = <<>> /\ Announce(s, r) \o <<m>> = <<m>>
      \/ Announce(s, r) = <<n>> /\ Announce(s, r) \o <<m>> = <<n, m>>
  BY AnnounceForms
<1> HIDE DEF n
<1>3. Short(<<>>) /\ Short(<<n>>) /\ Short(<<n, m>>) /\ Short(<<m>>)
  BY <1>1, ShortForms
<1>4. Duplex(s, q, Sends(s, a, <<n>>), b, P, I) /\ Sends(s, a, <<n>>) \in Seq(Frames)
  BY <1>1, <1>3, SendsPlain, SendsType, Zenon
<1>6. Sends(s, a, <<>>) = a
  BY SendsNothing
<1>7. CASE Announce(s, r) = <<>> /\ Announce(s, r) \o <<m>> = <<m>>
  BY <1>3, <1>6, <1>7, Zenon
<1>8. CASE Announce(s, r) = <<n>> /\ Announce(s, r) \o <<m>> = <<n, m>>
  BY <1>3, <1>4, <1>8, Zenon
<1> QED BY <1>2, <1>7, <1>8

LEMMA AnnounceSends ==
    ASSUME NEW s, NEW r, NEW a \in Seq(Frames), NEW m \in Frames
    PROVE  Sends(s, a, Announce(s, r) \o <<m>>) = Sends(s, Sends(s, a, Announce(s, r)), <<m>>)
<1> DEFINE n == Plain("NUL")
<1>1. n \in Frames
  BY PlainFrame
<1>2. \/ Announce(s, r) = <<>> /\ Announce(s, r) \o <<m>> = <<m>>
      \/ Announce(s, r) = <<n>> /\ Announce(s, r) \o <<m>> = <<n, m>>
  BY AnnounceForms
<1> HIDE DEF n
<1>3. Sends(s, a, <<n, m>>) = Sends(s, Sends(s, a, <<n>>), <<m>>)
  BY <1>1, SendsTwo, Zenon
<1>4. Sends(s, a, <<>>) = a
  BY SendsNothing
<1> QED BY <1>2, <1>3, <1>4, Zenon

(* The frames of a file reach the channel exactly when somebody reads them. *)
LEMMA SendsOne ==
    ASSUME NEW s, NEW a, NEW m
    PROVE  LET G == Sends(s, a, <<m>>)
               reads == link /\ ~Ended(st[Other(s)])
           IN  (G = a \o <<m>> /\ link /\ ~Ended(st[Other(s)])) \/ (G = a /\ ~reads)
BY DEF Sends, Over, Ended

(* What follows for the other direction. *)
LEMMA BackView ==
    ASSUME NEW s, NEW r, NEW a \in Seq(Frames), NEW b \in Seq(Frames), NEW P, NEW I,
           Duplex(s, r, a, b, P, I), ~Ended(r), NEW q, RxView(q) = RxView(r),
           NEW m \in Frames, ~Answer(m), NEW G, G = a \o <<m>> \/ G = a
    PROVE  Flow(st[Other(s)], q, b, G, Out(Other(s)), P, I, ver, work.crc, link)
<1> DEFINE o == Other(s)
<1>1. Flow(st[o], r, b, a, Out(o), P, I, ver, work.crc, link)
  BY DEF Duplex
<1>2. Ended(st[o]) \/ (~Ended(st[o]) /\ TxView(st[o]) = TxView(st[o]))
  OBVIOUS
<1>3. Flow(st[o], r, b, a \o <<m>>, Out(o), P, I, ver, work.crc, link)
  BY <1>1, FlowBack, Zenon
<1>4. Flow(st[o], r, b, G, Out(o), P, I, ver, work.crc, link)
  BY <1>1, <1>3, Zenon
<1> QED BY <1>2, <1>4, FlowViews, Zenon

LEMMA TxFileFlows ==
    ASSUME CoreInv, \A d \in Sides : FlowOf(d), NEW s \in Sides, TxFile(s)
    PROVE  \A d \in Sides : FlowOf(d)'
<1> DEFINE r == st[s]
           q == Listed(s, r)
           o == Other(s)
           a == chan[s]
           b == chan[o]
           P == part[s]
           I == inbound[s]
           A == Sends(s, a, Announce(s, r))
<1>1. PICK f \in NextFile(s, q) :
          Tx(s, [q EXCEPT !.list[f] = "Sending", !.cur = f, !.fp = f,
                          !.pos = q.off[f], !.tx = "TryR", !.ft = "Transmit"],
             Announce(s, r) \o <<File(f, q.off[f], ver[f])>>)
  BY DEF TxFile
<1> DEFINE x == [q EXCEPT !.list[f] = "Sending", !.cur = f, !.fp = f,
                          !.pos = q.off[f], !.tx = "TryR", !.ft = "Transmit"]
           m == File(f, q.off[f], ver[f])
           G == Sends(s, A, <<m>>)
<1>2. /\ Ready(s) /\ r.tx = "GNF" /\ UNCHANGED <<work, link, ver, store>>
  BY DEF TxFile, files
<1>3. /\ Duplex(s, r, a, b, P, I) /\ TypeOK /\ r \in Side /\ ~Ended(r)
      /\ a \in Seq(Frames) /\ b \in Seq(Frames)
  BY <1>2, ReadyDuplex, Zenon
<1>4. Duplex(s, q, a, b, P, I) /\ q \in Side /\ ~Ended(q)
  BY <1>2, <1>3, DuplexListed, Zenon
<1>5. f \in Files /\ q.list[f] = "NoState"
  BY <1>3, NextFileFacts, Zenon DEF TypeOK
<1> HIDE DEF q
<1>6. /\ x \in Side /\ x.list = [q.list EXCEPT ![f] = "Sending"] /\ x.cur = f
      /\ x.fp = f /\ x.pos = q.off[f] /\ x.tx = "TryR" /\ x.ft = "Transmit"
      /\ x.off = q.off /\ x.queue = q.queue
      /\ RxView(x) = RxView(q) /\ CView(x) = CView(q)
  BY <1>4, <1>5, StartedFacts
<1>7. q.off[f] \in Nat /\ ver[f] \in Nat /\ q.list \in [Files -> ListStates]
  BY <1>3, <1>4, <1>5 DEF Side, Offsets, List, TypeOK
<1>8. /\ m \in Frames /\ m.cmd = "FILE" /\ m.file = f /\ m.n = q.off[f] /\ m.ver = ver[f]
  BY <1>5, <1>7, CmdFrame DEF File
<1>9. Tx(s, x, Announce(s, r) \o <<m>>)
  BY <1>1
<1> HIDE DEF x, m
<1>10. /\ Duplex(s, q, A, b, P, I) /\ A \in Seq(Frames)
       /\ Sends(s, a, Announce(s, r) \o <<m>>) = G /\ Short(Announce(s, r) \o <<m>>)
  <2>1. Duplex(s, q, A, b, P, I) /\ A \in Seq(Frames) /\ Short(Announce(s, r) \o <<m>>)
    BY <1>3, <1>4, <1>8, DuplexAnnounced, Zenon
  <2> QED BY <1>3, <1>8, <2>1, AnnounceSends
<1> HIDE DEF A
<1>11. (G = A \o <<m>> /\ link /\ ~Ended(st[o])) \/ (G = A /\ ~(link /\ ~Ended(st[o])))
  BY SendsOne, Zenon
<1> HIDE DEF G
<1>12. ~Answer(m) /\ ~Ended(x)
  BY <1>6, <1>8 DEF Answer, Ended
<1>13. Flow(q, st[o], A, b, Out(s), part[o], inbound[o], ver, work.crc, link)
  BY <1>10 DEF Duplex
<1>14. Flow(x, st[o], G, b, Out(s), part[o], inbound[o], ver, work.crc, link)
  <2> DEFINE R == st[o]
  <2>1. (G = A \o <<m>> /\ link /\ ~Ended(R)) \/ (G = A /\ ~(link /\ ~Ended(R)))
    BY <1>11
  <2>2. Flow(q, R, A, b, Out(s), part[o], inbound[o], ver, work.crc, link)
    BY <1>13
  <2>3. /\ A \in Seq(Frames) /\ b \in Seq(Frames) /\ m \in Frames /\ f \in Files
        /\ ~Ended(q) /\ q.list[f] = "NoState"
    BY <1>3, <1>4, <1>5, <1>8, <1>10
  <2>4. Starts(q, x, f) /\ Announces(m, q, f, ver) /\ Carried(G, A, m, link, R)
    BY <1>6, <1>7, <1>8, <2>1, <2>3 DEF Starts, Announces, Carried
  <2> HIDE DEF R, b
  <2> QED BY <2>2, <2>3, <2>4, FlowStart, Zenon DEF R
<1>15. Flow(st[o], x, b, G, Out(o), P, I, ver, work.crc, link)
  <2>1. G = A \o <<m>> \/ G = A
    BY <1>11
  <2>2. RxView(x) = RxView(q) /\ m \in Frames
    BY <1>6, <1>8
  <2> QED BY <1>3, <1>4, <1>10, <1>12, <2>1, <2>2, BackView, Zenon
<1>16. Duplex(s, x, Sends(s, a, Announce(s, r) \o <<m>>), b, P, I)
  BY <1>10, <1>14, <1>15 DEF Duplex
<1> QED BY <1>2, <1>3, <1>6, <1>9, <1>10, <1>12, <1>16, TxFlows, Zenon

LEMMA TxLockedFlows ==
    ASSUME CoreInv, \A d \in Sides : FlowOf(d), NEW s \in Sides, TxLocked(s)
    PROVE  \A d \in Sides : FlowOf(d)'
<1> DEFINE r == st[s]
           q == Listed(s, r)
           o == Other(s)
           a == chan[s]
           b == chan[o]
           P == part[s]
           I == inbound[s]
           A == Sends(s, a, Announce(s, r))
           n == Plain("NUL")
<1>1. PICK f \in NextFile(s, q) :
          Tx(s, [q EXCEPT !.list[f] = "Skipped", !.fp = None, !.ft = "Switch"],
             Announce(s, r))
  BY DEF TxLocked
<1> DEFINE x == [q EXCEPT !.list[f] = "Skipped", !.fp = None, !.ft = "Switch"]
<1>2. /\ Ready(s) /\ r.tx = "GNF" /\ UNCHANGED <<work, link, ver, store>>
  BY DEF TxLocked, files
<1>3. /\ Duplex(s, r, a, b, P, I) /\ TypeOK /\ r \in Side /\ ~Ended(r)
      /\ a \in Seq(Frames) /\ b \in Seq(Frames)
  BY <1>2, ReadyDuplex, Zenon
<1>4. Duplex(s, q, a, b, P, I) /\ q \in Side /\ ~Ended(q) /\ q.tx = "GNF"
  BY <1>2, <1>3, DuplexListed, Zenon
<1>5. f \in Files /\ f \in Out(s) /\ q.list[f] = "NoState"
  BY <1>3, NextFileFacts, Zenon DEF TypeOK, Out
<1>6. Sending(q, Out(s), part[o])
  BY <1>4 DEF Duplex, Flow, OutOK
<1> HIDE DEF q
<1>7. /\ x \in Side /\ x.list = [q.list EXCEPT ![f] = "Skipped"] /\ x.tx = q.tx
      /\ x.ft = "Switch" /\ x.off = q.off /\ x.queue = q.queue /\ RxView(x) = RxView(q)
  BY <1>4, <1>5, SkippedFacts
<1>8. Tx(s, x, Announce(s, r)) /\ n \in Frames
  BY <1>1, PlainFrame
<1> HIDE DEF x, n
<1>9. q.list \in [Files -> ListStates]
  BY <1>4 DEF Side, List
<1>10. \A g \in Files : x.list[g] = IF g = f THEN "Skipped" ELSE q.list[g]
  BY <1>5, <1>7, <1>9
<1>11. /\ \A g \in Files : x.list[g] # "none" => g \in Out(s)
       /\ \A g \in Files : Waits(q, g) => Waits(x, g)
       /\ \A g \in Files : x.list[g] = "NoState" /\ x.off[g] # 0 => x.off[g] = Len(part[o][g])
  BY <1>5, <1>6, <1>7, <1>10 DEF Sending, Waits
<1>12. x.tx # "TryR" /\ ~Ended(x)
  BY <1>4, <1>7 DEF Ended
<1>13. Duplex(s, x, a, b, P, I)
  BY <1>4, <1>7, <1>11, <1>12, DuplexRest
<1>14. Duplex(s, x, A, b, P, I) /\ Short(Announce(s, r))
  BY <1>3, <1>8, <1>13, DuplexAnnounced, Zenon
<1> QED BY <1>2, <1>3, <1>7, <1>8, <1>12, <1>14, TxFlows, Zenon

LEMMA TxNoMoreFlows ==
    ASSUME CoreInv, \A d \in Sides : FlowOf(d), NEW s \in Sides, TxNoMore(s)
    PROVE  \A d \in Sides : FlowOf(d)'
<1> DEFINE r == st[s]
           q == Listed(s, r)
           o == Other(s)
           a == chan[s]
           b == chan[o]
           P == part[s]
           I == inbound[s]
           A == Sends(s, a, Announce(s, r))
           m == Plain("EOB")
           x == [q EXCEPT !.tx = "WLA", !.ft = "Transmit"]
<1>2. /\ Ready(s) /\ r.tx = "GNF" /\ UNCHANGED <<work, link, ver, store>>
      /\ Tx(s, x, Announce(s, r) \o <<m>>)
  BY DEF TxNoMore, files
<1>3. /\ Duplex(s, r, a, b, P, I) /\ TypeOK /\ r \in Side /\ ~Ended(r)
      /\ a \in Seq(Frames) /\ b \in Seq(Frames)
  BY <1>2, ReadyDuplex, Zenon
<1>4. Duplex(s, q, a, b, P, I) /\ q \in Side /\ ~Ended(q) /\ q.tx = "GNF"
  BY <1>2, <1>3, DuplexListed, Zenon
<1>6. Sending(q, Out(s), part[o])
  BY <1>4 DEF Duplex, Flow, OutOK
<1> HIDE DEF q
<1>7. /\ x \in Side /\ x.list = q.list /\ x.tx = "WLA" /\ x.ft = "Transmit"
      /\ x.off = q.off /\ x.queue = q.queue /\ RxView(x) = RxView(q)
  BY <1>4, WaitingFacts, Zenon
<1>8. m \in Frames /\ ~Carrier(m) /\ ~Answer(m)
  BY PlainFrame DEF Carrier, Answer
<1> HIDE DEF x, m
<1>11. /\ \A g \in Files : x.list[g] # "none" => g \in Out(s)
       /\ \A g \in Files : Waits(q, g) => Waits(x, g)
       /\ \A g \in Files : x.list[g] = "NoState" /\ x.off[g] # 0 => x.off[g] = Len(part[o][g])
  BY <1>6, <1>7 DEF Sending, Waits
<1>12. x.tx # "TryR" /\ ~Ended(x)
  BY <1>7 DEF Ended
<1>13. Duplex(s, x, a, b, P, I)
  BY <1>4, <1>7, <1>11, <1>12, DuplexRest
<1>14. /\ Duplex(s, x, A, b, P, I) /\ Short(Announce(s, r) \o <<m>>) /\ A \in Seq(Frames)
       /\ Sends(s, a, Announce(s, r) \o <<m>>) = Sends(s, A, <<m>>)
  <2>1. Duplex(s, x, A, b, P, I) /\ A \in Seq(Frames) /\ Short(Announce(s, r) \o <<m>>)
    BY <1>3, <1>8, <1>13, DuplexAnnounced, Zenon
  <2> QED BY <1>3, <1>8, <2>1, AnnounceSends, Zenon
<1> HIDE DEF A
<1>15. Duplex(s, x, Sends(s, A, <<m>>), b, P, I)
  BY <1>3, <1>8, <1>14, SendsPlain, Zenon
<1>16. Duplex(s, x, Sends(s, a, Announce(s, r) \o <<m>>), b, P, I)
  BY <1>14, <1>15
<1> QED BY <1>2, <1>3, <1>7, <1>12, <1>14, <1>16, TxFlows, Zenon

(* The whole file has been sent: side s waits for the answer. *)
LEMMA DuplexWhole ==
    ASSUME NEW s, NEW q \in Side, NEW a, NEW b, NEW P, NEW I, Duplex(s, q, a, b, P, I),
           ~Ended(q), q.tx = "TryR", q.cur \in Files, NEW x,
           x.list = [q.list EXCEPT ![q.cur] = "IsSent"], x.tx = "GNF", x.off = q.off,
           x.queue = q.queue, RxView(x) = RxView(q)
    PROVE  Duplex(s, x, a, b, P, I)
<1> DEFINE o == Other(s)
           c == q.cur
<1>1. Sending(q, Out(s), part[o])
  BY DEF Duplex, Flow, OutOK
<1>2. q.list[c] = "Sending" /\ q.list \in [Files -> ListStates]
  BY <1>1 DEF Sending, Side, List
<1> HIDE DEF c
<1>3. \A g \in Files : x.list[g] = IF g = c THEN "IsSent" ELSE q.list[g]
  BY <1>2 DEF c
<1>4. /\ \A g \in Files : x.list[g] # "none" => g \in Out(s)
      /\ \A g \in Files : Waits(q, g) => Waits(x, g)
      /\ \A g \in Files : x.list[g] = "NoState" /\ x.off[g] # 0 => x.off[g] = Len(part[o][g])
  BY <1>1, <1>2, <1>3 DEF Sending, Waits
<1>5. x.tx # "TryR"
  OBVIOUS
<1> QED BY <1>4, <1>5, DuplexRest

LEMMA TxReadFlows ==
    ASSUME CoreInv, \A d \in Sides : FlowOf(d), NEW s \in Sides, TxRead(s)
    PROVE  \A d \in Sides : FlowOf(d)'
<1> DEFINE r == st[s]
           o == Other(s)
           F == chan[s]
           B == chan[o]
           P == part[s]
           I == inbound[s]
           q == [r EXCEPT !.ft = "Switch"]
           w == SentWhole(q)
           m == Data(r.fp, ver[r.fp], r.pos + 1)
           a == [w EXCEPT !.pos = @ + 1]
           b == [q EXCEPT !.pos = @ + 1]
           G == Sends(s, F, <<m>>)
<1>1. Tx(s, w, <<>>) \/ Tx(s, a, <<m>>) \/ Tx(s, b, <<m>>)
  <2>1. CASE Tx(s, w, <<>>)
    BY <2>1
  <2>2. ASSUME NEW eof \in {FALSE, (r.pos + 1 = Size[r.fp])},
               Tx(s, [(IF eof THEN w ELSE q) EXCEPT !.pos = @ + 1], <<m>>)
        PROVE  Tx(s, a, <<m>>) \/ Tx(s, b, <<m>>)
    <3>1. CASE eof
      BY <2>2, <3>1
    <3>2. CASE ~eof
      BY <2>2, <3>2
    <3> QED BY <3>1, <3>2
  <2> QED BY <2>1, <2>2 DEF TxRead
<1>2. Ready(s) /\ r.tx = "TryR" /\ UNCHANGED <<work, link, ver, store>>
  BY DEF TxRead, files
<1>3. /\ Duplex(s, r, F, B, P, I) /\ TypeOK /\ r \in Side /\ ~Ended(r) /\ Open(r)
      /\ F \in Seq(Frames) /\ B \in Seq(Frames)
  BY <1>2, ReadyDuplex, Zenon
<1>4. r.fp \in Files /\ r.cur \in Files /\ r.pos \in Nat /\ ver[r.fp] \in Nat
  BY <1>2, <1>3 DEF Open, Side, TypeOK
<1>5. /\ m \in Frames /\ m.cmd = "DATA" /\ m.file = r.fp /\ m.n = r.pos + 1
      /\ m.ver = ver[r.fp]
  <2>1. r.pos + 1 \in Nat
    BY <1>4
  <2>2. m \in Frames
    BY <1>4, <2>1, CmdFrame DEF Data
  <2> QED BY <2>2 DEF Data, Cmd
<1>6. "Switch" \in FtStates
  BY DEF FtStates
<1>7. /\ q \in Side /\ q.ft = "Switch" /\ TxView(q) = TxView(r) /\ RxView(q) = RxView(r)
      /\ CView(q) = CView(r)
  BY <1>3, <1>6, FtFacts, Zenon
<1> HIDE DEF q, m
<1>8. /\ q.cur = r.cur /\ q.fp = r.fp /\ q.tx = "TryR" /\ q.pos = r.pos /\ ~Ended(q)
  BY <1>2, <1>7 DEF TxView, Ended
<1>9. Duplex(s, q, F, B, P, I)
  BY <1>3, <1>7, DuplexView, Zenon
<1>10. /\ w \in Side /\ w.list = [q.list EXCEPT ![q.cur] = "IsSent"] /\ w.tx = "GNF"
       /\ w.ft = q.ft /\ w.pos = q.pos /\ w.off = q.off /\ w.queue = q.queue
       /\ RxView(w) = RxView(q)
  BY <1>4, <1>7, <1>8, SentWholeFacts, Zenon
<1> HIDE DEF w
<1>11. /\ a \in Side /\ a.list = w.list /\ a.tx = w.tx /\ a.ft = w.ft /\ a.off = w.off
       /\ a.queue = w.queue /\ RxView(a) = RxView(w)
  BY <1>10, PosTo, Zenon
<1>12. /\ b \in Side /\ b.list = q.list /\ b.cur = q.cur /\ b.fp = q.fp
       /\ b.tx = q.tx /\ b.ft = q.ft /\ b.pos = q.pos + 1 /\ b.off = q.off
       /\ b.queue = q.queue /\ RxView(b) = RxView(q)
  BY <1>7, PosTo, Zenon
<1> HIDE DEF a, b
<1>13. ~Ended(w) /\ ~Ended(a) /\ ~Ended(b)
  BY <1>8, <1>10, <1>11, <1>12 DEF Ended
<1>14. Duplex(s, w, F, B, P, I)
  BY <1>4, <1>7, <1>8, <1>9, <1>10, DuplexWhole, Zenon
<1>15. Advances(q, b) /\ Carries(m, q, ver)
  BY <1>4, <1>5, <1>8, <1>12 DEF Advances, Carries
<1>16. Carried(G, F, m, link, st[o])
  BY SendsOne, Zenon DEF Carried
<1> HIDE DEF G
<1>17. Flow(q, st[o], F, B, Out(s), part[o], inbound[o], ver, work.crc, link)
  BY <1>9 DEF Duplex
<1>18. Flow(b, st[o], G, B, Out(s), part[o], inbound[o], ver, work.crc, link)
  BY <1>3, <1>5, <1>8, <1>15, <1>16, <1>17, FlowBlock, Zenon
<1>19. Flow(st[o], b, B, G, Out(o), P, I, ver, work.crc, link)
  <2>1. (G = F \o <<m>> \/ G = F) /\ ~Answer(m)
    BY <1>5, <1>16 DEF Carried, Answer
  <2> QED BY <1>3, <1>5, <1>8, <1>9, <1>12, <2>1, BackView, Zenon
<1>20. Duplex(s, b, G, B, P, I)
  BY <1>18, <1>19 DEF Duplex
<1>21. Duplex(s, a, G, B, P, I)
  <2>1. /\ a.list = [b.list EXCEPT ![b.cur] = "IsSent"] /\ a.tx = "GNF" /\ a.off = b.off
        /\ a.queue = b.queue /\ RxView(a) = RxView(b) /\ b.tx = "TryR" /\ b.cur \in Files
    BY <1>4, <1>8, <1>10, <1>11, <1>12
  <2> QED BY <1>12, <1>13, <1>20, <2>1, DuplexWhole, Zenon
<1>22. Short(<<m>>) /\ Short(<<>>) /\ Sends(s, F, <<>>) = F
  BY <1>3, <1>5, ShortForms, SendsNothing
<1>23. CASE Tx(s, w, <<>>)
  BY <1>2, <1>3, <1>10, <1>13, <1>14, <1>22, <1>23, TxFlows, Zenon
<1>24. CASE Tx(s, a, <<m>>)
  BY <1>2, <1>3, <1>11, <1>13, <1>21, <1>22, <1>24, TxFlows, Zenon DEF G
<1>25. CASE Tx(s, b, <<m>>)
  BY <1>2, <1>3, <1>12, <1>13, <1>20, <1>22, <1>25, TxFlows, Zenon DEF G
<1> QED BY <1>1, <1>23, <1>24, <1>25

(* Nothing is pending, and the list is given up. *)
LEMMA DuplexClear ==
    ASSUME NEW s, NEW r, NEW a, NEW b, NEW P, NEW I, Duplex(s, r, a, b, P, I), ~Ended(r),
           Pending(r) = {}, NEW q, q.list = NoList, q.tx # "TryR", q.queue = r.queue,
           RxView(q) = RxView(r) \/ (q.rx # "ReceD" /\ q.rbytes = r.rbytes /\ q.rfp = r.rfp)
    PROVE  Duplex(s, q, a, b, P, I)
<1> DEFINE o == Other(s)
<1>1. /\ Flow(r, st[o], a, b, Out(s), part[o], inbound[o], ver, work.crc, link)
      /\ Flow(st[o], r, b, a, Out(o), P, I, ver, work.crc, link)
  BY DEF Duplex
<1>2. \A f \in Files : q.list[f] = "none" /\ ~Waits(r, f)
  BY DEF NoList, Pending, Waits
<1>3. "none" # "NoState"
  OBVIOUS
<1>4. Flow(q, st[o], a, b, Out(s), part[o], inbound[o], ver, work.crc, link)
  BY <1>1, <1>2, <1>3, FlowRest
<1>5. Flow(st[o], q, b, a, Out(o), P, I, ver, work.crc, link)
  <2>1. CASE RxView(q) = RxView(r)
    <3>1. Ended(st[o]) \/ (~Ended(st[o]) /\ TxView(st[o]) = TxView(st[o]))
      OBVIOUS
    <3> QED BY <1>1, <2>1, <3>1, FlowViews, Zenon
  <2>2. CASE q.rx # "ReceD" /\ q.rbytes = r.rbytes /\ q.rfp = r.rfp
    <3>1. Receiving(r, Out(o), P, ver)
      BY <1>1 DEF Flow, InOK
    <3>2. q.rbytes # 0 /\ q.rfp \in Files => q.rfp \in Out(o) /\ Size[q.rfp] > 1
      BY <2>2, <3>1 DEF Receiving
    <3> QED BY <1>1, <2>2, <3>2, FlowIdle, Zenon
  <2> QED BY <2>1, <2>2
<1> QED BY <1>4, <1>5 DEF Duplex

LEMMA TxWaitFlows ==
    ASSUME CoreInv, \A d \in Sides : FlowOf(d), NEW s \in Sides, TxWait(s)
    PROVE  \A d \in Sides : FlowOf(d)'
<1> DEFINE r == st[s]
           F == chan[s]
           B == chan[Other(s)]
           P == part[s]
           I == inbound[s]
           q == [r EXCEPT !.ft = "Switch"]
           c == Cleared(q)
           d == [c EXCEPT !.tx = "Done", !.rx = "Done"]
           n == NewBatch(q)
<1>1. /\ Ready(s) /\ r.tx = "WLA" /\ Tx(s, Waited(r), <<>>)
      /\ UNCHANGED <<work, link, ver, store>>
  BY DEF TxWait, files
<1>2. /\ Duplex(s, r, F, B, P, I) /\ TypeOK /\ r \in Side /\ ~Ended(r)
      /\ F \in Seq(Frames)
  BY <1>1, ReadyDuplex, Zenon
<1>3. Waited(r) = q \/ (Pending(r) = {} /\ Waited(r) \in {c, d, n})
  BY DEF Waited
<1>4. "Switch" \in FtStates
  BY DEF FtStates
<1>5. /\ q \in Side /\ q.ft = "Switch" /\ TxView(q) = TxView(r) /\ RxView(q) = RxView(r)
      /\ CView(q) = CView(r)
  BY <1>2, <1>4, FtFacts, Zenon
<1> HIDE DEF q
<1>6. ~Ended(q) /\ q.list = r.list /\ q.queue = r.queue /\ q.tx = "WLA"
  BY <1>1, <1>5 DEF TxView, Ended
<1>7. Duplex(s, q, F, B, P, I)
  BY <1>2, <1>5, DuplexView, Zenon
<1>8. /\ c \in Side /\ c.list = NoList /\ c.tx = q.tx /\ c.queue = q.queue /\ c.ft = q.ft
      /\ RxView(c) = RxView(q)
  BY <1>5, ClearedFacts, Zenon
<1> HIDE DEF c
<1>9. /\ d \in Side /\ d.tx = "Done" /\ d.rx = "Done" /\ d.list = c.list /\ d.ft = c.ft
      /\ d.queue = c.queue /\ d.rbytes = c.rbytes /\ d.rfp = c.rfp
  BY <1>8, ClosingFacts, Zenon
<1>10. /\ n \in Side /\ n.tx = "GNF" /\ n.rx = "WaitF" /\ n.list = NoList /\ n.ft = q.ft
       /\ n.queue = q.queue /\ n.rbytes = q.rbytes /\ n.rfp = q.rfp
  <2>1. q.batchnr + 1 \in Nat
    BY <1>5 DEF Side
  <2>2. /\ SideOK(n, work.minor, Owes(s)) /\ n.tx = "GNF" /\ n.rx = "WaitF"
        /\ n.list = NoList /\ n.ft = q.ft
        /\ n.queue = q.queue /\ n.rbytes = q.rbytes /\ n.rfp = q.rfp
    BY <1>5, <1>6, <2>1, NewBatchFacts, Zenon
  <2> QED BY <2>2 DEF SideOK
<1> HIDE DEF d, n
<1>11. Short(<<>>) /\ Sends(s, F, <<>>) = F
  BY <1>2, NothingShort, SendsNothing
<1>12. ASSUME Pending(r) = {}
       PROVE  Duplex(s, c, F, B, P, I) /\ Duplex(s, d, F, B, P, I) /\ Duplex(s, n, F, B, P, I)
  <2>1. Pending(q) = {}
    BY <1>6, <1>12 DEF Pending
  <2>2. c.rbytes = q.rbytes /\ c.rfp = q.rfp
    BY <1>8 DEF RxView
  <2>3. c.tx # "TryR" /\ d.tx # "TryR" /\ n.tx # "TryR" /\ d.rx # "ReceD" /\ n.rx # "ReceD"
    BY <1>6, <1>8, <1>9, <1>10
  <2>4. Duplex(s, c, F, B, P, I)
    BY <1>6, <1>7, <1>8, <2>1, <2>3, DuplexClear, Zenon
  <2>5. /\ d.list = NoList /\ d.queue = q.queue /\ d.rbytes = q.rbytes /\ d.rfp = q.rfp
    BY <1>8, <1>9, <2>2
  <2>6. Duplex(s, d, F, B, P, I)
    BY <1>6, <1>7, <2>1, <2>3, <2>5, DuplexClear, Zenon
  <2>7. Duplex(s, n, F, B, P, I)
    BY <1>6, <1>7, <1>10, <2>1, <2>3, DuplexClear, Zenon
  <2> QED BY <2>4, <2>6, <2>7
<1>13. Waited(r) \in Side /\ Duplex(s, Waited(r), F, B, P, I)
  BY <1>3, <1>5, <1>7, <1>8, <1>9, <1>10, <1>12
<1> HIDE DEF r
<1>14. Duplex(s, Waited(r), Sends(s, F, <<>>), B, P, I)
  BY <1>11, <1>13
<1> QED BY <1>1, <1>2, <1>11, <1>13, <1>14, TxFlows, Zenon

(* The messages of the queue: what is disposed of is there on the other side. *)
LEMMA TxMessagesFlows ==
    ASSUME CoreInv, \A d \in Sides : FlowOf(d), NEW s \in Sides, TxMessages(s)
    PROVE  /\ \A d \in Sides : FlowOf(d)'
           /\ gone'[Other(s)] = gone[Other(s)]
           /\ \A g \in gone'[s] : \/ g \in gone[s]
                                  \/ g \in Out(s) /\ inbound[Other(s)][g] = Content(g, ver[g])
<1> DEFINE S == st[s]
           o == Other(s)
           F == chan[s]
           B == chan[o]
           P == part[s]
           I == inbound[s]
           Q == S.queue
           r == [S EXCEPT !.ft = "Transmit", !.queue = <<>>]
           a == Applied(r, Q)[Len(Q)]
           x == a.r
<1>1. /\ Ready(s) /\ Tx(s, x, <<>>) /\ gone' = [gone EXCEPT ![s] = @ \cup a.got]
      /\ UNCHANGED <<work, link, ver, store>>
  BY DEF TxMessages
<1>2. /\ Duplex(s, S, F, B, P, I) /\ TypeOK /\ S \in Side /\ ~Ended(S)
      /\ F \in Seq(Frames) /\ Out(s) \in SUBSET Files
  BY <1>1, ReadyDuplex, Zenon
<1>3. /\ r \in Side /\ r.list = S.list /\ r.cur = S.cur /\ r.fp = S.fp /\ r.pos = S.pos
      /\ r.tx = S.tx /\ r.ft = "Transmit" /\ r.off = S.off /\ r.queue = <<>>
      /\ RxView(r) = RxView(S)
  BY <1>2, EmptiedFacts, Zenon
<1> HIDE DEF r
<1>4. Q \in Queue
  BY <1>2 DEF Side
<1>5. Progress(r, a, Q, Len(Q))
  BY <1>3, <1>4, ProgressAll, Zenon
<1> HIDE DEF a
<1>6. x \in Side /\ RxView(x) = RxView(S) /\ x.ft \in {"Transmit", "crash"}
  BY <1>3, <1>5 DEF Progress, Same
<1>7. /\ Flow(S, st[o], F, B, Out(s), part[o], inbound[o], ver, work.crc, link)
      /\ Flow(st[o], S, B, F, Out(o), P, I, ver, work.crc, link)
  BY <1>2 DEF Duplex
<1>8. /\ Flow(a.r, st[o], F, B, Out(s), part[o], inbound[o], ver, work.crc, link)
      /\ Arrived(a.got, Out(s), inbound[o], ver)
  <2>1. Empties(S, r, a)
    BY <1>3, <1>5 DEF Empties
  <2> QED BY <1>2, <2>1, <1>7, FlowMessages, Zenon
<1> HIDE DEF x
<1>9. Flow(st[o], x, B, F, Out(o), P, I, ver, work.crc, link)
  <2>1. Ended(st[o]) \/ (~Ended(st[o]) /\ TxView(st[o]) = TxView(st[o]))
    OBVIOUS
  <2> QED BY <1>2, <1>6, <1>7, <2>1, FlowViews, Zenon
<1>10. Duplex(s, x, F, B, P, I)
  BY <1>8, <1>9 DEF Duplex, x
<1>11. Short(<<>>) /\ Sends(s, F, <<>>) = F
  BY <1>2, NothingShort, SendsNothing
<1>12. \A d \in Sides : FlowOf(d)'
  BY <1>1, <1>2, <1>6, <1>10, <1>11, TxFlows, Zenon
<1>13. gone \in [Sides -> SUBSET Files]
  BY <1>2 DEF TypeOK
<1>14. o \in Sides /\ o # s
  BY OtherSide
<1> HIDE DEF o
<1>15. gone'[s] = gone[s] \cup a.got /\ gone'[o] = gone[o]
  BY <1>1, <1>13, <1>14
<1> QED BY <1>8, <1>12, <1>15 DEF o, Arrived

-----------------------------------------------------------------------------
(* The steps of a side, of the connection, and between two sessions. *)

(* What a side has disposed of was one of its files. *)
Disposed == \A s \in Sides : gone[s] \subseteq Out(s)

(* What may be new: a whole file in an inbound, and a file that has arrived disposed of. *)
Grown ==
    /\ \A s \in Sides : Grows(s)
    /\ \A s \in Sides : \A g \in gone'[s] :
          g \in gone[s] \/ (g \in Out(s) /\ inbound[Other(s)][g] = Content(g, ver[g]))
    /\ work' = work /\ ver' = ver

LEMMA GrownDelivered ==
    ASSUME TypeOK, Disposed, Delivered, Grown
    PROVE  Disposed' /\ Delivered'
<1>1. \A s \in Sides : Out(s)' = Out(s) /\ Out(s) \subseteq Files
  BY OutFiles DEF Out, TypeOK, Grown
<1>2. \A s \in Sides : \A g \in gone'[s] :
         g \in Out(s) /\ inbound[Other(s)][g] = Content(g, ver[g])
  BY DEF Grown, Disposed, Delivered
<1>3. Disposed'
  BY <1>1, <1>2 DEF Disposed
<1>4. ASSUME NEW s \in Sides, NEW g \in gone'[s]
      PROVE  inbound'[Other(s)][g] = Content(g, ver'[g])
  <2>1. g \in Files /\ inbound[Other(s)][g] = Content(g, ver[g])
    BY <1>1, <1>2, <1>4
  <2>2. inbound'[Other(s)][g] \in {inbound[Other(s)][g], Content(g, ver[g])}
    BY <2>1, OtherSide DEF Grown, Grows
  <2> QED BY <2>1, <2>2 DEF Grown
<1> QED BY <1>3, <1>4 DEF Delivered

(* Nothing is disposed of and nothing arrives. *)
LEMMA QuietGrown ==
    ASSUME UNCHANGED <<work, ver, gone, store>>
    PROVE  Grown
BY DEF Grown, Grows, store

LEMMA ReceiveGrown ==
    ASSUME CoreInv, Resumable(work), \A d \in Sides : FlowOf(d), NEW s \in Sides, Receive(s)
    PROVE  (\A d \in Sides : FlowOf(d)') /\ Grown
<1>1. /\ \A d \in Sides : FlowOf(d)'
      /\ Grows(s) /\ inbound'[Other(s)] = inbound[Other(s)]
      /\ work' = work /\ ver' = ver /\ gone' = gone
  BY ReceiveFlows, Zenon
<1>2. \A d \in Sides : d = s \/ d = Other(s)
  BY DEF Sides, Other
<1>3. Grows(Other(s))
  BY <1>1 DEF Grows
<1> QED BY <1>1, <1>2, <1>3 DEF Grown

LEMMA TransmitGrown ==
    ASSUME CoreInv, \A d \in Sides : FlowOf(d), NEW s \in Sides, Transmit(s)
    PROVE  (\A d \in Sides : FlowOf(d)') /\ Grown
<1>1. CASE TxMessages(s)
  <2>1. /\ \A d \in Sides : FlowOf(d)'
        /\ gone'[Other(s)] = gone[Other(s)]
        /\ \A g \in gone'[s] : \/ g \in gone[s]
                               \/ g \in Out(s) /\ inbound[Other(s)][g] = Content(g, ver[g])
    BY <1>1, TxMessagesFlows, Zenon
  <2>2. \A d \in Sides : d = s \/ d = Other(s)
    BY DEF Sides, Other
  <2>3. UNCHANGED <<work, ver, store>>
    BY <1>1 DEF TxMessages
  <2>4. \A d \in Sides : Grows(d)
    BY <2>3 DEF Grows, store
  <2> QED BY <2>1, <2>2, <2>3, <2>4 DEF Grown
<1>2. CASE TxFile(s)
  <2>1. UNCHANGED <<work, ver, gone, store>>
    BY <1>2 DEF TxFile, files
  <2> QED BY <1>2, <2>1, QuietGrown, TxFileFlows
<1>3. CASE TxLocked(s)
  <2>1. UNCHANGED <<work, ver, gone, store>>
    BY <1>3 DEF TxLocked, files
  <2> QED BY <1>3, <2>1, QuietGrown, TxLockedFlows
<1>4. CASE TxNoMore(s)
  <2>1. UNCHANGED <<work, ver, gone, store>>
    BY <1>4 DEF TxNoMore, files
  <2> QED BY <1>4, <2>1, QuietGrown, TxNoMoreFlows
<1>5. CASE TxRead(s)
  <2>1. UNCHANGED <<work, ver, gone, store>>
    BY <1>5 DEF TxRead, files
  <2> QED BY <1>5, <2>1, QuietGrown, TxReadFlows
<1>6. CASE TxWait(s)
  <2>1. UNCHANGED <<work, ver, gone, store>>
    BY <1>6 DEF TxWait, files
  <2> QED BY <1>6, <2>1, QuietGrown, TxWaitFlows
<1> QED BY <1>1, <1>2, <1>3, <1>4, <1>5, <1>6 DEF Transmit

(* A side comes to its end. *)
LEMMA StopFlows ==
    ASSUME TypeOK, \A d \in Sides : FlowOf(d), NEW s \in Sides, NEW q, Ended(q),
           st' = [st EXCEPT ![s] = q], UNCHANGED <<work, link, chan, ver, store>>
    PROVE  \A d \in Sides : FlowOf(d)'
<1>1. Duplex(s, st[s], chan[s], chan[Other(s)], part[s], inbound[s])
  BY FlowsDuplex, Zenon
<1>2. Duplex(s, q, chan[s], chan[Other(s)], part[s], inbound[s])
  BY <1>1, DuplexView, Zenon
<1>3. /\ Duplex(s, q, chan'[s], chan'[Other(s)], part'[s], inbound'[s])
      /\ part'[Other(s)] = part[Other(s)] /\ inbound'[Other(s)] = inbound[Other(s)]
      /\ work' = work /\ link' = link /\ ver' = ver
  BY <1>2 DEF store
<1> QED BY <1>3, FlowsMoved, Zenon

LEMMA EndGrown ==
    ASSUME CoreInv, \A d \in Sides : FlowOf(d), NEW s \in Sides,
           Finish(s) \/ Lost(s) \/ Expire(s)
    PROVE  (\A d \in Sides : FlowOf(d)') /\ Grown
<1>1. TypeOK /\ st[s] \in Side
  BY DEF CoreInv, TypeOK
<1>2. UNCHANGED <<work, link, chan, ver, gone, store>>
  BY DEF Finish, Lost, Expire, files
<1>3. CASE Finish(s)
  <2> DEFINE q == [st[s] EXCEPT !.ft = "good"]
  <2>1. st' = [st EXCEPT ![s] = q]
    BY <1>3 DEF Finish
  <2>2. "good" \in FtStates
    BY DEF FtStates
  <2>3. q.ft = "good"
    BY <1>1, <2>2, FtFacts, Zenon
  <2> HIDE DEF q
  <2>4. Ended(q)
    BY <2>3 DEF Ended
  <2> QED BY <1>1, <1>2, <2>1, <2>4, StopFlows, QuietGrown
<1>4. CASE Lost(s) \/ Expire(s)
  <2> DEFINE q == Failed(st[s])
  <2>1. st' = [st EXCEPT ![s] = q]
    BY <1>4 DEF Lost, Expire
  <2>2. q.ft = "bad"
    <3>1. Cleared(st[s]) \in Side
      BY <1>1, ClearedFacts, Zenon
    <3>2. "bad" \in FtStates
      BY DEF FtStates
    <3>3. [Cleared(st[s]) EXCEPT !.ft = "bad"].ft = "bad"
      BY <3>1, <3>2, FtFacts, Zenon
    <3> QED BY <3>3 DEF Failed
  <2> HIDE DEF q
  <2>3. Ended(q)
    BY <2>2 DEF Ended
  <2> QED BY <1>1, <1>2, <2>1, <2>3, StopFlows, QuietGrown
<1> QED BY <1>3, <1>4

LEMMA BreakGrown ==
    ASSUME CoreInv, \A d \in Sides : FlowOf(d), Break
    PROVE  (\A d \in Sides : FlowOf(d)') /\ Grown
<1>1. TypeOK /\ chan["org"] \in Seq(Frames) /\ chan["ans"] \in Seq(Frames)
  BY DEF CoreInv, TypeOK, Sides
<1>2. link' = FALSE /\ UNCHANGED <<work, st, ver, gone, store>>
  BY DEF Break, files
<1>3. PICK i \in 0..Len(chan["org"]), j \in 0..Len(chan["ans"]) :
         chan' = [chan EXCEPT !["org"] = SubSeq(@, 1, i), !["ans"] = SubSeq(@, 1, j)]
  BY DEF Break
<1>4. chan'["org"] = SubSeq(chan["org"], 1, i) /\ chan'["ans"] = SubSeq(chan["ans"], 1, j)
  BY <1>1, <1>3 DEF TypeOK, Sides
<1>5. ASSUME NEW s \in Sides PROVE FlowOf(s)'
  <2> DEFINE o == Other(s)
             F == chan[s]
             B == chan[o]
  <2>1. Flow(st[s], st[o], F, B, Out(s), part[o], inbound[o], ver, work.crc, link)
    BY <1>5 DEF FlowOf
  <2>2. F \in Seq(Frames) /\ B \in Seq(Frames)
    BY <1>1, OtherSide DEF TypeOK
  <2>3. PICK x \in 0..Len(F), y \in 0..Len(B) :
            chan'[s] = SubSeq(F, 1, x) /\ chan'[o] = SubSeq(B, 1, y)
    <3>1. CASE s = "org"
      BY <1>3, <1>4, <3>1 DEF Other
    <3>2. CASE s = "ans"
      BY <1>3, <1>4, <3>2 DEF Other
    <3> QED BY <3>1, <3>2 DEF Sides
  <2>4. Flow(st[s], st[o], SubSeq(F, 1, x), SubSeq(B, 1, y), Out(s), part[o], inbound[o],
             ver, work.crc, FALSE)
    BY <2>1, <2>2, <2>3, FlowLess, Zenon
  <2>5. Out(s)' = Out(s)
    BY <1>2 DEF Out
  <2>6. Flow(st'[s], st'[o], chan'[s], chan'[o], Out(s)', part'[o], inbound'[o], ver',
             work'.crc, link')
    BY <1>2, <2>3, <2>4, <2>5 DEF store
  <2> QED BY <2>6 DEF FlowOf
<1> QED BY <1>2, <1>5, QuietGrown

(* A session begins: only what is stored matters. *)
LEMMA FlowNew ==
    ASSUME NEW O, NEW P, NEW I, NEW v, NEW crc, NEW lk, Stored(P, I, v, crc)
    PROVE  Flow(NewSide, NewSide, <<>>, <<>>, O, P, I, v, crc, lk)
<1> DEFINE N == NewSide
<1>1. /\ N.tx = "GNF" /\ N.rx = "WaitF" /\ N.rbytes = 0 /\ N.list = NoList /\ N.queue = <<>>
  BY DEF NewSide
<1>2. \A f \in Files : N.list[f] = "none"
  BY <1>1 DEF NoList
<1>3. Len(<<>>) = 0
  OBVIOUS
<1>4. 1..0 = {}
  OBVIOUS
<1>5. /\ \A T : Each(<<>>, T) /\ Once(<<>>, T) /\ \A f : ~Says(<<>>, T, f)
      /\ Linked(<<>>)
  BY <1>3, <1>4 DEF Each, Once, Says, Linked
<1> HIDE DEF N
<1>6. InOK(N, <<>>, O, P, v)
  BY <1>1, <1>5 DEF InOK, Receiving, Forward
<1>7. OutOK(N, <<>>, O, P, I, v)
  <2>1. Sending(N, O, P)
    BY <1>1, <1>2 DEF Sending
  <2>2. Backward(N, <<>>, O, P, I, v)
    BY <1>1, <1>5 DEF Backward
  <2> QED BY <2>1, <2>2 DEF OutOK
<1>8. BothOK(N, N, <<>>, <<>>, lk)
  BY <1>1, <1>5 DEF BothOK, Turned, Pace
<1> QED BY <1>6, <1>7, <1>8 DEF Flow, N

LEMMA NewSessionGrown ==
    ASSUME CoreInv, \A d \in Sides : FlowOf(d), NewSession
    PROVE  (\A d \in Sides : FlowOf(d)') /\ Grown
<1>1. /\ chan' = [s \in Sides |-> <<>>] /\ st' = [s \in Sides |-> NewSide]
      /\ UNCHANGED <<work, ver, gone, store>>
  BY DEF NewSession, files
<1>2. ASSUME NEW s \in Sides PROVE FlowOf(s)'
  <2> DEFINE o == Other(s)
  <2>1. o \in Sides
    BY OtherSide
  <2>2. Stored(part[o], inbound[o], ver, work.crc)
    BY DEF FlowOf, Flow
  <2>3. \A k : Flow(NewSide, NewSide, <<>>, <<>>, Out(s), part[o], inbound[o], ver, work.crc, k)
    BY <2>2, FlowNew, Zenon
  <2>4. Out(s)' = Out(s)
    BY <1>1 DEF Out
  <2>5. st'[s] = NewSide /\ st'[o] = NewSide /\ chan'[s] = <<>> /\ chan'[o] = <<>>
    BY <1>1, <2>1
  <2> HIDE DEF o
  <2>6. Flow(st'[s], st'[o], chan'[s], chan'[o], Out(s)', part'[o], inbound'[o], ver',
             work'.crc, link')
    BY <1>1, <2>3, <2>4, <2>5 DEF store
  <2> QED BY <2>6 DEF FlowOf, o
<1> QED BY <1>1, <1>2, QuietGrown

(* A file is replaced only while it waits, and only where checksums are used. *)
LEMMA ChangeDelivered ==
    ASSUME CoreInv, Resumable(work), \A d \in Sides : FlowOf(d), Disposed, Delivered,
           NEW f \in Files, Change(f)
    PROVE  (\A d \in Sides : FlowOf(d)') /\ Disposed' /\ Delivered'
<1>1. /\ Ended(st["org"]) /\ Ended(st["ans"]) /\ "change" \in work.faults
      /\ ver' = [ver EXCEPT ![f] = @ + 1]
      /\ UNCHANGED <<work, link, chan, st, gone, store>>
  BY DEF Change, Over, Ended, Fault
<1>2. TypeOK /\ ver \in [Files -> Nat] /\ gone \in [Sides -> SUBSET Files]
  BY DEF CoreInv, TypeOK
<1>3. PICK s \in Sides : f \in ToSend(s)
  BY DEF Change
<1>4. work.crc = TRUE
  BY <1>1 DEF Resumable
<1>5. ASSUME NEW d \in Sides PROVE FlowOf(d)'
  <2> DEFINE o == Other(d)
  <2>1. Ended(st[d]) /\ Ended(st[o])
    BY <1>1 DEF Sides, Other
  <2>2. Stored(part[o], inbound[o], ver, work.crc)
    BY DEF FlowOf, Flow
  <2>3. Stored(part[o], inbound[o], ver', work.crc)
    BY <1>4, <2>2 DEF Stored
  <2>4. Flow(st[d], st[o], chan[d], chan[o], Out(d), part[o], inbound[o], ver', work.crc, link)
    BY <2>1, <2>3 DEF Flow, InOK, OutOK, BothOK
  <2>5. Out(d)' = Out(d)
    BY <1>1 DEF Out
  <2>6. Flow(st'[d], st'[o], chan'[d], chan'[o], Out(d)', part'[o], inbound'[o], ver',
             work'.crc, link')
    BY <1>1, <2>4, <2>5 DEF store
  <2> QED BY <2>6 DEF FlowOf
<1>6. Disposed'
  BY <1>1 DEF Disposed, Out
<1>7. \A d \in Sides : f \notin gone[d]
  <2>1. f \in Out(s) /\ f \notin gone[s]
    BY <1>3 DEF ToSend, Out
  <2>2. Out("org") \cap Out("ans") = {}
    BY DEF Resumable, Out
  <2> QED BY <2>1, <2>2 DEF Disposed, Sides
<1>8. \A d \in Sides : \A g \in gone[d] : ver'[g] = ver[g]
  BY <1>1, <1>2, <1>7
<1>9. Delivered'
  BY <1>1, <1>8 DEF Delivered, store
<1> QED BY <1>5, <1>6, <1>9

-----------------------------------------------------------------------------

DeliveredInv == Resumable(work) => (\A s \in Sides : FlowOf(s)) /\ Disposed /\ Delivered

LEMMA DeliveredInit == Init => DeliveredInv
<1> SUFFICES ASSUME Init PROVE (\A s \in Sides : FlowOf(s)) /\ Disposed /\ Delivered
  BY DEF DeliveredInv
<1>1. ASSUME NEW s \in Sides PROVE FlowOf(s)
  <2> DEFINE o == Other(s)
  <2>1. o \in Sides
    BY OtherSide
  <2> HIDE DEF o
  <2>2. \A f \in Files : part[o][f] = <<>> /\ inbound[o][f] = <<>> /\ ver[f] = 1
    BY <2>1 DEF Init
  <2>3. \A f \in Files : Len(part[o][f]) = 0 /\ 1..Len(part[o][f]) = {}
    BY <2>2
  <2>4. Stored(part[o], inbound[o], ver, work.crc)
    BY <2>2, <2>3 DEF Stored
  <2>5. Flow(NewSide, NewSide, <<>>, <<>>, Out(s), part[o], inbound[o], ver, work.crc, link)
    BY <2>4, FlowNew, Zenon
  <2>6. st[s] = NewSide /\ st[o] = NewSide /\ chan[s] = <<>> /\ chan[o] = <<>>
    BY <2>1 DEF Init
  <2> QED BY <2>5, <2>6 DEF FlowOf, o
<1>2. \A s \in Sides : gone[s] = {}
  BY DEF Init
<1> QED BY <1>1, <1>2 DEF Disposed, Delivered

LEMMA DeliveredNext == CoreInv /\ DeliveredInv /\ [Next]_vars => DeliveredInv'
<1> SUFFICES ASSUME CoreInv, DeliveredInv, [Next]_vars, Resumable(work')
             PROVE  (\A s \in Sides : FlowOf(s)') /\ Disposed' /\ Delivered'
  BY DEF DeliveredInv
<1>1. work' = work
  BY DEF Next, Step, Receive, Transmit, TxFile, TxLocked, TxNoMore, TxRead, TxMessages,
         TxWait, Finish, Lost, Expire, Break, NewSession, Change, vars
<1>2. Resumable(work) /\ (\A s \in Sides : FlowOf(s)) /\ Disposed /\ Delivered /\ TypeOK
  BY <1>1 DEF DeliveredInv, CoreInv
<1>3. ASSUME (\A d \in Sides : FlowOf(d)') /\ Grown
      PROVE  (\A s \in Sides : FlowOf(s)') /\ Disposed' /\ Delivered'
  BY <1>2, <1>3, GrownDelivered
<1>4. ASSUME NEW s \in Sides, Receive(s) PROVE (\A d \in Sides : FlowOf(d)') /\ Grown
  BY <1>2, <1>4, ReceiveGrown
<1>5. ASSUME NEW s \in Sides, Transmit(s) PROVE (\A d \in Sides : FlowOf(d)') /\ Grown
  BY <1>2, <1>5, TransmitGrown
<1>6. ASSUME NEW s \in Sides, Finish(s) \/ Lost(s) \/ Expire(s)
      PROVE  (\A d \in Sides : FlowOf(d)') /\ Grown
  BY <1>2, <1>6, EndGrown
<1>7. ASSUME Break PROVE (\A d \in Sides : FlowOf(d)') /\ Grown
  BY <1>2, <1>7, BreakGrown
<1>8. ASSUME NewSession PROVE (\A d \in Sides : FlowOf(d)') /\ Grown
  BY <1>2, <1>8, NewSessionGrown
<1>9. ASSUME NEW f \in Files, Change(f)
      PROVE  (\A d \in Sides : FlowOf(d)') /\ Disposed' /\ Delivered'
  BY <1>2, <1>9, ChangeDelivered
<1>10. CASE UNCHANGED vars
  <2>1. \A d \in Sides : FlowOf(d)' = FlowOf(d)
    BY <1>10 DEF vars, FlowOf, Out
  <2> QED BY <1>2, <1>10, <2>1 DEF vars, Disposed, Delivered, Out
<1> QED BY <1>3, <1>4, <1>5, <1>6, <1>7, <1>8, <1>9, <1>10 DEF Next, Step

(* A file that a side has disposed of is complete on the other side, and what it was when *)
(* it was sent (binkp_process_messages executes the disposition on an M_GOT): over any    *)
(* number of sessions, breaks, restarts, skips and replacements, where a side has at most *)
(* one file of several blocks, the two sides send no file of the same name, what is       *)
(* received can be moved, and checksums are used if a waiting file may be replaced.       *)
THEOREM BinkpDelivered == Spec => [](Resumable(work) => Delivered)
<1>1. DeliveredInv => (Resumable(work) => Delivered)
  BY DEF DeliveredInv
<1> QED BY <1>1, BinkpInvariant, DeliveredInit, DeliveredNext, PTL DEF Spec
=============================================================================
