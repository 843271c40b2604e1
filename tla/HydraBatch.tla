----------------------------- MODULE HydraBatch -----------------------------
(***************************************************************************)
(* One batch of the Hydra protocol between two mailers (mbcico/hydra.c,    *)
(* hydra_batch).  Both sides send and receive at the same time: each runs  *)
(* a transmitter and a receiver, driven by the packets that arrive.        *)
(*                                                                         *)
(* Only the states in which hydra_batch waits are states here; START,      *)
(* INIT, NextFile, ToFName, FINFO, SkipFile, EOF, END, ToData, BadPos,     *)
(* Timer, HdxLink, Retries, RPos and OkEOF are passed through without      *)
(* reading a packet and belong to the step that enters them.               *)
(*                                                                         *)
(* The line keeps packets in order and may lose them: hyrxpkt drops what   *)
(* fails its checksum.  A file is a sequence of blocks and a position      *)
(* counts blocks; a block is known by the file and position it was read at.*)
(* The window and what the receiver holds of each file are given by the    *)
(* workload.                                                               *)
(***************************************************************************)
EXTENDS Integers, Sequences, FiniteSets

CONSTANTS Files,       \* files, each of one side
          Size,        \* Size[f]: blocks of f
          Workloads,   \* what a batch may start with
          Retries,     \* retries before a side gives up, 10
          HdxRetries,  \* resyncs before the answering side takes turns, 4
          Capacity     \* packets the line holds

Sides == {"org", "ans"}

Peer(n) == IF n = "org" THEN "ans" ELSE "org"

\* The argument of FINFO at the end of the batch.
EndOfBatch == "end"

\* A packet fails its checksum, a file cannot be opened, read, written or closed, the
\* carrier is lost.
FaultKinds == {"loss", "open", "read", "write", "close", "carrier"}

\* out: the files of each side, in order; part: blocks the receiver already has; locked: files
\* the sender cannot open; early: timers may expire although the answer is on its way.
Workload ==
    [out: [Sides -> Seq(Files)], part: [Files -> Nat], locked: SUBSET Files, window: Nat,
     early: BOOLEAN, faults: SUBSET FaultKinds, limit: Nat]

ASSUME HydraAssumption ==
    /\ Size \in [Files -> Nat] /\ EndOfBatch \notin Files
    /\ Retries \in Nat \ {0} /\ HdxRetries \in Nat /\ Capacity \in Nat \ {0}

ASSUME WorkloadAssumption ==
    /\ Workloads \subseteq Workload
    /\ \A w \in Workloads : \A f \in Files : w.part[f] <= Size[f]

VARIABLES work,     \* the workload
          tx,       \* transmitters
          rx,       \* receivers
          hdxlink,  \* the side sends only while it does not receive
          link,     \* link[n]: packets on their way to n
          inbox,    \* inbox[f]: blocks the receiver of f has written
          sent,     \* files the sender has disposed of
          refused,  \* files a side could not or would not transfer
          faults    \* faults that may still happen

vars == <<work, tx, rx, hdxlink, link, inbox, sent, refused, faults>>

Packet(type, file, pos, id) == [type |-> type, file |-> file, pos |-> pos, id |-> id]

Signal(type) == Packet(type, EndOfBatch, 0, 0)

Number(type, pos) == Packet(type, EndOfBatch, pos, 0)

Ended(n) == tx[n].st \in {"DONE", "Abort"}

Live(n) == ~Ended(n)

Blocks(f) == [i \in 1..Size[f] |-> <<f, i - 1>>]

Fault(kind) == kind \in work.faults /\ faults > 0 /\ faults' = faults - 1

(***************************************************************************)
(* Line.                                                                   *)
(***************************************************************************)

\* n leaves rest unread and sends out; a side that ended reads no more.
Exchange(n, rest, out) ==
    link' = [link EXCEPT ![n] = rest,
                         ![Peer(n)] = IF Live(Peer(n)) THEN @ \o out ELSE @]

Send(n, out) == Exchange(n, link[n], out)

Answer(n, out) == Exchange(n, Tail(link[n]), out)

Arrived(n, type) == Live(n) /\ link[n] # <<>> /\ Head(link[n]).type = type

Room(n) == Len(link[Peer(n)]) < Capacity

(***************************************************************************)
(* Parts of the transmitter.  SetTx leaves the receiver and the files      *)
(* alone.                                                                  *)
(***************************************************************************)
SetTx(n, t) == tx' = [tx EXCEPT ![n] = t]

Give(n) == SetTx(n, [tx[n] EXCEPT !.st = "Abort"])

Current(t) == IF t.list = <<>> THEN EndOfBatch ELSE Head(t.list)

Finfo(t) == <<Packet("FINFO", Current(t), 0, 0)>>

\* HTX_NextFile: the files before the next one that can be opened are passed over.
Openable(list) ==
    LET ready == {k \in 1..Len(list) : list[k] \notin work.locked} IN
    IF ready = {} THEN <<>>
    ELSE SubSeq(list, CHOOSE k \in ready : \A j \in ready : k <= j, Len(list))

\* HTX_NextFile, HTX_ToFName, HTX_FINFO: offer that file, newly opened.
Offer(t, list) ==
    [t EXCEPT !.st = "FINFOACK", !.retries = 0, !.syncid = 0, !.err = FALSE,
              !.list = Openable(list)]

\* HTX_EOF.
AtEof(t) == [t EXCEPT !.st = "EOFACK"]

Eof(t) == <<Number("EOF", t.pos)>>

\* HTX_SkipFile.
Skipped(t) == AtEof([t EXCEPT !.pos = -2, !.retries = 0])

Dispose(n) == sent' = [sent EXCEPT ![n] = @ \cup {Current(tx[n])}]

\* Mutant: the file is done with whatever position was agreed on.
DisposedAnyway(t) == TRUE

\* HTX_EOFACK: the file has been sent, not skipped.
Disposed(t) == t.pos >= 0

\* The other side has announced the end of its files.
Received(n) == rx[n].st = "DONE"

\* Mutant: a timeout is not counted.
Uncounted(t) == t

\* A timeout counts as a retry.
Retried(t) == [t EXCEPT !.retries = @ + 1]

\* The transmitter takes turns: it waits until the receiver is done.
Yields(n) == hdxlink[n] /\ ~Received(n)

(***************************************************************************)
(* Timers.  A side of an early workload may time out although an answer is *)
(* on its way; otherwise a timer expires when nothing else can happen.     *)
(***************************************************************************)
Busy(n) ==
    \/ tx[n].st \in {"START", "DATA"}
    \/ tx[n].st = "REND" /\ Received(n)

Quiet == \A n \in Sides : Live(n) => link[n] = <<>> /\ ~Busy(n)

Expired(n) == Live(n) /\ IF work.early THEN Room(n) ELSE Quiet

(***************************************************************************)
(* Beginning of the batch.                                                 *)
(***************************************************************************)
HTX_START(n) ==
    /\ tx[n].st = "START"
    /\ SetTx(n, [tx[n] EXCEPT !.st = "SWAIT"])
    /\ Send(n, <<Signal("START")>>)
    /\ UNCHANGED <<work, rx, hdxlink, inbox, sent, refused, faults>>

\* START or INIT of the other side; INIT is not answered here.
HTX_SWAIT(n) ==
    /\ Arrived(n, "START") \/ Arrived(n, "INIT")
    /\ tx[n].st = "SWAIT"
    /\ SetTx(n, [tx[n] EXCEPT !.st = "INITACK", !.retries = 0])
    /\ Answer(n, <<Signal("INIT")>>)
    /\ UNCHANGED <<work, rx, hdxlink, inbox, sent, refused, faults>>

\* The first offer waits in HTX_RINIT until the receiver has seen INIT.
HTX_INITACK(n) ==
    /\ Arrived(n, "INITACK")
    /\ tx[n].st = "INITACK"
    /\ LET t == [tx[n] EXCEPT !.st = "RINIT", !.retries = 0]
           o == Offer(t, t.list) IN
       IF rx[n].st = "INIT"
       THEN SetTx(n, t) /\ Answer(n, <<>>)
       ELSE SetTx(n, o) /\ Answer(n, Finfo(o))
    /\ UNCHANGED <<work, rx, hdxlink, inbox, sent, refused, faults>>

HRX_INIT(n) ==
    /\ Arrived(n, "INIT")
    /\ tx[n].st # "SWAIT" /\ rx[n].st \in {"INIT", "FINFO"}
    /\ rx' = [rx EXCEPT ![n].st = "FINFO"]
    /\ LET o == Offer(tx[n], tx[n].list) IN
       IF tx[n].st = "RINIT"
       THEN SetTx(n, o) /\ Answer(n, <<Signal("INITACK")>> \o Finfo(o))
       ELSE UNCHANGED tx /\ Answer(n, <<Signal("INITACK")>>)
    /\ UNCHANGED <<work, hdxlink, inbox, sent, refused, faults>>

(***************************************************************************)
(* Transmitter.                                                            *)
(***************************************************************************)

\* The receiver's position: continue there, it has the file, or it wants to skip it.
HTX_FINFOACK(n) ==
    /\ Arrived(n, "FINFOACK")
    /\ tx[n].st = "FINFOACK"
    /\ LET t == tx[n]
           pos == Head(link[n]).pos
           o == Offer([t EXCEPT !.pos = pos], Tail(t.list)) IN
       \/ /\ t.list = <<>>
          /\ SetTx(n, [t EXCEPT !.st = "REND"])
          /\ Answer(n, <<>>)
          /\ UNCHANGED sent
       \/ /\ t.list # <<>> /\ pos >= 0
          /\ SetTx(n, [t EXCEPT !.st = "DATA", !.pos = pos, !.retries = 0, !.lastack = 0])
          /\ Answer(n, <<>>)
          /\ UNCHANGED sent
       \/ /\ t.list # <<>> /\ pos < 0
          /\ SetTx(n, o)
          /\ Answer(n, Finfo(o))
          /\ IF pos = -1 THEN Dispose(n) ELSE UNCHANGED sent
    /\ UNCHANGED <<work, rx, hdxlink, inbox, refused, faults>>

WindowFull(t) == work.window > 0 /\ t.pos >= t.lastack + work.window

\* HTX_DATA: take turns, wait for an acknowledgement, send the next block or the end.  A
\* read error stays with the open file (ferror), so that its end is never sent as complete.
HTX_DATA(n) ==
    /\ tx[n].st = "DATA"
    /\ LET t == tx[n]
           f == Current(t) IN
       \/ /\ Yields(n)
          /\ SetTx(n, [t EXCEPT !.st = "XWAIT"])
          /\ UNCHANGED <<link, refused, faults>>
       \/ /\ ~Yields(n) /\ WindowFull(t)
          /\ SetTx(n, [t EXCEPT !.st = "DATAACK"])
          /\ UNCHANGED <<link, refused, faults>>
       \/ /\ ~Yields(n) /\ ~WindowFull(t) /\ Room(n)
          /\ \/ /\ t.pos < Size[f]
                /\ SetTx(n, [t EXCEPT !.pos = @ + 1])
                /\ Send(n, <<Packet("DATA", f, t.pos, 0)>>)
                /\ UNCHANGED <<refused, faults>>
             \/ /\ t.pos >= Size[f] /\ ~t.err
                /\ SetTx(n, AtEof(t))
                /\ Send(n, Eof(t))
                /\ UNCHANGED <<refused, faults>>
             \/ /\ Fault("read") \/ (t.pos >= Size[f] /\ t.err /\ UNCHANGED faults)
                /\ SetTx(n, [Skipped(t) EXCEPT !.err = TRUE])
                /\ Send(n, Eof(Skipped(t)))
                /\ refused' = refused \cup {f}
    /\ UNCHANGED <<work, rx, hdxlink, inbox, sent>>

DATAACK(n) ==
    /\ Arrived(n, "DATAACK")
    /\ LET t == tx[n]
           pos == Head(link[n]).pos IN
       \/ /\ t.st \in {"DATA", "XWAIT"}
          /\ SetTx(n, [t EXCEPT !.lastack = IF pos > @ THEN pos ELSE @])
       \/ /\ t.st = "DATAACK"
          /\ IF pos > t.lastack /\ t.pos < pos + work.window
             THEN SetTx(n, [t EXCEPT !.st = "DATA", !.lastack = pos, !.retries = 0])
             ELSE UNCHANGED tx
       \/ /\ t.st = "EOFACK"
          /\ SetTx(n, [t EXCEPT !.lastack = pos])
    /\ Answer(n, <<>>)
    /\ UNCHANGED <<work, rx, hdxlink, inbox, sent, refused, faults>>

\* HTX_DATAACK looks at the retries before it looks at the timer.
HTX_DATAACK(n) ==
    /\ tx[n].st = "DATAACK" /\ tx[n].retries >= Retries
    /\ Give(n)
    /\ UNCHANGED <<work, rx, hdxlink, link, inbox, sent, refused, faults>>

\* The position of a request that has been followed is not followed twice.
Known(t, id) == id = t.syncid

\* Mutant: the beginning of the file is taken for a refusal.
UnwantedAtStart(pos) == pos <= 0

\* The receiver does not want the rest of the file.
Unwanted(pos) == pos < 0

\* RPOS: the receiver asks for another position, or not to be sent the file.
RPOS(n) ==
    /\ Arrived(n, "RPOS")
    /\ tx[n].st \in {"DATA", "DATAACK", "XWAIT", "EOFACK"}
    /\ LET t == tx[n]
           p == Head(link[n])
           u == IF Known(t, p.id) THEN Retried(t) ELSE t
           s == IF p.pos = -2 /\ t.pos # -2 /\ t.st = "EOFACK"
                THEN AtEof([u EXCEPT !.pos = -2]) ELSE Skipped(u) IN
       IF u.retries >= Retries
       THEN Give(n) /\ Answer(n, <<>>)
       ELSE \/ /\ Unwanted(p.pos)
               /\ SetTx(n, s) /\ Answer(n, Eof(s))
            \/ /\ ~Unwanted(p.pos) /\ Known(t, p.id)
               /\ SetTx(n, u) /\ Answer(n, <<>>)
            \/ /\ ~Unwanted(p.pos) /\ ~Known(t, p.id)
               /\ SetTx(n, [t EXCEPT !.pos = p.pos, !.syncid = p.id, !.retries = 1,
                                     !.st = IF @ = "EOFACK" THEN "DATA" ELSE @])
               /\ Answer(n, <<>>)
    /\ UNCHANGED <<work, rx, hdxlink, inbox, sent, refused, faults>>

HTX_EOFACK(n) ==
    /\ Arrived(n, "EOFACK")
    /\ tx[n].st = "EOFACK"
    /\ LET t == tx[n]
           o == Offer(t, Tail(t.list)) IN
       /\ SetTx(n, o)
       /\ Answer(n, Finfo(o))
       /\ IF Disposed(t) THEN Dispose(n) ELSE UNCHANGED sent
    /\ UNCHANGED <<work, rx, hdxlink, inbox, refused, faults>>

(***************************************************************************)
(* End of the batch.  A packet is read, without waiting, in the turn of    *)
(* the loop that leaves HTX_REND; END is lost on the receiver there.       *)
(***************************************************************************)
HTX_REND(n) ==
    /\ tx[n].st = "REND" /\ Received(n)
    /\ SetTx(n, [tx[n] EXCEPT !.st = "ENDACK", !.retries = 0])
    /\ LET ends == <<Signal("END"), Signal("END")>> IN
       \/ Send(n, ends)
       \/ Arrived(n, "END") /\ Answer(n, ends)
    /\ UNCHANGED <<work, rx, hdxlink, inbox, sent, refused, faults>>

HTX_ENDACK(n) ==
    /\ Arrived(n, "END")
    /\ tx[n].st = "ENDACK"
    /\ SetTx(n, [tx[n] EXCEPT !.st = "DONE"])
    /\ Answer(n, <<Signal("END"), Signal("END"), Signal("END")>>)
    /\ UNCHANGED <<work, rx, hdxlink, inbox, sent, refused, faults>>

(***************************************************************************)
(* Timeout of the transmitter: the packet that was not answered is sent    *)
(* again, Retries times.  HTX_XWAIT and HTX_REND only show that the side   *)
(* lives; in HTX_DATAACK the position stays where the window is full.      *)
(* IDLE in HTX_XWAIT would end the turns, but a side of this program sends *)
(* IDLE only when the other receiver is done, or when it waits itself.     *)
(***************************************************************************)
Resent(t) ==
    CASE t.st = "SWAIT"    -> <<Signal("START")>>
      [] t.st = "INITACK"  -> <<Signal("INIT")>>
      [] t.st = "FINFOACK" -> Finfo(t)
      [] t.st = "EOFACK"   -> Eof(t)
      [] t.st = "ENDACK"   -> <<Signal("END"), Signal("END")>>
      [] OTHER             -> <<>>

TxTimeout(n) ==
    /\ Expired(n)
    /\ LET t == tx[n] IN
       \/ /\ t.st = "DATAACK" /\ t.retries < Retries
          /\ SetTx(n, Retried(t))
          /\ Send(n, Resent(t))
       \/ /\ t.st \in {"SWAIT", "INITACK", "FINFOACK", "EOFACK", "ENDACK"}
          /\ IF Retried(t).retries >= Retries
             THEN Give(n) /\ UNCHANGED link
             ELSE /\ SetTx(n, Retried(t))
                  /\ Send(n, Resent(t))
       \/ /\ t.st \in {"XWAIT", "REND"} /\ ~Received(n)
          /\ Send(n, <<Signal("IDLE")>>)
          /\ UNCHANGED tx
    /\ UNCHANGED <<work, rx, hdxlink, inbox, sent, refused, faults>>

(***************************************************************************)
(* Receiver.                                                               *)
(***************************************************************************)

\* openfile: a file that is complete is not wanted, another one is continued.  An empty
\* file is not there before it has been received.
Here(f) == Size[f] > 0 /\ Len(inbox[f]) = Size[f]

\* HRX_FINFO and HRX_ToData: a file, or the end of the batch, is announced.
HRX_FINFO(n) ==
    /\ Arrived(n, "FINFO")
    /\ rx[n].st = "FINFO"
    /\ LET f == Head(link[n]).file
           open == [rx[n] EXCEPT !.st = "DATA", !.file = f, !.pos = Len(inbox[f]),
                        !.syncid = 0, !.lastsync = 0, !.retries = 0, !.timer = FALSE] IN
       \/ /\ f = EndOfBatch
          /\ rx' = [rx EXCEPT ![n].st = "DONE"]
          /\ IF tx[n].st = "XWAIT" THEN SetTx(n, [tx[n] EXCEPT !.st = "DATA"]) ELSE UNCHANGED tx
          /\ Answer(n, <<Number("FINFOACK", 0)>>)
          /\ UNCHANGED <<refused, faults>>
       \/ /\ f # EndOfBatch /\ Here(f)
          /\ Answer(n, <<Number("FINFOACK", -1)>>)
          /\ UNCHANGED <<tx, rx, refused, faults>>
       \/ /\ f # EndOfBatch /\ ~Here(f)
          /\ rx' = [rx EXCEPT ![n] = open]
          /\ Answer(n, <<Number("FINFOACK", open.pos)>>)
          /\ UNCHANGED <<tx, refused, faults>>
       \/ /\ f # EndOfBatch /\ ~Here(f) /\ Fault("open")
          /\ refused' = refused \cup {f}
          /\ Answer(n, <<Number("FINFOACK", -2)>>)
          /\ UNCHANGED <<tx, rx>>
    /\ UNCHANGED <<work, hdxlink, inbox, sent>>

\* FINFO that was sent again: the position once more, or too late.
FinfoAgain(n) ==
    /\ Arrived(n, "FINFO")
    /\ rx[n].st \in {"DATA", "DONE"}
    /\ Answer(n, <<Number("FINFOACK", IF rx[n].st = "DATA" THEN rx[n].pos ELSE -2)>>)
    /\ UNCHANGED <<work, tx, rx, hdxlink, inbox, sent, refused, faults>>

\* HRX_HdxLink, HRX_Retries, HRX_RPos of the receiver r of n: ask for the position.
Resync(n, r, rest) ==
    LET turns == r.retries > HdxRetries /\ tx[n].st # "REND" /\ n = "ans" /\ ~hdxlink[n]
        tries == IF turns THEN 1 ELSE r.retries + 1
        id == IF tries = 1 THEN r.syncid + 1 ELSE r.syncid IN
    /\ hdxlink' = [hdxlink EXCEPT ![n] = @ \/ turns]
    /\ rx' = [rx EXCEPT ![n] = [r EXCEPT !.retries = tries, !.syncid = id, !.timer = TRUE]]
    /\ IF tries >= Retries
       THEN Give(n) /\ Exchange(n, rest, <<>>)
       ELSE UNCHANGED tx /\ Exchange(n, rest, <<Packet("RPOS", EndOfBatch, r.pos, id)>>)

\* HRX_BadPos: a position that is not ahead of the last one shows that the sender went back.
BadPos(r, pos) ==
    IF pos <= r.lastsync
    THEN [r EXCEPT !.lastsync = pos, !.retries = 0, !.timer = FALSE]
    ELSE [r EXCEPT !.lastsync = pos]

\* HRX_BadPos and HRX_Timer: while the timer of an earlier request runs, none is sent.
Misplaced(n, r, pos) ==
    LET b == BadPos(r, pos) IN
    IF b.timer
    THEN /\ rx' = [rx EXCEPT ![n] = b]
         /\ Answer(n, <<>>)
         /\ UNCHANGED <<tx, hdxlink>>
    ELSE Resync(n, b, Tail(link[n]))

\* Mutant: a block is written wherever it belongs in the file.
FitsAnywhere(r, pos) == pos >= r.pos

\* The block continues what has been written.
Fits(r, pos) == pos = r.pos

HRX_DATA(n) ==
    /\ Arrived(n, "DATA")
    /\ rx[n].st = "DATA"
    /\ LET r == rx[n]
           p == Head(link[n]) IN
       \/ /\ Fits(r, p.pos)
          /\ inbox' = [inbox EXCEPT ![r.file] = Append(@, <<p.file, p.pos>>)]
          /\ rx' = [rx EXCEPT ![n] = [r EXCEPT !.pos = @ + 1, !.lastsync = r.pos + 1,
                                               !.retries = 0, !.timer = FALSE]]
          /\ Answer(n, IF work.window > 0 THEN <<Number("DATAACK", r.pos + 1)>> ELSE <<>>)
          /\ UNCHANGED <<tx, hdxlink, refused, faults>>
       \/ /\ Fits(r, p.pos) /\ Fault("write")
          /\ rx' = [rx EXCEPT ![n].pos = -2]
          /\ refused' = refused \cup {r.file}
          /\ Answer(n, <<>>)
          /\ UNCHANGED <<tx, hdxlink, inbox>>
       \/ /\ ~Fits(r, p.pos)
          /\ Misplaced(n, r, p.pos)
          /\ UNCHANGED <<inbox, refused, faults>>
    /\ UNCHANGED <<work, sent>>

\* Sender and receiver agree on the length, or on skipping the file.
AtEnd(r, pos) == pos = r.pos \/ pos = -2

HRX_EOF(n) ==
    /\ Arrived(n, "EOF")
    /\ LET r == rx[n]
           p == Head(link[n])
           done == [r EXCEPT !.st = "FINFO", !.timer = FALSE, !.file = EndOfBatch] IN
       \/ /\ r.st = "FINFO"
          /\ Answer(n, <<Signal("EOFACK")>>)
          /\ UNCHANGED <<tx, rx, hdxlink, refused, faults>>
       \/ /\ r.st = "DATA" /\ AtEnd(r, p.pos)
          /\ rx' = [rx EXCEPT ![n] = done]
          /\ Answer(n, <<Signal("EOFACK")>>)
          /\ UNCHANGED <<tx, hdxlink, refused, faults>>
       \/ /\ r.st = "DATA" /\ p.pos = r.pos /\ p.pos >= 0 /\ Fault("close")
          /\ refused' = refused \cup {r.file}
          /\ Misplaced(n, [r EXCEPT !.pos = -2], p.pos)
       \/ /\ r.st = "DATA" /\ ~AtEnd(r, p.pos)
          /\ Misplaced(n, r, p.pos)
          /\ UNCHANGED <<refused, faults>>
    /\ UNCHANGED <<work, inbox, sent>>

RxTimeout(n) ==
    /\ Expired(n)
    /\ rx[n].st = "DATA" /\ rx[n].timer
    /\ Resync(n, rx[n], link[n])
    /\ UNCHANGED <<work, inbox, sent, refused, faults>>

(***************************************************************************)
(* Packets nobody waits for, losses, and the end of the connection.        *)
(***************************************************************************)
Awaited(n, type) ==
    LET t == tx[n].st
        r == rx[n].st IN
    CASE type = "START"    -> t = "SWAIT"
      [] type = "INIT"     -> t = "SWAIT" \/ r \in {"INIT", "FINFO"}
      [] type = "INITACK"  -> t = "INITACK"
      [] type = "FINFO"    -> r # "INIT"
      [] type = "FINFOACK" -> t = "FINFOACK"
      [] type = "DATA"     -> r = "DATA"
      [] type = "EOF"      -> r \in {"FINFO", "DATA"}
      [] type = "EOFACK"   -> t = "EOFACK"
      [] type = "IDLE"     -> FALSE
      [] type = "END"      -> t = "ENDACK"
      [] OTHER             -> t \in {"DATA", "DATAACK", "XWAIT", "EOFACK"}

Ignore(n) ==
    /\ Live(n) /\ tx[n].st # "START" /\ link[n] # <<>>
    /\ ~Awaited(n, Head(link[n]).type)
    /\ Answer(n, <<>>)
    /\ UNCHANGED <<work, tx, rx, hdxlink, inbox, sent, refused, faults>>

\* The checksum of a packet is wrong.
Lose(n) ==
    /\ Live(n) /\ link[n] # <<>>
    /\ Fault("loss")
    /\ link' = [link EXCEPT ![n] = Tail(@)]
    /\ UNCHANGED <<work, tx, rx, hdxlink, inbox, sent, refused>>

\* The carrier is lost, or the two minutes of the guard timer (BRAIN) are over.
CarrierLost(n) ==
    /\ Live(n) /\ tx[n].st # "START" /\ Fault("carrier")
    /\ Give(n)
    /\ UNCHANGED <<work, rx, hdxlink, link, inbox, sent, refused>>

\* A side that gave up hangs up; the other one reads what is left on the line.
HangUp(n) ==
    /\ Live(n) /\ tx[Peer(n)].st = "Abort" /\ link[n] = <<>>
    /\ Give(n)
    /\ UNCHANGED <<work, rx, hdxlink, link, inbox, sent, refused, faults>>

(***************************************************************************)
(* Specification.                                                          *)
(***************************************************************************)
Transmitter(list) ==
    [st |-> "START", list |-> list, pos |-> 0, retries |-> 0, syncid |-> 0, lastack |-> 0,
     err |-> FALSE]

Receiver ==
    [st |-> "INIT", file |-> EndOfBatch, pos |-> 0, lastsync |-> 0, syncid |-> 0,
     retries |-> 0, timer |-> FALSE]

Init ==
    /\ work \in Workloads
    /\ tx = [n \in Sides |-> Transmitter(work.out[n])]
    /\ rx = [n \in Sides |-> Receiver]
    /\ hdxlink = [n \in Sides |-> FALSE]
    /\ link = [n \in Sides |-> <<>>]
    /\ inbox = [f \in Files |-> SubSeq(Blocks(f), 1, work.part[f])]
    /\ sent = [n \in Sides |-> {}]
    /\ refused = {}
    /\ faults = work.limit

\* What a turn of the loop does without a packet.
Transmit(n) == HTX_START(n) \/ HTX_DATA(n) \/ HTX_DATAACK(n) \/ HTX_REND(n)

Receive(n) ==
    \/ HTX_SWAIT(n) \/ HTX_INITACK(n) \/ HRX_INIT(n) \/ HTX_FINFOACK(n) \/ DATAACK(n)
    \/ RPOS(n) \/ HTX_EOFACK(n) \/ HTX_ENDACK(n)
    \/ HRX_FINFO(n) \/ FinfoAgain(n) \/ HRX_DATA(n) \/ HRX_EOF(n)
    \/ Ignore(n) \/ HangUp(n)

Next ==
    \E n \in Sides :
        \/ Transmit(n) \/ Receive(n) \/ TxTimeout(n) \/ RxTimeout(n)
        \/ Lose(n) \/ CarrierLost(n)

Spec == Init /\ [][Next]_vars

(***************************************************************************)
(* Fairness: both programs keep running, and every turn of the loop both   *)
(* reads and writes.  A timer that is set expires in time whatever the     *)
(* other side sends meanwhile, hence strong fairness.                      *)
(***************************************************************************)
FairSpec ==
    /\ Spec
    /\ \A n \in Sides : WF_vars(Transmit(n)) /\ WF_vars(Receive(n))
    /\ \A n \in Sides : SF_vars(TxTimeout(n)) /\ SF_vars(RxTimeout(n))

(***************************************************************************)
(* Properties.                                                             *)
(***************************************************************************)

\* execute_disposition: the sender lets go of a file only when the receiver has the whole
\* of it, whatever was lost, repeated or asked for again.
Delivered == \A n \in Sides : \A f \in sent[n] : inbox[f] = Blocks(f)

\* What has been written of a file is a beginning of that file: no block of another file,
\* none missing and none twice, over resyncs and files that follow each other.
Intact == \A f \in Files : inbox[f] = SubSeq(Blocks(f), 1, Len(inbox[f]))

\* A side that ends the batch well has offered all its files, and each went to the other
\* side or was given up on purpose; the other side has seen the end of the batch as well.
GoodIsComplete ==
    \A n \in Sides : tx[n].st = "DONE" =>
        /\ rx["org"].st = "DONE" /\ rx["ans"].st = "DONE"
        /\ \A m \in Sides : \A i \in DOMAIN work.out[m] :
              work.out[m][i] \in sent[m] \cup refused \cup work.locked

\* Every batch ends, well or not: no two sides wait for each other for ever.
BatchEnds == <>(\A n \in Sides : Ended(n))
=============================================================================
