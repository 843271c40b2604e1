---------------------------- MODULE BinkpSession ----------------------------
(***************************************************************************)
(* The file transfer of a binkp session (mbcico/binkp.c, bopenfile.c): two *)
(* mailers that both run this code over one TCP/IP connection.  A side     *)
(* alternates between its receiver, which takes one frame, and its         *)
(* transmitter, which sends one; a frame is in transit for any time.       *)
(*                                                                         *)
(* A file is a sequence of blocks, one to a DATA frame; what a side has    *)
(* received of it survives the session, and so does what the other still   *)
(* has to send.  Compression, the escaping of names and the byte layout of *)
(* frames are left out; a frame that this code never sends is not received.*)
(***************************************************************************)
EXTENDS Naturals, Sequences, SequencesExt, FiniteSets

CONSTANTS Files,        \* names of files
          None,         \* no file
          Size,         \* Size[f]: blocks of file f
          Workloads,    \* what the two sides have to do, see Workload
          MaxBatch,     \* batches that still send files, 20 in the code
          Window,       \* frames the output buffer takes
          MaxFaults     \* bound on the faults of a behaviour

ASSUME BinkpAssumption ==
    /\ Size \in [Files -> Nat] /\ None \notin Files /\ "freed" \notin Files
    /\ MaxBatch \in Nat \ {0} /\ Window \in Nat \ {0} /\ MaxFaults \in Nat

Sides == {"org", "ans"}

Other(s) == IF s = "org" THEN "ans" ELSE "org"

\* The link breaks, the timer expires, the disk is nearly full, a file cannot be locked,
\* a received file cannot be moved, a file that waits is replaced.
FaultKinds == {"break", "expire", "space", "lock", "move", "change"}

\* out: the files each side has to send, in order; minor: binkp/1.0 or 1.1; crc: both
\* sides use checksums; sessions: how often they call; faults: what may go wrong.
Workload == [out: [Sides -> Seq(Files)], minor: {0, 1}, crc: BOOLEAN,
             sessions: Nat, faults: SUBSET FaultKinds]

ASSUME WorkloadAssumption == Workloads \subseteq Workload

VARIABLES work,      \* the workload of this behaviour
          session,   \* number of the session
          faults,    \* faults so far
          link,      \* the connection stands
          chan,      \* chan[s]: frames on their way from side s
          st,        \* st[s]: the globals bp, bll, tql, cursend, infp of side s
          ver,       \* ver[f]: version of the file in the outbound
          gone,      \* gone[s]: files whose disposition was executed
          part,      \* part[s][f]: blocks of f in the directory tmp/ of side s
          inbound    \* inbound[s][f]: blocks of f moved to the temporary inbound

vars == <<work, session, faults, link, chan, st, ver, gone, part, inbound>>

Content(f, v) == [i \in 1..Size[f] |-> <<f, v, i>>]

ToSend(s) == ToSet(work.out[s]) \ gone[s]

NoList == [f \in Files |-> "none"]

\* InitTransfer.  rfp is bp.rxfp: a file, None for NULL, or "freed"; inf is infp and
\* infpath of bopenfile.c.
NewSide ==
    [ft |-> "Switch", tx |-> "GNF", cur |-> None, fp |-> None, pos |-> 0,
     list |-> NoList, off |-> [f \in Files |-> 0], queue |-> <<>>,
     rx |-> "WaitF", rname |-> None, rver |-> 0, rpos |-> 0, rbytes |-> 0,
     rfp |-> None, inf |-> None, crcerr |-> 0,
     local_EOB |-> FALSE, remote_EOB |-> FALSE, messages |-> 0, batchnr |-> 0]

Init ==
    /\ work \in Workloads
    /\ session = 1 /\ faults = 0 /\ link = TRUE
    /\ chan = [s \in Sides |-> <<>>]
    /\ st = [s \in Sides |-> NewSide]
    /\ ver = [f \in Files |-> 1]
    /\ gone = [s \in Sides |-> {}]
    /\ part = [s \in Sides |-> [f \in Files |-> <<>>]]
    /\ inbound = [s \in Sides |-> [f \in Files |-> <<>>]]

Over(s) == st[s].ft \in {"good", "bad", "crash"}

Fault(kind) == kind \in work.faults /\ faults < MaxFaults /\ faults' = faults + 1

---------------------------------------------------------------------------
\* Frames and the counters of binkp_send_frame and binkp_poll_frame.

Cmd(c, f, n, v) == [cmd |-> c, file |-> f, n |-> n, ver |-> v]

File(f, n, v) == Cmd("FILE", f, n, v)

Data(f, v, i) == Cmd("DATA", f, i, v)

Reply(c, f) == Cmd(c, f, 0, 0)

Plain(c) == Cmd(c, None, 0, 0)

\* messages is only compared with 3: it saturates there.
Counted(r, m) ==
    IF m.cmd = "DATA" THEN r
    ELSE [r EXCEPT !.messages = IF @ < 3 THEN @ + 1 ELSE 3]

Sent(r, m) ==
    [Counted(r, m) EXCEPT !.local_EOB = @ \/ m.cmd = "EOB"]

\* Mutant: the end of the batch of the other side is not remembered.
PolledBlind(r, m) == Counted(r, m)

Polled(r, m) ==
    [Counted(r, m) EXCEPT !.remote_EOB = @ \/ m.cmd = "EOB"]

\* Side s sends frames; what nobody will read any more is dropped.
Carry(s, frames, c) ==
    IF link /\ ~Over(Other(s)) THEN [c EXCEPT ![s] = @ \o frames] ELSE c

\* A step sends at most two frames.
SentAll(r, frames) ==
    CASE frames = <<>> -> r
      [] Len(frames) = 1 -> Sent(r, frames[1])
      [] OTHER -> Sent(Sent(r, frames[1]), frames[2])

Cleared(r) == [r EXCEPT !.list = NoList]

\* DeinitTransfer after a failure.
Failed(r) == [Cleared(r) EXCEPT !.ft = "bad"]

Pending(r) == {f \in Files : r.list[f] \in {"NoState", "Sending", "IsSent"}}

NewBatch(r) ==
    Cleared([r EXCEPT !.batchnr = @ + 1, !.local_EOB = FALSE, !.remote_EOB = FALSE,
                      !.messages = 0, !.tx = "GNF", !.rx = "WaitF"])

\* A NULL or stale FILE pointer is used: the process dies.
Crash(s, r) ==
    /\ st' = [st EXCEPT ![s] = [r EXCEPT !.ft = "crash"]]
    /\ chan' = [chan EXCEPT ![Other(s)] = Tail(@)]

\* The checksum of the M_FILE frame against the file that was received.
BadCRC(r, blocks) == work.crc /\ blocks # Content(r.rname, r.rver)

---------------------------------------------------------------------------
\* The receiver.  m is the frame that was polled, r the side with the frame counted.

files == <<ver, gone>>

store == <<part, inbound>>

\* The receiver returns Ok with state r, having answered with frames.
RxOk(s, r, frames) ==
    /\ st' = [st EXCEPT ![s] = [SentAll(r, frames) EXCEPT
                !.ft = IF r.local_EOB /\ r.remote_EOB THEN "Transmit" ELSE "Switch"]]
    /\ chan' = Carry(s, frames, [chan EXCEPT ![Other(s)] = Tail(@)])

\* The receiver returns Failure.
RxFailure(s, r, frames) ==
    /\ st' = [st EXCEPT ![s] = Failed([SentAll(r, frames) EXCEPT !.rx = "Done"])]
    /\ chan' = Carry(s, frames, [chan EXCEPT ![Other(s)] = Tail(@)])

RxMessage(s, r, m) ==
    /\ m.cmd \in {"GET", "GOT", "SKIP"}
    /\ RxOk(s, [r EXCEPT !.queue = Append(@, m)], <<>>)
    /\ UNCHANGED <<faults, store>>

RxNul(s, r, m) ==
    /\ m.cmd = "NUL"
    /\ RxOk(s, r, <<>>)
    /\ UNCHANGED <<faults, store>>

\* In binkp/1.1 the end of a batch is no state of the receiver.
RxEOB(s, r, m) ==
    /\ m.cmd = "EOB"
    /\ \/ /\ r.rx = "WaitF" /\ work.minor = 1
          /\ RxOk(s, IF /\ r.local_EOB /\ r.messages >= 3 /\ Pending(r) = {}
                     THEN NewBatch(r) ELSE r, <<>>)
       \/ /\ r.rx = "WaitF" /\ work.minor = 0
          /\ RxOk(s, [r EXCEPT !.rx = "EOB"], <<>>)
       \/ /\ r.rx \in {"ReceD", "EOB"}
          /\ RxFailure(s, r, <<>>)
    /\ UNCHANGED <<faults, store>>

RxError(s, r, m) ==
    /\ m.cmd \in {"ERR", "BSY"}
    /\ RxFailure(s, r, <<>>)
    /\ UNCHANGED <<faults, store>>

\* A frame for a file ends the one that is being received: it is kept as it is.
Saved(r) == IF r.rx = "ReceD" THEN [r EXCEPT !.inf = None, !.rfp = None] ELSE r

\* The handle that is open is the right one when the offset is where it was opened.
SameHandle(r, m) == m.n # 0 /\ m.n = r.rbytes

\* bopenfile: whatever is there under that name is what the transfer goes on from.
Opened(s, r, m) ==
    [(IF SameHandle(r, m) THEN r
      ELSE [r EXCEPT !.rfp = m.file, !.inf = m.file, !.rbytes = Len(part[s][m.file])])
     EXCEPT !.rname = m.file, !.rver = m.ver, !.rpos = m.n]

\* Mutant: what is left of an earlier session is not asked about.
AcceptAnyway(s, r, m) ==
    IF r.rbytes = Size[m.file]
    THEN RxOk(s, [r EXCEPT !.rx = "WaitF", !.rfp = None], <<Reply("GOT", m.file)>>)
    ELSE RxOk(s, [r EXCEPT !.rx = "ReceD"], <<>>)

Accept(s, r, m) ==
    LET f == m.file
        w == [r EXCEPT !.rx = "WaitF"]
    IN  CASE r.rbytes = Size[f]
               -> RxOk(s, [w EXCEPT !.rfp = None], <<Reply("GOT", f)>>)
          [] r.rbytes < Size[f] /\ m.n = 0 /\ r.rbytes # 0
               -> RxOk(s, w, <<Cmd("GET", f, r.rbytes, 0)>>)
          [] OTHER -> RxOk(s, [r EXCEPT !.rx = "ReceD"], <<>>)

\* RxAccF.  That too few blocks are free for this one file, which is then skipped like one
\* that cannot be opened, is left out; low disk space as such is the fault "space".
RxFile(s, r, m) ==
    /\ m.cmd = "FILE" /\ r.rx \in {"WaitF", "ReceD"}
    /\ IF Size[m.file] = 0
       THEN /\ RxOk(s, [Saved(r) EXCEPT !.rx = "WaitF"], <<Reply("GOT", m.file)>>)
            /\ UNCHANGED faults
       ELSE LET q == Opened(s, Saved(r), m)
            IN  \/ q.rfp \in {None, "freed"} /\ Crash(s, q) /\ UNCHANGED faults
                \/ q.rfp \in Files /\ Accept(s, q, m) /\ UNCHANGED faults
                \/ Fault("space") /\ RxFailure(s, q, <<Plain("BSY")>>)
    /\ UNCHANGED store

\* A FILE frame after the end of the batch of binkp/1.0
RxLateFile(s, r, m) ==
    /\ m.cmd \in {"FILE", "DATA"} /\ r.rx = "EOB"
    /\ RxFailure(s, r, <<>>)
    /\ UNCHANGED <<faults, store>>

\* A block for no file: the rest of one that was refused.
RxStray(s, r, m) ==
    /\ m.cmd = "DATA" /\ r.rx = "WaitF"
    /\ RxOk(s, r, <<>>)
    /\ UNCHANGED <<faults, store>>

Block(m) == <<m.file, m.ver, m.n>>

\* RxWriteD and bclosefile: the file is opened with "a+", so a block is appended.
RxData(s, r, m) ==
    LET g    == r.rfp
        file == Append(part[s][g], Block(m))
        q    == [r EXCEPT !.rpos = @ + 1]
        done == [q EXCEPT !.inf = None, !.rfp = "freed", !.rx = "WaitF"]
    IN  /\ m.cmd = "DATA" /\ r.rx = "ReceD"
        /\ \/ /\ q.rpos # Size[r.rname]
              /\ RxOk(s, q, <<>>)
              /\ part' = [part EXCEPT ![s][g] = file]
              /\ UNCHANGED <<faults, inbound>>
           \/ /\ q.rpos = Size[r.rname] /\ BadCRC(r, file)
              /\ IF r.crcerr = 0
                 THEN RxOk(s, [done EXCEPT !.crcerr = 1], <<Reply("SKIP", r.rname)>>)
                 ELSE RxFailure(s, done, <<Plain("ERR")>>)
              /\ part' = [part EXCEPT ![s][g] = <<>>]
              /\ UNCHANGED <<faults, inbound>>
           \/ /\ q.rpos = Size[r.rname] /\ ~BadCRC(r, file)
              /\ RxOk(s, done, <<Reply("GOT", r.rname)>>)
              /\ \/ /\ part' = [part EXCEPT ![s][g] = <<>>]
                    /\ inbound' = [inbound EXCEPT ![s][g] = file]
                    /\ UNCHANGED faults
                 \/ /\ Fault("move")
                    /\ part' = [part EXCEPT ![s][g] = file]
                    /\ UNCHANGED inbound

Receive(s) ==
    /\ st[s].ft = "Switch" /\ st[s].rx # "Done" /\ chan[Other(s)] # <<>>
    /\ LET m == Head(chan[Other(s)])
           r == Polled(st[s], m)
       IN  \/ RxMessage(s, r, m) \/ RxNul(s, r, m) \/ RxEOB(s, r, m)
           \/ RxError(s, r, m) \/ RxFile(s, r, m) \/ RxLateFile(s, r, m)
           \/ RxStray(s, r, m) \/ RxData(s, r, m)
    /\ UNCHANGED <<work, session, link, files>>

---------------------------------------------------------------------------
\* The transmitter.

\* The transmitter runs after Continue, and from Switch when the output has room.
Ready(s) ==
    \/ st[s].ft = "Transmit"
    \/ st[s].ft = "Switch" /\ Len(chan[s]) < Window

Tx(s, r, frames) ==
    /\ st' = [st EXCEPT ![s] = SentAll(r, frames)]
    /\ chan' = Carry(s, frames, chan)

\* create_filelist and fill_binkp_list, when there is no list.
NeedsList(r) == r.list = NoList

Listed(s, r) ==
    IF ~NeedsList(r) THEN r
    ELSE [r EXCEPT !.cur = None, !.off = [f \in Files |-> 0],
                   !.list = [f \in Files |->
                       IF r.batchnr < MaxBatch /\ f \in ToSend(s)
                       THEN "NoState" ELSE "none"]]

\* M_NUL TRF goes out in the first batch, and with a list of files that hold something: a
\* list of empty files only has byte totals of zero.
Holds(list) == \E f \in Files: list[f] # "none" /\ Size[f] > 0

Announce(s, r) ==
    IF NeedsList(r) /\ (r.batchnr = 0 \/ Holds(Listed(s, r).list))
    THEN <<Plain("NUL")>> ELSE <<>>

\* The next file, in the order of the list; none when all were dealt with.
NextFile(s, q) ==
    LET state(i) == q.list[work.out[s][i]]
    IN  {work.out[s][i] : i \in {i \in DOMAIN work.out[s] :
            state(i) = "NoState" /\ \A j \in 1..i - 1: state(j) # "NoState"}}

TxFile(s) ==
    LET r == st[s]
        q == Listed(s, r)
    IN  /\ Ready(s) /\ r.tx = "GNF"
        /\ \E f \in NextFile(s, q):
              Tx(s, [q EXCEPT !.list[f] = "Sending", !.cur = f, !.fp = f,
                              !.pos = q.off[f], !.tx = "TryR", !.ft = "Transmit"],
                 Announce(s, r) \o <<File(f, q.off[f], ver[f])>>)
        /\ UNCHANGED <<work, session, faults, link, files, store>>

\* The next file cannot be locked or opened.  Here nobody removes a file that waits: the branch
\* for one that does not exist any more is left out.
TxLocked(s) ==
    LET r == st[s]
        q == Listed(s, r)
    IN  /\ Ready(s) /\ r.tx = "GNF" /\ Fault("lock")
        /\ \E f \in NextFile(s, q):
              Tx(s, [q EXCEPT !.list[f] = "Skipped", !.fp = None, !.ft = "Switch"],
                 Announce(s, r))
        /\ UNCHANGED <<work, session, link, files, store>>

TxNoMore(s) ==
    LET r == st[s]
        q == Listed(s, r)
    IN  /\ Ready(s) /\ r.tx = "GNF" /\ NextFile(s, q) = {}
        /\ Tx(s, [q EXCEPT !.tx = "WLA", !.ft = "Transmit"],
              Announce(s, r) \o <<Plain("EOB")>>)
        /\ UNCHANGED <<work, session, faults, link, files, store>>

\* The transmitter closes the file at its end.
SentWhole(r) ==
    [r EXCEPT !.fp = None, !.list[r.cur] = "IsSent", !.cur = None, !.tx = "GNF"]

\* TxReadS.  The end of the file is met with the last block, or by one more read.
TxRead(s) ==
    LET r    == st[s]
        last == r.pos >= Size[r.fp]
        q    == [r EXCEPT !.ft = "Switch"]
    IN  /\ Ready(s) /\ r.tx = "TryR" /\ r.queue = <<>>
        /\ \/ last /\ Tx(s, SentWhole(q), <<>>)
           \/ /\ ~last
              /\ \E eof \in {FALSE, (r.pos + 1 = Size[r.fp])}:
                    Tx(s, [(IF eof THEN SentWhole(q) ELSE q) EXCEPT !.pos = @ + 1],
                       <<Data(r.fp, ver[r.fp], r.pos + 1)>>)
        /\ UNCHANGED <<work, session, faults, link, files, store>>

\* A message about f is about a file of the list; Closed is fclose(bp.txfp).
Closed(r) == [r EXCEPT !.fp = None, !.cur = None, !.tx = "GNF",
                       !.ft = IF r.fp = None THEN "crash" ELSE @]

\* One message of the queue.  a.r is the side, a.got the files to dispose of.
Apply(a, m) ==
    LET r == a.r
        f == m.file
        q == IF r.list[f] = "Sending" THEN Closed(r) ELSE r
    IN  IF r.list[f] = "none" \/ r.ft = "crash" THEN a
        ELSE CASE m.cmd = "GET" ->
                    [a EXCEPT !.r = [r EXCEPT !.list[f] = "NoState", !.off[f] = m.n,
                                              !.tx = "GNF"]]
               [] m.cmd = "GOT" ->
                    [r |-> [q EXCEPT !.list[f] = "Got"], got |-> a.got \cup {f}]
               [] m.cmd = "SKIP" ->
                    [a EXCEPT !.r = [q EXCEPT !.list[f] = "Skipped"]]

\* The side and what it has to dispose of, after each of the messages.
Applied(r, queue) ==
    LET acc[i \in 0..Len(queue)] ==
            IF i = 0 THEN [r |-> r, got |-> {}] ELSE Apply(acc[i - 1], queue[i])
    IN  acc

\* binkp_process_messages
TxMessages(s) ==
    LET r == [st[s] EXCEPT !.ft = "Transmit", !.queue = <<>>]
        a == Applied(r, st[s].queue)[Len(st[s].queue)]
    IN  /\ Ready(s) /\ r.tx \in {"TryR", "WLA"} /\ st[s].queue # <<>>
        /\ Tx(s, a.r, <<>>)
        /\ gone' = [gone EXCEPT ![s] = @ \cup a.got]
        /\ UNCHANGED <<work, session, faults, link, ver, store>>

\* Mutant: the session ends with the first batch, whatever was said in it.
WaitedOnce(r) ==
    LET q    == [r EXCEPT !.ft = "Switch"]
        done == [Cleared(q) EXCEPT !.tx = "Done", !.rx = "Done"]
    IN  IF Pending(r) # {} THEN q
        ELSE IF work.minor = 0 THEN (IF r.rx = "EOB" THEN done ELSE q)
        ELSE IF r.local_EOB /\ r.remote_EOB THEN done ELSE Cleared(q)

\* TxWLA with nothing to do for the queue.
Waited(r) ==
    LET q    == [r EXCEPT !.ft = "Switch"]
        done == [Cleared(q) EXCEPT !.tx = "Done", !.rx = "Done"]
    IN  IF Pending(r) # {} THEN q
        ELSE IF work.minor = 0 THEN (IF r.rx = "EOB" THEN done ELSE q)
        ELSE IF ~(r.local_EOB /\ r.remote_EOB) THEN Cleared(q)
        ELSE IF r.messages < 3 THEN done ELSE NewBatch(q)

TxWait(s) ==
    LET r == st[s]
    IN  /\ Ready(s) /\ r.tx = "WLA" /\ r.queue = <<>> /\ Waited(r) # r
        /\ Tx(s, Waited(r), <<>>)
        /\ UNCHANGED <<work, session, faults, link, files, store>>

Transmit(s) ==
    TxFile(s) \/ TxLocked(s) \/ TxNoMore(s) \/ TxRead(s) \/ TxMessages(s) \/ TxWait(s)

---------------------------------------------------------------------------
\* The end of a session, its faults, and the next one.

Finish(s) ==
    /\ st[s].ft = "Switch" /\ st[s].rx = "Done" /\ st[s].tx = "Done"
    /\ st' = [st EXCEPT ![s].ft = "good"]
    /\ UNCHANGED <<work, session, faults, link, chan, files, store>>

\* binkp_poll_frame reports the error once what has arrived is read.
Lost(s) ==
    /\ st[s].ft = "Switch" /\ ~(st[s].rx = "Done" /\ st[s].tx = "Done")
    /\ chan[Other(s)] = <<>> /\ (~link \/ Over(Other(s)))
    /\ st' = [st EXCEPT ![s] = Failed(@)]
    /\ UNCHANGED <<work, session, faults, link, chan, files, store>>

\* The timer is looked at only when the output has no room.
Expire(s) ==
    /\ st[s].ft = "Switch" /\ Len(chan[s]) >= Window /\ Fault("expire")
    /\ st' = [st EXCEPT ![s] = Failed(@)]
    /\ UNCHANGED <<work, session, link, chan, files, store>>

\* The connection breaks; of what was sent any prefix still arrives.
Break ==
    /\ link /\ Fault("break") /\ ~(Over("org") /\ Over("ans"))
    /\ link' = FALSE
    /\ \E i \in 0..Len(chan["org"]), j \in 0..Len(chan["ans"]):
          chan' = [chan EXCEPT !["org"] = SubSeq(@, 1, i), !["ans"] = SubSeq(@, 1, j)]
    /\ UNCHANGED <<work, session, st, files, store>>

NewSession ==
    /\ Over("org") /\ Over("ans") /\ session < work.sessions
    /\ session' = session + 1 /\ link' = TRUE
    /\ chan' = [s \in Sides |-> <<>>]
    /\ st' = [s \in Sides |-> NewSide]
    /\ UNCHANGED <<work, faults, files, store>>

\* Between two sessions the tosser replaces a file that waits in the outbound.
Change(f) ==
    /\ Over("org") /\ Over("ans") /\ session < work.sessions /\ Fault("change")
    /\ \E s \in Sides: f \in ToSend(s)
    /\ ver' = [ver EXCEPT ![f] = @ + 1]
    /\ UNCHANGED <<work, session, link, chan, st, gone, store>>

Step(s) == Receive(s) \/ Transmit(s) \/ Finish(s) \/ Lost(s)

Next ==
    \/ \E s \in Sides: Step(s) \/ Expire(s)
    \/ Break \/ NewSession \/ \E f \in Files: Change(f)

Spec == Init /\ [][Next]_vars

FairSpec == Spec /\ \A s \in Sides: WF_vars(Step(s))

---------------------------------------------------------------------------

\* A file that a side has removed from its outbound is complete, and what it was when it
\* was sent, on the other side: whatever broke, was resumed, skipped or sent again.
Delivered ==
    \A s \in Sides: \A f \in gone[s]:
        inbound[Other(s)][f] = Content(f, ver[f])

\* A binkp/1.1 session that ends well has emptied the outbound: files that were skipped
\* are tried again in the next batch of the same session.  It counts on files that hold
\* something: a batch with an empty file only is not announced, and the session ends with
\* it when that file is locked again.
GoodIsComplete ==
    \A s \in Sides:
        st[s].ft = "good" /\ work.minor = 1 /\ st[s].batchnr < MaxBatch
        => ToSend(s) = {}

\* Two sides never wait for each other for ever: a session comes to its end on both.
SessionEnds == []<>(Over("org") /\ Over("ans"))
=============================================================================
