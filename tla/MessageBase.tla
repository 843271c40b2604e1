---------------------------- MODULE MessageBase ----------------------------
(***************************************************************************)
(* A JAM message base (lib/jammsg.c, lib/msg.c) shared by the sessions of  *)
(* the board, by programs that post (the tosser, the news server) and by   *)
(* mbmsg, which kills and packs.                                           *)
(*                                                                         *)
(* The lock is on the header file a process has open.  What a process does *)
(* while it holds the lock is one step; what it learned when it opened the *)
(* base, before it had the lock, may be out of date by then.  JAM_Pack     *)
(* writes new files, moving the lastread pointers in the old ones as it    *)
(* goes, closes the old ones, and with them gives up the lock, and only    *)
(* then renames the new files: a process that opened the base earlier      *)
(* works on in files that have no name any more, and what ends mbmsg in    *)
(* between leaves the old messages with moved pointers.                    *)
(*                                                                         *)
(* The four files of a base are one here; text, addresses and flags other  *)
(* than the deleted one are left out.                                      *)
(***************************************************************************)
EXTENDS Integers, Sequences, FiniteSets, SequencesExt

CONSTANTS Users,     \* sessions of the board, each of another user
          Writers,   \* processes that post
          First,     \* messages at the beginning
          MaxPosts,  \* bound: messages posted
          MaxPacks   \* bound: times mbmsg runs

ASSUME MessageAssumption ==
    /\ Users \cap Writers = {}
    /\ First \in Nat \ {0} /\ MaxPosts \in Nat /\ MaxPacks \in Nat

VARIABLES bases,    \* bases[g]: the files, the last ones have the names
          writer,   \* writer[w]: what w knows of the base it has open
          session,  \* session[u]: where the user is
          mbmsg,    \* the maintenance program
          known,    \* known[u]: messages the user's pointer covers
          removed,  \* messages deleted or killed on purpose
          emptied,  \* the base has been without messages
          raced,    \* a base has been packed while somebody used it
          cut       \* a pack has been broken off with pointers moved

vars == <<bases, writer, session, mbmsg, known, removed, emptied, raced, cut>>

Current == Len(bases)

Message(id, num) == [id |-> id, num |-> num, deleted |-> FALSE]

\* No lastread record.
Never == -1

\* Nothing open.
Closed == [gen |-> 0, some |-> FALSE]

\* JAM_Open: of the header only whether there are messages is used later on.
Opened == [gen |-> Current, some |-> bases[Current].active > 0]

Least(a, b) == IF a < b THEN a ELSE b

Greatest(a, b) == IF a < b THEN b ELSE a

Ids(b) == {m.id : m \in ToSet(b.msgs)}

Live(b) == {m \in ToSet(b.msgs) : ~m.deleted}

Posted == Cardinality(UNION {Ids(b) : b \in ToSet(bases)})

\* Remembers that a base ran out of messages.
Emptied(b) == emptied' = (emptied \/ b.active = 0)

(***************************************************************************)
(* Operations of jammsg.c.  some tells whether the base had messages when  *)
(* the process opened it.                                                  *)
(***************************************************************************)

\* Mutant: the number of active messages is taken for the highest number.
CountedHighest(b, some) == b.active

JAM_Highest(b, some) == IF some /\ b.msgs # <<>> THEN Last(b.msgs).num ELSE 0

JAM_AddMsg(b, some, id) ==
    [b EXCEPT !.msgs = Append(@, Message(id, JAM_Highest(b, some) + 1)),
              !.active = @ + 1]

\* Mutant: a message that is deleted already is found.
FindsDeleted(b, num) == {i \in DOMAIN b.msgs : b.msgs[i].num = num}

\* JAM_ReadHeader.
Found(b, num) == {i \in DOMAIN b.msgs : b.msgs[i].num = num /\ ~b.msgs[i].deleted}

\* Mutant: the index is not set back to the record that was found.
DeletesNext(b, i) ==
    IF i < Len(b.msgs) THEN [b EXCEPT !.msgs[i + 1].deleted = TRUE, !.active = @ - 1] ELSE b

JAM_Delete(b, i) == [b EXCEPT !.msgs[i].deleted = TRUE, !.active = @ - 1]

\* JAM_WriteHeader with the message marked deleted: the count stays, extra remembers it.
JAM_WriteHeader(b, i) == [b EXCEPT !.msgs[i].deleted = TRUE, !.extra = @ + 1]

\* The messages at the places old are deleted, one after the other.
Killed(b, old) ==
    [b EXCEPT !.msgs = [i \in DOMAIN b.msgs |->
                           [b.msgs[i] EXCEPT !.deleted = b.msgs[i].deleted \/ i \in old]],
              !.active = @ - Cardinality(old)]

JAM_SetLastRead(b, u, num, highest) ==
    [b EXCEPT !.high[u] = IF @ = Never THEN num ELSE Least(Greatest(@, num), highest)]

\* Mutant: the pointers at a message that goes away are left alone.
PackedOnly(acc, m) ==
    LET msgs == IF m.deleted THEN acc.msgs
                ELSE Append(acc.msgs, [m EXCEPT !.num = Len(acc.msgs) + 1]) IN
    [msgs |-> msgs,
     high |-> [u \in Users |-> IF acc.high[u] = m.num /\ ~m.deleted THEN Len(msgs)
                               ELSE acc.high[u]]]

\* One turn of the loop of JAM_Pack: the pointers at the message move with it, or to the
\* message before it.
Packed(acc, m) ==
    LET msgs == IF m.deleted THEN acc.msgs
                ELSE Append(acc.msgs, [m EXCEPT !.num = Len(acc.msgs) + 1]) IN
    [msgs |-> msgs,
     high |-> [u \in Users |-> IF acc.high[u] = m.num THEN Len(msgs) ELSE acc.high[u]]]

\* What JAM_Pack has after i turns.
Turns(b) ==
    LET acc[i \in 0..Len(b.msgs)] ==
            IF i = 0 THEN [msgs |-> <<>>, high |-> b.high] ELSE Packed(acc[i - 1], b.msgs[i])
    IN  acc

\* The old base after i turns: its pointers have been moved where they are.
MovedTo(b, i) == [b EXCEPT !.high = Turns(b)[i].high]

\* The count is corrected, except in a base without messages.
JAM_Pack(b) ==
    LET acc == Turns(b)[Len(b.msgs)]
        some == acc.msgs # <<>>
        active == IF some THEN Len(acc.msgs) ELSE b.active IN
    [msgs |-> acc.msgs, active |-> active, extra |-> IF some THEN 0 ELSE b.extra,
     high |-> [u \in Users |-> Least(acc.high[u], active)]]

(***************************************************************************)
(* Programs that post or export.                                           *)
(***************************************************************************)

\* Remembers that somebody opens a base whose packed files have no names yet.
Races == raced' = (raced \/ mbmsg.st = "rename")

PostOpen(w) ==
    /\ writer[w] = Closed /\ Posted < First + MaxPosts
    /\ writer' = [writer EXCEPT ![w] = Opened]
    /\ Races
    /\ UNCHANGED <<bases, session, mbmsg, known, removed, emptied, cut>>

PostAdd(w) ==
    /\ writer[w] # Closed /\ Posted < First + MaxPosts
    /\ bases' = [bases EXCEPT ![writer[w].gen] = JAM_AddMsg(@, writer[w].some, Posted + 1)]
    /\ writer' = [writer EXCEPT ![w] = Closed]
    /\ UNCHANGED <<session, mbmsg, known, removed, emptied, raced, cut>>

\* ScanFull of mbfido exports a message that goes away once it is sent.
Export(w) ==
    /\ writer[w] # Closed /\ writer[w].some
    /\ LET g == writer[w].gen
           b == bases[g] IN
       \E i \in DOMAIN b.msgs :
          /\ i \in Found(b, b.msgs[i].num)
          /\ bases' = [bases EXCEPT ![g] = JAM_WriteHeader(b, i)]
          /\ removed' = removed \cup {b.msgs[i].id}
    /\ UNCHANGED <<writer, session, mbmsg, known, emptied, raced, cut>>

\* The lock could not be had in time, or the scan is over.
PostFails(w) ==
    /\ writer[w] # Closed
    /\ writer' = [writer EXCEPT ![w] = Closed]
    /\ UNCHANGED <<bases, session, mbmsg, known, removed, emptied, raced, cut>>

(***************************************************************************)
(* Sessions of the board.                                                  *)
(***************************************************************************)
Away == [st |-> "away", gen |-> 0, num |-> 0, id |-> 0, highest |-> 0]

SetSession(u, s) == session' = [session EXCEPT ![u] = s]

SetMsgArea(u) ==
    /\ session[u] = Away
    /\ SetSession(u, [Away EXCEPT !.st = "panel",
                        !.highest = JAM_Highest(bases[Current], bases[Current].active > 0)])
    /\ Races
    /\ UNCHANGED <<bases, writer, mbmsg, known, removed, emptied, cut>>

Leave(u) ==
    /\ session[u].st = "panel"
    /\ SetSession(u, Away)
    /\ UNCHANGED <<bases, writer, mbmsg, known, removed, emptied, raced, cut>>

\* Read_a_Msg up to the text of the message; LastNum is set even if there is none.
ReadOpen(u, num) ==
    /\ session[u].st = "panel"
    /\ LET b == bases[Current] IN
       \/ \E i \in Found(b, num) :
             SetSession(u, [session[u] EXCEPT !.st = "read", !.gen = Current, !.num = num,
                                              !.id = b.msgs[i].id])
       \/ /\ Found(b, num) = {}
          /\ SetSession(u, [session[u] EXCEPT !.num = num, !.id = 0])
    /\ UNCHANGED <<bases, writer, mbmsg, known, removed, emptied, raced, cut>>

\* The rest of Read_a_Msg, or the lock could not be had in time.
ReadMark(u) ==
    /\ session[u].st = "read"
    /\ SetSession(u, [session[u] EXCEPT !.st = "panel", !.gen = 0])
    /\ LET s == session[u]
           b == JAM_SetLastRead(bases[s.gen], u, s.num, s.highest) IN
       \/ /\ bases' = [bases EXCEPT ![s.gen] = b]
          /\ known' = [known EXCEPT ![u] = {m.id : m \in {n \in ToSet(b.msgs) : n.num <= b.high[u]}}]
       \/ UNCHANGED <<bases, known>>
    /\ UNCHANGED <<writer, mbmsg, removed, emptied, raced, cut>>

DeleteOpen(u) ==
    /\ session[u].st = "panel" /\ session[u].num > 0
    /\ SetSession(u, [session[u] EXCEPT !.st = "delete", !.gen = Current])
    /\ UNCHANGED <<bases, writer, mbmsg, known, removed, emptied, raced, cut>>

\* Delete_MsgNum: the message is deleted, it is not there, or the lock could not be had.
DeleteMark(u) ==
    /\ session[u].st = "delete"
    /\ SetSession(u, [session[u] EXCEPT !.st = "panel", !.gen = 0])
    /\ LET s == session[u] IN
       \/ \E i \in Found(bases[s.gen], s.num) :
             /\ bases' = [bases EXCEPT ![s.gen] = JAM_Delete(@, i)]
             /\ removed' = removed \cup {s.id}
             /\ Emptied(bases'[s.gen])
       \/ UNCHANGED <<bases, removed, emptied>>
    /\ UNCHANGED <<writer, mbmsg, known, raced, cut>>

(***************************************************************************)
(* Maintenance: mbmsg kills what is too old or too many, then packs.       *)
(***************************************************************************)
Maintenance(st, file, base) == [st |-> st, file |-> file, base |-> base]

Rest == Maintenance("rest", Closed, <<>>)

MbmsgStart ==
    /\ mbmsg.st = "rest" /\ Current <= MaxPacks
    /\ mbmsg' = Maintenance("kill", Opened, <<>>)
    /\ UNCHANGED <<bases, writer, session, known, removed, emptied, raced, cut>>

\* KillArea: nothing is found if the base had no messages when it was opened.
KillArea ==
    /\ mbmsg.st = "kill"
    /\ LET g == mbmsg.file.gen
           b == bases[g]
           live == {i \in DOMAIN b.msgs : ~b.msgs[i].deleted} IN
       \E old \in SUBSET (IF mbmsg.file.some THEN live ELSE {}) :
          /\ bases' = [bases EXCEPT ![g] = Killed(b, old)]
          /\ removed' = removed \cup {b.msgs[i].id : i \in old}
          /\ Emptied(bases'[g])
    /\ mbmsg' = Maintenance("open", Closed, <<>>)
    /\ UNCHANGED <<writer, session, known, raced, cut>>

PackOpen ==
    /\ mbmsg.st = "open"
    /\ mbmsg' = Maintenance("pack", Opened, <<>>)
    /\ UNCHANGED <<bases, writer, session, known, removed, emptied, raced, cut>>

InUse == (\E w \in Writers : writer[w] # Closed) \/ (\E u \in Users : session[u] # Away)

\* The new files are written and the old ones, their pointers moved, closed.
PackArea ==
    /\ mbmsg.st = "pack"
    /\ LET g == mbmsg.file.gen
           b == bases[g] IN
       /\ bases' = [bases EXCEPT ![g] = MovedTo(b, Len(b.msgs))]
       /\ mbmsg' = Maintenance("rename", Closed, <<JAM_Pack(b)>>)
    /\ raced' = (raced \/ InUse)
    /\ UNCHANGED <<writer, session, known, removed, emptied, cut>>

\* The lock could not be had in time.
PackFails ==
    /\ mbmsg.st \in {"kill", "pack"}
    /\ mbmsg' = IF mbmsg.st = "kill" THEN Maintenance("open", Closed, <<>>) ELSE Rest
    /\ UNCHANGED <<bases, writer, session, known, removed, emptied, raced, cut>>

\* The new files get the names.
PackRename ==
    /\ mbmsg.st = "rename"
    /\ bases' = bases \o mbmsg.base
    /\ mbmsg' = Rest
    /\ UNCHANGED <<writer, session, known, removed, emptied, raced, cut>>

\* die() on a signal: in the middle of JAM_Pack after i turns of its loop.
MbmsgDies ==
    /\ mbmsg.st # "rest"
    /\ mbmsg' = Rest
    /\ \/ /\ mbmsg.st = "pack"
          /\ LET g == mbmsg.file.gen IN
             \E i \in 0..Len(bases[g].msgs) : bases' = [bases EXCEPT ![g] = MovedTo(@, i)]
          /\ cut' = (cut \/ bases' # bases)
       \/ /\ mbmsg.st # "pack"
          /\ cut' = (cut \/ mbmsg.st = "rename")
          /\ bases' = bases
    /\ UNCHANGED <<writer, session, known, removed, emptied, raced>>

(***************************************************************************)
(* Specification.                                                          *)
(***************************************************************************)
Init ==
    /\ bases = <<[msgs |-> [i \in 1..First |-> Message(i, i)], active |-> First,
                  extra |-> 0, high |-> [u \in Users |-> Never]]>>
    /\ writer = [w \in Writers |-> Closed]
    /\ session = [u \in Users |-> Away]
    /\ mbmsg = Rest
    /\ known = [u \in Users |-> {}]
    /\ removed = {}
    /\ emptied = FALSE
    /\ raced = FALSE
    /\ cut = FALSE

Next ==
    \/ \E w \in Writers : PostOpen(w) \/ PostAdd(w) \/ Export(w) \/ PostFails(w)
    \/ \E u \in Users :
          \/ SetMsgArea(u) \/ Leave(u) \/ ReadMark(u) \/ DeleteOpen(u) \/ DeleteMark(u)
          \/ \E num \in 1..session[u].highest : ReadOpen(u, num)
    \/ MbmsgStart \/ KillArea \/ PackOpen \/ PackArea \/ PackFails \/ PackRename \/ MbmsgDies

Spec == Init /\ [][Next]_vars

(***************************************************************************)
(* Properties.                                                             *)
(***************************************************************************)

\* ActiveMsgs, which decides whether a base counts as empty, is the number of messages that
\* are not deleted and of those the exporter has marked deleted since the last pack that
\* corrected it: in every base, whoever opened it when and deleted what twice, no message is
\* counted twice and none that is there is left out.
CountsAddUp == \A b \in ToSet(bases) : b.active = Cardinality(Live(b)) + b.extra

\* A message's number is its place in the index, as long as the base never ran empty: two
\* programs that post at the same time do not give the same number, packed or not.
NumbersArePlaces ==
    ~emptied => \A b \in ToSet(bases) : \A i \in DOMAIN b.msgs : b.msgs[i].num = i

\* html/misc/jam.html: the record number within the index determines a message's number.  It
\* does not once all messages of a base have been deleted and not yet packed.
NumbersAlwaysPlaces ==
    \A b \in ToSet(bases) : \A i \in DOMAIN b.msgs : b.msgs[i].num = i

\* The base the names belong to, or its packed files from the moment they are complete.
Valid == IF mbmsg.st = "rename" THEN mbmsg.base[1] ELSE bases[Current]

\* The lastread pointer covers the messages it covered when the user last read, over what is
\* posted, exported, deleted, killed and packed since: what is new to the user is offered as
\* new.  It need not in a base that was packed while somebody used it or opened it before
\* the packed files had their names, nor after mbmsg was ended between the pointers it moved
\* in the old files and the names.
NewStaysNew ==
    ~emptied /\ ~raced /\ ~cut =>
        \A u \in Users : Valid.high[u] # Never =>
            \A m \in Live(Valid) : m.num <= Valid.high[u] <=> m.id \in known[u]

\* A message that was posted stays in the base until somebody deletes that message, or it is
\* killed, as long as nobody uses the base while it is packed.
NothingLost ==
    ~emptied /\ ~raced =>
        \A g \in DOMAIN bases : Ids(bases[g]) \subseteq {m.id : m \in Live(bases[Current])} \cup removed
=============================================================================
