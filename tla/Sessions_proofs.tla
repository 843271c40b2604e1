-------------------------- MODULE Sessions_proofs --------------------------
(***************************************************************************)
(* Proofs about the sessions of users: what a board does to users.data     *)
(* (BoardSession), and the table in which mbtask keeps the programs that   *)
(* are connected (ClientRegistry).  For any number of visits, users,       *)
(* signals, kills, processes and slots.                                    *)
(***************************************************************************)
EXTENDS BoardSession, ClientRegistry, FiniteSetTheorems, TLAPS

(***************************************************************************)
(* Boards.  A board never takes back what another one wrote to users.data, *)
(* and writes to the record of its own user alone, when signals arrive at  *)
(* settled steps.                                                          *)
(*                                                                         *)
(* From FortyTwoSessionPrepare to the end of Good_Bye a board holds the    *)
(* lock of its user (Holding).  In that time nobody else changes the       *)
(* record, so every copy the board makes of it, in memory, in the private  *)
(* file or in a buffer, has all that the file has (Copies); a buffer is    *)
(* empty except between a write and the fclose that follows it.            *)
(***************************************************************************)

Changes == Procs \X {"login", "change", "areas"}

Record == SUBSET Changes

(* The steps before a user is known, those with the lock, with the record. *)
Outside == {"gate", "prompt", "connect", "auth"}

Known == {"bound", "boot", "booted"}

Unread == Outside \cup Known \cup {"startup", "logo", "login", "loginflush", "init"}

Selected == {"login", "loginflush", "init", "work", "rewrite", "door", "bye", "commit",
             "commitflush", "hangup"}

Holding == Selected \cup {"startup", "logo"}

Flushing == {"loginflush", "commitflush"}

Steps == Outside \cup Known \cup Holding \cup {"close", "exit", "ended"}

BoardTypeOK ==
    /\ pc \in [Procs -> Steps]
    /\ acc \in [Procs -> Users \cup {Nobody}]
    /\ grecno \in [Procs -> Users]
    /\ users \in [Users -> Record]
    /\ priv \in [Procs -> Record \cup {Absent, Empty}]
    /\ usr \in [Procs -> Record]
    /\ buf \in [Procs -> Seq(Users \X Record)]
    /\ lock \in [Users -> Procs \cup {Nobody}]

(* c is a copy of the record of a that has all its changes, and only changes that were *)
(* made by boards of a.                                                                *)
Copy(c, a, us, ac) ==
    /\ c \in Record /\ us[a] \subseteq c
    /\ \A x \in c : ac[x[1]] = a

(* What holds of process p at step c, with account a, selected record g, private file f, *)
(* record m in memory and buffer b; us is the file, lk the locks, ac the accounts.       *)
Copies(c, a, f, m, b, us, ac) ==
    /\ c \in {"login", "loginflush", "rewrite", "commitflush"} => Copy(m, a, us, ac)
    /\ c \in {"work", "door"} => Copy(f, a, us, ac)
    /\ c = "bye" => f = Absent \/ f = Empty \/ Copy(f, a, us, ac)
    /\ c = "commit" => f = Empty \/ Copy(f, a, us, ac)
    /\ c \in Unread => f = Absent
    /\ c = "rewrite" => f = Empty
    /\ IF c \in Flushing THEN b = <<<<a, m>>>> ELSE b = <<>>

Local(p, c, a, g, f, m, b, us, lk, ac) ==
    /\ c \in Outside => a = Nobody
    /\ c \in Known \cup Holding => a \in Users
    /\ c \in Holding => lk[a] = p
    /\ c \in Selected => g = a
    /\ Copies(c, a, f, m, b, us, ac)

LocalInv ==
    \A p \in Procs :
        Local(p, pc[p], acc[p], grecno[p], priv[p], usr[p], buf[p], users, lock, acc)

BoardInv == BoardTypeOK /\ OwnRecordOnly /\ LocalInv

-----------------------------------------------------------------------------
(* What a step of p leaves to the other processes. *)

Kept(p) ==
    /\ \A q \in Procs \ {p} :
          /\ pc'[q] = pc[q] /\ acc'[q] = acc[q] /\ grecno'[q] = grecno[q]
          /\ priv'[q] = priv[q] /\ usr'[q] = usr[q] /\ buf'[q] = buf[q]
          /\ \A u \in Users : lock[u] = q => lock'[u] = q
    /\ \A u \in Users : users'[u] = users[u] \/ lock[u] = p
    /\ acc'[p] = acc[p] \/ acc[p] = Nobody

LocalOf(p) ==
    Local(p, pc[p], acc[p], grecno[p], priv[p], usr[p], buf[p], users, lock, acc)

(* A copy stays one while its record stays the same and known accounts stay. *)
LEMMA CopyKept ==
    ASSUME NEW c, NEW a, NEW us, NEW ac, NEW us2, NEW ac2, Copy(c, a, us, ac),
           us2[a] = us[a], \A q \in Procs : ac[q] = a => ac2[q] = a
    PROVE  Copy(c, a, us2, ac2)
<1>1. c \in Record /\ us[a] \subseteq c /\ \A x \in c : ac[x[1]] = a
  BY DEF Copy
<1>2. us2[a] \subseteq c
  BY <1>1
<1>3. ASSUME NEW x \in c PROVE ac2[x[1]] = a
  <2>1. x[1] \in Procs
    BY <1>1 DEF Record, Changes
  <2> QED BY <2>1, <1>1
<1> QED BY <1>1, <1>2, <1>3 DEF Copy

(* What a step of p leaves alone, another process does not notice: the record it has a  *)
(* copy of is the one it holds the lock of.                                             *)
LEMMA OthersKept ==
    ASSUME BoardAssumption, BoardInv, NEW p \in Procs, Kept(p)
    PROVE  \A q \in Procs \ {p} : LocalOf(q)'
<1> SUFFICES ASSUME NEW q \in Procs \ {p} PROVE LocalOf(q)'
  OBVIOUS
<1> DEFINE c == pc[q]
           a == acc[q]
<1>1. /\ pc'[q] = c /\ acc'[q] = a /\ grecno'[q] = grecno[q]
      /\ priv'[q] = priv[q] /\ usr'[q] = usr[q] /\ buf'[q] = buf[q]
      /\ \A u \in Users : lock[u] = q => lock'[u] = q
  BY DEF Kept
<1>2. Local(q, c, a, grecno[q], priv[q], usr[q], buf[q], users, lock, acc)
  BY DEF BoardInv, LocalInv
<1>3. /\ c \in Outside => a = Nobody
      /\ c \in Known \cup Holding => a \in Users
      /\ c \in Holding => lock[a] = q
      /\ c \in Selected => grecno[q] = a
      /\ Copies(c, a, priv[q], usr[q], buf[q], users, acc)
  BY <1>2 DEF Local
<1>4. c \in Holding => lock'[a] = q
  BY <1>1, <1>3
<1>5. ASSUME NEW r, c \in Holding, Copy(r, a, users, acc)
      PROVE  Copy(r, a, users', acc')
  <2>1. a \in Users /\ lock[a] = q
    BY <1>3, <1>5
  <2>2. users'[a] = users[a]
    BY <2>1 DEF Kept
  <2>3. \A x \in Procs : acc[x] = a => acc'[x] = a
    BY <2>1, BoardAssumption DEF Kept, BoardAssumption
  <2> HIDE DEF a, c
  <2> QED BY <2>2, <2>3, <1>5, CopyKept
<1> DEFINE K(r) == Copy(r, a, users, acc)
           L(r) == Copy(r, a, users', acc')
<1>6. \A r : c \in Holding /\ K(r) => L(r)
  BY <1>5
<1>7. Copies(c, a, priv[q], usr[q], buf[q], users', acc')
  <2>1. {"login", "loginflush", "rewrite", "commitflush", "work", "door", "bye", "commit"}
           \subseteq Holding
    BY DEF Holding, Selected
  <2>2. /\ c \in {"login", "loginflush", "rewrite", "commitflush"} => K(usr[q])
        /\ c \in {"work", "door"} => K(priv[q])
        /\ c = "bye" => priv[q] = Absent \/ priv[q] = Empty \/ K(priv[q])
        /\ c = "commit" => priv[q] = Empty \/ K(priv[q])
        /\ c \in Unread => priv[q] = Absent
        /\ c = "rewrite" => priv[q] = Empty
        /\ IF c \in Flushing THEN buf[q] = <<<<a, usr[q]>>>> ELSE buf[q] = <<>>
    BY <1>3 DEF Copies
  <2> HIDE DEF K, L, c, a
  <2>3. /\ c \in {"login", "loginflush", "rewrite", "commitflush"} => L(usr[q])
        /\ c \in {"work", "door"} => L(priv[q])
        /\ c = "bye" => priv[q] = Absent \/ priv[q] = Empty \/ L(priv[q])
        /\ c = "commit" => priv[q] = Empty \/ L(priv[q])
    BY <2>1, <2>2, <1>6
  <2> QED BY <2>2, <2>3 DEF Copies, L
<1>8. Local(q, c, a, grecno[q], priv[q], usr[q], buf[q], users', lock', acc')
  BY <1>3, <1>4, <1>7 DEF Local
<1> QED BY <1>8, <1>1 DEF LocalOf

(* What remains to be shown of a step of p. *)
Done(p) ==
    /\ Kept(p) /\ BoardTypeOK' /\ LocalOf(p)'
    /\ OwnRecordOnly' /\ \A u \in Users : users[u] \subseteq users'[u]

(* A step that moves p on and touches no record and no lock. *)
LEMMA MoveDone ==
    ASSUME BoardAssumption, BoardInv, NEW p \in Procs, NEW to \in Steps,
           pc' = [pc EXCEPT ![p] = to], UNCHANGED <<acc, record, lock>>,
           Local(p, to, acc[p], grecno[p], priv[p], usr[p], buf[p], users, lock, acc)
    PROVE  Done(p)
<1>1. /\ acc' = acc /\ users' = users /\ priv' = priv /\ usr' = usr /\ buf' = buf
      /\ grecno' = grecno /\ lock' = lock
  BY Zenon DEF record
<1>2. BoardTypeOK
  BY DEF BoardInv
<1>3. pc'[p] = to /\ \A q \in Procs \ {p} : pc'[q] = pc[q]
  BY <1>2 DEF BoardTypeOK
<1>4. Kept(p)
  BY <1>1, <1>3 DEF Kept
<1>5. BoardTypeOK'
  BY <1>1, <1>2 DEF BoardTypeOK
<1>6. LocalOf(p)'
  BY <1>1, <1>3 DEF LocalOf
<1>7. OwnRecordOnly'
  BY <1>1 DEF BoardInv, OwnRecordOnly
<1> QED BY <1>1, <1>4, <1>5, <1>6, <1>7 DEF Done

(* A step that ends p: its lock goes, and nothing is asked of it any more. *)
LEMMA EndDone ==
    ASSUME BoardAssumption, BoardInv, NEW p \in Procs,
           pc' = [pc EXCEPT ![p] = "ended"], lock' = Unlocked(p),
           UNCHANGED <<acc, users, priv, usr, grecno>>,
           buf' = [buf EXCEPT ![p] = <<>>]
    PROVE  Done(p)
<1>1. /\ acc' = acc /\ users' = users /\ priv' = priv /\ usr' = usr
      /\ grecno' = grecno
  OBVIOUS
<1>2. BoardTypeOK
  BY DEF BoardInv
<1>3. pc'[p] = "ended" /\ \A q \in Procs \ {p} : pc'[q] = pc[q]
  BY <1>2 DEF BoardTypeOK
<1>4. buf'[p] = <<>> /\ \A q \in Procs \ {p} : buf'[q] = buf[q]
  BY <1>2 DEF BoardTypeOK
<1>5. Kept(p)
  BY <1>1, <1>3, <1>4 DEF Kept, Unlocked
<1>6. BoardTypeOK'
  <2>1. lock' \in [Users -> Procs \cup {Nobody}]
    BY <1>2 DEF BoardTypeOK, Unlocked
  <2>2. buf' \in [Procs -> Seq(Users \X Record)]
    BY <1>2 DEF BoardTypeOK
  <2>3. pc' \in [Procs -> Steps]
    BY <1>2 DEF BoardTypeOK, Steps
  <2> QED BY <1>1, <1>2, <2>1, <2>2, <2>3 DEF BoardTypeOK
<1>7. LocalOf(p)'
  BY <1>3, <1>4
     DEF LocalOf, Local, Copies, Outside, Known, Unread, Selected, Holding, Flushing
<1>8. OwnRecordOnly'
  BY <1>1 DEF BoardInv, OwnRecordOnly
<1> QED BY <1>1, <1>5, <1>6, <1>7, <1>8 DEF Done

(* The same for the exits that leave the buffers alone: they are empty. *)
LEMMA LeaveDone ==
    ASSUME BoardAssumption, BoardInv, NEW p \in Procs, pc[p] \notin Flushing,
           pc' = [pc EXCEPT ![p] = "ended"], Vanish(p), UNCHANGED <<acc, record>>
    PROVE  Done(p)
<1>1. buf[p] = <<>>
  BY DEF BoardInv, LocalInv, Local, Copies
<1>2. /\ acc' = acc /\ users' = users /\ priv' = priv /\ usr' = usr /\ buf' = buf
      /\ grecno' = grecno
  BY Zenon DEF record
<1>3. buf' = [buf EXCEPT ![p] = <<>>]
  BY <1>1, <1>2 DEF BoardInv, BoardTypeOK
<1>4. lock' = Unlocked(p)
  BY DEF Vanish
<1> QED BY <1>2, <1>3, <1>4, EndDone

(* The front end. *)
LEMMA FrontEndDone ==
    ASSUME BoardAssumption, BoardInv, NEW p \in Procs, FrontEnd(p)
    PROVE  Done(p)
<1> USE DEF Steps, Outside, Known, Unread, Selected, Holding, Flushing
<1>0. /\ BoardTypeOK
      /\ Local(p, pc[p], acc[p], grecno[p], priv[p], usr[p], buf[p], users, lock, acc)
  BY DEF BoardInv, LocalInv
<1>1. ASSUME Ask(p) PROVE Done(p)
  <2>1. PICK to \in {"prompt", "connect"} :
          /\ pc[p] \in {"gate", "prompt"} /\ pc' = [pc EXCEPT ![p] = to]
          /\ UNCHANGED <<acc, record, lock>>
    BY <1>1 DEF Ask, Goto
  <2>2. Local(p, to, acc[p], grecno[p], priv[p], usr[p], buf[p], users, lock, acc)
    BY <1>0, <2>1 DEF Local, Copies
  <2> QED BY <2>1, <2>2, MoveDone
<1>2. ASSUME Connect(p) PROVE Done(p)
  <2>1. /\ pc[p] = "connect" /\ pc' = [pc EXCEPT ![p] = "auth"]
        /\ UNCHANGED <<acc, record, lock>>
    BY <1>2 DEF Connect, Goto
  <2>2. Local(p, "auth", acc[p], grecno[p], priv[p], usr[p], buf[p], users, lock, acc)
    BY <1>0, <2>1 DEF Local, Copies
  <2> QED BY <2>1, <2>2, MoveDone
<1>3. ASSUME NoLogin(p) PROVE Done(p)
  BY <1>3, LeaveDone DEF NoLogin
<1>4. ASSUME HandOver(p) PROVE Done(p)
  <2>1. /\ pc[p] = "bound" /\ pc' = [pc EXCEPT ![p] = "boot"]
        /\ UNCHANGED <<acc, record, lock>>
    BY <1>4 DEF HandOver, Goto
  <2>2. Local(p, "boot", acc[p], grecno[p], priv[p], usr[p], buf[p], users, lock, acc)
    BY <1>0, <2>1 DEF Local, Copies
  <2> QED BY <2>1, <2>2, MoveDone
<1>5. ASSUME HandOverFails(p) PROVE Done(p)
  BY <1>5, LeaveDone DEF HandOverFails, Goto
<1>6. ASSUME NEW v \in Users, Authenticate(p, v) PROVE Done(p)
  <2>1. /\ pc[p] = "auth" /\ pc' = [pc EXCEPT ![p] = "bound"]
        /\ acc' = [acc EXCEPT ![p] = v]
        /\ users' = users /\ priv' = priv /\ usr' = usr /\ buf' = buf
        /\ grecno' = grecno /\ lock' = lock
    BY <1>6 DEF Authenticate, Goto, record
  <2>2. acc[p] = Nobody /\ priv[p] = Absent /\ buf[p] = <<>>
    BY <2>1, <1>0 DEF Local, Copies
  <2>3. pc'[p] = "bound" /\ \A q \in Procs \ {p} : pc'[q] = pc[q]
    BY <2>1, <1>0 DEF BoardTypeOK
  <2>4. acc'[p] = v /\ \A q \in Procs \ {p} : acc'[q] = acc[q]
    BY <2>1, <1>0 DEF BoardTypeOK
  <2>5. Kept(p)
    BY <2>1, <2>2, <2>3, <2>4 DEF Kept
  <2>6. BoardTypeOK'
    BY <2>1, <1>0 DEF BoardTypeOK
  <2>7. LocalOf(p)'
    BY <2>1, <2>2, <2>3, <2>4 DEF LocalOf, Local, Copies
  <2>8. OwnRecordOnly'
    <3> SUFFICES ASSUME NEW u \in Users, NEW x \in users[u] PROVE acc'[x[1]] = u
      BY <2>1 DEF OwnRecordOnly
    <3>1. acc[x[1]] = u /\ x[1] \in Procs
      BY <1>0 DEF BoardInv, OwnRecordOnly, BoardTypeOK, Record, Changes
    <3>2. u # Nobody
      BY BoardAssumption DEF BoardAssumption
    <3> QED BY <3>1, <3>2, <2>2, <2>4
  <2> QED BY <2>1, <2>5, <2>6, <2>7, <2>8 DEF Done
<1> QED BY <1>1, <1>2, <1>3, <1>4, <1>5, <1>6 DEF FrontEnd

(* A step that changes what p has of the record, in memory, in its private file and in    *)
(* its buffer, and not the file.                                                          *)
LEMMA RecordDone ==
    ASSUME BoardAssumption, BoardInv, NEW p \in Procs, NEW to \in Steps,
           NEW g \in Users, NEW f \in Record \cup {Absent, Empty}, NEW m \in Record,
           NEW b \in Seq(Users \X Record),
           pc' = [pc EXCEPT ![p] = to], grecno' = [grecno EXCEPT ![p] = g],
           priv' = [priv EXCEPT ![p] = f], usr' = [usr EXCEPT ![p] = m],
           buf' = [buf EXCEPT ![p] = b], UNCHANGED <<acc, users, lock>>,
           Local(p, to, acc[p], g, f, m, b, users, lock, acc)
    PROVE  Done(p)
<1>1. acc' = acc /\ users' = users /\ lock' = lock
  OBVIOUS
<1>2. BoardTypeOK
  BY DEF BoardInv
<1>3. /\ pc'[p] = to /\ grecno'[p] = g /\ priv'[p] = f /\ usr'[p] = m /\ buf'[p] = b
      /\ \A q \in Procs \ {p} :
            /\ pc'[q] = pc[q] /\ grecno'[q] = grecno[q] /\ priv'[q] = priv[q]
            /\ usr'[q] = usr[q] /\ buf'[q] = buf[q]
  BY <1>2 DEF BoardTypeOK
<1>4. Kept(p)
  BY <1>1, <1>3 DEF Kept
<1>5. BoardTypeOK'
  <2>1. pc' \in [Procs -> Steps] /\ grecno' \in [Procs -> Users]
    BY <1>2 DEF BoardTypeOK
  <2>2. priv' \in [Procs -> Record \cup {Absent, Empty}] /\ usr' \in [Procs -> Record]
    BY <1>2 DEF BoardTypeOK
  <2>3. buf' \in [Procs -> Seq(Users \X Record)]
    BY <1>2 DEF BoardTypeOK
  <2> QED BY <1>1, <1>2, <2>1, <2>2, <2>3 DEF BoardTypeOK
<1>6. LocalOf(p)'
  BY <1>1, <1>3 DEF LocalOf
<1>7. OwnRecordOnly'
  BY <1>1 DEF BoardInv, OwnRecordOnly
<1> QED BY <1>1, <1>4, <1>5, <1>6, <1>7 DEF Done

(* fclose: the file gets the copy, which had all the file had. *)
LEMMA FlushDone ==
    ASSUME BoardAssumption, BoardInv, NEW p \in Procs, pc[p] \in Flushing,
           NEW to \in {"init", "hangup"}, to = "init" => pc[p] = "loginflush",
           pc' = [pc EXCEPT ![p] = to], Flush(p),
           UNCHANGED <<acc, grecno, priv, usr, lock>>
    PROVE  Done(p)
<1> USE DEF Outside, Known, Unread, Selected, Holding, Flushing
<1> DEFINE a == acc[p]
           m == usr[p]
<1>1. /\ acc' = acc /\ grecno' = grecno /\ priv' = priv /\ usr' = usr /\ lock' = lock
  OBVIOUS
<1>2. BoardTypeOK /\ OwnRecordOnly
  BY DEF BoardInv
<1>3. Local(p, pc[p], a, grecno[p], priv[p], m, buf[p], users, lock, acc)
  BY DEF BoardInv, LocalInv
<1>4. /\ a \in Users /\ lock[a] = p /\ grecno[p] = a /\ buf[p] = <<<<a, m>>>>
      /\ Copy(m, a, users, acc) /\ (pc[p] = "loginflush" => priv[p] = Absent)
  BY <1>3 DEF Local, Copies
<1>5. /\ users' = [users EXCEPT ![a] = m] /\ buf' = [buf EXCEPT ![p] = <<>>]
  <2>1. Head(buf[p]) = <<a, m>> /\ Tail(buf[p]) = <<>>
    BY <1>4
  <2>2. Head(buf[p])[1] = a /\ Head(buf[p])[2] = m
    BY <2>1
  <2>3. users' = [users EXCEPT ![a] = m]
    BY <2>2 DEF Flush
  <2>4. buf' = [buf EXCEPT ![p] = <<>>]
    BY <2>1 DEF Flush
  <2> QED BY <2>3, <2>4
<1>6. users'[a] = m /\ \A u \in Users \ {a} : users'[u] = users[u]
  BY <1>2, <1>4, <1>5 DEF BoardTypeOK
<1>7. m \in Record /\ users[a] \subseteq m /\ \A x \in m : acc[x[1]] = a
  BY <1>4 DEF Copy
<1>8. /\ pc'[p] = to /\ buf'[p] = <<>>
      /\ \A q \in Procs \ {p} : pc'[q] = pc[q] /\ buf'[q] = buf[q]
  BY <1>2, <1>5 DEF BoardTypeOK
<1> HIDE DEF a, m
<1>9. Kept(p)
  BY <1>1, <1>4, <1>6, <1>8 DEF Kept
<1>10. BoardTypeOK'
  <2>1. users' \in [Users -> Record]
    BY <1>2, <1>4, <1>5, <1>7 DEF BoardTypeOK
  <2>2. pc' \in [Procs -> Steps]
    BY <1>2 DEF BoardTypeOK, Steps
  <2>3. buf' \in [Procs -> Seq(Users \X Record)]
    BY <1>2, <1>5 DEF BoardTypeOK
  <2> QED BY <1>1, <1>2, <2>1, <2>2, <2>3 DEF BoardTypeOK
<1>11. LocalOf(p)'
  <2>1. Local(p, to, a, grecno[p], priv[p], m, <<>>, users', lock, acc)
    BY <1>3, <1>4 DEF Local, Copies
  <2> QED BY <2>1, <1>1, <1>8 DEF LocalOf, a, m
<1>12. OwnRecordOnly'
  BY <1>1, <1>2, <1>6, <1>7 DEF OwnRecordOnly
<1>13. \A u \in Users : users[u] \subseteq users'[u]
  BY <1>6, <1>7
<1> QED BY <1>9, <1>10, <1>11, <1>12, <1>13 DEF Done

(* A process that holds the lock has a copy as soon as it reads the file. *)
LEMMA ReadCopies ==
    ASSUME BoardInv, NEW a \in Users
    PROVE  Copy(users[a], a, users, acc)
BY DEF BoardInv, BoardTypeOK, OwnRecordOnly, Copy

(* A change of its own user keeps it a copy. *)
LEMMA ChangeCopies ==
    ASSUME NEW p \in Procs, NEW c, NEW a, NEW us, Copy(c, a, us, acc), acc[p] = a,
           NEW w \in {"login", "change", "areas"}
    PROVE  Copy(c \cup {<<p, w>>}, a, us, acc)
<1>1. c \in Record /\ us[a] \subseteq c /\ \A x \in c : acc[x[1]] = a
  BY DEF Copy
<1>2. <<p, w>> \in Changes /\ <<p, w>>[1] = p
  BY DEF Changes
<1>3. c \cup {<<p, w>>} \in Record
  BY <1>1, <1>2 DEF Record
<1>4. \A x \in c \cup {<<p, w>>} : acc[x[1]] = a
  BY <1>1, <1>2
<1> QED BY <1>1, <1>3, <1>4 DEF Copy

(* The way into the board. *)
LEMMA EnteringDone ==
    ASSUME BoardAssumption, BoardInv, NEW p \in Procs, Entering(p)
    PROVE  Done(p)
<1> USE DEF Steps, Outside, Known, Unread, Selected, Holding, Flushing
<1> DEFINE a == acc[p]
           At(c) == Local(p, c, a, grecno[p], priv[p], usr[p], buf[p], users, lock, acc)
<1>0. BoardTypeOK /\ At(pc[p])
  BY DEF BoardInv, LocalInv
<1>1. ASSUME FortyTwoSessionBootstrap(p) PROVE Done(p)
  <2>1. /\ pc[p] = "boot" /\ pc' = [pc EXCEPT ![p] = "booted"]
        /\ UNCHANGED <<acc, record, lock>>
    BY <1>1 DEF FortyTwoSessionBootstrap, Goto
  <2>2. At("booted")
    BY <1>0, <2>1 DEF Local, Copies
  <2> QED BY <2>1, <2>2, MoveDone
<1>2. ASSUME BootstrapFails(p) PROVE Done(p)
  BY <1>2, LeaveDone DEF BootstrapFails
<1>3. ASSUME FortyTwoSessionPrepare(p) PROVE Done(p)
  <2>1. /\ pc[p] = "booted" /\ pc' = [pc EXCEPT ![p] = "startup"]
        /\ lock[a] = Nobody /\ lock' = [lock EXCEPT ![a] = p]
        /\ acc' = acc /\ users' = users /\ priv' = priv /\ usr' = usr /\ buf' = buf
        /\ grecno' = grecno
    BY <1>3 DEF FortyTwoSessionPrepare, Goto, record
  <2>2. a \in Users /\ priv[p] = Absent /\ buf[p] = <<>>
    BY <1>0, <2>1 DEF Local, Copies
  <2>3. pc'[p] = "startup" /\ \A q \in Procs \ {p} : pc'[q] = pc[q]
    BY <2>1, <1>0 DEF BoardTypeOK
  <2>4. lock'[a] = p /\ \A u \in Users \ {a} : lock'[u] = lock[u]
    BY <2>1, <2>2, <1>0 DEF BoardTypeOK
  <2> HIDE DEF a
  <2>5. Kept(p)
    BY <2>1, <2>3, <2>4, BoardAssumption DEF Kept, BoardAssumption
  <2>6. BoardTypeOK'
    BY <2>1, <2>2, <1>0 DEF BoardTypeOK
  <2>7. LocalOf(p)'
    BY <2>1, <2>2, <2>3, <2>4 DEF LocalOf, Local, Copies, a
  <2>8. OwnRecordOnly'
    BY <2>1 DEF BoardInv, OwnRecordOnly
  <2> QED BY <2>1, <2>5, <2>6, <2>7, <2>8 DEF Done
<1>4. ASSUME PrepareFails(p) PROVE Done(p)
  <2>1. /\ pc[p] = "booted" /\ pc' = [pc EXCEPT ![p] = "close"]
        /\ UNCHANGED <<acc, record, lock>>
    BY <1>4 DEF PrepareFails, Goto
  <2>2. At("close")
    BY <1>0, <2>1 DEF Local, Copies
  <2> QED BY <2>1, <2>2, MoveDone
<1>5. ASSUME TrapSignals(p) PROVE Done(p)
  <2>1. /\ pc[p] = "startup" /\ pc' = [pc EXCEPT ![p] = "logo"]
        /\ UNCHANGED <<acc, record, lock>>
    BY <1>5 DEF TrapSignals, Goto
  <2>2. At("logo")
    BY <1>0, <2>1 DEF Local, Copies
  <2> QED BY <2>1, <2>2, MoveDone
<1>6. ASSUME Quick_Bye(p) PROVE Done(p)
  <2>1. /\ pc[p] \in {"startup", "logo"} /\ pc' = [pc EXCEPT ![p] = "close"]
        /\ UNCHANGED <<acc, record, lock>>
    BY <1>6 DEF Quick_Bye
  <2>2. At("close")
    BY <1>0, <2>1 DEF Local, Copies
  <2> QED BY <2>1, <2>2, MoveDone
<1>7. ASSUME SelectUser(p) PROVE Done(p)
  <2>1. /\ pc[p] = "logo" /\ pc' = [pc EXCEPT ![p] = "login"]
        /\ grecno' = [grecno EXCEPT ![p] = a] /\ usr' = [usr EXCEPT ![p] = users[a]]
        /\ priv' = priv /\ buf' = buf /\ UNCHANGED <<acc, users, lock>>
    BY <1>7 DEF SelectUser, Goto
  <2>2. a \in Users /\ lock[a] = p /\ priv[p] = Absent /\ buf[p] = <<>>
    BY <1>0, <2>1 DEF Local, Copies
  <2>3. Copy(users[a], a, users, acc)
    BY <2>2, ReadCopies
  <2>4. priv' = [priv EXCEPT ![p] = Absent] /\ buf' = [buf EXCEPT ![p] = <<>>]
    BY <2>1, <2>2, <1>0 DEF BoardTypeOK
  <2>5. Local(p, "login", acc[p], a, Absent, users[a], <<>>, users, lock, acc)
    BY <2>2, <2>3 DEF Local, Copies
  <2>6. users[a] \in Record /\ Absent \in Record \cup {Absent, Empty}
        /\ <<>> \in Seq(Users \X Record)
    BY <1>0, <2>2 DEF BoardTypeOK
  <2> HIDE DEF a
  <2> QED BY <2>1, <2>2, <2>4, <2>5, <2>6, RecordDone
<1>8. ASSUME Denied(p) PROVE Done(p)
  BY <1>8, LeaveDone DEF Denied, Goto
<1>9. ASSUME UpdateLogin(p) PROVE Done(p)
  <2> DEFINE m == usr[p] \cup {<<p, "login">>}
             b == <<<<a, m>>>>
  <2>1. /\ pc[p] = "login" /\ pc' = [pc EXCEPT ![p] = "loginflush"]
        /\ usr' = [usr EXCEPT ![p] = m]
        /\ buf' = [buf EXCEPT ![p] = <<<<grecno[p], usr'[p]>>>> \o @]
        /\ grecno' = grecno /\ priv' = priv /\ UNCHANGED <<acc, users, lock>>
    BY <1>9 DEF UpdateLogin, Goto
  <2>2. /\ a \in Users /\ lock[a] = p /\ priv[p] = Absent /\ buf[p] = <<>>
        /\ grecno[p] = a /\ Copy(usr[p], a, users, acc)
    BY <1>0, <2>1 DEF Local, Copies
  <2>3. Copy(m, a, users, acc)
    BY <2>2, ChangeCopies
  <2>4. m \in Record
    BY <2>3 DEF Copy
  <2> HIDE DEF m
  <2>5. usr'[p] = m
    BY <2>1, <1>0 DEF BoardTypeOK
  <2>6. buf' = [buf EXCEPT ![p] = b]
    <3>1. <<<<a, m>>>> \o <<>> = b
      BY <2>4
    <3> QED BY <3>1, <2>1, <2>2, <2>5
  <2>7. priv' = [priv EXCEPT ![p] = Absent] /\ grecno' = [grecno EXCEPT ![p] = a]
    BY <2>1, <2>2, <1>0 DEF BoardTypeOK
  <2>8. Local(p, "loginflush", acc[p], a, Absent, m, b, users, lock, acc)
    BY <2>2, <2>3 DEF Local, Copies
  <2>9. b \in Seq(Users \X Record) /\ Absent \in Record \cup {Absent, Empty}
    BY <2>2, <2>4
  <2> HIDE DEF a, b
  <2> QED BY <2>1, <2>2, <2>4, <2>6, <2>7, <2>8, <2>9, RecordDone
<1>10. ASSUME CloseLogin(p) PROVE Done(p)
  BY <1>10, FlushDone DEF CloseLogin, Goto
<1>11. ASSUME InitExitinfo(p) PROVE Done(p)
  <2>0. /\ pc[p] = "init" /\ grecno' = grecno /\ buf' = buf
        /\ UNCHANGED <<acc, users, lock>>
    BY <1>11 DEF InitExitinfo, Goto
  <2>1. /\ a \in Users /\ lock[a] = p /\ priv[p] = Absent /\ buf[p] = <<>>
        /\ grecno[p] = a
    BY <1>0, <2>0 DEF Local, Copies
  <2>2. CASE /\ pc' = [pc EXCEPT ![p] = "work"]
             /\ usr' = [usr EXCEPT ![p] = users[grecno[p]]]
             /\ priv' = [priv EXCEPT ![p] = usr'[p]]
    <3> DEFINE m == users[a]
    <3>1. Copy(m, a, users, acc) /\ m \in Record
      BY <2>1, <1>0, ReadCopies DEF BoardTypeOK
    <3>2. usr' = [usr EXCEPT ![p] = m] /\ priv' = [priv EXCEPT ![p] = m]
      BY <2>1, <2>2, <1>0 DEF BoardTypeOK
    <3>3. grecno' = [grecno EXCEPT ![p] = a] /\ buf' = [buf EXCEPT ![p] = <<>>]
      BY <2>0, <2>1, <1>0 DEF BoardTypeOK
    <3>4. Local(p, "work", acc[p], a, m, m, <<>>, users, lock, acc)
      BY <2>1, <3>1 DEF Local, Copies
    <3>5. <<>> \in Seq(Users \X Record) /\ m \in Record \cup {Absent, Empty}
      BY <3>1
    <3>6. pc' = [pc EXCEPT ![p] = "work"]
      BY <2>2
    <3> HIDE DEF a, m
    <3> QED BY <2>0, <2>1, <3>1, <3>2, <3>3, <3>4, <3>5, <3>6, RecordDone
  <2>3. CASE pc' = [pc EXCEPT ![p] = "bye"] /\ UNCHANGED <<priv, usr>>
    <3>1. At("bye")
      BY <1>0, <2>0, <2>1 DEF Local, Copies
    <3>2. UNCHANGED <<acc, record, lock>>
      BY <2>0, <2>3 DEF record
    <3> QED BY <2>3, <3>1, <3>2, MoveDone
  <2> QED BY <1>11, <2>2, <2>3 DEF InitExitinfo, Goto
<1> QED BY <1>1, <1>2, <1>3, <1>4, <1>5, <1>6, <1>7, <1>8, <1>9, <1>10, <1>11
        DEF Entering

(* The session and its doors. *)
LEMMA WorkingDone ==
    ASSUME BoardAssumption, BoardInv, NEW p \in Procs, Working(p) \/ DoorEnds(p)
    PROVE  Done(p)
<1> USE DEF Steps, Outside, Known, Unread, Selected, Holding, Flushing
<1> DEFINE a == acc[p]
           At(c) == Local(p, c, a, grecno[p], priv[p], usr[p], buf[p], users, lock, acc)
<1>0. BoardTypeOK /\ At(pc[p])
  BY DEF BoardInv, LocalInv
<1>1. ASSUME Change(p) PROVE Done(p)
  <2> DEFINE m == priv[p] \cup {<<p, "change">>}
  <2>1. /\ pc[p] = "work" /\ pc' = [pc EXCEPT ![p] = "rewrite"]
        /\ usr' = [usr EXCEPT ![p] = m] /\ priv' = [priv EXCEPT ![p] = Empty]
        /\ grecno' = grecno /\ buf' = buf /\ UNCHANGED <<acc, users, lock>>
    BY <1>1 DEF Change, Goto
  <2>2. /\ a \in Users /\ lock[a] = p /\ buf[p] = <<>> /\ grecno[p] = a
        /\ Copy(priv[p], a, users, acc)
    BY <1>0, <2>1 DEF Local, Copies
  <2>3. Copy(m, a, users, acc)
    BY <2>2, ChangeCopies
  <2>4. m \in Record
    BY <2>3 DEF Copy
  <2>5. grecno' = [grecno EXCEPT ![p] = a] /\ buf' = [buf EXCEPT ![p] = <<>>]
    BY <2>1, <2>2, <1>0 DEF BoardTypeOK
  <2>6. Local(p, "rewrite", acc[p], a, Empty, m, <<>>, users, lock, acc)
    BY <2>2, <2>3 DEF Local, Copies
  <2>7. <<>> \in Seq(Users \X Record) /\ Empty \in Record \cup {Absent, Empty}
    OBVIOUS
  <2> HIDE DEF a, m
  <2> QED BY <2>1, <2>2, <2>4, <2>5, <2>6, <2>7, RecordDone
<1>2. ASSUME WriteExitinfo(p) PROVE Done(p)
  <2> DEFINE m == usr[p]
  <2>1. /\ pc[p] = "rewrite" /\ pc' = [pc EXCEPT ![p] = "work"]
        /\ usr' = usr /\ priv' = [priv EXCEPT ![p] = m]
        /\ grecno' = grecno /\ buf' = buf /\ UNCHANGED <<acc, users, lock>>
    BY <1>2 DEF WriteExitinfo, Goto
  <2>2. /\ a \in Users /\ lock[a] = p /\ buf[p] = <<>> /\ grecno[p] = a
        /\ Copy(m, a, users, acc)
    BY <1>0, <2>1 DEF Local, Copies
  <2>3. m \in Record
    BY <2>2 DEF Copy
  <2>4. /\ grecno' = [grecno EXCEPT ![p] = a] /\ buf' = [buf EXCEPT ![p] = <<>>]
        /\ usr' = [usr EXCEPT ![p] = m]
    BY <2>1, <2>2, <1>0 DEF BoardTypeOK
  <2>5. Local(p, "work", acc[p], a, m, m, <<>>, users, lock, acc)
    BY <2>2 DEF Local, Copies
  <2>6. <<>> \in Seq(Users \X Record) /\ m \in Record \cup {Absent, Empty}
    BY <2>3
  <2> HIDE DEF a, m
  <2> QED BY <2>1, <2>2, <2>3, <2>4, <2>5, <2>6, RecordDone
<1>3. ASSUME Door(p) PROVE Done(p)
  <2>1. /\ pc[p] = "work" /\ pc' = [pc EXCEPT ![p] = "door"]
        /\ UNCHANGED <<acc, record, lock>>
    BY <1>3 DEF Door, Goto
  <2>2. At("door")
    BY <1>0, <2>1 DEF Local, Copies
  <2> QED BY <2>1, <2>2, MoveDone
<1>4. ASSUME Logout(p) PROVE Done(p)
  <2>1. /\ pc[p] = "work" /\ pc' = [pc EXCEPT ![p] = "bye"]
        /\ UNCHANGED <<acc, record, lock>>
    BY <1>4 DEF Logout, Goto
  <2>2. At("bye")
    BY <1>0, <2>1 DEF Local, Copies
  <2> QED BY <2>1, <2>2, MoveDone
<1>5. ASSUME DoorEnds(p) PROVE Done(p)
  <2> DEFINE to == IF pc[p] = "door" THEN "work" ELSE pc[p]
  <2>1. /\ pc' = [pc EXCEPT ![p] = to] /\ UNCHANGED <<acc, record, lock>>
    BY <1>5 DEF DoorEnds
  <2>2. At(to)
    <3>1. CASE pc[p] = "door"
      BY <3>1, <1>0 DEF Local, Copies
    <3>2. CASE pc[p] # "door"
      BY <3>2, <1>0
    <3> QED BY <3>1, <3>2
  <2>3. to \in Steps
    BY <1>0 DEF BoardTypeOK
  <2> HIDE DEF to
  <2> QED BY <2>1, <2>2, <2>3, MoveDone
<1> QED BY <1>1, <1>2, <1>3, <1>4, <1>5 DEF Working

(* A signal at a settled step. *)
LEMMA SignalDone ==
    ASSUME BoardAssumption, BoardInv, SignalAt \subseteq SettledSteps,
           NEW p \in Procs, die(p)
    PROVE  Done(p)
<1> USE DEF Steps, Outside, Known, Unread, Selected, Holding, Flushing
<1> DEFINE a == acc[p]
           At(c) == Local(p, c, a, grecno[p], priv[p], usr[p], buf[p], users, lock, acc)
<1>1. At(pc[p])
  BY DEF BoardInv, LocalInv
<1>2. /\ pc[p] \in SettledSteps /\ pc' = [pc EXCEPT ![p] = "bye"]
      /\ UNCHANGED <<acc, record, lock>>
  BY DEF die
<1>3. priv[p] = Absent \/ priv[p] = Empty \/ Copy(priv[p], a, users, acc)
  <2>1. CASE pc[p] \in {"login", "init", "work", "door", "bye", "commit"}
    BY <2>1, <1>1 DEF Local, Copies
  <2>2. CASE pc[p] = "rewrite"
    BY <2>2, <1>1 DEF Local, Copies
  <2> QED BY <1>2, <2>1, <2>2 DEF SettledSteps
<1>4. At("bye")
  BY <1>1, <1>2, <1>3 DEF Local, Copies, SettledSteps
<1> QED BY <1>2, <1>4, MoveDone

(* The way out. *)
LEMMA GoodByeDone ==
    ASSUME BoardAssumption, BoardInv, NEW p \in Procs, Good_Bye(p)
    PROVE  Done(p)
<1> USE DEF Steps, Outside, Known, Unread, Selected, Holding, Flushing
<1> DEFINE a == acc[p]
           At(c) == Local(p, c, a, grecno[p], priv[p], usr[p], buf[p], users, lock, acc)
<1>0. BoardTypeOK /\ At(pc[p])
  BY DEF BoardInv, LocalInv
<1>1. ASSUME SaveLastCallers(p) PROVE Done(p)
  <2>0. /\ pc[p] = "bye" /\ pc' = [pc EXCEPT ![p] = "commit"]
        /\ grecno' = grecno /\ buf' = buf /\ UNCHANGED <<acc, users, lock>>
    BY <1>1 DEF SaveLastCallers, Goto
  <2>1. /\ a \in Users /\ lock[a] = p /\ buf[p] = <<>> /\ grecno[p] = a
    BY <1>0, <2>0 DEF Local, Copies
  <2>2. CASE priv[p] = Absent
    <3> DEFINE m == users[a]
    <3>1. Copy(m, a, users, acc) /\ m \in Record
      BY <2>1, <1>0, ReadCopies DEF BoardTypeOK
    <3>2. usr' = [usr EXCEPT ![p] = m] /\ priv' = [priv EXCEPT ![p] = m]
      BY <1>1, <2>1, <2>2, <1>0 DEF SaveLastCallers, BoardTypeOK
    <3>3. grecno' = [grecno EXCEPT ![p] = a] /\ buf' = [buf EXCEPT ![p] = <<>>]
      BY <2>0, <2>1, <1>0 DEF BoardTypeOK
    <3>4. Local(p, "commit", acc[p], a, m, m, <<>>, users, lock, acc)
      BY <2>1, <3>1 DEF Local, Copies
    <3>5. <<>> \in Seq(Users \X Record) /\ m \in Record \cup {Absent, Empty}
      BY <3>1
    <3> HIDE DEF a, m
    <3> QED BY <2>0, <2>1, <3>1, <3>2, <3>3, <3>4, <3>5, RecordDone
  <2>3. CASE priv[p] # Absent
    <3>1. At("commit")
      BY <1>0, <2>0, <2>3 DEF Local, Copies
    <3>2. UNCHANGED <<acc, record, lock>>
      BY <1>1, <2>0, <2>3 DEF SaveLastCallers, record
    <3> QED BY <2>0, <3>1, <3>2, MoveDone
  <2> QED BY <2>2, <2>3
<1>2. ASSUME CommitRecord(p) PROVE Done(p)
  <2> DEFINE m == priv[p] \cup {<<p, "areas">>}
             f == priv[p]
             b == <<<<a, m>>>>
  <2>1. /\ pc[p] = "commit" /\ pc' = [pc EXCEPT ![p] = "commitflush"] /\ f # Empty
        /\ usr' = [usr EXCEPT ![p] = m]
        /\ buf' = [buf EXCEPT ![p] = <<<<grecno[p], usr'[p]>>>> \o @]
        /\ grecno' = grecno /\ priv' = priv /\ UNCHANGED <<acc, users, lock>>
    BY <1>2 DEF CommitRecord, Goto
  <2>2. /\ a \in Users /\ lock[a] = p /\ buf[p] = <<>>
        /\ grecno[p] = a /\ Copy(f, a, users, acc)
    BY <1>0, <2>1 DEF Local, Copies
  <2>3. Copy(m, a, users, acc)
    BY <2>2, ChangeCopies
  <2>4. m \in Record /\ f \in Record
    BY <2>2, <2>3 DEF Copy
  <2>5. priv' = [priv EXCEPT ![p] = f] /\ grecno' = [grecno EXCEPT ![p] = a]
    BY <2>1, <2>2, <1>0 DEF BoardTypeOK
  <2> HIDE DEF m, f
  <2>6. usr'[p] = m
    BY <2>1, <1>0 DEF BoardTypeOK
  <2>7. buf' = [buf EXCEPT ![p] = b]
    <3>1. <<<<a, m>>>> \o <<>> = b
      BY <2>4
    <3> QED BY <3>1, <2>1, <2>2, <2>6
  <2>8. Local(p, "commitflush", acc[p], a, f, m, b, users, lock, acc)
    BY <2>2, <2>3 DEF Local, Copies
  <2>9. b \in Seq(Users \X Record) /\ f \in Record \cup {Absent, Empty}
    BY <2>2, <2>4
  <2> HIDE DEF a, b
  <2> QED BY <2>1, <2>2, <2>4, <2>5, <2>7, <2>8, <2>9, RecordDone
<1>3. ASSUME CommitNothing(p) PROVE Done(p)
  <2>1. /\ pc[p] = "commit" /\ pc' = [pc EXCEPT ![p] = "hangup"]
        /\ UNCHANGED <<acc, record, lock>>
    BY <1>3 DEF CommitNothing, Goto
  <2>2. At("hangup")
    BY <1>0, <2>1 DEF Local, Copies
  <2> QED BY <2>1, <2>2, MoveDone
<1>4. ASSUME CloseRecord(p) PROVE Done(p)
  BY <1>4, FlushDone DEF CloseRecord, Goto
<1>5. ASSUME Hangup(p) PROVE Done(p)
  <2>1. /\ pc[p] = "hangup" /\ pc' = [pc EXCEPT ![p] = "close"]
        /\ UNCHANGED <<acc, record, lock>>
    BY <1>5 DEF Hangup, Goto
  <2>2. At("close")
    BY <1>0, <2>1 DEF Local, Copies
  <2> QED BY <2>1, <2>2, MoveDone
<1>6. ASSUME FortyTwoSessionClose(p) PROVE Done(p)
  <2> DEFINE f == IF p \in dirs THEN Absent ELSE priv[p]
  <2>1. /\ pc[p] = "close" /\ pc' = [pc EXCEPT ![p] = "exit"]
        /\ priv' = [priv EXCEPT ![p] = f] /\ lock' = Unlocked(p)
        /\ acc' = acc /\ users' = users /\ usr' = usr /\ buf' = buf /\ grecno' = grecno
    BY <1>6 DEF FortyTwoSessionClose, Goto
  <2>2. f \in Record \cup {Absent, Empty} /\ buf[p] = <<>>
    BY <1>0, <2>1 DEF BoardTypeOK, Local, Copies
  <2> HIDE DEF f
  <2>3. /\ pc'[p] = "exit" /\ priv'[p] = f
        /\ \A q \in Procs \ {p} : pc'[q] = pc[q] /\ priv'[q] = priv[q]
    BY <2>1, <1>0 DEF BoardTypeOK
  <2>4. Kept(p)
    BY <2>1, <2>3 DEF Kept, Unlocked
  <2>5. BoardTypeOK'
    <3>1. lock' \in [Users -> Procs \cup {Nobody}]
      BY <2>1, <1>0 DEF BoardTypeOK, Unlocked
    <3>2. pc' \in [Procs -> Steps] /\ priv' \in [Procs -> Record \cup {Absent, Empty}]
      BY <2>1, <2>2, <1>0 DEF BoardTypeOK
    <3> QED BY <3>1, <3>2, <2>1, <1>0 DEF BoardTypeOK
  <2>6. LocalOf(p)'
    BY <2>1, <2>2, <2>3 DEF LocalOf, Local, Copies
  <2>7. OwnRecordOnly'
    BY <2>1 DEF BoardInv, OwnRecordOnly
  <2> QED BY <2>1, <2>4, <2>5, <2>6, <2>7 DEF Done
<1>7. ASSUME Exit(p) PROVE Done(p)
  <2>1. /\ pc[p] = "exit" /\ pc' = [pc EXCEPT ![p] = "ended"] /\ users' = Flushed(buf[p])
        /\ buf' = [buf EXCEPT ![p] = <<>>] /\ priv' = priv /\ usr' = usr
        /\ acc' = acc /\ grecno' = grecno /\ lock' = lock
    BY <1>7 DEF Exit, Goto
  <2>2. buf[p] = <<>>
    BY <1>0, <2>1 DEF Local, Copies
  <2>3. users' = users
    <3>1. DOMAIN buf[p] = {}
      BY <2>2
    <3>2. users' = [u \in Users |-> users[u]]
      BY <2>1, <3>1 DEF Flushed
    <3> QED BY <3>2, <1>0 DEF BoardTypeOK
  <2>4. buf' = buf
    BY <2>1, <2>2, <1>0 DEF BoardTypeOK
  <2>5. UNCHANGED <<acc, record, lock>>
    BY <2>1, <2>3, <2>4 DEF record
  <2>6. At("ended")
    BY <1>0, <2>1 DEF Local, Copies
  <2> QED BY <2>1, <2>5, <2>6, MoveDone
<1> QED BY <1>1, <1>2, <1>3, <1>4, <1>5, <1>6, <1>7 DEF Good_Bye

(* The daemon has no part in it, and a killed process takes its buffer with it. *)
LEMMA KillDone ==
    ASSUME BoardAssumption, BoardInv, NEW p \in Procs, Kill(p)
    PROVE  Done(p)
BY EndDone DEF Kill, Vanish

-----------------------------------------------------------------------------
(* The initial state has the invariant. *)
LEMMA InitBoard ==
    ASSUME BoardAssumption, Init
    PROVE  BoardInv
<1> USE DEF Steps, Outside, Known, Unread, Selected, Holding, Flushing
<1>1. BoardTypeOK
  <2>1. {} \in Record /\ <<>> \in Seq(Users \X Record) /\ "gate" \in Steps
    BY DEF Record
  <2> QED BY <2>1, BoardAssumption DEF Init, BoardTypeOK, BoardAssumption
<1>2. OwnRecordOnly
  BY DEF Init, OwnRecordOnly
<1>3. LocalInv
  BY DEF Init, LocalInv, Local, Copies
<1> QED BY <1>1, <1>2, <1>3 DEF BoardInv

(* A step keeps the invariant and takes nothing from a record. *)
LEMMA StepBoard ==
    ASSUME BoardAssumption, SignalAt \subseteq SettledSteps, BoardInv, [Next]_vars
    PROVE  BoardInv' /\ \A u \in Users : users[u] \subseteq users'[u]
<1>0. ASSUME UNCHANGED <<pc, acc, record, lock>>
      PROVE  BoardInv' /\ \A u \in Users : users[u] \subseteq users'[u]
  <2>1. /\ acc' = acc /\ users' = users /\ priv' = priv /\ usr' = usr /\ buf' = buf
        /\ grecno' = grecno /\ lock' = lock /\ pc' = pc
    BY <1>0, Zenon DEF record
  <2>2. BoardTypeOK'
    BY <2>1 DEF BoardInv, BoardTypeOK
  <2>3. OwnRecordOnly'
    BY <2>1 DEF BoardInv, OwnRecordOnly
  <2>4. LocalInv'
    BY <2>1 DEF BoardInv, LocalInv
  <2> QED BY <2>1, <2>2, <2>3, <2>4 DEF BoardInv
<1>1. ASSUME UNCHANGED vars
      PROVE  BoardInv' /\ \A u \in Users : users[u] \subseteq users'[u]
  BY <1>0, <1>1 DEF vars
<1>2. ASSUME NEW p \in Procs, DaemonCloses(p)
      PROVE  BoardInv' /\ \A u \in Users : users[u] \subseteq users'[u]
  BY <1>0, <1>2 DEF DaemonCloses
<1>3. ASSUME NEW p \in Procs, Done(p)
      PROVE  BoardInv' /\ \A u \in Users : users[u] \subseteq users'[u]
  <2>1. \A q \in Procs \ {p} : LocalOf(q)'
    BY <1>3, OthersKept DEF Done
  <2>2. \A q \in Procs : LocalOf(q)'
    BY <2>1, <1>3 DEF Done
  <2>3. LocalInv'
    BY <2>2 DEF LocalInv, LocalOf
  <2> QED BY <2>3, <1>3 DEF Done, BoardInv
<1>4. ASSUME NEW p \in Procs,
             \/ FrontEnd(p) \/ Entering(p) \/ Working(p) \/ Good_Bye(p)
             \/ die(p) \/ DoorEnds(p) \/ Kill(p)
      PROVE  Done(p)
  BY <1>4, FrontEndDone, EnteringDone, WorkingDone, GoodByeDone, SignalDone, KillDone
<1> QED BY <1>1, <1>2, <1>3, <1>4 DEF Next

(* The lock of the user, the private copy and the buffers are in order at every step of *)
(* every board, when the signals that die() handles come at settled steps.              *)
THEOREM BoardInvariant ==
    ASSUME SignalAt \subseteq SettledSteps
    PROVE  Spec => []BoardInv
<1>1. Init => BoardInv
  BY BoardAssumption, InitBoard
<1>2. BoardInv /\ [Next]_vars => BoardInv'
  BY BoardAssumption, StepBoard
<1> QED BY <1>1, <1>2, PTL DEF Spec

(* What a board has written to users.data is never undone by another board that started  *)
(* from an older copy: the lock of FortyTwoSessionPrepare covers the reads in user() and *)
(* InitExitinfo and the write in Good_Bye.                                               *)
THEOREM BoardNoLostUpdate ==
    ASSUME SignalAt \subseteq SettledSteps
    PROVE  Spec => NoLostUpdate
<1>1. BoardInv /\ [Next]_vars => [\A u \in Users : users[u] \subseteq users'[u]]_vars
  BY BoardAssumption, StepBoard
<1>2. Spec => []BoardInv
  BY BoardInvariant
<1> QED BY <1>1, <1>2, PTL DEF Spec, NoLostUpdate

(* Every change in a record of users.data was made by a board that this user logged in   *)
(* to: the record that user() selects and Good_Bye writes is the locked one.             *)
THEOREM BoardOwnRecordOnly ==
    ASSUME SignalAt \subseteq SettledSteps
    PROVE  Spec => []OwnRecordOnly
<1>1. BoardInv => OwnRecordOnly
  BY DEF BoardInv
<1>2. Spec => []BoardInv
  BY BoardInvariant
<1> QED BY <1>1, <1>2, PTL

(***************************************************************************)
(* The table of clients.  The counts follow the table only if a client is  *)
(* never registered twice and sends ATCP once; both rest on how far the    *)
(* dialogue of a living process has come.                                  *)
(***************************************************************************)

\* A process has one registration, so that reg_find finds the one its commands are about.
OneSlotPerPid == \A i, j \in Used : reginfo[i].pid = reginfo[j].pid => i = j

Alive(p) == proc[p].st \in {"run", "hung"}

\* A registered process that lives is past AINI, and a TCP/IP session if it said ATCP.
Linked ==
    \A i \in Used : Alive(reginfo[i].pid) =>
        /\ proc[reginfo[i].pid].conn \in {"in", "tcp"}
        /\ proc[reginfo[i].pid].conn = "in" => ~reginfo[i].tcp

\* OnePager without the count.
Alone == \A i, j \in Used : reginfo[i].page # "no" /\ reginfo[j].page # "no" => i = j

Tables == TypeOK /\ OneSlotPerPid /\ Linked

RegistryInv == Tables /\ Alone /\ CountsAgree

\* What the counts count.
MailerSlots == {i \in Used : IsMailer(reginfo[i])}

TcpSlots == {i \in Used : reginfo[i].tcp}
-----------------------------------------------------------------------------
LEMMA SlotsFinite ==
    ASSUME NEW S \in SUBSET Slots
    PROVE  IsFiniteSet(S) /\ Cardinality(S) \in Nat
<1>1. IsFiniteSet(Slots)
  BY RegistryAssumption, FS_Interval DEF Slots
<1> QED
  BY <1>1, FS_Subset, FS_CardinalityType

\* A set of slots that gains or loses one slot, or none.
LEMMA OneSlotCounted ==
    ASSUME NEW S \in SUBSET Slots, NEW T \in SUBSET Slots, NEW i \in Slots,
           \A j \in Slots \ {i} : j \in T <=> j \in S
    PROVE  /\ i \notin S /\ i \in T => Cardinality(T) = Cardinality(S) + 1
           /\ i \in S /\ i \notin T => Cardinality(T) = Cardinality(S) - 1
           /\ (i \in S <=> i \in T) => Cardinality(T) = Cardinality(S)
<1>1. i \notin S /\ i \in T => T = S \cup {i}
  OBVIOUS
<1>2. i \in S /\ i \notin T => T = S \ {i}
  OBVIOUS
<1>3. (i \in S <=> i \in T) => T = S
  OBVIOUS
<1>4. IsFiniteSet(S)
  BY SlotsFinite
<1>5. i \notin S => Cardinality(S \cup {i}) = Cardinality(S) + 1
  BY <1>4, FS_AddElement
<1>6. i \in S => Cardinality(S \ {i}) = Cardinality(S) - 1
  BY <1>4, FS_RemoveElement
<1> QED
  BY <1>1, <1>2, <1>3, <1>5, <1>6

LEMMA OneIsCounted ==
    ASSUME NEW i
    PROVE  Cardinality({i}) = 1 /\ Cardinality({}) = 0
  BY FS_Singleton, FS_EmptySet

LEMMA Sets ==
    /\ Used \in SUBSET Slots
    /\ MailerSlots \in SUBSET Slots /\ TcpSlots \in SUBSET Slots
    /\ MailerSlots' \in SUBSET Slots /\ TcpSlots' \in SUBSET Slots
    /\ Used' \in SUBSET Slots
  BY DEF Used, MailerSlots, TcpSlots

\* The fields of a client in use are typed.
LEMMA UsedTyped ==
    ASSUME TypeOK, NEW i \in Used
    PROVE  i \in Slots /\ reginfo[i] \in Client
  BY DEF TypeOK, Used

LEMMA ClientIsSome ==
    ASSUME NEW c \in Client
    PROVE  c # NoClient
  BY DEF Client, NoClient, Programs

\* reg_find of a registered process.
LEMMA FindsIts ==
    ASSUME TypeOK, OneSlotPerPid, NEW p, Registered(p)
    PROVE  /\ reg_find(p) \in Used
           /\ reginfo[reg_find(p)].pid = p
           /\ \A j \in Used : reginfo[j].pid = p => j = reg_find(p)
<1>1. PICK i \in SlotsOf(p) : TRUE
  BY DEF Registered
<1>2. SlotsOf(p) = {i}
  BY <1>1 DEF SlotsOf, OneSlotPerPid
<1>3. i \in Slots /\ i \in Nat
  BY <1>1, RegistryAssumption DEF SlotsOf, Used, Slots
<1>4. Min({i}) = i
  BY <1>3 DEF Min
<1>5. reg_find(p) = i
  BY <1>2, <1>4 DEF reg_find
<1> QED
  BY <1>1, <1>2, <1>5 DEF SlotsOf
-----------------------------------------------------------------------------
(***************************************************************************)
(* The shapes of a step: at most one slot changes, or only processes do.   *)
(***************************************************************************)
Others(i) == \A j \in Slots \ {i} : reginfo'[j] = reginfo[j]

\* Slot i stays with its client, who keeps its pid, its program and its session.
Keeps(i) ==
    /\ i \in Used /\ Others(i)
    /\ reginfo'[i] \in Client
    /\ reginfo'[i].pid = reginfo[i].pid
    /\ reginfo'[i].prg = reginfo[i].prg
    /\ reginfo'[i].tcp = reginfo[i].tcp

LEMMA Typing ==
    ASSUME TypeOK, OneSlotPerPid, CountsAgree, [RegistryNext]_registry_vars
    PROVE  /\ proc' \in [Pids -> Process \cup {NoProc}]
           /\ reginfo' \in [Slots -> Client \cup {NoClient}]
           /\ sysop' \in BOOLEAN
<1> USE DEF TypeOK
<1>0. /\ \A r \in Process \cup {NoProc} : Ended(r) \in Process \cup {NoProc}
      /\ \A r \in Process : [r EXCEPT !.conn = "in"] \in Process
      /\ \A r \in Process : [r EXCEPT !.conn = "out"] \in Process
      /\ \A r \in Process : [r EXCEPT !.conn = "tcp"] \in Process
      /\ \A r \in Process : [r EXCEPT !.st = "hung"] \in Process
  BY DEF Process, NoProc, Ended
<1>1. \A p \in Pids : Exists(p) => proc[p] \in Process
  BY DEF Exists, NoProc
<1>2. \A p \in Pids : Talks(p) => proc[p] \in Process
  BY <1>1 DEF Talks, Exists
<1>3. CASE reg_check
  <2>1. \A i \in Slots : Checked(i) \in Client \cup {NoClient}
    BY UsedTyped, ZenonT(60) DEF Checked, Late, Stale, Client
  <2> QED
    BY <1>0, <1>3, <2>1 DEF reg_check
<1>4. CASE \E b \in BOOLEAN : reg_sysop(b)
  BY <1>4 DEF reg_sysop
<1>5. ASSUME NEW p \in Pids, Command(p)
      PROVE  /\ proc' \in [Pids -> Process \cup {NoProc}]
             /\ reginfo' \in [Slots -> Client \cup {NoClient}]
             /\ sysop' \in BOOLEAN
  <2> DEFINE f == reg_find(p)
  <2>1. CASE reg_newcon(p)
    <3>1. [NoClient EXCEPT !.pid = p, !.prg = proc[p].prg] \in Client
      BY <1>2, <2>1 DEF reg_newcon, NoClient, Client, Process
    <3> QED
      BY <1>0, <1>2, <2>1, <3>1 DEF reg_newcon, SetConn
  <2>2. Registered(p) => f \in Slots /\ reginfo[f] \in Client
    BY FindsIts, UsedTyped
  <2>3. CASE reg_closecon(p)
    BY <1>0, <1>2, <2>2, <2>3 DEF reg_closecon, SetConn
  <2>4. CASE reg_ip(p)
    BY <1>0, <1>2, <2>2, <2>4 DEF reg_ip, SetConn, Client
  <2> HIDE DEF f
  <2>5. CASE reg_nop(p)
    BY <2>2, <2>5 DEF reg_nop, Heard, Client, f
  <2>8. CASE reg_timer(p)
    BY <2>2, <2>8 DEF reg_timer, Client, f
  <2>7. CASE reg_page(p) \/ reg_sysoptalk(p)
    BY <2>2, <2>7 DEF reg_page, reg_sysoptalk, Client, f
  <2>6. CASE reg_cancel(p)
    BY <2>2, <2>6 DEF reg_cancel, Client, f
  <2> QED
    BY <1>5, <2>1, <2>3, <2>4, <2>5, <2>6, <2>7, <2>8 DEF Command
<1>6. ASSUME NEW p \in Pids, Start(p) \/ ExitProgram(p) \/ Hang(p) \/ Reap(p)
      PROVE  /\ proc' \in [Pids -> Process \cup {NoProc}]
             /\ reginfo' \in [Slots -> Client \cup {NoClient}]
             /\ sysop' \in BOOLEAN
  <2>1. CASE Start(p)
    <3>1. PICK child \in BOOLEAN :
             proc' = [proc EXCEPT ![p] =
                 [NoProc EXCEPT !.st = "run", !.child = child,
                                !.prg = IF p \in Mailers THEN "mbcico" ELSE "mbsebbs"]]
      BY <2>1 DEF Start
    <3>3. proc'[p] \in Process
      BY <3>1 DEF Process, NoProc, Programs
    <3> QED
      BY <2>1, <3>1, <3>3 DEF Start
  <2>2. CASE ExitProgram(p) \/ Hang(p) \/ Reap(p)
    BY <1>0, <1>2, <2>2 DEF ExitProgram, Hang, Reap
  <2> QED
    BY <1>6, <2>1, <2>2
<1>7. ASSUME NEW i \in Slots, Lapse(i)
      PROVE  /\ proc' \in [Pids -> Process \cup {NoProc}]
             /\ reginfo' \in [Slots -> Client \cup {NoClient}]
             /\ sysop' \in BOOLEAN
  BY <1>7, UsedTyped DEF Lapse, Client
<1> QED
  BY <1>3, <1>4, <1>5, <1>6, <1>7 DEF RegistryNext, registry_vars
-----------------------------------------------------------------------------
(***************************************************************************)
(* A client keeps its slot.                                                *)
(***************************************************************************)
LEMMA KeptSets ==
    ASSUME TypeOK, NEW i, Keeps(i)
    PROVE  /\ Used' = Used
           /\ MailerSlots' = MailerSlots
           /\ TcpSlots' = TcpSlots
           /\ \A j \in Used : reginfo'[j].pid = reginfo[j].pid
           /\ \A j \in Used : reginfo'[j].tcp = reginfo[j].tcp
<1>1. i \in Slots /\ reginfo[i] # NoClient /\ reginfo'[i] # NoClient
  BY ClientIsSome DEF Keeps, Used
<1>2. \A j \in Slots : reginfo'[j] # NoClient <=> reginfo[j] # NoClient
  BY <1>1 DEF Keeps, Others
<1>3. Used' = Used
  BY <1>2 DEF Used
<1>4. \A j \in Slots : /\ reginfo'[j].pid = reginfo[j].pid
                       /\ reginfo'[j].prg = reginfo[j].prg
                       /\ reginfo'[j].tcp = reginfo[j].tcp
  BY DEF Keeps, Others
<1>5. \A j \in Used : j \in Slots
  BY DEF Used
<1> QED
  BY <1>3, <1>4, <1>5 DEF MailerSlots, TcpSlots, IsMailer

LEMMA KeptClient ==
    ASSUME Tables, CountsAgree, NEW i, Keeps(i), UNCHANGED <<proc, counts>>
    PROVE  OneSlotPerPid' /\ Linked' /\ CountsAgree'
<1>1. /\ Used' = Used /\ MailerSlots' = MailerSlots /\ TcpSlots' = TcpSlots
      /\ \A j \in Used : reginfo'[j].pid = reginfo[j].pid
      /\ \A j \in Used : reginfo'[j].tcp = reginfo[j].tcp
  BY KeptSets DEF Tables
<1>2. OneSlotPerPid'
  BY <1>1 DEF Tables, OneSlotPerPid
<1>3. Linked'
  BY <1>1 DEF Tables, Linked, Alive
<1>4. CountsAgree'
  BY <1>1 DEF CountsAgree, counts, MailerSlots, TcpSlots
<1> QED
  BY <1>2, <1>3, <1>4

\* Nobody begins to page.
LEMMA NoNewPage ==
    ASSUME Alone, Used' \subseteq Used,
           \A j \in Used' : reginfo'[j].page # "no" => reginfo[j].page # "no"
    PROVE  Alone'
  BY DEF Alone

\* Only processes change, and what lives under a registered pid lived before.
LEMMA ProcessesOnly ==
    ASSUME Tables, Alone, CountsAgree, UNCHANGED <<reginfo, counts>>,
           \A i \in Used : LET p == reginfo[i].pid IN
               proc'[p].st \in {"run", "hung"} =>
                   proc[p].st \in {"run", "hung"} /\ proc'[p].conn = proc[p].conn
    PROVE  OneSlotPerPid' /\ Linked' /\ Alone' /\ CountsAgree'
<1>1. Used' = Used
  BY DEF Used
<1>2. OneSlotPerPid' /\ Alone'
  BY <1>1 DEF Tables, OneSlotPerPid, Alone
<1>3. Linked'
  BY <1>1 DEF Tables, Linked, Alive
<1>4. CountsAgree'
  BY <1>1 DEF CountsAgree, counts, IsMailer
<1> QED
  BY <1>2, <1>3, <1>4

Weight(b) == IF b THEN 1 ELSE 0

\* The counts of a step that changes slot i alone.
LEMMA OneSlotCounts ==
    ASSUME TypeOK, CountsAgree, NEW i \in Slots, Others(i),
           mailers' = mailers + Weight(i \in MailerSlots') - Weight(i \in MailerSlots),
           ipmailers' = ipmailers + Weight(i \in TcpSlots') - Weight(i \in TcpSlots),
           clients' = clients + Weight(i \in Used') - Weight(i \in Used)
    PROVE  CountsAgree'
<1>1. /\ \A j \in Slots \ {i} : j \in Used' <=> j \in Used
      /\ \A j \in Slots \ {i} : j \in MailerSlots' <=> j \in MailerSlots
      /\ \A j \in Slots \ {i} : j \in TcpSlots' <=> j \in TcpSlots
  BY DEF Others, Used, MailerSlots, TcpSlots, IsMailer
<1>2. /\ Cardinality(Used) \in Nat /\ Cardinality(MailerSlots) \in Nat
      /\ Cardinality(TcpSlots) \in Nat
  BY Sets, SlotsFinite
<1>3. Cardinality(Used') = Cardinality(Used) + Weight(i \in Used') - Weight(i \in Used)
  BY <1>1, <1>2, Sets, OneSlotCounted DEF Weight
<1>4. Cardinality(MailerSlots') =
          Cardinality(MailerSlots) + Weight(i \in MailerSlots') - Weight(i \in MailerSlots)
  BY <1>1, <1>2, Sets, OneSlotCounted DEF Weight
<1>5. Cardinality(TcpSlots') =
          Cardinality(TcpSlots) + Weight(i \in TcpSlots') - Weight(i \in TcpSlots)
  BY <1>1, <1>2, Sets, OneSlotCounted DEF Weight
<1>6. /\ mailers = Cardinality(MailerSlots)
      /\ ipmailers = Cardinality(TcpSlots)
      /\ clients = Cardinality(Used) + 1
  BY DEF CountsAgree, MailerSlots, TcpSlots
<1>7. /\ mailers' = Cardinality(MailerSlots')
      /\ ipmailers' = Cardinality(TcpSlots')
  BY <1>3, <1>4, <1>5, <1>6
<1>8. clients' = Cardinality(Used') + 1
  BY <1>2, <1>3, <1>6 DEF Weight
<1> QED
  BY <1>7, <1>8 DEF CountsAgree, MailerSlots, TcpSlots
-----------------------------------------------------------------------------
(***************************************************************************)
(* The actions.                                                            *)
(***************************************************************************)
Safe == OneSlotPerPid /\ Linked /\ Alone /\ CountsAgree

\* Commands that only touch the timer or the page of their client.
LEMMA QuietStep ==
    ASSUME RegistryInv, NEW i, Keeps(i), UNCHANGED <<proc, counts>>,
           reginfo'[i].page # "no" => reginfo[i].page # "no"
    PROVE  Safe'
<1>1. OneSlotPerPid' /\ Linked' /\ CountsAgree'
  BY KeptClient DEF RegistryInv
<1>2. Used' = Used /\ Used \subseteq Slots
  BY KeptSets, Sets DEF RegistryInv, Tables
<1>3. \A j \in Used' : reginfo'[j].page # "no" => reginfo[j].page # "no"
  BY <1>2 DEF Keeps, Others
<1>4. Alone'
  BY <1>2, <1>3, NoNewPage DEF RegistryInv
<1> QED
  BY <1>1, <1>4 DEF Safe

LEMMA NewconStep ==
    ASSUME RegistryInv, NEW p \in Pids, reg_newcon(p)
    PROVE  Safe'
<1> USE DEF RegistryInv, Tables
<1>1. proc[p] \in Process /\ Talks(p) /\ proc[p].conn = "new"
  BY DEF reg_newcon, Talks, TypeOK, NoProc
<1>2. \A j \in Used : reginfo[j].pid # p
  BY <1>1 DEF Linked, Alive, Talks
<1>3. CASE Used = Slots
  <2>1. UNCHANGED <<reginfo, counts>> /\ proc' = [proc EXCEPT ![p] = Ended(@)]
    BY <1>3 DEF reg_newcon, counts
  <2>2. \A i \in Used : proc'[reginfo[i].pid] = proc[reginfo[i].pid]
    BY <1>2, <2>1, UsedTyped DEF TypeOK, Client
  <2> QED
    BY <2>1, <2>2, ProcessesOnly DEF Safe
<1>4. CASE Used # Slots
  <2> DEFINE c == [NoClient EXCEPT !.pid = p, !.prg = proc[p].prg]
  <2>1. PICK i \in Slots \ Used : reginfo' = [reginfo EXCEPT ![i] = c]
    BY <1>4 DEF reg_newcon
  <2>2. /\ c \in Client /\ c.pid = p /\ c.prg = proc[p].prg /\ ~c.tcp /\ c.page = "no"
    BY <1>1 DEF Client, NoClient, Process
  <2>3. c # NoClient
    BY <2>2, ClientIsSome
  <2> HIDE DEF c
  <2>4. reginfo'[i] = c /\ Others(i)
    BY <2>1 DEF TypeOK, Others
  <2>5. Used' = Used \cup {i}
    BY <2>3, <2>4 DEF Used, Others
  <2>6. \A j \in Used : j \in Slots /\ j # i /\ reginfo'[j] = reginfo[j]
    BY <2>1, <2>4 DEF Others, Used
  <2>7. OneSlotPerPid'
    BY <1>2, <2>2, <2>4, <2>5, <2>6 DEF OneSlotPerPid
  <2>8. Alone'
    BY <2>2, <2>4, <2>5, <2>6 DEF Alone
  <2>9. proc' = [proc EXCEPT ![p].conn = "in"]
    BY <1>4 DEF reg_newcon, SetConn
  <2>10. Linked'
    <3>1. proc'[p].conn = "in"
      BY <1>1, <2>9 DEF TypeOK, Process
    <3>2. \A j \in Used : proc'[reginfo[j].pid] = proc[reginfo[j].pid]
      BY <1>2, <2>9, UsedTyped DEF TypeOK, Client
    <3> QED
      BY <3>1, <3>2, <2>2, <2>4, <2>5, <2>6 DEF Linked, Alive
  <2>11. /\ i \notin MailerSlots /\ i \notin TcpSlots /\ i \notin Used
         /\ i \in Used'
         /\ i \in MailerSlots' <=> proc[p].prg = "mbcico"
         /\ i \notin TcpSlots'
    BY <2>1, <2>2, <2>4, <2>5 DEF MailerSlots, TcpSlots, IsMailer
  <2>12. /\ mailers' = mailers + (IF proc[p].prg = "mbcico" THEN 1 ELSE 0)
         /\ clients' = clients + 1 /\ ipmailers' = ipmailers
    BY <1>4 DEF reg_newcon
  <2>13. /\ mailers' = mailers + Weight(i \in MailerSlots') - Weight(i \in MailerSlots)
         /\ ipmailers' = ipmailers + Weight(i \in TcpSlots') - Weight(i \in TcpSlots)
         /\ clients' = clients + Weight(i \in Used') - Weight(i \in Used)
    BY <2>11, <2>12 DEF Weight, TypeOK
  <2>14. CountsAgree'
    BY <2>1, <2>4, <2>13, OneSlotCounts
  <2> QED
    BY <2>7, <2>8, <2>10, <2>14 DEF Safe
<1> QED
  BY <1>3, <1>4

LEMMA CloseconStep ==
    ASSUME RegistryInv, NEW p \in Pids, reg_closecon(p)
    PROVE  Safe'
<1> USE DEF RegistryInv, Tables
<1> DEFINE i == reg_find(p)
<1>1. /\ i \in Used /\ reginfo[i].pid = p
      /\ \A j \in Used : reginfo[j].pid = p => j = i
  BY FindsIts DEF reg_closecon
<1>2. /\ reginfo' = [reginfo EXCEPT ![i] = NoClient]
      /\ Uncount({i})
      /\ proc' = [proc EXCEPT ![p].conn = "out"]
  BY DEF reg_closecon, SetConn
<1> HIDE DEF i
<1>3. reginfo'[i] = NoClient /\ Others(i) /\ i \in Slots
  BY <1>1, <1>2 DEF TypeOK, Others, Used
<1>4. Used' = Used \ {i}
  BY <1>3 DEF Used, Others
<1>5. \A j \in Used' : j \in Used /\ j # i /\ reginfo'[j] = reginfo[j]
  BY <1>3, <1>4 DEF Others, Used
<1>6. OneSlotPerPid' /\ Alone'
  BY <1>5 DEF OneSlotPerPid, Alone
<1>7. \A j \in Used' : proc'[reginfo[j].pid] = proc[reginfo[j].pid]
  BY <1>1, <1>2, <1>5, UsedTyped DEF TypeOK, Client
<1>8. Linked'
  BY <1>5, <1>7 DEF Linked, Alive
<1>9. /\ i \notin MailerSlots' /\ i \notin TcpSlots' /\ i \notin Used'
      /\ i \in MailerSlots <=> IsMailer(reginfo[i])
      /\ i \in TcpSlots <=> reginfo[i].tcp
  BY <1>1, <1>4 DEF MailerSlots, TcpSlots
<1>10. /\ Cardinality({k \in {i} : IsMailer(reginfo[k])}) = Weight(i \in MailerSlots)
       /\ Cardinality({k \in {i} : reginfo[k].tcp}) = Weight(i \in TcpSlots)
       /\ Cardinality({i}) = 1
  <2>1. /\ i \in MailerSlots => {k \in {i} : IsMailer(reginfo[k])} = {i}
        /\ i \notin MailerSlots => {k \in {i} : IsMailer(reginfo[k])} = {}
        /\ i \in TcpSlots => {k \in {i} : reginfo[k].tcp} = {i}
        /\ i \notin TcpSlots => {k \in {i} : reginfo[k].tcp} = {}
    BY <1>9
  <2> QED
    BY <2>1, OneIsCounted DEF Weight
<1>11. /\ mailers' = mailers + Weight(i \in MailerSlots') - Weight(i \in MailerSlots)
       /\ ipmailers' = ipmailers + Weight(i \in TcpSlots') - Weight(i \in TcpSlots)
       /\ clients' = clients + Weight(i \in Used') - Weight(i \in Used)
  BY <1>1, <1>2, <1>9, <1>10 DEF Weight, TypeOK, Uncount
<1>12. CountsAgree'
  BY <1>3, <1>11, OneSlotCounts
<1> QED
  BY <1>6, <1>8, <1>12 DEF Safe

LEMMA IpStep ==
    ASSUME RegistryInv, NEW p \in Pids, reg_ip(p)
    PROVE  Safe'
<1> USE DEF RegistryInv, Tables
<1> DEFINE i == reg_find(p)
<1>1. /\ i \in Used /\ reginfo[i].pid = p
      /\ \A j \in Used : reginfo[j].pid = p => j = i
  BY FindsIts DEF reg_ip
<1>2. /\ reginfo' = [reginfo EXCEPT ![i].tcp = TRUE, ![i].overdue = FALSE]
      /\ proc' = [proc EXCEPT ![p].conn = "tcp"]
      /\ ipmailers' = ipmailers + 1 /\ UNCHANGED <<mailers, clients>>
      /\ Talks(p) /\ proc[p].conn = "in"
  BY DEF reg_ip, SetConn
<1> HIDE DEF i
<1>3. i \in Slots /\ reginfo[i] \in Client
  BY <1>1, UsedTyped
<1>4. /\ Others(i) /\ reginfo'[i] \in Client /\ reginfo'[i].tcp
      /\ reginfo'[i].pid = p /\ reginfo'[i].prg = reginfo[i].prg
      /\ reginfo'[i].page = reginfo[i].page
  BY <1>1, <1>2, <1>3 DEF TypeOK, Others, Client
<1>5. Used' = Used
  BY <1>1, <1>4, ClientIsSome DEF Used, Others
<1>6. \A j \in Used : j # i => reginfo'[j] = reginfo[j]
  BY <1>4 DEF Others, Used
<1>7. OneSlotPerPid' /\ Alone'
  BY <1>1, <1>4, <1>5, <1>6 DEF OneSlotPerPid, Alone
<1>8. ~reginfo[i].tcp
  BY <1>1, <1>2 DEF Linked, Alive, Talks
<1>9. proc'[p].conn = "tcp"
  BY <1>2 DEF TypeOK, Process, NoProc, Talks
<1>10. \A j \in Used : j # i => proc'[reginfo[j].pid] = proc[reginfo[j].pid]
  BY <1>1, <1>2, UsedTyped DEF TypeOK, Client
<1>11. Linked'
  BY <1>4, <1>5, <1>6, <1>9, <1>10 DEF Linked, Alive
<1>12. /\ i \in TcpSlots' /\ i \notin TcpSlots
       /\ i \in MailerSlots' <=> i \in MailerSlots
       /\ i \in Used' /\ i \in Used
  BY <1>1, <1>4, <1>5, <1>8 DEF MailerSlots, TcpSlots, IsMailer
<1>13. /\ mailers' = mailers + Weight(i \in MailerSlots') - Weight(i \in MailerSlots)
       /\ ipmailers' = ipmailers + Weight(i \in TcpSlots') - Weight(i \in TcpSlots)
       /\ clients' = clients + Weight(i \in Used') - Weight(i \in Used)
  BY <1>2, <1>12 DEF Weight, TypeOK
<1>14. CountsAgree'
  BY <1>3, <1>4, <1>13, OneSlotCounts
<1> QED
  BY <1>7, <1>11, <1>14 DEF Safe

\* The update of a field other than pid, prg and tcp keeps the client.
LEMMA KeepsFields ==
    ASSUME TypeOK, NEW i \in Used, reginfo' \in [Slots -> Client \cup {NoClient}], Others(i),
           reginfo'[i].prg = reginfo[i].prg, reginfo'[i].pid = reginfo[i].pid,
           reginfo'[i].tcp = reginfo[i].tcp
    PROVE  Keeps(i)
<1>1. i \in Slots /\ reginfo[i].prg \in Programs
  BY UsedTyped DEF Client
<1>2. reginfo'[i] # NoClient
  BY <1>1 DEF NoClient, Programs
<1> QED
  BY <1>1, <1>2 DEF Keeps

LEMMA QuietCommands ==
    ASSUME RegistryInv, reginfo' \in [Slots -> Client \cup {NoClient}], NEW p \in Pids,
           reg_nop(p) \/ reg_timer(p) \/ reg_cancel(p) \/ reg_sysoptalk(p)
    PROVE  Safe'
<1> USE DEF RegistryInv, Tables
<1> DEFINE i == reg_find(p)
<1>0. UNCHANGED <<proc, counts>>
  BY DEF reg_nop, reg_timer, reg_cancel, reg_sysoptalk
<1>1. i \in Used
  BY FindsIts DEF reg_nop, reg_timer, reg_cancel, reg_sysoptalk
<1>2. i \in Slots /\ reginfo[i] \in Client
  BY <1>1, UsedTyped
<1>3. /\ Others(i)
      /\ reginfo'[i].prg = reginfo[i].prg /\ reginfo'[i].pid = reginfo[i].pid
      /\ reginfo'[i].tcp = reginfo[i].tcp
      /\ reginfo'[i].page # "no" => reginfo[i].page # "no"
  <2> HIDE DEF i
  <2>1. CASE reg_nop(p)
    BY <1>2, <2>1 DEF reg_nop, Heard, i, TypeOK, Others, Client
  <2>2. CASE reg_timer(p)
    BY <1>2, <2>2 DEF reg_timer, i, TypeOK, Others, Client
  <2>3. CASE reg_cancel(p)
    BY <1>2, <2>3 DEF reg_cancel, i, TypeOK, Others, Client
  <2>4. CASE reg_sysoptalk(p)
    BY <1>2, <2>4 DEF reg_sysoptalk, i, TypeOK, Others, Client
  <2> QED
    BY <2>1, <2>2, <2>3, <2>4
<1> HIDE DEF i
<1>4. Keeps(i)
  BY <1>1, <1>3, KeepsFields
<1> QED
  BY <1>0, <1>3, <1>4, QuietStep

LEMMA LapseStep ==
    ASSUME RegistryInv, reginfo' \in [Slots -> Client \cup {NoClient}], NEW i \in Slots, Lapse(i)
    PROVE  Safe'
<1> USE DEF RegistryInv, Tables
<1>1. i \in Used /\ reginfo[i] \in Client /\ UNCHANGED <<proc, counts>>
  BY UsedTyped DEF Lapse
<1>2. /\ Others(i)
      /\ reginfo'[i].prg = reginfo[i].prg /\ reginfo'[i].pid = reginfo[i].pid
      /\ reginfo'[i].tcp = reginfo[i].tcp /\ reginfo'[i].page = reginfo[i].page
  BY <1>1 DEF Lapse, TypeOK, Others, Client
<1>3. Keeps(i)
  BY <1>1, <1>2, KeepsFields
<1> QED
  BY <1>1, <1>2, <1>3, QuietStep

\* A user who is let through is the only one: nobody else pages or has paged.
LEMMA PageStep ==
    ASSUME RegistryInv, reginfo' \in [Slots -> Client \cup {NoClient}], NEW p \in Pids, reg_page(p)
    PROVE  Safe'
<1> USE DEF RegistryInv, Tables
<1> DEFINE i == reg_find(p)
<1>1. /\ i \in Used
      /\ \A j \in Used : reginfo[j].pid = p => j = i
  BY FindsIts DEF reg_page
<1>2. i \in Slots /\ reginfo[i] \in Client
  BY <1>1, UsedTyped
<1>3. UNCHANGED <<proc, counts>>
  BY DEF reg_page
<1>4. \A j \in Used : j # i => reginfo[j].page = "no"
  BY <1>1 DEF reg_page, SysopBusy
<1>5. /\ Others(i)
      /\ reginfo'[i].prg = reginfo[i].prg /\ reginfo'[i].pid = reginfo[i].pid
      /\ reginfo'[i].tcp = reginfo[i].tcp
  <2> HIDE DEF i
  <2> QED
    BY <1>2 DEF reg_page, i, TypeOK, Others, Client
<1> HIDE DEF i
<1>6. Keeps(i)
  BY <1>1, <1>5, KeepsFields
<1>7. OneSlotPerPid' /\ Linked' /\ CountsAgree'
  BY <1>3, <1>6, KeptClient
<1>8. Used' = Used /\ Used \subseteq Slots
  BY <1>6, KeptSets, Sets
<1>9. Alone'
  BY <1>4, <1>5, <1>8 DEF Alone, Others
<1> QED
  BY <1>7, <1>9 DEF Safe

LEMMA ProcessStep ==
    ASSUME RegistryInv, NEW p \in Pids, Start(p) \/ ExitProgram(p) \/ Hang(p) \/ Reap(p)
    PROVE  Safe'
<1> USE DEF RegistryInv, Tables
<1>1. UNCHANGED <<reginfo, counts>>
  BY DEF Start, ExitProgram, Hang, Reap
<1>2. \A q \in Pids \ {p} : proc'[q] = proc[q]
  BY DEF Start, ExitProgram, Hang, Reap, TypeOK
<1>3. CASE Start(p)
  <2>1. \A i \in Used : reginfo[i].pid # p
    BY <1>3 DEF Start, Registered, SlotsOf
  <2>2. \A i \in Used : proc'[reginfo[i].pid] = proc[reginfo[i].pid]
    BY <1>2, <2>1, UsedTyped DEF Client
  <2> QED
    BY <1>1, <2>2, ProcessesOnly DEF Safe
<1>4. CASE ExitProgram(p) \/ Hang(p) \/ Reap(p)
  <2>1. proc'[p].st \in {"run", "hung"} =>
            proc[p].st \in {"run", "hung"} /\ proc'[p].conn = proc[p].conn
    <3>1. CASE Hang(p)
      BY <3>1 DEF Hang, Talks, TypeOK, Process, NoProc
    <3>2. CASE ExitProgram(p)
      <4>1. proc[p] \in Process
        BY <3>2 DEF ExitProgram, Talks, TypeOK, NoProc
      <4> QED
        BY <3>2, <4>1 DEF ExitProgram, TypeOK, Process, NoProc, Ended
    <3>3. CASE Reap(p)
      BY <3>3 DEF Reap, TypeOK, NoProc
    <3> QED
      BY <1>4, <3>1, <3>2, <3>3
  <2>2. \A i \in Used : reginfo[i].pid \in Pids
    BY UsedTyped DEF Client
  <2>3. \A q \in Pids : proc'[q].st \in {"run", "hung"} =>
            proc[q].st \in {"run", "hung"} /\ proc'[q].conn = proc[q].conn
    BY <1>2, <2>1
  <2> QED
    BY <1>1, <2>2, <2>3, ProcessesOnly DEF Safe
<1> QED
  BY <1>3, <1>4

\* The counts lose what the slots that are cleared had.
LEMMA CheckStep ==
    ASSUME RegistryInv, reg_check
    PROVE  Safe'
<1> USE DEF RegistryInv, Tables
<1>1. \A i \in Slots : reginfo'[i] = Checked(i)
  BY DEF reg_check
<1>2. \A i \in Used : i \in Slots /\ reginfo[i] \in Client
  BY UsedTyped
<1>3. \A i \in Slots \ Used : reginfo'[i] = NoClient
  BY <1>1 DEF Checked, Stale, Late, Used
<1>4. \A i \in Stale : i \in Used /\ i \in Slots /\ reginfo'[i] = NoClient
  BY <1>1, <1>2 DEF Checked, Stale, Late
<1>5. \A i \in Used \ Stale : /\ reginfo'[i] \in Client
                              /\ reginfo'[i].pid = reginfo[i].pid
                              /\ reginfo'[i].prg = reginfo[i].prg
                              /\ reginfo'[i].tcp = reginfo[i].tcp
                              /\ reginfo'[i].page = reginfo[i].page
  <2> SUFFICES ASSUME NEW i \in Used \ Stale
               PROVE  /\ reginfo'[i] \in Client
                      /\ reginfo'[i].pid = reginfo[i].pid
                      /\ reginfo'[i].prg = reginfo[i].prg
                      /\ reginfo'[i].tcp = reginfo[i].tcp
                      /\ reginfo'[i].page = reginfo[i].page
    OBVIOUS
  <2>1. CASE i \in Late
    BY <1>1, <1>2, <2>1, ZenonT(60) DEF Checked, Client
  <2>2. CASE i \notin Late
    BY <1>1, <1>2, <2>2 DEF Checked
  <2> QED
    BY <2>1, <2>2
<1>6. Used' = Used \ Stale
  BY <1>2, <1>3, <1>4, <1>5, ClientIsSome DEF Used
<1>7. OneSlotPerPid' /\ Alone'
  BY <1>5, <1>6 DEF OneSlotPerPid, Alone
<1>8. \A q \in Pids : proc'[q].st \in {"run", "hung"} =>
          proc[q].st \in {"run", "hung"} /\ proc'[q].conn = proc[q].conn
  <2> SUFFICES ASSUME NEW q \in Pids, proc'[q].st \in {"run", "hung"}
               PROVE  proc[q].st \in {"run", "hung"} /\ proc'[q].conn = proc[q].conn
    OBVIOUS
  <2>1. proc'[q] = proc[q] \/ proc'[q] = Ended(proc[q])
    BY DEF reg_check
  <2>2. proc[q] \in Process \cup {NoProc}
    BY DEF TypeOK
  <2>3. Ended(proc[q]).st \in {"zombie", "none"}
    BY <2>2 DEF Ended, Process, NoProc
  <2> QED
    BY <2>1, <2>3
<1>9. Linked'
  BY <1>2, <1>5, <1>6, <1>8 DEF Linked, Alive, Client
<1>10. /\ MailerSlots' = MailerSlots \ Stale
       /\ TcpSlots' = TcpSlots \ Stale
  BY <1>5, <1>6 DEF MailerSlots, TcpSlots, IsMailer
<1>11. /\ {i \in Stale : IsMailer(reginfo[i])} = MailerSlots \cap Stale
       /\ {i \in Stale : reginfo[i].tcp} = TcpSlots \cap Stale
       /\ Stale = Used \cap Stale
  BY <1>4 DEF MailerSlots, TcpSlots
<1>12. IsFiniteSet(Used) /\ IsFiniteSet(MailerSlots) /\ IsFiniteSet(TcpSlots)
  BY Sets, SlotsFinite
<1>13. /\ Cardinality(Used \ Stale) = Cardinality(Used) - Cardinality(Used \cap Stale)
       /\ Cardinality(MailerSlots \ Stale) =
              Cardinality(MailerSlots) - Cardinality(MailerSlots \cap Stale)
       /\ Cardinality(TcpSlots \ Stale) =
              Cardinality(TcpSlots) - Cardinality(TcpSlots \cap Stale)
  BY <1>12, FS_Difference
<1>14. /\ mailers' = mailers - Cardinality(MailerSlots \cap Stale)
       /\ ipmailers' = ipmailers - Cardinality(TcpSlots \cap Stale)
       /\ clients' = clients - Cardinality(Used \cap Stale)
  BY <1>11 DEF reg_check, Uncount
<1>15. /\ mailers = Cardinality(MailerSlots)
       /\ ipmailers = Cardinality(TcpSlots)
       /\ clients = Cardinality(Used) + 1
  BY DEF CountsAgree, MailerSlots, TcpSlots
<1>16. Cardinality(Used) \in Nat /\ Cardinality(Used \cap Stale) \in Nat
  BY <1>12, FS_CardinalityType, FS_Intersection
<1>17. /\ mailers' = Cardinality(MailerSlots')
       /\ ipmailers' = Cardinality(TcpSlots')
       /\ clients' = Cardinality(Used') + 1
  BY <1>6, <1>10, <1>13, <1>14, <1>15, <1>16
<1>18. CountsAgree'
  BY <1>17 DEF CountsAgree, MailerSlots, TcpSlots
<1> QED
  BY <1>7, <1>9, <1>18 DEF Safe
-----------------------------------------------------------------------------
LEMMA RegistryStarts ==
    ASSUME RegistryInit
    PROVE  RegistryInv
<1>1. \A i \in Slots : reginfo[i] = NoClient
  BY DEF RegistryInit
<1>2. Used = {} /\ MailerSlots = {} /\ TcpSlots = {}
  BY <1>1 DEF Used, MailerSlots, TcpSlots
<1>3. TypeOK
  BY DEF RegistryInit, TypeOK
<1>4. OneSlotPerPid /\ Linked /\ Alone
  BY <1>2 DEF OneSlotPerPid, Linked, Alone
<1>5. CountsAgree
  BY <1>2, FS_EmptySet DEF RegistryInit, CountsAgree, MailerSlots, TcpSlots
<1> QED
  BY <1>3, <1>4, <1>5 DEF RegistryInv, Tables

LEMMA RegistryStep ==
    ASSUME RegistryInv, [RegistryNext]_registry_vars
    PROVE  RegistryInv'
<1>1. /\ proc' \in [Pids -> Process \cup {NoProc}]
      /\ reginfo' \in [Slots -> Client \cup {NoClient}]
      /\ sysop' \in BOOLEAN
  BY Typing DEF RegistryInv, Tables
<1>2. Safe'
  <2>1. CASE reg_check
    BY <2>1, CheckStep
  <2>2. CASE \E b \in BOOLEAN : reg_sysop(b)
    <3>1. UNCHANGED <<proc, reginfo, counts>>
      BY <2>2 DEF reg_sysop
    <3> QED
      BY <3>1, ProcessesOnly DEF RegistryInv, Safe
  <2>3. ASSUME NEW p \in Pids, Command(p)
        PROVE  Safe'
    <3>1. CASE reg_newcon(p)
      BY <3>1, NewconStep
    <3>2. CASE reg_closecon(p)
      BY <3>2, CloseconStep
    <3>3. CASE reg_ip(p)
      BY <3>3, IpStep
    <3>4. CASE reg_page(p)
      BY <1>1, <3>4, PageStep
    <3>5. CASE reg_nop(p) \/ reg_timer(p) \/ reg_cancel(p) \/ reg_sysoptalk(p)
      BY <1>1, <3>5, QuietCommands
    <3> QED
      BY <2>3, <3>1, <3>2, <3>3, <3>4, <3>5 DEF Command
  <2>4. ASSUME NEW p \in Pids, Start(p) \/ ExitProgram(p) \/ Hang(p) \/ Reap(p)
        PROVE  Safe'
    BY <2>4, ProcessStep
  <2>5. ASSUME NEW i \in Slots, Lapse(i)
        PROVE  Safe'
    BY <1>1, <2>5, LapseStep
  <2>6. CASE UNCHANGED registry_vars
    <3>1. UNCHANGED <<proc, reginfo, counts>>
      BY <2>6 DEF registry_vars
    <3> QED
      BY <3>1, ProcessesOnly DEF RegistryInv, Safe
  <2> QED
    BY <2>1, <2>2, <2>3, <2>4, <2>5, <2>6 DEF RegistryNext
<1>3. CountsAgree'
  BY <1>2 DEF Safe
<1>4. /\ Cardinality(Used') \in Nat /\ Cardinality(MailerSlots') \in Nat
      /\ Cardinality(TcpSlots') \in Nat
  BY Sets, SlotsFinite
<1>5. mailers' \in Nat /\ ipmailers' \in Nat /\ clients' \in Nat
  BY <1>3, <1>4 DEF CountsAgree, MailerSlots, TcpSlots
<1> QED
  BY <1>1, <1>2, <1>5 DEF RegistryInv, Tables, Safe, TypeOK

LEMMA RegistrySafe == RegistrySpec => []RegistryInv
<1>1. RegistryInit => RegistryInv
  BY RegistryStarts
<1>2. RegistryInv /\ [RegistryNext]_registry_vars => RegistryInv'
  BY RegistryStep
<1> QED
  BY <1>1, <1>2, PTL DEF RegistrySpec

\* The counts of mailers, TCP/IP sessions and clients are those of the table of taskregs.c in
\* every reachable state, for any number of processes and slots: commands, deaths without a
\* word, time-outs and signals of reg_check included.
THEOREM CountsFollowTable == RegistrySpec => []CountsAgree
<1>1. RegistryInv => CountsAgree
  BY DEF RegistryInv
<1> QED
  BY <1>1, RegistrySafe, PTL

\* No two clients page the sysop or have paged him (reg_page), for any number of users.
THEOREM OneUserPages == RegistrySpec => []OnePager
<1>1. RegistryInv => OnePager
  <2> SUFFICES ASSUME RegistryInv PROVE OnePager
    OBVIOUS
  <2> DEFINE S == {i \in Used : reginfo[i].page # "no"}
  <2>1. S = {} \/ \E i : S = {i}
    BY DEF RegistryInv, Alone
  <2> HIDE DEF S
  <2>3. Cardinality(S) = 0 \/ Cardinality(S) = 1
    BY <2>1, FS_Singleton, FS_EmptySet, Zenon
  <2>2. Cardinality(S) <= 1
    BY <2>3
  <2> QED
    BY <2>2 DEF OnePager, S
<1> QED
  BY <1>1, RegistrySafe, PTL

\* A living process that is registered has one slot, the one reg_find returns, and has said
\* AINI; the tables keep their types.
THEOREM RegisteredOnce == RegistrySpec => [](TypeOK /\ OneSlotPerPid /\ Linked)
<1>1. RegistryInv => TypeOK /\ OneSlotPerPid /\ Linked
  BY DEF RegistryInv, Tables
<1> QED
  BY <1>1, RegistrySafe, PTL
=============================================================================
