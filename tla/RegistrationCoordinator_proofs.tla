-------------------- MODULE RegistrationCoordinator_proofs --------------------
(***************************************************************************)
(* Proofs about RegistrationCoordinator: the three promises of a           *)
(* registration across the two stores hold for every number of             *)
(* coordinators, failing calls, kills, power losses and foreign records.   *)
(*                                                                         *)
(* The promises are not inductive.  What carries them is where the record  *)
(* of a registration can be, seen from the place its coordinator is at:    *)
(* the lock holder finds nothing but foreign records behind original_size  *)
(* until it has written its own, and only cuts what it found to be its     *)
(* own; so nobody ever cuts or overwrites the record of somebody else.     *)
(***************************************************************************)
EXTENDS RegistrationCoordinator, TLAPS

-----------------------------------------------------------------------------
(* The inductive invariant. *)

HoldsWhole(f, r) == \E i \in 1 .. Len(f) : f[i] = Record(r, TRUE)

Published(t) == t.place = "final" /\ t.marker # "none" /\ t.whole

Served(r) ==
    /\ HoldsWhole(file, r) /\ HoldsWhole(diskFile, r)
    /\ Published(dir[r]) /\ Published(diskDir[r])

(* Nothing of a registration is left, unless a truncation was not synced. *)
Clean(r) ==
    /\ dir[r] = NoTree /\ diskDir[r] = NoTree
    /\ r \notin unsynced => ~Holds(file, r) /\ ~Holds(diskFile, r)

(* Every record behind the place of the own one belongs to one of S. *)
Behind(r, S) ==
    \A i \in 1 .. Len(file) : i > ctx[r].size => file[i].owner \in S

(* Before the record is written there is none, and the place for it is the *)
(* end of the file but for foreign records.                                *)
Unwritten(r) ==
    /\ pc[r] \in {"idle", "lock", "stage", "append"} => r \notin unsynced /\ ~Holds(file, r)
    /\ pc[r] \in {"stage", "append"} => Len(file) >= ctx[r].size /\ Behind(r, {Other})

(* The own record is nowhere but at original_size. *)
InPlace(r) ==
    pc[r] \in {"stage", "append", "sync", "publish", "confirm", "check", "hide",
               "truncate", "remove", "relock"}
        => \A i \in 1 .. Len(file) : file[i].owner = r => i = ctx[r].size + 1

(* A rollback found the own record, or there is none. *)
Undoing(r) ==
    /\ pc[r] \in {"hide", "truncate"} /\ ctx[r].found
           => Len(file) > ctx[r].size /\ Behind(r, {r, Other})
    /\ pc[r] \in {"hide", "truncate"} /\ ~ctx[r].found => ~Holds(file, r)
    /\ pc[r] = "remove" => ~Holds(file, r)
    /\ pc[r] = "relock" => ctx[r].prepared

(* What the steps toward Commit have established. *)
Written(r) ==
    /\ pc[r] \in {"sync", "publish", "confirm"} => HoldsWhole(file, r)
    /\ pc[r] \in {"publish", "confirm"} => HoldsWhole(diskFile, r)
    /\ pc[r] = "confirm" => Published(dir[r])
    /\ pc[r] = "commit" => Served(r)

(* A member was admitted at Commit and keeps what it was admitted with. *)
Settled(r) ==
    /\ pc[r] \in {"reopen", "finalize"} => standing[r] = "member"
    /\ standing[r] = "member" => pc[r] \in {"reopen", "finalize", "done", "dead"} /\ Served(r)
    /\ dir[r].marker = "committed" \/ diskDir[r].marker = "committed" => standing[r] = "member"

(* Where a coordinator is clean, and what its report says about the tree. *)
Told(r) ==
    /\ pc[r] \in {"idle", "lock", "stage"} => Clean(r)
    /\ pc[r] = "abort" /\ ~ctx[r].prepared => Clean(r)
    /\ report[r] # "none" => pc[r] = "done"
    /\ report[r] \in {"begin_failed", "prepare_failed", "abort_failed"} => Clean(r)
    /\ report[r] = "ok" => dir[r].marker = "committed" /\ diskDir[r].marker = "committed"

(* A record on the disk is in the file, unless its removal was not synced. *)
DiskFollows(r) == r \notin unsynced /\ Holds(diskFile, r) => Holds(file, r)

Sound(r) ==
    /\ Unwritten(r) /\ InPlace(r) /\ Undoing(r) /\ Written(r)
    /\ Settled(r) /\ Told(r) /\ DiskFollows(r)

(* The parts of TypeOK: who is where, and the rest. *)
Places == Working \cup {"idle", "done", "dead"}

Contexts == [size : Nat, bytes : {"none", "part", "whole"}, marked : BOOLEAN,
             prepared : BOOLEAN, found : BOOLEAN, retry : BOOLEAN]

PlacesOK ==
    /\ pc \in [Regs -> Places] /\ lock \in Regs \cup {Nobody}
    /\ \A r \in Regs : lock = r <=> pc[r] \in Critical

StoresOK ==
    /\ standing \in [Regs -> {"none", "applicant", "member", "gone"}]
    /\ name \in [Regs -> Names \cup {Nobody}]
    /\ ctx \in [Regs -> Contexts] /\ report \in [Regs -> Report]
    /\ file \in Seq(Records) /\ diskFile \in Seq(Records)
    /\ dir \in [Regs -> Trees] /\ diskDir \in [Regs -> Trees]
    /\ unsynced \subseteq Regs
    /\ faults \in Nat /\ stops \in Nat /\ others \in Nat

CoordinatorInv == PlacesOK /\ StoresOK /\ \A r \in Regs : Sound(r)

-----------------------------------------------------------------------------
(* Sequences: a record put at a place, and a file that is cut. *)

(* write_record_at: the record x at place n + 1. *)
Put(f, n, x) == SubSeq(f, 1, n) \o <<x>> \o SubSeq(f, n + 2, Len(f))

Placed(g, f, n, x) ==
    /\ n + 1 \in 1 .. Len(g) /\ g[n + 1] = x
    /\ \A i \in Nat : i # n + 1 => (i \in 1 .. Len(g) <=> i \in 1 .. Len(f))
    /\ \A i \in 1 .. Len(f) : i # n + 1 => g[i] = f[i]

(* Writing at a place that is the end of the file, or inside it, changes   *)
(* that place only.                                                        *)
LEMMA PutFacts ==
    ASSUME NEW S, NEW f \in Seq(S), NEW n \in Nat, n <= Len(f), NEW x \in S
    PROVE  Put(f, n, x) \in Seq(S) /\ Placed(Put(f, n, x), f, n, x)
<1> DEFINE a == SubSeq(f, 1, n)
           b == SubSeq(f, n + 2, Len(f))
           g == a \o <<x>> \o b
<1>1. a \in Seq(S) /\ Len(a) = n /\ \A i \in 1 .. n : a[i] = f[i]
  OBVIOUS
<1>2. b \in Seq(S) /\ (n = Len(f) => Len(b) = 0) /\ (n < Len(f) => Len(b) = Len(f) - n - 1)
  OBVIOUS
<1>3. \A i \in 1 .. Len(b) : b[i] = f[n + 1 + i]
  BY <1>2
<1> HIDE DEF a, b
<1>4. g \in Seq(S) /\ Len(g) = n + 1 + Len(b)
  BY <1>1, <1>2
<1>5. g[n + 1] = x
  BY <1>1, <1>2
<1>6. \A i \in 1 .. n : g[i] = a[i]
  BY <1>1, <1>2
<1>7. \A i \in 1 .. Len(b) : g[n + 1 + i] = b[i]
  BY <1>1, <1>2
<1>8. ASSUME NEW i \in 1 .. Len(f), i # n + 1 PROVE g[i] = f[i]
  <2>1. CASE i <= n
    BY <2>1, <1>1, <1>6
  <2>2. CASE i > n + 1
    <3> DEFINE k == i - (n + 1)
    <3>1. k \in 1 .. Len(b) /\ i = n + 1 + k
      BY <2>2, <1>2
    <3> HIDE DEF k
    <3>2. QED
      BY <3>1, <1>3, <1>7
  <2>3. i <= n \/ i > n + 1
    BY <1>8
  <2>4. QED
    BY <2>1, <2>2, <2>3
<1>9. \A i \in Nat : i # n + 1 => (i \in 1 .. Len(g) <=> i \in 1 .. Len(f))
  <2> HIDE DEF g
  <2>1. QED
    BY <1>2, <1>4
<1>10. n + 1 \in 1 .. Len(g)
  <2> HIDE DEF g
  <2>1. QED
    BY <1>2, <1>4
<1> HIDE DEF g
<1>11. QED
  BY <1>4, <1>5, <1>8, <1>9, <1>10 DEF Put, Placed, g, a, b

(* A file that is cut keeps its beginning. *)
LEMMA CutFacts ==
    ASSUME NEW S, NEW f \in Seq(S), NEW n \in Nat, n <= Len(f)
    PROVE  /\ SubSeq(f, 1, n) \in Seq(S)
           /\ Len(SubSeq(f, 1, n)) = n
           /\ \A i \in 1 .. n : SubSeq(f, 1, n)[i] = f[i]
OBVIOUS

-----------------------------------------------------------------------------
(* What a step does to the registrations it is not about. *)

(* Everything a coordinator owns is as it was. *)
Unmoved(r) ==
    /\ pc'[r] = pc[r] /\ ctx'[r] = ctx[r] /\ report'[r] = report[r]
    /\ standing'[r] = standing[r] /\ dir'[r] = dir[r] /\ diskDir'[r] = diskDir[r]
    /\ r \in unsynced' <=> r \in unsynced

(* The record of r stays where it is. *)
Kept(r) ==
    /\ \A i \in Nat : (i \in 1 .. Len(file') /\ file'[i].owner = r)
                          <=> (i \in 1 .. Len(file) /\ file[i].owner = r)
    /\ HoldsWhole(file, r) => HoldsWhole(file', r)

(* Nothing changes for a registration when only the disk follows. *)
LEMMA StillSound ==
    ASSUME NEW r \in Regs, Sound(r), Unmoved(r), file' = file,
           diskFile' = diskFile \/ diskFile' = file
    PROVE  Sound(r)'
<1>1. Unwritten(r)' /\ InPlace(r)' /\ Undoing(r)'
  BY DEF Sound, Unmoved, Unwritten, InPlace, Undoing, Behind, Holds
<1>2. HoldsWhole(file, r) /\ HoldsWhole(diskFile, r) => HoldsWhole(diskFile, r)'
  BY DEF HoldsWhole
<1>3. HoldsWhole(file, r) => HoldsWhole(file, r)'
  BY DEF HoldsWhole
<1>4. ~Holds(file, r) /\ ~Holds(diskFile, r) => ~Holds(file, r)' /\ ~Holds(diskFile, r)'
  BY DEF Holds
<1>5. Served(r) => Served(r)'
  BY <1>2, <1>3 DEF Served, Published, Unmoved
<1>6. Written(r)'
  BY <1>2, <1>3, <1>5 DEF Sound, Written, Published, Unmoved
<1>7. Settled(r)'
  BY <1>5 DEF Sound, Settled, Unmoved
<1>8. Clean(r) => Clean(r)'
  BY <1>4 DEF Clean, Unmoved
<1>9. Told(r)'
  BY <1>8 DEF Sound, Told, Unmoved
<1>10. DiskFollows(r)'
  BY DEF Sound, DiskFollows, Unmoved, Holds
<1>11. QED
  BY <1>1, <1>6, <1>7, <1>9, <1>10 DEF Sound

(* The lock holder may change the file, as long as it keeps the record. *)
LEMMA KeptSound ==
    ASSUME NEW r \in Regs, Sound(r), Unmoved(r), pc[r] \notin Critical, Kept(r),
           file \in Seq(Records), file' \in Seq(Records),
           diskFile' = diskFile \/ diskFile' = file'
    PROVE  Sound(r)'
<1>1. Holds(file', r) <=> Holds(file, r)
  BY DEF Kept, Holds
<1>2. InPlace(r)'
  BY DEF Sound, Unmoved, InPlace, Kept
<1>3. Unwritten(r)' /\ Undoing(r)'
  BY <1>1 DEF Sound, Unmoved, Unwritten, Undoing, Critical
<1>4. HoldsWhole(file, r) /\ HoldsWhole(diskFile, r)
        => HoldsWhole(file, r)' /\ HoldsWhole(diskFile, r)'
  BY DEF Kept
<1>5. ~Holds(file, r) /\ ~Holds(diskFile, r) => ~Holds(file, r)' /\ ~Holds(diskFile, r)'
  BY <1>1
<1>6. Served(r) => Served(r)'
  BY <1>4 DEF Served, Published, Unmoved
<1>7. Written(r)'
  BY <1>4, <1>6 DEF Sound, Written, Unmoved, Critical
<1>8. Settled(r)'
  BY <1>6 DEF Sound, Settled, Unmoved
<1>9. Clean(r) => Clean(r)'
  BY <1>5 DEF Clean, Unmoved
<1>10. Told(r)'
  BY <1>9 DEF Sound, Told, Unmoved
<1>11. DiskFollows(r)'
  BY <1>1 DEF Sound, DiskFollows, Unmoved
<1>12. QED
  BY <1>2, <1>3, <1>7, <1>8, <1>10, <1>11 DEF Sound

-----------------------------------------------------------------------------
(* The steps that leave users.data alone. *)

(* A step of r touches nothing that another coordinator owns. *)
Alone(r) ==
    \A q \in Regs \ {r} : Unmoved(q)

(* The other registrations when the file is as it was. *)
LEMMA OthersStill ==
    ASSUME NEW r \in Regs, CoordinatorInv, Alone(r), file' = file,
           diskFile' = diskFile \/ diskFile' = file
    PROVE  \A q \in Regs \ {r} : Sound(q)'
BY StillSound DEF Alone, CoordinatorInv

(* Together they are TypeOK. *)
LEMMA TypeParts == TypeOK <=> PlacesOK /\ StoresOK
BY DEF TypeOK, PlacesOK, StoresOK, Places, Contexts

(* A process takes the free lock as it enters its critical section, keeps  *)
(* it there and gives it back as it leaves.                                *)
LEMMA PlacesStep ==
    ASSUME PlacesOK, NEW r \in Regs, NEW l \in Places, Goto(r, l),
           \/ lock' = lock /\ (l \in Critical <=> pc[r] \in Critical)
           \/ lock' = Nobody /\ pc[r] \in Critical /\ l \notin Critical
           \/ lock = Nobody /\ lock' = r /\ l \in Critical
    PROVE  PlacesOK'
<1>1. pc' \in [Regs -> Places] /\ lock' \in Regs \cup {Nobody}
  BY DEF PlacesOK, Goto
<1>2. \A q \in Regs : pc'[q] = IF q = r THEN l ELSE pc[q]
  BY DEF PlacesOK, Goto
<1>3. Nobody \notin Regs
  BY CoordinatorAssumption
<1>4. \A q \in Regs : lock' = q <=> pc'[q] \in Critical
  BY <1>2, <1>3 DEF PlacesOK
<1>5. QED
  BY <1>1, <1>4 DEF PlacesOK

LEMMA BeginStep ==
    ASSUME NEW r \in Regs, CoordinatorInv, (\E n \in Names : Begin(r, n)) \/ BeginFails(r)
    PROVE  CoordinatorInv'
<1> USE DEF serverVars, storage, bounds, Goto, Return, Lifecycle!Apply
<1>1. PlacesOK'
  BY PlacesStep DEF CoordinatorInv, Begin, BeginFails, Places, Working, Critical
<1>10. StoresOK'
  <2>1. standing' \in [Regs -> {"none", "applicant", "member", "gone"}]
    BY DEF CoordinatorInv, StoresOK, Begin, BeginFails
  <2>2. name' \in [Regs -> Names \cup {Nobody}]
    BY DEF CoordinatorInv, StoresOK, Begin, BeginFails
  <2>3. report' \in [Regs -> Report]
    BY DEF CoordinatorInv, StoresOK, Begin, BeginFails, Report
  <2>4. QED
    BY <2>1, <2>2, <2>3 DEF CoordinatorInv, StoresOK, Begin, BeginFails
<1>2. Alone(r) /\ file' = file /\ diskFile' = diskFile
  BY DEF CoordinatorInv, PlacesOK, StoresOK, Begin, BeginFails, Alone, Unmoved
<1>3. /\ pc[r] = "idle" /\ report[r] = "none" /\ Clean(r) /\ Unwritten(r)
      /\ standing[r] # "member" /\ DiskFollows(r)
  BY DEF CoordinatorInv, Sound, Begin, BeginFails, Told, Settled, Unwritten
<1>4. Clean(r)' /\ DiskFollows(r)'
  BY <1>2, <1>3 DEF Clean, DiskFollows, Holds, Begin, BeginFails
<1>5. pc'[r] \in {"lock", "done"} /\ standing'[r] # "member"
  BY <1>3 DEF CoordinatorInv, PlacesOK, StoresOK, Begin, BeginFails
<1>6. /\ pc'[r] = "lock" => report'[r] = "none"
      /\ pc'[r] = "done" => report'[r] = "begin_failed"
  BY <1>3 DEF CoordinatorInv, PlacesOK, StoresOK, Begin, BeginFails
<1>7. Unwritten(r)' /\ InPlace(r)' /\ Undoing(r)' /\ Written(r)'
  BY <1>3, <1>5 DEF Unwritten, InPlace, Undoing, Written, Holds, Begin, BeginFails
<1>8. Settled(r)' /\ Told(r)'
  BY <1>4, <1>5, <1>6 DEF Settled, Told, Clean, NoTree, Tree
<1>9. QED
  BY <1>1, <1>10, <1>2, <1>4, <1>7, <1>8, OthersStill DEF CoordinatorInv, Sound

(* Before Commit there is no member, no committed marker and no report. *)
LEMMA BeforeCommit ==
    ASSUME NEW r \in Regs, CoordinatorInv, pc[r] \notin {"reopen", "finalize", "done", "dead"}
    PROVE  /\ standing[r] # "member" /\ report[r] = "none"
           /\ dir[r].marker # "committed" /\ diskDir[r].marker # "committed"
BY DEF CoordinatorInv, Sound, Settled, Told

LEMMA BoundsStep ==
    ASSUME StoresOK, Works \/ Fails
    PROVE  faults' \in Nat /\ stops' \in Nat /\ others' \in Nat
BY DEF StoresOK, Works, Fails, bounds

(* The fields of a context are set one by one. *)
LEMMA SizeUpdate ==
    ASSUME NEW c \in Contexts, NEW n \in Nat
    PROVE  [c EXCEPT !.size = n] \in Contexts /\ [c EXCEPT !.size = n].size = n
BY DEF Contexts

LEMMA FlagUpdate ==
    ASSUME NEW c \in Contexts, NEW b \in BOOLEAN
    PROVE  /\ [c EXCEPT !.marked = b] \in Contexts /\ [c EXCEPT !.marked = b].size = c.size
           /\ [c EXCEPT !.found = b] \in Contexts /\ [c EXCEPT !.found = b].size = c.size
           /\ [c EXCEPT !.found = b].found = b
           /\ [c EXCEPT !.prepared = b] \in Contexts /\ [c EXCEPT !.prepared = b].size = c.size
           /\ [c EXCEPT !.prepared = b].prepared = b
BY DEF Contexts

LEMMA BytesUpdate ==
    ASSUME NEW c \in Contexts, NEW w \in {"none", "part", "whole"}
    PROVE  [c EXCEPT !.bytes = w] \in Contexts /\ [c EXCEPT !.bytes = w].size = c.size
BY DEF Contexts

LEMMA ContextStep ==
    ASSUME NEW r \in Regs, StoresOK, NEW c \in Contexts, ctx' = [ctx EXCEPT ![r] = c]
    PROVE  /\ ctx' \in [Regs -> Contexts] /\ ctx'[r] = c
           /\ \A q \in Regs \ {r} : ctx'[q] = ctx[q]
BY DEF StoresOK

(* A user directory is changed, and perhaps synchronized. *)
LEMMA DirStep ==
    ASSUME NEW r \in Regs, StoresOK, NEW t \in Trees, SetDir(r, t)
    PROVE  /\ dir' \in [Regs -> Trees] /\ dir'[r] = t
           /\ \A q \in Regs \ {r} : dir'[q] = dir[q]
BY DEF StoresOK, SetDir

LEMMA TreeUpdate ==
    ASSUME NEW t \in Trees
    PROVE  /\ [t EXCEPT !.place = "staging"] \in Trees
           /\ [t EXCEPT !.place = "staging"].marker = t.marker
           /\ [t EXCEPT !.marker = "committed"] \in Trees
           /\ [t EXCEPT !.marker = "committed"].marker = "committed"
           /\ [t EXCEPT !.marker = "committed"].place = t.place
           /\ [t EXCEPT !.marker = "committed"].whole = t.whole
BY DEF Trees

LEMMA SyncDirStep ==
    ASSUME NEW r \in Regs, StoresOK, dir' \in [Regs -> Trees],
           diskDir' = [diskDir EXCEPT ![r] = dir'[r]]
    PROVE  /\ diskDir' \in [Regs -> Trees] /\ diskDir'[r] = dir'[r]
           /\ \A q \in Regs \ {r} : diskDir'[q] = diskDir[q]
BY DEF StoresOK

LEMMA LockStep ==
    ASSUME NEW r \in Regs, CoordinatorInv, Lock(r)
    PROVE  CoordinatorInv'
<1> USE DEF serverVars, storage
<1>1. PlacesOK'
  BY PlacesStep DEF CoordinatorInv, Lock, Places, Working, Critical
<1>2. \/ /\ pc' = [pc EXCEPT ![r] = "stage"]
         /\ ctx' = [ctx EXCEPT ![r].size = Len(file)]
      \/ pc' = [pc EXCEPT ![r] = "abort"] /\ ctx' = ctx
  BY DEF Lock, Goto
<1>3. /\ UNCHANGED <<standing, name, report, file, dir, diskFile, diskDir, unsynced>>
      /\ pc[r] = "lock"
  BY DEF Lock
<1>4. ctx' \in [Regs -> Contexts] /\ \A q \in Regs \ {r} : ctx'[q] = ctx[q]
  <2>1. CASE ctx' = [ctx EXCEPT ![r].size = Len(file)]
    <3> DEFINE c == [ctx[r] EXCEPT !.size = Len(file)]
    <3>1. c \in Contexts
      <4>1. ctx[r] \in Contexts /\ Len(file) \in Nat
        BY DEF CoordinatorInv, StoresOK
      <4>2. QED
        BY <4>1, SizeUpdate
    <3>2. QED
      BY <2>1, <3>1, ContextStep DEF CoordinatorInv
  <2>2. QED
    BY <1>2, <2>1 DEF CoordinatorInv, StoresOK
<1>5. StoresOK'
  BY <1>3, <1>4, BoundsStep DEF CoordinatorInv, StoresOK, Lock
<1>6. Alone(r)
  BY <1>2, <1>3, <1>4 DEF CoordinatorInv, PlacesOK, Alone, Unmoved
<1>7. /\ pc'[r] \in {"stage", "abort"}
      /\ pc'[r] = "stage" => ctx'[r].size = Len(file)
  BY <1>2, <1>3 DEF CoordinatorInv, PlacesOK, StoresOK, Contexts
<1>8. Clean(r) /\ r \notin unsynced /\ ~Holds(file, r) /\ DiskFollows(r)
  BY <1>3 DEF CoordinatorInv, Sound, Told, Unwritten
<1>9. Clean(r)' /\ r \notin unsynced' /\ ~Holds(file, r)' /\ DiskFollows(r)'
  BY <1>3, <1>8 DEF Clean, DiskFollows
<1>10. Unwritten(r)' /\ InPlace(r)'
  BY <1>3, <1>7, <1>9 DEF Unwritten, InPlace, Behind, Holds, CoordinatorInv, StoresOK
<1>11. Undoing(r)' /\ Written(r)'
  BY <1>7 DEF Undoing, Written
<1>12. Settled(r)' /\ Told(r)'
  BY <1>3, <1>7, <1>9, BeforeCommit DEF Settled, Told
<1>13. QED
  BY <1>1, <1>3, <1>5, <1>6, <1>9, <1>10, <1>11, <1>12, OthersStill DEF CoordinatorInv, Sound

LEMMA StageStep ==
    ASSUME NEW r \in Regs, CoordinatorInv, Stage(r)
    PROVE  CoordinatorInv'
<1> USE DEF serverVars, storage
<1>1. PlacesOK'
  BY PlacesStep DEF CoordinatorInv, Stage, Places, Working, Critical
<1>2. /\ UNCHANGED <<standing, name, report, file, diskFile, unsynced>>
      /\ pc[r] = "stage"
  BY DEF Stage
<1>3. PICK b \in BOOLEAN : ctx' = ctx \/ ctx' = [ctx EXCEPT ![r].marked = b]
  BY DEF Stage
<1>4. /\ ctx' \in [Regs -> Contexts] /\ \A q \in Regs \ {r} : ctx'[q] = ctx[q]
      /\ ctx'[r].size = ctx[r].size
  <2>1. CASE ctx' = [ctx EXCEPT ![r].marked = b]
    <3> DEFINE c == [ctx[r] EXCEPT !.marked = b]
    <3>1. c \in Contexts /\ c.size = ctx[r].size
      <4>1. ctx[r] \in Contexts
        BY DEF CoordinatorInv, StoresOK
      <4>2. QED
        BY <4>1, FlagUpdate
    <3> HIDE DEF c
    <3>2. QED
      BY <2>1, <3>1, ContextStep DEF CoordinatorInv, c
  <2>2. QED
    BY <1>3, <2>1 DEF CoordinatorInv, StoresOK
<1>5. /\ dir' \in [Regs -> Trees] /\ \A q \in Regs \ {r} : dir'[q] = dir[q]
      /\ diskDir' \in [Regs -> Trees] /\ \A q \in Regs \ {r} : diskDir'[q] = diskDir[q]
      /\ dir'[r].marker # "committed" /\ diskDir'[r].marker # "committed"
  <2> DEFINE T == {Tree("staging", "prepared", TRUE), Tree("staging", "none", FALSE)}
  <2>1. T \subseteq Trees /\ \A t \in T : t.marker # "committed"
    BY DEF Tree, Trees
  <2>2. dir' = dir \/ \E t \in T : SetDir(r, t)
    BY DEF Stage
  <2>3. diskDir' = diskDir \/ diskDir' = [diskDir EXCEPT ![r] = dir'[r]]
    BY DEF Stage, SyncDir
  <2>4. dir[r].marker # "committed" /\ diskDir[r].marker # "committed"
    BY <1>2, BeforeCommit
  <2> HIDE DEF T
  <2>5. /\ dir' \in [Regs -> Trees] /\ \A q \in Regs \ {r} : dir'[q] = dir[q]
        /\ dir'[r].marker # "committed"
    BY <2>1, <2>2, <2>4, DirStep DEF CoordinatorInv, StoresOK
  <2>6. QED
    BY <2>3, <2>4, <2>5, SyncDirStep DEF CoordinatorInv, StoresOK
<1>6. StoresOK'
  BY <1>2, <1>4, <1>5, BoundsStep DEF CoordinatorInv, StoresOK, Stage
<1>7. Alone(r)
  BY <1>2, <1>4, <1>5 DEF CoordinatorInv, PlacesOK, Alone, Unmoved, Stage, Goto
<1>8. \/ pc'[r] \in {"append", "check"}
      \/ pc'[r] = "abort" /\ dir' = dir /\ diskDir' = diskDir
  BY <1>2 DEF CoordinatorInv, PlacesOK, Stage, Goto
<1>9. /\ Clean(r) /\ r \notin unsynced /\ ~Holds(file, r) /\ DiskFollows(r)
      /\ Len(file) >= ctx[r].size /\ Behind(r, {Other})
  BY <1>2 DEF CoordinatorInv, Sound, Told, Unwritten
<1>10. /\ r \notin unsynced' /\ ~Holds(file, r)' /\ DiskFollows(r)'
       /\ Len(file') >= ctx'[r].size /\ Behind(r, {Other})'
  BY <1>2, <1>4, <1>9 DEF DiskFollows, Behind
<1>11. pc'[r] = "abort" => Clean(r)'
  BY <1>2, <1>8, <1>9 DEF Clean
<1>12. Unwritten(r)' /\ InPlace(r)'
  BY <1>8, <1>10 DEF Unwritten, InPlace, Holds
<1>13. Undoing(r)' /\ Written(r)'
  BY <1>8 DEF Undoing, Written
<1>14. Settled(r)' /\ Told(r)'
  BY <1>2, <1>5, <1>8, <1>11, BeforeCommit DEF Settled, Told
<1>15. QED
  BY <1>1, <1>2, <1>6, <1>7, <1>10, <1>12, <1>13, <1>14, OthersStill DEF CoordinatorInv, Sound

LEMMA SyncStep ==
    ASSUME NEW r \in Regs, CoordinatorInv, SyncRecord(r)
    PROVE  CoordinatorInv'
<1> USE DEF serverVars, storage
<1>1. PlacesOK'
  BY PlacesStep DEF CoordinatorInv, SyncRecord, Places, Working, Critical
<1>2. /\ UNCHANGED <<standing, name, ctx, report, file, dir, diskDir, unsynced>>
      /\ pc[r] = "sync" /\ diskFile' \in {file, diskFile}
  BY DEF SyncRecord
<1>3. StoresOK'
  BY <1>2, BoundsStep DEF CoordinatorInv, StoresOK, SyncRecord
<1>4. Alone(r)
  BY <1>2 DEF CoordinatorInv, PlacesOK, Alone, Unmoved, SyncRecord, Goto
<1>5. (pc'[r] = "publish" /\ diskFile' = file) \/ pc'[r] = "check"
  BY <1>2 DEF CoordinatorInv, PlacesOK, SyncRecord, Goto
<1>6. HoldsWhole(file, r) /\ InPlace(r) /\ DiskFollows(r)
  BY <1>2 DEF CoordinatorInv, Sound, Written
<1>7. InPlace(r)' /\ DiskFollows(r)' /\ Undoing(r)' /\ Unwritten(r)'
  BY <1>2, <1>5, <1>6 DEF InPlace, DiskFollows, Undoing, Unwritten
<1>8. Written(r)'
  BY <1>2, <1>5, <1>6 DEF Written
<1>9. Settled(r)' /\ Told(r)'
  BY <1>2, <1>5, BeforeCommit DEF Settled, Told
<1>10. QED
  BY <1>1, <1>2, <1>3, <1>4, <1>7, <1>8, <1>9, OthersStill DEF CoordinatorInv, Sound

LEMMA PublishStep ==
    ASSUME NEW r \in Regs, CoordinatorInv, Publish(r)
    PROVE  CoordinatorInv'
<1> USE DEF serverVars, storage
<1>1. PlacesOK'
  BY PlacesStep DEF CoordinatorInv, Publish, Places, Working, Critical
<1>2. /\ UNCHANGED <<standing, name, ctx, report, file, diskFile, diskDir, unsynced>>
      /\ pc[r] = "publish"
  BY DEF Publish
<1>3. /\ dir' \in [Regs -> Trees] /\ \A q \in Regs \ {r} : dir'[q] = dir[q]
      /\ dir'[r].marker # "committed"
      /\ \/ pc'[r] = "confirm" /\ Published(dir'[r])
         \/ pc'[r] = "check"
  <2> DEFINE t == Tree("final", "prepared", TRUE)
  <2>1. t \in Trees /\ t.marker # "committed" /\ Published(t)
    BY DEF Tree, Trees, Published
  <2> HIDE DEF t
  <2>2. \/ SetDir(r, t) /\ pc'[r] = "confirm"
        \/ dir' = dir /\ pc'[r] = "check"
    BY DEF Publish, t, Goto, CoordinatorInv, PlacesOK
  <2>3. QED
    BY <1>2, <2>1, <2>2, DirStep, BeforeCommit DEF CoordinatorInv, StoresOK
<1>4. StoresOK'
  BY <1>2, <1>3, BoundsStep DEF CoordinatorInv, StoresOK, Publish
<1>5. Alone(r)
  BY <1>2, <1>3 DEF CoordinatorInv, PlacesOK, Alone, Unmoved, Publish, Goto
<1>6. HoldsWhole(file, r) /\ HoldsWhole(diskFile, r) /\ InPlace(r) /\ DiskFollows(r)
  BY <1>2 DEF CoordinatorInv, Sound, Written
<1>7. InPlace(r)' /\ DiskFollows(r)' /\ Undoing(r)' /\ Unwritten(r)'
  BY <1>2, <1>3, <1>6 DEF InPlace, DiskFollows, Undoing, Unwritten
<1>8. Written(r)'
  BY <1>2, <1>3, <1>6 DEF Written
<1>9. Settled(r)' /\ Told(r)'
  BY <1>2, <1>3, BeforeCommit DEF Settled, Told
<1>10. QED
  BY <1>1, <1>2, <1>4, <1>5, <1>7, <1>8, <1>9, OthersStill DEF CoordinatorInv, Sound

LEMMA ConfirmStep ==
    ASSUME NEW r \in Regs, CoordinatorInv, Confirm(r)
    PROVE  CoordinatorInv'
<1> USE DEF serverVars, storage
<1>1. PlacesOK'
  BY PlacesStep DEF CoordinatorInv, Confirm, Places, Working, Critical
<1>2. /\ UNCHANGED <<standing, name, report, file, dir, diskFile, unsynced>>
      /\ pc[r] = "confirm"
  BY DEF Confirm
<1>3. /\ ctx' \in [Regs -> Contexts] /\ \A q \in Regs \ {r} : ctx'[q] = ctx[q]
      /\ ctx'[r].size = ctx[r].size
  <2> DEFINE c == [ctx[r] EXCEPT !.prepared = TRUE]
  <2>1. c \in Contexts /\ c.size = ctx[r].size
    <3>1. ctx[r] \in Contexts
      BY DEF CoordinatorInv, StoresOK
    <3>2. QED
      BY <3>1, FlagUpdate
  <2> HIDE DEF c
  <2>2. ctx' = ctx \/ ctx' = [ctx EXCEPT ![r] = c]
    BY DEF Confirm, c
  <2>3. QED
    BY <2>1, <2>2, ContextStep DEF CoordinatorInv, StoresOK
<1>4. /\ diskDir' \in [Regs -> Trees] /\ \A q \in Regs \ {r} : diskDir'[q] = diskDir[q]
      /\ diskDir'[r] \in {dir[r], diskDir[r]}
      /\ \/ pc'[r] = "commit" /\ diskDir'[r] = dir[r]
         \/ pc'[r] = "check"
  <2>1. \/ diskDir' = [diskDir EXCEPT ![r] = dir'[r]] /\ pc'[r] \in {"commit", "check"}
        \/ diskDir' = diskDir /\ pc'[r] = "check"
    BY <1>2 DEF Confirm, Goto, CoordinatorInv, PlacesOK
  <2>2. QED
    BY <1>2, <2>1, SyncDirStep DEF CoordinatorInv, StoresOK
<1>5. StoresOK'
  BY <1>2, <1>3, <1>4, BoundsStep DEF CoordinatorInv, StoresOK, Confirm
<1>6. Alone(r)
  BY <1>2, <1>3, <1>4 DEF CoordinatorInv, PlacesOK, Alone, Unmoved, Confirm, Goto
<1>7. /\ HoldsWhole(file, r) /\ HoldsWhole(diskFile, r) /\ Published(dir[r])
      /\ InPlace(r) /\ DiskFollows(r)
  BY <1>2 DEF CoordinatorInv, Sound, Written
<1>8. InPlace(r)' /\ DiskFollows(r)' /\ Undoing(r)' /\ Unwritten(r)'
  BY <1>2, <1>3, <1>4, <1>7 DEF InPlace, DiskFollows, Undoing, Unwritten
<1>9. Written(r)'
  BY <1>2, <1>4, <1>7 DEF Written, Served
<1>10. Settled(r)' /\ Told(r)'
  BY <1>2, <1>4, BeforeCommit DEF Settled, Told
<1>11. QED
  BY <1>1, <1>2, <1>5, <1>6, <1>8, <1>9, <1>10, OthersStill DEF CoordinatorInv, Sound

-----------------------------------------------------------------------------
(* Rollback. *)

(* A rollback that fails keeps the place of the record and is remembered. *)
LEMMA GivingUp ==
    ASSUME NEW r \in Regs, CoordinatorInv, UndoFails(r), pc[r] \in Critical
    PROVE  /\ PlacesOK' /\ pc'[r] \in {"abort", "relock"}
           /\ \A q \in Regs \ {r} : pc'[q] = pc[q]
           /\ ctx' \in [Regs -> Contexts] /\ \A q \in Regs \ {r} : ctx'[q] = ctx[q]
           /\ ctx'[r].size = ctx[r].size /\ ctx'[r].prepared
<1> DEFINE l == IF ctx[r].retry THEN "abort" ELSE "relock"
           c == [ctx[r] EXCEPT !.prepared = TRUE]
<1>1. l \in {"abort", "relock"} /\ l \in Places /\ l \notin Critical
  BY DEF Places, Working, Critical
<1>2. c \in Contexts /\ c.size = ctx[r].size /\ c.prepared
  <2>1. ctx[r] \in Contexts
    BY DEF CoordinatorInv, StoresOK
  <2>2. QED
    BY <2>1, FlagUpdate
<1>3. lock' = Nobody /\ Goto(r, l) /\ ctx' = [ctx EXCEPT ![r] = c]
  BY DEF UndoFails
<1> HIDE DEF l, c
<1>4. PlacesOK'
  BY <1>1, <1>3, PlacesStep DEF CoordinatorInv
<1>5. pc'[r] = l /\ \A q \in Regs \ {r} : pc'[q] = pc[q]
  BY <1>3 DEF Goto, CoordinatorInv, PlacesOK
<1>6. QED
  BY <1>1, <1>2, <1>3, <1>4, <1>5, ContextStep DEF CoordinatorInv

LEMMA GivenUp ==
    ASSUME NEW r \in Regs, CoordinatorInv, pc[r] \in {"check", "hide", "truncate", "remove"},
           UndoFails(r), standing' = standing, report' = report,
           dir'[r].marker # "committed", diskDir'[r].marker # "committed",
           \A i \in 1 .. Len(file') : file'[i].owner = r => i = ctx[r].size + 1,
           DiskFollows(r)'
    PROVE  Sound(r)'
<1>1. pc'[r] \in {"abort", "relock"} /\ ctx'[r].size = ctx[r].size /\ ctx'[r].prepared
  BY GivingUp DEF Critical
<1>2. Unwritten(r)' /\ InPlace(r)' /\ Undoing(r)' /\ Written(r)'
  BY <1>1 DEF Unwritten, InPlace, Undoing, Written
<1>3. Settled(r)' /\ Told(r)'
  BY <1>1, BeforeCommit DEF Settled, Told
<1>4. QED
  BY <1>2, <1>3 DEF Sound

LEMMA UndoCheckStep ==
    ASSUME NEW r \in Regs, CoordinatorInv, UndoCheck(r)
    PROVE  CoordinatorInv'
<1> USE DEF serverVars, storage
<1>1. /\ UNCHANGED <<standing, name, report, file, dir, diskFile, diskDir, unsynced>>
      /\ pc[r] = "check" /\ (Works \/ Fails)
  BY DEF UndoCheck
<1>2. InPlace(r) /\ DiskFollows(r)
  BY DEF CoordinatorInv, Sound
<1>3. DiskFollows(r)'
  BY <1>1, <1>2 DEF DiskFollows
<1>4. dir[r].marker # "committed" /\ diskDir[r].marker # "committed"
  BY <1>1, BeforeCommit
<1>5. ASSUME UndoFails(r) PROVE CoordinatorInv'
  <2>1. StoresOK'
    BY <1>1, <1>5, GivingUp, BoundsStep DEF CoordinatorInv, StoresOK, Critical
  <2>2. Alone(r)
    BY <1>1, <1>5, GivingUp DEF Alone, Unmoved, Critical
  <2>3. Sound(r)'
    BY <1>1, <1>2, <1>3, <1>4, <1>5, GivenUp DEF InPlace
  <2>4. QED
    BY <1>1, <1>5, <2>1, <2>2, <2>3, GivingUp, OthersStill DEF CoordinatorInv, Critical
<1>6. ASSUME Safe(r), lock' = lock,
             ctx' = [ctx EXCEPT ![r].found = ctx[r].bytes # "none" /\ OwnTail(r)],
             Goto(r, IF dir[r].place = "final" THEN "hide" ELSE "truncate")
      PROVE  CoordinatorInv'
  <2> DEFINE b == ctx[r].bytes # "none" /\ OwnTail(r)
             c == [ctx[r] EXCEPT !.found = b]
             l == IF dir[r].place = "final" THEN "hide" ELSE "truncate"
  <2>1. b \in BOOLEAN /\ l \in {"hide", "truncate"}
    OBVIOUS
  <2>2. b => Len(file) > ctx[r].size /\ Behind(r, {r, Other})
    BY DEF OwnTail, Behind, Record, CoordinatorInv, StoresOK, Contexts
  <2>3. ~b => ~Holds(file, r)
    BY <1>1, <1>2, <1>6 DEF Safe, InPlace, Holds, CoordinatorInv, StoresOK, Contexts
  <2>4. Goto(r, l) /\ ctx' = [ctx EXCEPT ![r] = c]
    BY <1>6
  <2> HIDE DEF b, l
  <2>5. c \in Contexts /\ c.size = ctx[r].size /\ c.found = b
    <3>1. ctx[r] \in Contexts
      BY DEF CoordinatorInv, StoresOK
    <3>2. QED
      BY <2>1, <3>1, FlagUpdate
  <2> HIDE DEF c
  <2>6. /\ ctx' \in [Regs -> Contexts] /\ \A q \in Regs \ {r} : ctx'[q] = ctx[q]
        /\ ctx'[r].size = ctx[r].size /\ ctx'[r].found = b
    BY <2>4, <2>5, ContextStep DEF CoordinatorInv
  <2>7. PlacesOK'
    BY <1>1, <1>6, <2>1, <2>4, PlacesStep DEF CoordinatorInv, Places, Working, Critical
  <2>8. StoresOK'
    BY <1>1, <2>6, BoundsStep DEF CoordinatorInv, StoresOK
  <2>9. pc'[r] = l /\ Alone(r)
    BY <1>1, <2>4, <2>6 DEF Alone, Unmoved, Goto, CoordinatorInv, PlacesOK
  <2>10. Unwritten(r)' /\ InPlace(r)' /\ Written(r)'
    BY <1>1, <1>2, <2>1, <2>6, <2>9 DEF Unwritten, InPlace, Written
  <2>11. Undoing(r)'
    BY <1>1, <2>1, <2>2, <2>3, <2>6, <2>9 DEF Undoing, Behind
  <2>12. Settled(r)' /\ Told(r)'
    BY <1>1, <2>1, <2>9, BeforeCommit DEF Settled, Told
  <2>13. QED
    BY <1>1, <1>3, <2>7, <2>8, <2>9, <2>10, <2>11, <2>12, OthersStill
       DEF CoordinatorInv, Sound
<1>7. QED
  BY <1>5, <1>6 DEF UndoCheck

LEMMA UndoHideStep ==
    ASSUME NEW r \in Regs, CoordinatorInv, UndoHide(r)
    PROVE  CoordinatorInv'
<1> USE DEF serverVars, storage
<1>1. /\ UNCHANGED <<standing, name, report, file, diskFile, unsynced>>
      /\ pc[r] = "hide" /\ (Works \/ Fails)
  BY DEF UndoHide
<1>2. InPlace(r) /\ DiskFollows(r) /\ Undoing(r)
  BY DEF CoordinatorInv, Sound
<1>3. DiskFollows(r)'
  BY <1>1, <1>2 DEF DiskFollows
<1>4. /\ dir' \in [Regs -> Trees] /\ \A q \in Regs \ {r} : dir'[q] = dir[q]
      /\ diskDir' \in [Regs -> Trees] /\ \A q \in Regs \ {r} : diskDir'[q] = diskDir[q]
      /\ dir'[r].marker # "committed" /\ diskDir'[r].marker # "committed"
  <2> DEFINE t == [dir[r] EXCEPT !.place = "staging"]
  <2>1. t \in Trees /\ t.marker = dir[r].marker
    <3>1. dir[r] \in Trees
      BY DEF CoordinatorInv, StoresOK
    <3>2. QED
      BY <3>1, TreeUpdate
  <2> HIDE DEF t
  <2>2. dir' = dir \/ SetDir(r, t)
    BY DEF UndoHide, t
  <2>3. diskDir' = diskDir \/ diskDir' = [diskDir EXCEPT ![r] = dir'[r]]
    BY DEF UndoHide, SyncDir
  <2>4. dir[r].marker # "committed" /\ diskDir[r].marker # "committed"
    BY <1>1, BeforeCommit
  <2>5. /\ dir' \in [Regs -> Trees] /\ \A q \in Regs \ {r} : dir'[q] = dir[q]
        /\ dir'[r].marker # "committed"
    BY <2>1, <2>2, <2>4, DirStep DEF CoordinatorInv, StoresOK
  <2>6. QED
    BY <2>3, <2>4, <2>5, SyncDirStep DEF CoordinatorInv, StoresOK
<1>5. ASSUME UndoFails(r) PROVE CoordinatorInv'
  <2>1. StoresOK'
    BY <1>1, <1>4, <1>5, GivingUp, BoundsStep DEF CoordinatorInv, StoresOK, Critical
  <2>2. Alone(r)
    BY <1>1, <1>4, <1>5, GivingUp DEF Alone, Unmoved, Critical
  <2>3. Sound(r)'
    BY <1>1, <1>2, <1>3, <1>4, <1>5, GivenUp DEF InPlace
  <2>4. QED
    BY <1>1, <1>5, <2>1, <2>2, <2>3, GivingUp, OthersStill DEF CoordinatorInv, Critical
<1>6. ASSUME Goto(r, "truncate"), ctx' = ctx, lock' = lock PROVE CoordinatorInv'
  <2>1. PlacesOK'
    BY <1>1, <1>6, PlacesStep DEF CoordinatorInv, Places, Working, Critical
  <2>2. StoresOK'
    BY <1>1, <1>4, <1>6, BoundsStep DEF CoordinatorInv, StoresOK
  <2>3. pc'[r] = "truncate" /\ Alone(r)
    BY <1>1, <1>4, <1>6 DEF Alone, Unmoved, Goto, CoordinatorInv, PlacesOK
  <2>4. Unwritten(r)' /\ InPlace(r)' /\ Written(r)' /\ Undoing(r)'
    BY <1>1, <1>2, <1>6, <2>3 DEF Unwritten, InPlace, Written, Undoing, Behind
  <2>5. Settled(r)' /\ Told(r)'
    BY <1>1, <1>4, <2>3, BeforeCommit DEF Settled, Told
  <2>6. QED
    BY <1>1, <1>3, <2>1, <2>2, <2>3, <2>4, <2>5, OthersStill DEF CoordinatorInv, Sound
<1>7. QED
  BY <1>5, <1>6 DEF UndoHide

LEMMA UndoRemoveStep ==
    ASSUME NEW r \in Regs, CoordinatorInv, UndoRemove(r)
    PROVE  CoordinatorInv'
<1> USE DEF serverVars, storage
<1>1. /\ UNCHANGED <<standing, name, report, file, diskFile, unsynced>>
      /\ pc[r] = "remove" /\ (Works \/ Fails)
  BY DEF UndoRemove
<1>2. InPlace(r) /\ DiskFollows(r) /\ ~Holds(file, r)
  BY <1>1 DEF CoordinatorInv, Sound, Undoing
<1>3. DiskFollows(r)'
  BY <1>1, <1>2 DEF DiskFollows
<1>4. /\ dir[r].marker # "committed" /\ diskDir[r].marker # "committed"
      /\ NoTree \in Trees /\ NoTree.marker # "committed"
  BY <1>1, BeforeCommit DEF NoTree, Tree, Trees
<1>5. ASSUME UndoFails(r), diskDir' = diskDir,
             dir' = dir \/ SetDir(r, NoTree)
                 \/ \E m \in {dir[r].marker, "none"} : SetDir(r, Tree("staging", m, FALSE))
      PROVE  CoordinatorInv'
  <2>1. \A m \in {dir[r].marker, "none"} :
           Tree("staging", m, FALSE) \in Trees /\ Tree("staging", m, FALSE).marker # "committed"
    BY <1>4 DEF Tree, Trees, CoordinatorInv, StoresOK
  <2>2. /\ dir' \in [Regs -> Trees] /\ \A q \in Regs \ {r} : dir'[q] = dir[q]
        /\ dir'[r].marker # "committed"
    BY <1>4, <1>5, <2>1, DirStep DEF CoordinatorInv, StoresOK
  <2>3. StoresOK'
    BY <1>1, <1>5, <2>2, GivingUp, BoundsStep DEF CoordinatorInv, StoresOK, Critical
  <2>4. Alone(r)
    BY <1>1, <1>5, <2>2, GivingUp DEF Alone, Unmoved, Critical
  <2>5. Sound(r)'
    BY <1>1, <1>2, <1>3, <1>4, <1>5, <2>2, GivenUp DEF InPlace
  <2>6. QED
    BY <1>1, <1>5, <2>3, <2>4, <2>5, GivingUp, OthersStill DEF CoordinatorInv, Critical
<1>6. ASSUME SetDir(r, NoTree), SyncDir(r), lock' = Nobody,
             ctx' = [ctx EXCEPT ![r] = NoContext], Goto(r, "abort")
      PROVE  CoordinatorInv'
  <2>1. /\ dir' \in [Regs -> Trees] /\ dir'[r] = NoTree
        /\ \A q \in Regs \ {r} : dir'[q] = dir[q]
    BY <1>4, <1>6, DirStep DEF CoordinatorInv
  <2>2. /\ diskDir' \in [Regs -> Trees] /\ diskDir'[r] = NoTree
        /\ \A q \in Regs \ {r} : diskDir'[q] = diskDir[q]
    BY <1>6, <2>1, SyncDirStep DEF CoordinatorInv, SyncDir
  <2>3. NoContext \in Contexts
    BY DEF NoContext, Contexts
  <2>4. ctx' \in [Regs -> Contexts] /\ \A q \in Regs \ {r} : ctx'[q] = ctx[q]
    BY <1>6, <2>3, ContextStep DEF CoordinatorInv
  <2>5. PlacesOK'
    BY <1>1, <1>6, PlacesStep DEF CoordinatorInv, Places, Working, Critical
  <2>6. StoresOK'
    BY <1>1, <2>1, <2>2, <2>4, BoundsStep DEF CoordinatorInv, StoresOK
  <2>7. pc'[r] = "abort" /\ Alone(r)
    BY <1>1, <1>6, <2>1, <2>2, <2>4 DEF Alone, Unmoved, Goto, CoordinatorInv, PlacesOK
  <2>8. Clean(r)'
    BY <1>1, <1>2, <2>1, <2>2 DEF Clean, DiskFollows
  <2>9. Unwritten(r)' /\ InPlace(r)' /\ Written(r)' /\ Undoing(r)'
    BY <2>7 DEF Unwritten, InPlace, Written, Undoing
  <2>10. Settled(r)' /\ Told(r)'
    BY <1>1, <1>4, <2>1, <2>2, <2>7, <2>8, BeforeCommit DEF Settled, Told
  <2>11. QED
    BY <1>1, <1>3, <2>5, <2>6, <2>7, <2>9, <2>10, OthersStill DEF CoordinatorInv, Sound
<1>7. QED
  BY <1>5, <1>6 DEF UndoRemove

LEMMA RelockStep ==
    ASSUME NEW r \in Regs, CoordinatorInv, Relock(r)
    PROVE  CoordinatorInv'
<1> USE DEF serverVars, storage
<1>1. /\ UNCHANGED <<standing, name, report, file, dir, diskFile, diskDir, unsynced>>
      /\ pc[r] = "relock" /\ (Works \/ Fails)
  BY DEF Relock
<1>2. PlacesOK'
  BY PlacesStep DEF CoordinatorInv, Relock, Places, Working, Critical
<1>3. InPlace(r) /\ DiskFollows(r) /\ ctx[r].prepared
  BY <1>1 DEF CoordinatorInv, Sound, Undoing
<1>4. /\ ctx' \in [Regs -> Contexts] /\ \A q \in Regs \ {r} : ctx'[q] = ctx[q]
      /\ ctx'[r].size = ctx[r].size
      /\ pc'[r] = "abort" => ctx'[r] = ctx[r]
      /\ pc'[r] \in {"abort", "check"}
  <2> DEFINE c == [ctx[r] EXCEPT !.bytes = "whole", !.marked = TRUE, !.retry = TRUE]
  <2>1. c \in Contexts /\ c.size = ctx[r].size
    <3>1. ctx[r] \in Contexts
      BY DEF CoordinatorInv, StoresOK
    <3>2. QED
      BY <3>1 DEF Contexts
  <2>2. \/ ctx' = [ctx EXCEPT ![r] = c] /\ pc'[r] = "check"
        \/ ctx' = ctx /\ pc'[r] = "abort"
    <3>1. CASE ctx' = ctx /\ Goto(r, "abort")
      BY <3>1 DEF Goto, CoordinatorInv, PlacesOK
    <3>2. CASE /\ ctx' = [ctx EXCEPT ![r].bytes = "whole", ![r].marked = TRUE, ![r].retry = TRUE]
               /\ Goto(r, "check")
      BY <3>2 DEF Goto, CoordinatorInv, PlacesOK, StoresOK, Contexts
    <3>3. QED
      BY <3>1, <3>2 DEF Relock
  <2> HIDE DEF c
  <2>3. QED
    BY <2>1, <2>2, ContextStep DEF CoordinatorInv, StoresOK
<1>5. StoresOK'
  BY <1>1, <1>4, BoundsStep DEF CoordinatorInv, StoresOK
<1>6. Alone(r)
  BY <1>1, <1>4 DEF Alone, Unmoved, Relock, Goto, CoordinatorInv, PlacesOK
<1>7. Unwritten(r)' /\ InPlace(r)' /\ Written(r)' /\ Undoing(r)' /\ DiskFollows(r)'
  BY <1>1, <1>3, <1>4 DEF Unwritten, InPlace, Written, Undoing, DiskFollows
<1>8. Settled(r)' /\ Told(r)'
  BY <1>1, <1>3, <1>4, BeforeCommit DEF Settled, Told
<1>9. QED
  BY <1>1, <1>2, <1>5, <1>6, <1>7, <1>8, OthersStill DEF CoordinatorInv, Sound

-----------------------------------------------------------------------------
(* The answers of the server. *)

LEMMA AbortStep ==
    ASSUME NEW r \in Regs, CoordinatorInv, Abort(r)
    PROVE  CoordinatorInv'
<1> USE DEF serverVars, storage, bounds, Goto, Return, Lifecycle!Withdraw
<1>1. /\ UNCHANGED <<name, ctx, lock, file, dir, diskFile, diskDir, unsynced>>
      /\ UNCHANGED <<faults, stops, others>> /\ pc[r] = "abort"
      /\ pc' = [pc EXCEPT ![r] = "done"]
  BY DEF Abort
<1>2. PlacesOK'
  BY <1>1, PlacesStep DEF CoordinatorInv, Places, Working, Critical
<1>3. standing' \in [Regs -> {"none", "applicant", "member", "gone"}]
      /\ standing'[r] # "member" /\ \A q \in Regs \ {r} : standing'[q] = standing[q]
  BY <1>1, BeforeCommit DEF Abort, CoordinatorInv, StoresOK
<1>4. PICK s \in {"rollback_failed", "prepare_failed", "abort_failed"} :
         report' = [report EXCEPT ![r] = s] /\ (ctx[r].prepared => s = "rollback_failed")
  BY DEF Abort
<1>5. /\ report' \in [Regs -> Report] /\ report'[r] = s
      /\ \A q \in Regs \ {r} : report'[q] = report[q]
  BY <1>4 DEF CoordinatorInv, StoresOK, Report
<1>6. StoresOK'
  BY <1>1, <1>3, <1>5 DEF CoordinatorInv, StoresOK
<1>7. pc'[r] = "done" /\ Alone(r)
  BY <1>1, <1>3, <1>5 DEF Alone, Unmoved, CoordinatorInv, PlacesOK
<1>8. DiskFollows(r) /\ (~ctx[r].prepared => Clean(r))
  BY <1>1 DEF CoordinatorInv, Sound, Told
<1>9. DiskFollows(r)' /\ (~ctx[r].prepared => Clean(r)')
  BY <1>1, <1>8 DEF DiskFollows, Clean
<1>10. Unwritten(r)' /\ InPlace(r)' /\ Written(r)' /\ Undoing(r)'
  BY <1>7 DEF Unwritten, InPlace, Written, Undoing
<1>11. Settled(r)' /\ Told(r)'
  BY <1>1, <1>3, <1>4, <1>5, <1>7, <1>9, BeforeCommit DEF Settled, Told
<1>12. QED
  BY <1>1, <1>2, <1>6, <1>7, <1>9, <1>10, <1>11, OthersStill DEF CoordinatorInv, Sound

LEMMA CommitStep ==
    ASSUME NEW r \in Regs, CoordinatorInv, Commit(r) \/ CommitFails(r)
    PROVE  CoordinatorInv'
<1> USE DEF serverVars, storage, bounds, Goto, Return, Lifecycle!Admit
<1>1. /\ UNCHANGED <<name, ctx, lock, file, dir, diskFile, diskDir, unsynced>>
      /\ UNCHANGED <<faults, stops, others>> /\ pc[r] = "commit"
  BY DEF Commit, CommitFails
<1>2. \/ /\ pc' = [pc EXCEPT ![r] = "reopen"] /\ report' = report
         /\ standing' = [standing EXCEPT ![r] = "member"]
      \/ /\ pc' = [pc EXCEPT ![r] = "done"]
         /\ \E s \in {"commit_failed", "outcome_unknown"} : report' = [report EXCEPT ![r] = s]
         /\ standing' = standing \/ standing' = [standing EXCEPT ![r] = "member"]
  BY DEF Commit, CommitFails
<1>3. PlacesOK'
  BY <1>1, <1>2, PlacesStep DEF CoordinatorInv, Places, Working, Critical
<1>4. standing' \in [Regs -> {"none", "applicant", "member", "gone"}]
      /\ \A q \in Regs \ {r} : standing'[q] = standing[q]
  BY <1>2 DEF CoordinatorInv, StoresOK
<1>5. /\ report' \in [Regs -> Report]
      /\ \A q \in Regs \ {r} : report'[q] = report[q]
      /\ report'[r] = report[r] \/ report'[r] \in {"commit_failed", "outcome_unknown"}
  BY <1>2 DEF CoordinatorInv, StoresOK, Report
<1>6. StoresOK'
  BY <1>1, <1>4, <1>5 DEF CoordinatorInv, StoresOK
<1>7. Alone(r)
  BY <1>1, <1>2, <1>4, <1>5 DEF Alone, Unmoved, CoordinatorInv, PlacesOK
<1>8. \/ pc'[r] = "reopen" /\ report'[r] = report[r] /\ standing'[r] = "member"
      \/ pc'[r] = "done"
  BY <1>2 DEF CoordinatorInv, PlacesOK, StoresOK
<1>9. DiskFollows(r) /\ Served(r)
  BY <1>1 DEF CoordinatorInv, Sound, Written
<1>10. DiskFollows(r)' /\ Served(r)'
  BY <1>1, <1>9 DEF DiskFollows, Served
<1>11. Unwritten(r)' /\ InPlace(r)' /\ Written(r)' /\ Undoing(r)'
  BY <1>8 DEF Unwritten, InPlace, Written, Undoing
<1>12. Settled(r)' /\ Told(r)'
  BY <1>1, <1>5, <1>8, <1>10, BeforeCommit DEF Settled, Told
<1>13. QED
  BY <1>1, <1>3, <1>6, <1>7, <1>10, <1>11, <1>12, OthersStill DEF CoordinatorInv, Sound

LEMMA WithdrawStep ==
    ASSUME NEW r \in Regs, CoordinatorInv, ServerWithdraws(r)
    PROVE  CoordinatorInv'
<1> USE DEF serverVars, storage, bounds, Lifecycle!Withdraw
<1>1. /\ UNCHANGED <<name, pc, ctx, report, lock, file, dir, diskFile, diskDir, unsynced>>
      /\ UNCHANGED <<faults, stops, others>> /\ standing[r] = "applicant"
  BY DEF ServerWithdraws
<1>2. standing' \in [Regs -> {"none", "applicant", "member", "gone"}]
      /\ standing'[r] = "gone" /\ \A q \in Regs \ {r} : standing'[q] = standing[q]
  BY DEF ServerWithdraws, CoordinatorInv, StoresOK
<1>3. PlacesOK' /\ StoresOK'
  BY <1>1, <1>2 DEF CoordinatorInv, PlacesOK, StoresOK
<1>4. Alone(r)
  BY <1>1, <1>2 DEF Alone, Unmoved
<1>5. /\ Unwritten(r) /\ InPlace(r) /\ Undoing(r) /\ Written(r) /\ Told(r) /\ DiskFollows(r)
      /\ pc[r] \notin {"reopen", "finalize"}
      /\ dir[r].marker # "committed" /\ diskDir[r].marker # "committed"
  BY <1>1 DEF CoordinatorInv, Sound, Settled
<1>6. Unwritten(r)' /\ InPlace(r)' /\ Undoing(r)' /\ Written(r)' /\ DiskFollows(r)'
  BY <1>1, <1>5 DEF Unwritten, InPlace, Undoing, Behind, Written, Served, DiskFollows
<1>7. Told(r)'
  BY <1>1, <1>5 DEF Told, Clean
<1>8. Settled(r)'
  BY <1>1, <1>2, <1>5 DEF Settled
<1>9. QED
  BY <1>1, <1>3, <1>4, <1>6, <1>7, <1>8, OthersStill DEF CoordinatorInv, Sound

LEMMA ReopenStep ==
    ASSUME NEW r \in Regs, CoordinatorInv, Reopen(r)
    PROVE  CoordinatorInv'
<1> USE DEF serverVars, storage, Goto, Return
<1>1. /\ UNCHANGED <<standing, name, ctx, file, dir, diskFile, diskDir, unsynced>>
      /\ pc[r] = "reopen" /\ (Works \/ Fails)
  BY DEF Reopen
<1>2. PlacesOK'
  BY PlacesStep DEF CoordinatorInv, Reopen, Places, Working, Critical
<1>3. \/ pc' = [pc EXCEPT ![r] = "finalize"] /\ report' = report
      \/ /\ pc' = [pc EXCEPT ![r] = "done"]
         /\ report' = [report EXCEPT ![r] = "ok_marker_pending"]
  BY DEF Reopen
<1>4. report' \in [Regs -> Report] /\ \A q \in Regs \ {r} : report'[q] = report[q]
  BY <1>3 DEF CoordinatorInv, StoresOK, Report
<1>5. StoresOK'
  BY <1>1, <1>4, BoundsStep DEF CoordinatorInv, StoresOK
<1>6. Alone(r)
  BY <1>1, <1>3, <1>4 DEF Alone, Unmoved, CoordinatorInv, PlacesOK
<1>7. \/ pc'[r] = "finalize" /\ report'[r] = report[r]
      \/ pc'[r] = "done" /\ report'[r] = "ok_marker_pending"
  BY <1>3 DEF CoordinatorInv, PlacesOK, StoresOK
<1>8. DiskFollows(r) /\ Served(r) /\ standing[r] = "member" /\ report[r] = "none"
  BY <1>1 DEF CoordinatorInv, Sound, Settled, Told
<1>9. DiskFollows(r)' /\ Served(r)'
  BY <1>1, <1>8 DEF DiskFollows, Served
<1>10. Unwritten(r)' /\ InPlace(r)' /\ Written(r)' /\ Undoing(r)'
  BY <1>7 DEF Unwritten, InPlace, Written, Undoing
<1>11. Settled(r)' /\ Told(r)'
  BY <1>1, <1>7, <1>8, <1>9 DEF Settled, Told
<1>12. QED
  BY <1>1, <1>2, <1>5, <1>6, <1>9, <1>10, <1>11, OthersStill DEF CoordinatorInv, Sound

LEMMA FinalizeStep ==
    ASSUME NEW r \in Regs, CoordinatorInv, Finalize(r)
    PROVE  CoordinatorInv'
<1> USE DEF serverVars, storage, Goto, Return
<1> DEFINE t == [dir[r] EXCEPT !.marker = "committed"]
<1>1. /\ UNCHANGED <<standing, name, ctx, file, diskFile, unsynced>>
      /\ pc[r] = "finalize" /\ lock' = Nobody /\ pc' = [pc EXCEPT ![r] = "done"]
      /\ Works \/ Fails
  BY DEF Finalize
<1>2. PlacesOK'
  BY <1>1, PlacesStep DEF CoordinatorInv, Places, Working, Critical
<1>3. DiskFollows(r) /\ Served(r) /\ standing[r] = "member"
  BY <1>1 DEF CoordinatorInv, Sound, Settled
<1>4. t \in Trees /\ t.marker = "committed" /\ Published(t)
  <2>1. dir[r] \in Trees
    BY DEF CoordinatorInv, StoresOK
  <2>2. QED
    BY <1>3, <2>1, TreeUpdate DEF Published, Served
<1>5. \/ /\ SetDir(r, t) /\ diskDir' = [diskDir EXCEPT ![r] = dir'[r]]
         /\ report' = [report EXCEPT ![r] = "ok"]
      \/ /\ dir' = dir \/ SetDir(r, t)
         /\ diskDir' = diskDir
         /\ report' = [report EXCEPT ![r] = "ok_marker_pending"]
  BY DEF Finalize, SyncDir
<1> HIDE DEF t
<1>6. /\ dir' \in [Regs -> Trees] /\ \A q \in Regs \ {r} : dir'[q] = dir[q]
      /\ dir'[r] \in {dir[r], t} /\ (report'[r] = "ok" => dir'[r] = t)
  <2>1. CASE SetDir(r, t)
    BY <1>4, <2>1, DirStep DEF CoordinatorInv
  <2>2. CASE dir' = dir /\ report' = [report EXCEPT ![r] = "ok_marker_pending"]
    BY <2>2 DEF CoordinatorInv, StoresOK
  <2>3. QED
    BY <1>5, <2>1, <2>2
<1>7. /\ diskDir' \in [Regs -> Trees] /\ \A q \in Regs \ {r} : diskDir'[q] = diskDir[q]
      /\ diskDir'[r] \in {diskDir[r], t} /\ (report'[r] = "ok" => diskDir'[r] = t)
  <2>1. CASE SetDir(r, t) /\ diskDir' = [diskDir EXCEPT ![r] = dir'[r]]
    BY <1>4, <2>1, DirStep, SyncDirStep DEF CoordinatorInv
  <2>2. CASE diskDir' = diskDir /\ report' = [report EXCEPT ![r] = "ok_marker_pending"]
    BY <2>2 DEF CoordinatorInv, StoresOK
  <2>3. QED
    BY <1>5, <2>1, <2>2
<1>8. /\ report' \in [Regs -> Report] /\ report'[r] \in {"ok", "ok_marker_pending"}
      /\ \A q \in Regs \ {r} : report'[q] = report[q]
  BY <1>5 DEF CoordinatorInv, StoresOK, Report
<1>9. StoresOK'
  BY <1>1, <1>6, <1>7, <1>8, BoundsStep DEF CoordinatorInv, StoresOK
<1>10. pc'[r] = "done" /\ Alone(r)
  BY <1>1, <1>6, <1>7, <1>8 DEF Alone, Unmoved, CoordinatorInv, PlacesOK
<1>11. DiskFollows(r)' /\ Served(r)'
  BY <1>1, <1>3, <1>4, <1>6, <1>7 DEF DiskFollows, Served
<1>12. Unwritten(r)' /\ InPlace(r)' /\ Written(r)' /\ Undoing(r)'
  BY <1>10 DEF Unwritten, InPlace, Written, Undoing
<1>13. Settled(r)' /\ Told(r)'
  BY <1>1, <1>3, <1>4, <1>6, <1>7, <1>8, <1>10, <1>11 DEF Settled, Told
<1>14. QED
  BY <1>1, <1>2, <1>9, <1>10, <1>11, <1>12, <1>13, OthersStill DEF CoordinatorInv, Sound

-----------------------------------------------------------------------------
(* The steps that change users.data. *)

(* The other registrations when the lock holder changes the file. *)
LEMMA OthersKept ==
    ASSUME NEW r \in Regs, CoordinatorInv, Alone(r), pc[r] \in Critical,
           file' \in Seq(Records), diskFile' = diskFile \/ diskFile' = file',
           \A q \in Regs \ {r} : Kept(q)
    PROVE  \A q \in Regs \ {r} : Sound(q)'
<1> SUFFICES ASSUME NEW q \in Regs \ {r} PROVE Sound(q)'
  OBVIOUS
<1>1. pc[q] \notin Critical
  BY DEF CoordinatorInv, PlacesOK
<1>2. QED
  BY <1>1, KeptSound DEF Alone, CoordinatorInv, StoresOK

(* The record goes to original_size, where only a foreign one can be. *)
LEMMA WrittenFacts ==
    ASSUME NEW r \in Regs, CoordinatorInv, pc[r] = "append", NEW w \in BOOLEAN,
           file' = Put(file, ctx[r].size, Record(r, w))
    PROVE  /\ file' \in Seq(Records)
           /\ \A q \in Regs \ {r} : Kept(q)
           /\ \A i \in 1 .. Len(file') : file'[i].owner = r => i = ctx[r].size + 1
           /\ ctx[r].size + 1 \in 1 .. Len(file') /\ file'[ctx[r].size + 1] = Record(r, w)
<1> DEFINE n == ctx[r].size
           x == Record(r, w)
<1>1. /\ n \in Nat /\ n <= Len(file) /\ Behind(r, {Other}) /\ ~Holds(file, r)
      /\ file \in Seq(Records)
  BY DEF CoordinatorInv, StoresOK, Contexts, Sound, Unwritten
<1>2. x \in Records /\ x.owner = r
  BY DEF Record, Records
<1> HIDE DEF x, n
<1>3. /\ file' \in Seq(Records)
      /\ n + 1 \in 1 .. Len(file') /\ file'[n + 1] = x
      /\ \A i \in Nat : i # n + 1 => (i \in 1 .. Len(file') <=> i \in 1 .. Len(file))
      /\ \A i \in 1 .. Len(file) : i # n + 1 => file'[i] = file[i]
  <2>1. file' = Put(file, n, x)
    BY DEF n, x
  <2>2. Put(file, n, x) \in Seq(Records) /\ Placed(Put(file, n, x), file, n, x)
    BY <1>1, <1>2, PutFacts
  <2>3. QED
    BY <2>1, <2>2 DEF Placed
<1>4. n + 1 \in 1 .. Len(file) => file[n + 1].owner = Other
  BY <1>1 DEF Behind, n
<1>5. ASSUME NEW q \in Regs \ {r} PROVE Kept(q)
  <2>1. q # Other /\ q # r
    BY CoordinatorAssumption
  <2>2. ASSUME NEW i \in Nat
        PROVE  (i \in 1 .. Len(file') /\ file'[i].owner = q)
                    <=> (i \in 1 .. Len(file) /\ file[i].owner = q)
    <3>1. CASE i = n + 1
      BY <3>1, <1>2, <1>3, <1>4, <2>1
    <3>2. CASE i # n + 1
      BY <3>2, <1>3
    <3>3. QED
      BY <3>1, <3>2
  <2>3. ASSUME NEW i \in 1 .. Len(file), file[i] = Record(q, TRUE)
        PROVE  i \in 1 .. Len(file') /\ file'[i] = Record(q, TRUE)
    <3>1. i # n + 1
      BY <1>4, <2>1, <2>3 DEF Record
    <3>2. i \in Nat
      OBVIOUS
    <3>3. QED
      BY <3>1, <3>2, <1>3, <2>3
  <2>4. QED
    BY <2>2, <2>3 DEF Kept, HoldsWhole
<1>6. ASSUME NEW i \in 1 .. Len(file'), file'[i].owner = r PROVE i = n + 1
  <2>1. i \in Nat
    OBVIOUS
  <2>2. i # n + 1 => i \in 1 .. Len(file) /\ file[i].owner = r
    BY <1>3, <1>6, <2>1
  <2>3. QED
    BY <1>1, <2>2 DEF Holds
<1>7. QED
  BY <1>3, <1>5, <1>6 DEF n, x

LEMMA AppendStep ==
    ASSUME NEW r \in Regs, CoordinatorInv, AppendRecord(r)
    PROVE  CoordinatorInv'
<1> USE DEF serverVars, storage
<1>1. /\ UNCHANGED <<standing, name, report, lock, dir, diskFile, diskDir, unsynced>>
      /\ pc[r] = "append" /\ (Works \/ Fails)
  BY DEF AppendRecord
<1>2. PlacesOK'
  BY PlacesStep DEF CoordinatorInv, AppendRecord, Places, Working, Critical
<1>3. /\ ctx' \in [Regs -> Contexts] /\ \A q \in Regs \ {r} : ctx'[q] = ctx[q]
      /\ ctx'[r].size = ctx[r].size
  <2>1. PICK w \in {"part", "whole"} : ctx' = ctx \/ ctx' = [ctx EXCEPT ![r].bytes = w]
    BY DEF AppendRecord
  <2> DEFINE c == [ctx[r] EXCEPT !.bytes = w]
  <2>2. c \in Contexts /\ c.size = ctx[r].size
    <3>1. ctx[r] \in Contexts
      BY DEF CoordinatorInv, StoresOK
    <3>2. QED
      BY <3>1, BytesUpdate
  <2>3. ctx' = ctx \/ ctx' = [ctx EXCEPT ![r] = c]
    BY <2>1
  <2> HIDE DEF c
  <2>4. QED
    BY <2>2, <2>3, ContextStep DEF CoordinatorInv, StoresOK
<1>4. /\ pc'[r] \in {"sync", "check"} /\ Alone(r)
      /\ pc[r] \in Critical /\ r \notin unsynced /\ ~Holds(file, r)
  BY <1>1, <1>3 DEF AppendRecord, Goto, Alone, Unmoved, CoordinatorInv, PlacesOK, Sound,
     Unwritten, Critical
<1>5. /\ file' \in Seq(Records) /\ \A q \in Regs \ {r} : Kept(q)
      /\ \A i \in 1 .. Len(file') : file'[i].owner = r => i = ctx[r].size + 1
      /\ pc'[r] = "sync" => HoldsWhole(file', r)
  <2>1. CASE file' = file /\ pc'[r] = "check"
    BY <1>4, <2>1 DEF CoordinatorInv, StoresOK, Kept, Holds
  <2>2. CASE file' = Put(file, ctx[r].size, Record(r, FALSE)) /\ pc'[r] = "check"
    BY <1>1, <2>2, WrittenFacts
  <2>3. CASE file' = Put(file, ctx[r].size, Record(r, TRUE))
    <3>1. /\ file' \in Seq(Records) /\ \A q \in Regs \ {r} : Kept(q)
          /\ \A i \in 1 .. Len(file') : file'[i].owner = r => i = ctx[r].size + 1
          /\ ctx[r].size + 1 \in 1 .. Len(file') /\ file'[ctx[r].size + 1] = Record(r, TRUE)
      BY <1>1, <2>3, WrittenFacts
    <3>2. HoldsWhole(file', r)
      BY <3>1 DEF HoldsWhole
    <3>3. QED
      BY <3>1, <3>2
  <2>4. \/ file' = file /\ pc'[r] = "check"
        \/ file' = Put(file, ctx[r].size, Record(r, FALSE)) /\ pc'[r] = "check"
        \/ file' = Put(file, ctx[r].size, Record(r, TRUE))
    BY DEF AppendRecord, Put, Goto, CoordinatorInv, PlacesOK
  <2>5. QED
    BY <2>1, <2>2, <2>3, <2>4
<1>6. StoresOK'
  BY <1>1, <1>3, <1>5, BoundsStep DEF CoordinatorInv, StoresOK
<1>7. ~Holds(diskFile, r)
  BY <1>4 DEF CoordinatorInv, Sound, DiskFollows
<1>8. Unwritten(r)' /\ InPlace(r)' /\ Undoing(r)' /\ DiskFollows(r)'
  BY <1>1, <1>3, <1>4, <1>5, <1>7 DEF Unwritten, InPlace, Undoing, DiskFollows
<1>9. Written(r)'
  BY <1>4, <1>5 DEF Written
<1>10. Settled(r)' /\ Told(r)'
  BY <1>1, <1>4, BeforeCommit DEF Settled, Told
<1>11. QED
  BY <1>1, <1>2, <1>4, <1>5, <1>6, <1>8, <1>9, <1>10, OthersKept DEF CoordinatorInv, Sound

(* A rollback cuts nothing but its own record and foreign ones. *)
LEMMA TruncatedFacts ==
    ASSUME NEW r \in Regs, CoordinatorInv, pc[r] = "truncate", ctx[r].found,
           file' = SubSeq(file, 1, ctx[r].size)
    PROVE  file' \in Seq(Records) /\ ~Holds(file', r) /\ \A q \in Regs \ {r} : Kept(q)
<1> DEFINE n == ctx[r].size
<1>1. /\ n \in Nat /\ n <= Len(file) /\ Behind(r, {r, Other}) /\ InPlace(r)
      /\ file \in Seq(Records)
  <2>1. Len(file) > n /\ Behind(r, {r, Other}) /\ InPlace(r)
    BY DEF CoordinatorInv, Sound, Undoing
  <2>2. n \in Nat /\ file \in Seq(Records)
    BY DEF CoordinatorInv, StoresOK, Contexts
  <2>3. QED
    BY <2>1, <2>2
<1>2. /\ file' \in Seq(Records) /\ Len(file') = n
      /\ \A i \in 1 .. n : file'[i] = file[i]
  <2>1. file' = SubSeq(file, 1, n)
    OBVIOUS
  <2> HIDE DEF n
  <2>2. QED
    BY <1>1, <2>1, CutFacts
<1>3. \A i \in 1 .. Len(file) : file[i].owner = r => i = n + 1
  BY <1>1 DEF InPlace
<1>4. \A i \in 1 .. Len(file) : i > n => file[i].owner \in {r, Other}
  BY <1>1 DEF Behind
<1> HIDE DEF n
<1>5. ~Holds(file', r)
  BY <1>1, <1>2, <1>3 DEF Holds
<1>6. ASSUME NEW q \in Regs \ {r} PROVE Kept(q)
  <2>1. q # Other /\ q # r
    BY CoordinatorAssumption
  <2>2. \A i \in 1 .. Len(file) : file[i].owner = q => i \in 1 .. n
    BY <1>1, <1>4, <2>1
  <2>3. \A i \in 1 .. n : i \in 1 .. Len(file) /\ file'[i] = file[i]
    BY <1>1, <1>2
  <2>4. \A i \in 1 .. Len(file) : file[i] = Record(q, TRUE) => file[i].owner = q
    BY DEF Record
  <2>5. HoldsWhole(file, q) => HoldsWhole(file', q)
    BY <1>2, <2>2, <2>3, <2>4 DEF HoldsWhole
  <2>6. QED
    BY <1>2, <2>2, <2>3, <2>5 DEF Kept
<1>7. QED
  BY <1>2, <1>5, <1>6

LEMMA UndoTruncateStep ==
    ASSUME NEW r \in Regs, CoordinatorInv, UndoTruncate(r)
    PROVE  CoordinatorInv'
<1> USE DEF serverVars, storage
<1> DEFINE cut == SubSeq(file, 1, ctx[r].size)
<1>1. /\ UNCHANGED <<standing, name, report, dir, diskDir>>
      /\ pc[r] = "truncate" /\ (Works \/ Fails)
  BY DEF UndoTruncate
<1>2. InPlace(r) /\ DiskFollows(r) /\ Undoing(r)
  BY DEF CoordinatorInv, Sound
<1>3. dir[r].marker # "committed" /\ diskDir[r].marker # "committed"
  BY <1>1, BeforeCommit
<1>4. /\ \A q \in Regs \ {r} : q \in unsynced' <=> q \in unsynced
      /\ unsynced' \subseteq Regs
  BY DEF UndoTruncate, CoordinatorInv, StoresOK
<1>5. \/ file' = cut /\ ctx[r].found /\ (diskFile' = file' \/ r \in unsynced')
      \/ file' = file /\ diskFile' = diskFile /\ unsynced' = unsynced
  BY DEF UndoTruncate
<1>6. diskFile' = diskFile \/ diskFile' = file'
  BY DEF UndoTruncate
<1>7. /\ file' \in Seq(Records) /\ \A q \in Regs \ {r} : Kept(q)
      /\ \A i \in 1 .. Len(file') : file'[i].owner = r => i = ctx[r].size + 1
      /\ DiskFollows(r)'
      /\ file' = cut /\ ctx[r].found => ~Holds(file', r)
  <2>1. CASE file' = cut /\ ctx[r].found /\ (diskFile' = file' \/ r \in unsynced')
    <3>1. file' \in Seq(Records) /\ ~Holds(file', r) /\ \A q \in Regs \ {r} : Kept(q)
      BY <1>1, <2>1, TruncatedFacts
    <3>2. DiskFollows(r)'
      BY <2>1 DEF DiskFollows
    <3>3. QED
      BY <3>1, <3>2 DEF Holds
  <2>2. CASE file' = file /\ diskFile' = diskFile /\ unsynced' = unsynced
    <3>1. file' \in Seq(Records) /\ \A q \in Regs \ {r} : Kept(q)
      BY <2>2 DEF CoordinatorInv, StoresOK, Kept
    <3>2. DiskFollows(r)'
      BY <1>2, <2>2 DEF DiskFollows
    <3>3. \A i \in 1 .. Len(file') : file'[i].owner = r => i = ctx[r].size + 1
      BY <1>1, <1>2, <2>2 DEF InPlace
    <3>4. file' = cut /\ ctx[r].found => ~Holds(file', r)
      BY <1>1, TruncatedFacts
    <3>5. QED
      BY <3>1, <3>2, <3>3, <3>4
  <2>3. QED
    BY <1>5, <2>1, <2>2
<1>8. diskFile' \in Seq(Records)
  BY <1>6, <1>7 DEF CoordinatorInv, StoresOK
<1>9. pc[r] \in Critical
  BY <1>1 DEF Critical
<1> HIDE DEF cut
<1>10. ASSUME UndoFails(r) PROVE CoordinatorInv'
  <2>1. StoresOK'
    BY <1>1, <1>4, <1>7, <1>8, <1>9, <1>10, GivingUp, BoundsStep DEF CoordinatorInv, StoresOK
  <2>2. Alone(r)
    BY <1>1, <1>4, <1>9, <1>10, GivingUp DEF Alone, Unmoved
  <2>3. Sound(r)'
    BY <1>1, <1>3, <1>7, <1>10, GivenUp
  <2>4. QED
    BY <1>6, <1>7, <1>9, <1>10, <2>1, <2>2, <2>3, GivingUp, OthersKept DEF CoordinatorInv
<1>11. ASSUME Goto(r, "remove"), ctx' = ctx, lock' = lock,
              \/ file' = cut /\ ctx[r].found
              \/ file' = file /\ ~ctx[r].found
       PROVE  CoordinatorInv'
  <2>1. PlacesOK'
    BY <1>1, <1>11, PlacesStep DEF CoordinatorInv, Places, Working, Critical
  <2>2. StoresOK'
    BY <1>1, <1>4, <1>7, <1>8, <1>11, BoundsStep DEF CoordinatorInv, StoresOK
  <2>3. pc'[r] = "remove" /\ Alone(r)
    BY <1>1, <1>4, <1>11 DEF Alone, Unmoved, Goto, CoordinatorInv, PlacesOK
  <2>4. ~Holds(file', r)
    BY <1>1, <1>2, <1>7, <1>11 DEF Undoing
  <2>5. Unwritten(r)' /\ InPlace(r)' /\ Written(r)' /\ Undoing(r)'
    BY <1>7, <1>11, <2>3, <2>4 DEF Unwritten, InPlace, Written, Undoing
  <2>6. Settled(r)' /\ Told(r)'
    BY <1>1, <1>3, <2>3, BeforeCommit DEF Settled, Told
  <2>7. QED
    BY <1>6, <1>7, <1>9, <2>1, <2>2, <2>3, <2>5, <2>6, OthersKept DEF CoordinatorInv, Sound
<1>12. QED
  BY <1>10, <1>11 DEF UndoTruncate, cut

-----------------------------------------------------------------------------
(* The rest of the world. *)

(* A foreign record at the end is behind everything. *)
LEMMA OtherAppendsStep ==
    ASSUME CoordinatorInv, OtherAppends
    PROVE  CoordinatorInv'
<1> USE DEF serverVars
<1>1. /\ UNCHANGED <<standing, name, pc, ctx, report, lock, dir, diskFile, diskDir, unsynced>>
      /\ UNCHANGED <<faults, stops>> /\ others' = others + 1
  BY DEF OtherAppends
<1> DEFINE x == Record(Other, TRUE)
<1>2. x \in Records /\ x.owner = Other
  BY DEF Record, Records
<1>3. /\ file' \in Seq(Records) /\ Len(file') = Len(file) + 1 /\ Len(file) \in Nat
      /\ \A i \in 1 .. Len(file) : file'[i] = file[i]
      /\ file'[Len(file) + 1].owner = Other
  <2>1. file' = Append(file, x) /\ file \in Seq(Records)
    BY DEF OtherAppends, CoordinatorInv, StoresOK
  <2> HIDE DEF x
  <2>2. QED
    BY <1>2, <2>1
<1>4. PlacesOK' /\ StoresOK'
  BY <1>1, <1>3 DEF CoordinatorInv, PlacesOK, StoresOK
<1>5. ASSUME NEW r \in Regs PROVE Sound(r)'
  <2>1. r # Other /\ Sound(r) /\ Unmoved(r)
    BY <1>1, CoordinatorAssumption DEF CoordinatorInv, Unmoved
  <2>2. Kept(r)
    <3>1. ASSUME NEW i \in Nat
          PROVE  (i \in 1 .. Len(file') /\ file'[i].owner = r)
                      <=> (i \in 1 .. Len(file) /\ file[i].owner = r)
      BY <1>3, <2>1
    <3>2. HoldsWhole(file, r) => HoldsWhole(file', r)
      <4>1. \A i \in 1 .. Len(file) : i \in 1 .. Len(file') /\ file'[i] = file[i]
        BY <1>3
      <4>2. QED
        BY <4>1 DEF HoldsWhole
    <3>3. QED
      BY <3>1, <3>2 DEF Kept
  <2>3. CASE pc[r] \notin Critical
    BY <1>1, <1>3, <2>1, <2>2, <2>3, KeptSound DEF CoordinatorInv, StoresOK
  <2>4. CASE pc[r] \in Critical
    <3>1. Holds(file', r) <=> Holds(file, r)
      BY <2>2, <1>3 DEF Kept, Holds
    <3>2. \A S : Other \in S /\ Behind(r, S) => Behind(r, S)'
      <4> SUFFICES ASSUME NEW S, Other \in S, Behind(r, S), NEW i \in 1 .. Len(file'),
                          i > ctx[r].size
                   PROVE  file'[i].owner \in S
        BY <1>1 DEF Behind
      <4>1. CASE i = Len(file) + 1
        BY <4>1, <1>3
      <4>2. CASE i \in 1 .. Len(file)
        BY <4>2, <1>3 DEF Behind
      <4>3. QED
        BY <4>1, <4>2, <1>3
    <3>3. ctx[r].size \in Nat
      BY DEF CoordinatorInv, StoresOK, Contexts
    <3>4. Unwritten(r)'
      BY <1>1, <1>3, <2>1, <3>1, <3>2, <3>3 DEF Sound, Unwritten
    <3>5. Undoing(r)'
      BY <1>1, <1>3, <2>1, <3>1, <3>2, <3>3 DEF Sound, Undoing
    <3>6. InPlace(r)'
      BY <1>1, <1>3, <2>1, <2>2 DEF Sound, InPlace, Kept
    <3>7. Served(r) => Served(r)'
      BY <1>1, <2>2 DEF Served, Kept
    <3>8. Written(r)' /\ Settled(r)'
      BY <1>1, <2>1, <2>2, <3>7 DEF Sound, Written, Settled, Kept
    <3>9. Clean(r) => Clean(r)'
      BY <1>1, <3>1 DEF Clean
    <3>10. Told(r)' /\ DiskFollows(r)'
      BY <1>1, <2>1, <3>1, <3>9 DEF Sound, Told, DiskFollows
    <3>11. QED
      BY <3>4, <3>5, <3>6, <3>8, <3>10 DEF Sound
  <2>5. QED
    BY <2>3, <2>4
<1>6. QED
  BY <1>4, <1>5 DEF CoordinatorInv

LEMMA WritebackStep ==
    ASSUME CoordinatorInv, Writeback
    PROVE  CoordinatorInv'
<1> USE DEF serverVars, bounds
<1>1. /\ UNCHANGED <<standing, name, pc, ctx, report, lock, file, dir, unsynced>>
      /\ UNCHANGED <<faults, stops, others>>
  BY DEF Writeback
<1>2. CASE diskFile' = file /\ diskDir' = diskDir
  <2>1. PlacesOK' /\ StoresOK'
    BY <1>1, <1>2 DEF CoordinatorInv, PlacesOK, StoresOK
  <2>2. \A r \in Regs : Sound(r)'
    BY <1>1, <1>2, StillSound DEF CoordinatorInv, Unmoved
  <2>3. QED
    BY <2>1, <2>2 DEF CoordinatorInv
<1>3. ASSUME NEW r \in Regs, diskDir' = [diskDir EXCEPT ![r] = dir[r]], diskFile' = diskFile
      PROVE  CoordinatorInv'
  <2>1. /\ diskDir' \in [Regs -> Trees] /\ diskDir'[r] = dir[r]
        /\ \A q \in Regs \ {r} : diskDir'[q] = diskDir[q]
    BY <1>3 DEF CoordinatorInv, StoresOK
  <2>2. PlacesOK' /\ StoresOK'
    BY <1>1, <1>3, <2>1 DEF CoordinatorInv, PlacesOK, StoresOK
  <2>3. Alone(r) /\ Sound(r)
    BY <1>1, <2>1 DEF Alone, Unmoved, CoordinatorInv
  <2>4. Served(r) => Served(r)'
    BY <1>1, <1>3, <2>1 DEF Served
  <2>5. Clean(r) => Clean(r)'
    BY <1>1, <1>3, <2>1 DEF Clean
  <2>6. Unwritten(r)' /\ InPlace(r)' /\ Undoing(r)' /\ DiskFollows(r)'
    BY <1>1, <1>3, <2>3 DEF Sound, Unwritten, InPlace, Undoing, Behind, DiskFollows
  <2>7. Written(r)' /\ Settled(r)' /\ Told(r)'
    BY <1>1, <1>3, <2>1, <2>3, <2>4, <2>5 DEF Sound, Written, Settled, Told
  <2>8. QED
    BY <1>1, <1>3, <2>2, <2>3, <2>6, <2>7, OthersStill DEF CoordinatorInv, Sound
<1>4. QED
  BY <1>2, <1>3 DEF Writeback

LEMMA KillStep ==
    ASSUME NEW r \in Regs, CoordinatorInv, Kill(r)
    PROVE  CoordinatorInv'
<1> USE DEF serverVars, storage
<1>1. /\ UNCHANGED <<standing, name, ctx, report, file, dir, diskFile, diskDir, unsynced>>
      /\ pc[r] \in Working /\ Goto(r, "dead")
      /\ lock' = IF lock = r THEN Nobody ELSE lock
  BY DEF Kill
<1>2. faults' \in Nat /\ stops' \in Nat /\ others' \in Nat
  BY DEF Kill, Stops, CoordinatorInv, StoresOK
<1>3. PlacesOK'
  BY <1>1, PlacesStep DEF CoordinatorInv, PlacesOK, Places, Working, Critical
<1>4. StoresOK'
  BY <1>1, <1>2 DEF CoordinatorInv, StoresOK
<1>5. pc'[r] = "dead" /\ Alone(r)
  BY <1>1 DEF Alone, Unmoved, Goto, CoordinatorInv, PlacesOK
<1>6. Sound(r) /\ report[r] = "none"
  BY <1>1 DEF CoordinatorInv, Sound, Told, Working
<1>7. Unwritten(r)' /\ InPlace(r)' /\ Undoing(r)' /\ Written(r)' /\ Told(r)'
  BY <1>1, <1>5, <1>6 DEF Unwritten, InPlace, Undoing, Written, Told
<1>8. Settled(r)' /\ DiskFollows(r)'
  BY <1>1, <1>5, <1>6 DEF Sound, Settled, Served, DiskFollows
<1>9. QED
  BY <1>1, <1>3, <1>4, <1>5, <1>7, <1>8, OthersStill DEF CoordinatorInv, Sound

(* Everything that must survive is on the disk. *)
LEMMA PowerLossStep ==
    ASSUME CoordinatorInv, PowerLoss
    PROVE  CoordinatorInv'
<1> USE DEF serverVars, storage
<1>1. /\ UNCHANGED <<standing, name, ctx, report, diskFile, diskDir, unsynced>>
      /\ lock' = Nobody /\ file' = diskFile /\ dir' = diskDir
      /\ pc' = [r \in Regs |-> IF pc[r] \in Working THEN "dead" ELSE pc[r]]
  BY DEF PowerLoss
<1>2. faults' \in Nat /\ stops' \in Nat /\ others' \in Nat
  BY DEF PowerLoss, Stops, CoordinatorInv, StoresOK
<1>3. \A r \in Regs : pc'[r] \in {"idle", "done", "dead"} /\ (pc'[r] # "dead" => pc'[r] = pc[r])
  BY <1>1 DEF CoordinatorInv, PlacesOK, Places
<1>4. PlacesOK'
  BY <1>1, <1>3, CoordinatorAssumption DEF PlacesOK, Places, Critical
<1>5. StoresOK'
  BY <1>1, <1>2 DEF CoordinatorInv, StoresOK
<1>6. ASSUME NEW r \in Regs PROVE Sound(r)'
  <2>1. Sound(r)
    BY DEF CoordinatorInv
  <2>2. Served(r) => Served(r)'
    BY <1>1 DEF Served
  <2>3. Clean(r) => Clean(r)'
    BY <1>1 DEF Clean
  <2>4. InPlace(r)' /\ Undoing(r)' /\ Written(r)' /\ DiskFollows(r)'
    BY <1>1, <1>3 DEF InPlace, Undoing, Written, DiskFollows
  <2>5. Unwritten(r)'
    BY <1>1, <1>3, <2>1 DEF Sound, Unwritten, Told, Clean
  <2>6. standing[r] = "member" => pc'[r] \in {"done", "dead"}
    BY <1>3, <2>1 DEF Sound, Settled
  <2>7. Settled(r)'
    BY <1>1, <1>3, <2>1, <2>2, <2>6 DEF Sound, Settled
  <2>8. report[r] # "none" => pc'[r] = "done"
    <3>1. report[r] # "none" => pc[r] = "done"
      BY <2>1 DEF Sound, Told
    <3>2. "done" \notin Working
      BY DEF Working
    <3>3. QED
      BY <1>1, <3>1, <3>2
  <2>9. Told(r)'
    BY <1>1, <1>3, <2>1, <2>3, <2>8 DEF Sound, Told
  <2>10. QED
    BY <2>4, <2>5, <2>7, <2>9 DEF Sound
<1>7. QED
  BY <1>4, <1>5, <1>6 DEF CoordinatorInv

-----------------------------------------------------------------------------
(* The theorems. *)

LEMMA CoordinatorInit == Init => CoordinatorInv
<1> SUFFICES ASSUME Init PROVE CoordinatorInv
  OBVIOUS
<1>1. NoTree \in Trees /\ NoTree.marker # "committed" /\ NoContext \in Contexts
  BY DEF NoTree, Tree, Trees, NoContext, Contexts
<1>2. PlacesOK
  BY CoordinatorAssumption DEF Init, PlacesOK, Places, Critical
<1>3. StoresOK
  BY <1>1 DEF Init, StoresOK, Report
<1>4. ASSUME NEW r \in Regs PROVE Sound(r)
  <2>1. /\ pc[r] = "idle" /\ report[r] = "none" /\ standing[r] = "none" /\ r \notin unsynced
        /\ dir[r] = NoTree /\ diskDir[r] = NoTree /\ ~Holds(file, r) /\ ~Holds(diskFile, r)
    BY DEF Init, Holds
  <2>2. Unwritten(r) /\ InPlace(r) /\ Undoing(r) /\ Written(r)
    BY <2>1 DEF Unwritten, InPlace, Undoing, Written
  <2>3. Settled(r) /\ Told(r) /\ DiskFollows(r)
    BY <1>1, <2>1 DEF Settled, Told, DiskFollows, Clean
  <2>4. QED
    BY <2>2, <2>3 DEF Sound
<1>5. QED
  BY <1>2, <1>3, <1>4 DEF CoordinatorInv

LEMMA CoordinatorStutter ==
    ASSUME CoordinatorInv, UNCHANGED vars
    PROVE  CoordinatorInv'
<1>1. /\ UNCHANGED <<standing, name, pc, ctx, report, lock, file, dir, diskFile, diskDir>>
      /\ UNCHANGED <<unsynced, faults, stops, others>>
  BY DEF vars, serverVars, storage, bounds
<1>2. PlacesOK' /\ StoresOK'
  BY <1>1 DEF CoordinatorInv, PlacesOK, StoresOK
<1>3. \A r \in Regs : Sound(r)'
  BY <1>1, StillSound DEF CoordinatorInv, Unmoved
<1>4. QED
  BY <1>2, <1>3 DEF CoordinatorInv

LEMMA CoordinatorNext == CoordinatorInv /\ [Next]_vars => CoordinatorInv'
<1> SUFFICES ASSUME CoordinatorInv, [Next]_vars PROVE CoordinatorInv'
  OBVIOUS
<1>1. ASSUME NEW r \in Regs, Coordinate(r) PROVE CoordinatorInv'
  BY <1>1, BeginStep, LockStep, StageStep, AppendStep, SyncStep, PublishStep, ConfirmStep,
     CommitStep, ReopenStep, FinalizeStep, UndoCheckStep, UndoHideStep, UndoTruncateStep,
     UndoRemoveStep, RelockStep, AbortStep DEF Coordinate
<1>2. ASSUME NEW r \in Regs, ServerWithdraws(r) \/ Kill(r) PROVE CoordinatorInv'
  BY <1>2, WithdrawStep, KillStep
<1>3. CASE OtherAppends \/ Writeback \/ PowerLoss
  BY <1>3, OtherAppendsStep, WritebackStep, PowerLossStep
<1>4. CASE UNCHANGED vars
  BY <1>4, CoordinatorStutter
<1>5. QED
  BY <1>1, <1>2, <1>3, <1>4 DEF Next

LEMMA CoordinatorInvariant == Spec => []CoordinatorInv
BY CoordinatorInit, CoordinatorNext, PTL DEF Spec

(* Every process that works on users.data or a user directory holds        *)
(* users-data.lock, and every way out of prepare, rollback and finalize    *)
(* gives it back.                                                          *)
THEOREM LockHeldWhileWorking == Spec => []TypeOK
<1>1. CoordinatorInv => TypeOK
  BY TypeParts DEF CoordinatorInv
<1>2. QED
  BY <1>1, CoordinatorInvariant, PTL

(* Once fortytwo-authd admitted an identity its record and its directory   *)
(* stay complete, in memory and on the disk, whatever other coordinators   *)
(* roll back and whatever fails or loses power later.                      *)
THEOREM MembersAreProvisioned == Spec => []CommittedIsProvisioned
<1>1. CoordinatorInv => CommittedIsProvisioned
  BY DEF CoordinatorInv, Sound, Settled, Served, Published, HoldsWhole, CommittedIsProvisioned
<1>2. QED
  BY <1>1, CoordinatorInvariant, PTL

(* write_committed_marker never runs ahead of PostgreSQL, and plain        *)
(* success means that the marker is on the disk.                           *)
THEOREM MarkersAreTruthful == Spec => []MarkerTruthful
<1>1. CoordinatorInv => MarkerTruthful
  BY DEF CoordinatorInv, Sound, Settled, Told, MarkerTruthful
<1>2. QED
  BY <1>1, CoordinatorInvariant, PTL

(* A failure that does not ask for repair leaves no record and no tree. *)
THEOREM ResidueIsReported == Spec => []NoSilentResidue
<1>1. CoordinatorInv => NoSilentResidue
  BY DEF CoordinatorInv, Sound, Told, Clean, NoSilentResidue
<1>2. QED
  BY <1>1, CoordinatorInvariant, PTL
=============================================================================
