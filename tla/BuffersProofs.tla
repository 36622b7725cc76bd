---------------------------- MODULE BuffersProofs ---------------------------
(***************************************************************************)
(* Theorems about Buffers, for any number of processes, blocks and buffers *)
(* that satisfies BuffersAssumption: the inductive invariant, what each    *)
(* step does to it and to what the callers of the cache see, why to them   *)
(* the cache is the Store (the initial state and each step map to a step   *)
(* of Store or to none), the references that bget counts, and when it      *)
(* finds no buffer.                                                        *)
(***************************************************************************)
EXTENDS Buffers, FiniteSetTheorems, TLAPS

Values == UNION {Data(blk) : blk \in Blocks}

\* The places of a call that has a buffer's sleep lock, and of any call.
Holding == {"iderw", "iosleep", "iowoken", "use", "brelse"}
Places  == {"idle", "lock", "locksleep", "put"} \cup Holding

BufType  == [block : Blocks \cup {"none"}, valid : BOOLEAN, dirty : BOOLEAN, locked : BOOLEAN,
             refcnt : Nat, data : Values \cup {"none"}]
UserType == [pc : Places, buf : Bufs \cup {0}, block : Blocks \cup {"none"}, after : {"", "use", "brelse"}]

Types ==
  /\ buf \in [Bufs -> BufType]
  /\ lru \in [Bufs -> Bufs]
  /\ idequeue \in Seq(Bufs)
  /\ disk \in [Blocks -> Values]
  /\ user \in [Users -> UserType]

\* The fields of the calls and of the buffers, each a function or a set of its own.
Pc     == [p \in Users |-> user[p].pc]
At     == [p \in Users |-> user[p].buf]
Of     == [p \in Users |-> user[p].block]
After  == [p \in Users |-> user[p].after]
Block  == [b \in Bufs |-> buf[b].block]
Content  == [b \in Bufs |-> buf[b].data]
Ref    == [b \in Bufs |-> buf[b].refcnt]
Valid  == {b \in Bufs : buf[b].valid}
Dirty  == {b \in Bufs : buf[b].dirty}
Locked == {b \in Bufs : buf[b].locked}

UsersOf(b) == {p \in Users : Pc[p] # "idle" /\ At[p] = b}

\* A call in progress has the buffer of its block (bio.c:71, 86).
CallInv == \A p \in Users : Pc[p] # "idle" => At[p] \in Bufs /\ Of[p] \in Blocks /\ Block[At[p]] = Of[p]

\* A block has one buffer at most, and each buffer a place in the list.
ListInv ==
  /\ \A b, c \in Bufs : Block[b] = Block[c] /\ Block[b] # "none" => b = c
  /\ \A b \in Bufs : \E i \in Bufs : lru[i] = b

\* The sleep lock has one holder, and nobody sleeps on a free one (sleeplock.c:26).
LockInv ==
  /\ \A p, q \in Users : Pc[p] \in Holding /\ Pc[q] \in Holding /\ At[p] = At[q] => p = q
  /\ \A b \in Locked : \E p \in Users : Pc[p] \in Holding /\ At[p] = b
  /\ \A p \in Users : Pc[p] \in Holding \cup {"locksleep"} => At[p] \in Locked

\* A buffer that is not dirty is a copy of its block.
FlagInv ==
  /\ Dirty \subseteq Valid
  /\ \A b \in Valid : Block[b] \in Blocks /\ Content[b] \in Values
  /\ \A b \in Valid \ Dirty : disk[Block[b]] = Content[b]

\* What the holder of a buffer knows of its flags.
Phase(p) ==
  /\ Pc[p] \in Holding => After[p] \in {"use", "brelse"}
  /\ Pc[p] \in {"iderw", "iosleep"} => /\ At[p] \in Valid <=> After[p] = "brelse"
                                       /\ At[p] \in Dirty <=> After[p] = "brelse"
  /\ Pc[p] = "iowoken" => At[p] \in Valid \ Dirty
  /\ Pc[p] \in {"use", "brelse"} => At[p] \in Valid
  /\ Pc[p] = "use" => After[p] = "use"
  /\ Pc[p] = "brelse" /\ After[p] = "brelse" => At[p] \notin Dirty

PhaseInv == \A p \in Users : Phase(p)

\* The queue has the buffers of those that wait for the disk, which works on the first.
QueueInv ==
  /\ \A i, j \in DOMAIN idequeue : idequeue[i] = idequeue[j] => i = j
  /\ \A i \in DOMAIN idequeue : \E p \in Users : Pc[p] = "iosleep" /\ At[p] = idequeue[i]
  /\ \A p \in Users : Pc[p] = "iosleep" => \E i \in DOMAIN idequeue : idequeue[i] = At[p]
  /\ drive = IF idequeue = << >> THEN NoDrive ELSE Idestart(Head(idequeue))

Sound == Types /\ CallInv /\ ListInv /\ LockInv /\ FlagInv /\ PhaseInv /\ QueueInv

\* The same of a kernel that has not panicked.
Core == Types /\ CallInv /\ ListInv /\ LockInv /\ FlagInv /\ PhaseInv /\ QueueInv /\ panicked = FALSE

\* bget has counted the calls of each buffer (bio.c:72 and 87).
CountInv == \A b \in Bufs : Ref[b] = Cardinality(UsersOf(b))

\* The dirty buffers but for those that a bwrite is about to clean: they are kept by the log.
Written == {b \in Bufs : \E p \in Users : Pc[p] \in {"iderw", "iosleep"} /\ At[p] = b}
Kept    == Dirty \ Written
KeptInv == Cardinality(Kept) <= MaxPinned

\* While the kernel works.
Working == Core /\ CountInv /\ KeptInv

\* bget panics if the log and the other users have all buffers (bio.c:92); nothing else does.
PanicInv == \/ panicked = FALSE
            \/ panicked = TRUE /\ NBUF <= MaxPinned + Cardinality(Active)

IInv == Sound /\ CountInv /\ KeptInv /\ PanicInv

FieldTypes ==
  /\ Pc \in [Users -> Places] /\ At \in [Users -> Bufs \cup {0}]
  /\ Of \in [Users -> Blocks \cup {"none"}] /\ After \in [Users -> {"", "use", "brelse"}]
  /\ Block \in [Bufs -> Blocks \cup {"none"}] /\ Content \in [Bufs -> Values \cup {"none"}]
  /\ Ref \in [Bufs -> Nat] /\ Valid \subseteq Bufs /\ Dirty \subseteq Bufs /\ Locked \subseteq Bufs

\* A step that begins and ends no call, and that keeps no buffer dirty that was not.
Quiet == Ref' = Ref /\ (\A b \in Bufs : UsersOf(b)' = UsersOf(b)) /\ Kept' \subseteq Kept
\* The processes that have a block in hand, and the value that the cache has for a block:
\* what the refinement of Store tells apart.
Hand == {p \in Users : \/ Pc[p] \in {"use", "brelse"}
                       \/ Pc[p] \in {"iderw", "iosleep", "iowoken"} /\ After[p] = "brelse"}

Shows(blk, v) ==
  \/ \E b \in Valid : Block[b] = blk /\ Content[b] = v
  \/ (\A b \in Valid : Block[b] # blk) /\ disk[blk] = v

\* A step that changes no block, and for whom has it in hand, not which.
Keeps ==
  /\ \A q \in Hand \cap Hand' : Of'[q] = Of[q]
  /\ \A blk \in Blocks : \A v : Shows(blk, v) => Shows(blk, v)'

\* A step that gives the block of p the value v.
Changes(p, v) ==
  /\ p \in Hand /\ Hand' = Hand /\ (\A q \in Hand : Of'[q] = Of[q]) /\ Shows(Of[p], v)'
  /\ \A blk \in Blocks \ {Of[p]} : \A w : Shows(blk, w) => Shows(blk, w)'
-----------------------------------------------------------------------------
(* Fields *)

\* The types of the fields.
LEMMA Fields == ASSUME Types PROVE FieldTypes
<1>1. \A p \in Users : /\ user[p].pc \in Places /\ user[p].buf \in Bufs \cup {0}
                       /\ user[p].block \in Blocks \cup {"none"} /\ user[p].after \in {"", "use", "brelse"}
  BY Zenon DEF Types, UserType
<1>2. \A b \in Bufs : /\ buf[b].block \in Blocks \cup {"none"} /\ buf[b].data \in Values \cup {"none"}
                      /\ buf[b].refcnt \in Nat
  BY DEF Types, BufType
<1> QED BY Zenon, <1>1, <1>2 DEF FieldTypes, Pc, At, Of, After, Block, Content, Ref, Valid, Dirty, Locked

\* A step after which one call is at u.
LEMMA OneUser ==
  ASSUME Types, NEW p \in Users, NEW u \in UserType, user' = [user EXCEPT ![p] = u]
  PROVE  /\ user' \in [Users -> UserType]
         /\ Pc' = [Pc EXCEPT ![p] = u.pc] /\ At' = [At EXCEPT ![p] = u.buf]
         /\ Of' = [Of EXCEPT ![p] = u.block] /\ After' = [After EXCEPT ![p] = u.after]
<1>1. user' \in [Users -> UserType]
  BY DEF Types
<1>2. \A q \in Users : user'[q] = IF q = p THEN u ELSE user[q]
  BY DEF Types
<1>3. Pc' = [Pc EXCEPT ![p] = u.pc]
  <2>1. \A q \in Users : user'[q].pc = IF q = p THEN u.pc ELSE user[q].pc
    BY <1>2
  <2> QED BY Zenon, <2>1 DEF Pc
<1>4. At' = [At EXCEPT ![p] = u.buf]
  <2>1. \A q \in Users : user'[q].buf = IF q = p THEN u.buf ELSE user[q].buf
    BY <1>2
  <2> QED BY Zenon, <2>1 DEF At
<1>5. Of' = [Of EXCEPT ![p] = u.block]
  <2>1. \A q \in Users : user'[q].block = IF q = p THEN u.block ELSE user[q].block
    BY <1>2
  <2> QED BY Zenon, <2>1 DEF Of
<1>6. After' = [After EXCEPT ![p] = u.after]
  <2>1. \A q \in Users : user'[q].after = IF q = p THEN u.after ELSE user[q].after
    BY <1>2
  <2> QED BY Zenon, <2>1 DEF After
<1> QED BY <1>1, <1>3, <1>4, <1>5, <1>6

\* A step after which the call of p is elsewhere and everything else of it is the same.
LEMMA OnePc ==
  ASSUME Types, NEW p \in Users, NEW x \in Places, user' = [user EXCEPT ![p].pc = x]
  PROVE  /\ user' \in [Users -> UserType]
         /\ Pc' = [Pc EXCEPT ![p] = x] /\ At' = At /\ Of' = Of /\ After' = After
<1> DEFINE u == [user[p] EXCEPT !.pc = x]
<1>1. u \in UserType /\ u.pc = x /\ u.buf = user[p].buf /\ u.block = user[p].block /\ u.after = user[p].after
  BY Zenon DEF Types, UserType
<1>2. user' = [user EXCEPT ![p] = u]
  OBVIOUS
<1> HIDE DEF u
<1>3. /\ user' \in [Users -> UserType]
      /\ Pc' = [Pc EXCEPT ![p] = u.pc] /\ At' = [At EXCEPT ![p] = u.buf]
      /\ Of' = [Of EXCEPT ![p] = u.block] /\ After' = [After EXCEPT ![p] = u.after]
  BY Zenon, <1>1, <1>2, OneUser
<1>4. At[p] = user[p].buf /\ Of[p] = user[p].block /\ After[p] = user[p].after
  BY DEF At, Of, After
<1>5. At' = At
  BY <1>1, <1>3, <1>4 DEF At
<1>6. Of' = Of
  BY <1>1, <1>3, <1>4 DEF Of
<1>7. After' = After
  BY <1>1, <1>3, <1>4 DEF After
<1> QED BY <1>1, <1>3, <1>5, <1>6, <1>7

\* A step after which one buffer is e.
LEMMA OneBuf ==
  ASSUME Types, NEW b \in Bufs, NEW e \in BufType, buf' = [buf EXCEPT ![b] = e]
  PROVE  /\ buf' \in [Bufs -> BufType]
         /\ \A c \in Bufs : buf'[c] = IF c = b THEN e ELSE buf[c]
         /\ Block' = [Block EXCEPT ![b] = e.block] /\ Content' = [Content EXCEPT ![b] = e.data]
         /\ Ref' = [Ref EXCEPT ![b] = e.refcnt]
         /\ Valid' = IF e.valid THEN Valid \cup {b} ELSE Valid \ {b}
         /\ Dirty' = IF e.dirty THEN Dirty \cup {b} ELSE Dirty \ {b}
         /\ Locked' = IF e.locked THEN Locked \cup {b} ELSE Locked \ {b}
<1>1. buf' \in [Bufs -> BufType]
  BY DEF Types
<1>2. \A c \in Bufs : buf'[c] = IF c = b THEN e ELSE buf[c]
  BY DEF Types
<1>3. Block' = [Block EXCEPT ![b] = e.block]
  <2>1. \A c \in Bufs : buf'[c].block = IF c = b THEN e.block ELSE buf[c].block
    BY <1>2
  <2> QED BY Zenon, <2>1 DEF Block
<1>4. Content' = [Content EXCEPT ![b] = e.data]
  <2>1. \A c \in Bufs : buf'[c].data = IF c = b THEN e.data ELSE buf[c].data
    BY <1>2
  <2> QED BY Zenon, <2>1 DEF Content
<1>5. Ref' = [Ref EXCEPT ![b] = e.refcnt]
  <2>1. \A c \in Bufs : buf'[c].refcnt = IF c = b THEN e.refcnt ELSE buf[c].refcnt
    BY <1>2
  <2> QED BY Zenon, <2>1 DEF Ref
<1>6. Valid' = IF e.valid THEN Valid \cup {b} ELSE Valid \ {b}
  BY <1>2 DEF Valid
<1>7. Dirty' = IF e.dirty THEN Dirty \cup {b} ELSE Dirty \ {b}
  BY <1>2 DEF Dirty
<1>8. Locked' = IF e.locked THEN Locked \cup {b} ELSE Locked \ {b}
  BY <1>2 DEF Locked
<1> QED BY Zenon, <1>1, <1>2, <1>3, <1>4, <1>5, <1>6, <1>7, <1>8

\* A step that leaves the buffers alone.
LEMMA NoBuf ==
  ASSUME buf' = buf
  PROVE  Block' = Block /\ Content' = Content /\ Ref' = Ref /\ Valid' = Valid /\ Dirty' = Dirty /\ Locked' = Locked
BY DEF Block, Content, Ref, Valid, Dirty, Locked
-----------------------------------------------------------------------------
(* What most steps leave alone *)

\* A step that begins and ends no call (bget to brelse).
LEMMA SameCalls ==
  ASSUME CallInv, \A q \in Users : (Pc'[q] = "idle") <=> (Pc[q] = "idle"),
         At' = At, Of' = Of, Block' = Block
  PROVE  CallInv' /\ \A b \in Bufs : UsersOf(b)' = UsersOf(b)
<1>1. \A b \in Bufs : UsersOf(b)' = UsersOf(b)
  BY DEF UsersOf
<1> QED BY <1>1 DEF CallInv

\* A step that recycles no buffer and leaves the list alone.
LEMMA SameList ==
  ASSUME ListInv, lru' = lru, Block' = Block
  PROVE  ListInv'
BY DEF ListInv

\* A step that takes and releases no sleep lock.
LEMMA SameLock ==
  ASSUME LockInv, At' = At, Locked' = Locked,
         \A q \in Users : (Pc'[q] \in Holding) <=> (Pc[q] \in Holding),
         \A q \in Users : Pc'[q] = "locksleep" => Pc[q] = "locksleep" \/ At[q] \in Locked
  PROVE  LockInv'
<1>1. \A p, q \in Users : Pc'[p] \in Holding /\ Pc'[q] \in Holding /\ At'[p] = At'[q] => p = q
  BY DEF LockInv
<1>2. \A b \in Locked : \E p \in Users : Pc'[p] \in Holding /\ At'[p] = b
  BY DEF LockInv
<1>3. \A p \in Users : Pc'[p] \in Holding \cup {"locksleep"} => At'[p] \in Locked
  BY DEF LockInv
<1> QED BY <1>1, <1>2, <1>3 DEF LockInv

\* A step of a process that is not queued, on a buffer that is not.
LEMMA SameQueue ==
  ASSUME Types, QueueInv, idequeue' = idequeue, drive' = drive,
         \A q \in Users : (Pc'[q] = "iosleep") <=> (Pc[q] = "iosleep"),
         \A q \in Users : Pc[q] = "iosleep" =>
           /\ At'[q] = At[q]
           /\ \A b \in Bufs : b = At[q] =>
                buf'[b].block = buf[b].block /\ buf'[b].dirty = buf[b].dirty /\ buf'[b].data = buf[b].data
  PROVE  QueueInv'
<1>1. /\ \A i \in DOMAIN idequeue : \E q \in Users : Pc'[q] = "iosleep" /\ At'[q] = idequeue[i]
      /\ \A q \in Users : Pc'[q] = "iosleep" => \E i \in DOMAIN idequeue : idequeue[i] = At'[q]
  BY DEF QueueInv
<1>2. ASSUME idequeue # << >> PROVE Idestart(Head(idequeue))' = Idestart(Head(idequeue))
  <2>1. 1 \in DOMAIN idequeue /\ Head(idequeue) = idequeue[1] /\ idequeue[1] \in Bufs
    BY <1>2 DEF Types
  <2>2. PICK q \in Users : Pc[q] = "iosleep" /\ At[q] = idequeue[1]
    BY <2>1 DEF QueueInv
  <2>3. Head(idequeue)' = Head(idequeue)
    OBVIOUS
  <2> QED BY <2>1, <2>2, <2>3 DEF Idestart
<1>3. drive' = IF idequeue' = << >> THEN NoDrive ELSE Idestart(Head(idequeue))'
  BY <1>2 DEF QueueInv
<1> QED BY <1>1, <1>3 DEF QueueInv

\* A step of the holder of a buffer, which holds it on, and of no other process.
LEMMA HolderStep ==
  ASSUME FieldTypes, CallInv, ListInv, LockInv, Types, QueueInv,
         NEW p \in Users, NEW x \in Holding \ {"iosleep"}, Pc[p] \in Holding \ {"iosleep"},
         Pc' = [Pc EXCEPT ![p] = x], At' = At, Of' = Of, Block' = Block, Locked' = Locked,
         lru' = lru, idequeue' = idequeue, drive' = drive,
         \A c \in Bufs : c # At[p] => buf'[c] = buf[c]
  PROVE  CallInv' /\ ListInv' /\ LockInv' /\ QueueInv' /\ \A c \in Bufs : UsersOf(c)' = UsersOf(c)
<1>1. \A q \in Users : Pc'[q] = IF q = p THEN x ELSE Pc[q]
  BY Zenon DEF FieldTypes
<1>2. CallInv' /\ \A c \in Bufs : UsersOf(c)' = UsersOf(c)
  <2>1. \A q \in Users : (Pc'[q] = "idle") <=> (Pc[q] = "idle")
    BY <1>1 DEF Holding
  <2> QED BY <2>1, SameCalls
<1>3. ListInv'
  BY SameList
<1>4. LockInv'
  <2>1. \A q \in Users : (Pc'[q] \in Holding) <=> (Pc[q] \in Holding)
    BY <1>1
  <2>2. \A q \in Users : Pc'[q] = "locksleep" => Pc[q] = "locksleep" \/ At[q] \in Locked
    BY <1>1 DEF Holding
  <2> QED BY <2>1, <2>2, SameLock
<1>5. QueueInv'
  <2>1. \A q \in Users : (Pc'[q] = "iosleep") <=> (Pc[q] = "iosleep")
    BY <1>1
  <2>2. \A q \in Users : Pc[q] = "iosleep" => At[q] # At[p]
    BY DEF LockInv, Holding
  <2> QED BY Zenon, <2>1, <2>2, SameQueue
<1> QED BY <1>2, <1>3, <1>4, <1>5

-----------------------------------------------------------------------------
(* The steps *)

\* The caller only reads the block.
LEMMA UseReadInv ==
  ASSUME Core, NEW p \in Users, UseRead(p)
  PROVE  Core' /\ Quiet /\ Keeps /\ Hand' = Hand
<1> USE DEF FieldTypes
<1>0. Types /\ CallInv /\ ListInv /\ LockInv /\ FlagInv /\ PhaseInv /\ QueueInv /\ panicked = FALSE
  BY DEF Core
<1>f. FieldTypes
  BY Zenon, <1>0, Fields
<1>1. Pc[p] = "use" /\ At[p] \in Bufs
  BY <1>0 DEF UseRead, CallInv, Pc
<1>2. user' \in [Users -> UserType] /\ Pc' = [Pc EXCEPT ![p] = "brelse"] /\ At' = At /\ Of' = Of /\ After' = After
  BY Zenon, <1>0, OnePc DEF UseRead, Goes, Places, Holding
<1>3. /\ buf' = buf /\ lru' = lru /\ idequeue' = idequeue /\ drive' = drive /\ disk' = disk /\ panicked' = panicked
      /\ Block' = Block /\ Content' = Content /\ Ref' = Ref /\ Valid' = Valid /\ Dirty' = Dirty /\ Locked' = Locked
  BY NoBuf DEF UseRead
<1>4. Types'
  BY <1>0, <1>2, <1>3 DEF Types
<1>5. CallInv' /\ ListInv' /\ LockInv' /\ QueueInv' /\ \A c \in Bufs : UsersOf(c)' = UsersOf(c)
  BY Zenon, <1>f, <1>0, <1>1, <1>2, <1>3, HolderStep DEF Holding
<1>8. FlagInv'
  BY Zenon, <1>f, <1>0, <1>1, <1>3 DEF FlagInv
<1>9. PhaseInv'
  BY Zenon, <1>f, <1>0, <1>1, <1>2, <1>3 DEF PhaseInv, Phase, Holding
<1>11. Kept' \subseteq Kept
  BY Zenon, <1>f, <1>0, <1>1, <1>2, <1>3 DEF Kept, Written
<1>12. Keeps /\ Hand' = Hand
  <2>1. Hand' = Hand
    BY ZenonT(60), <1>f, <1>0, <1>1, <1>2 DEF Hand
  <2> QED BY ZenonT(60), <1>2, <1>3, <2>1 DEF Keeps, Shows
<1> QED BY <1>0, <1>3, <1>4, <1>5, <1>8, <1>9, <1>11, <1>12 DEF Core, Quiet

\* acquiresleep, when the lock is held: the process sleeps.
LEMMA SleepInv ==
  ASSUME Core, NEW p \in Users, Acquiresleep(p), buf[user[p].buf].locked
  PROVE  Core' /\ Quiet /\ Keeps /\ Hand' = Hand
<1> USE DEF FieldTypes
<1>0. Types /\ CallInv /\ ListInv /\ LockInv /\ FlagInv /\ PhaseInv /\ QueueInv /\ panicked = FALSE
  BY DEF Core
<1>f. FieldTypes
  BY Zenon, <1>0, Fields
<1>1. Pc[p] = "lock" /\ At[p] \in Locked
  BY <1>0 DEF Acquiresleep, CallInv, Pc, At, Locked
<1>2. user' \in [Users -> UserType] /\ Pc' = [Pc EXCEPT ![p] = "locksleep"] /\ At' = At /\ Of' = Of /\ After' = After
  BY <1>0, OnePc DEF Acquiresleep, Goes, Places
<1>3. /\ buf' = buf /\ lru' = lru /\ idequeue' = idequeue /\ drive' = drive /\ disk' = disk /\ panicked' = panicked
      /\ Block' = Block /\ Content' = Content /\ Ref' = Ref /\ Valid' = Valid /\ Dirty' = Dirty /\ Locked' = Locked
  BY NoBuf DEF Acquiresleep
<1>4. Types'
  BY Zenon, <1>0, <1>2, <1>3 DEF Types
<1>5. CallInv' /\ \A c \in Bufs : UsersOf(c)' = UsersOf(c)
  BY Zenon, <1>f, <1>0, <1>1, <1>2, <1>3, SameCalls
<1>6. ListInv'
  BY Zenon, <1>0, <1>3, SameList
<1>7. LockInv'
  <2>1. \A q \in Users : (Pc'[q] \in Holding) <=> (Pc[q] \in Holding)
    BY Zenon, <1>f, <1>1, <1>2 DEF Holding
  <2>2. \A q \in Users : Pc'[q] = "locksleep" => Pc[q] = "locksleep" \/ At[q] \in Locked
    BY Zenon, <1>f, <1>1, <1>2
  <2> QED BY Zenon, <1>0, <1>2, <1>3, <2>1, <2>2, SameLock
<1>8. FlagInv'
  BY Zenon, <1>f, <1>0, <1>1, <1>3 DEF FlagInv
<1>9. PhaseInv'
  BY ZenonT(60), <1>f, <1>0, <1>1, <1>2, <1>3 DEF PhaseInv, Phase, Holding
<1>10. QueueInv'
  BY Zenon, <1>f, <1>0, <1>1, <1>2, <1>3, SameQueue
<1>11. Kept' \subseteq Kept
  BY ZenonT(60), <1>f, <1>0, <1>1, <1>2, <1>3 DEF Kept, Written
<1>12. Keeps /\ Hand' = Hand
  <2>1. Hand' = Hand
    BY ZenonT(60), <1>f, <1>0, <1>1, <1>2 DEF Hand
  <2> QED BY ZenonT(60), <1>2, <1>3, <2>1 DEF Keeps, Shows
<1> QED BY Zenon, <1>0, <1>3, <1>4, <1>5, <1>6, <1>7, <1>8, <1>9, <1>10, <1>11, <1>12 DEF Core, Quiet

\* The loop of iderw after a wakeup.
LEMMA IderwAgainInv ==
  ASSUME Core, NEW p \in Users, IderwAgain(p)
  PROVE  Core' /\ Quiet /\ Keeps /\ Hand' = Hand \cup {p}
<1> USE DEF FieldTypes
<1>0. Types /\ CallInv /\ ListInv /\ LockInv /\ FlagInv /\ PhaseInv /\ QueueInv /\ panicked = FALSE
  BY DEF Core
<1>f. FieldTypes
  BY <1>0, Fields
<1>1. /\ Pc[p] = "iowoken" /\ At[p] \in Valid \ Dirty
      /\ After[p] \in {"use", "brelse"} 
  <2>1. Pc[p] = "iowoken"
    BY DEF IderwAgain, Pc
  <2> QED BY <1>0, <2>1 DEF PhaseInv, Phase, Holding
<1>2. user' \in [Users -> UserType] /\ Pc' = [Pc EXCEPT ![p] = After[p]] /\ At' = At /\ Of' = Of /\ After' = After
  <2>1. user' = [user EXCEPT ![p].pc = After[p]]
    BY Zenon, <1>1 DEF IderwAgain, Goes, After, At, Valid, Dirty
  <2> QED BY Zenon, <1>0, <1>1, <2>1, OnePc DEF Places, Holding
<1>3. /\ buf' = buf /\ lru' = lru /\ idequeue' = idequeue /\ drive' = drive /\ disk' = disk /\ panicked' = panicked
      /\ Block' = Block /\ Content' = Content /\ Ref' = Ref /\ Valid' = Valid /\ Dirty' = Dirty /\ Locked' = Locked
  BY NoBuf DEF IderwAgain
<1>4. Types'
  BY Zenon, <1>0, <1>2, <1>3 DEF Types
<1>5. CallInv' /\ ListInv' /\ LockInv' /\ QueueInv' /\ \A c \in Bufs : UsersOf(c)' = UsersOf(c)
  BY Zenon, <1>f, <1>0, <1>1, <1>2, <1>3, HolderStep DEF Holding
<1>8. FlagInv'
  BY Zenon, <1>f, <1>0, <1>1, <1>3 DEF FlagInv
<1>9. PhaseInv'
  BY Zenon, <1>f, <1>0, <1>1, <1>2, <1>3 DEF PhaseInv, Phase, Holding
<1>11. Kept' \subseteq Kept
  BY Zenon, <1>f, <1>0, <1>1, <1>2, <1>3 DEF Kept, Written
<1>12. Keeps /\ Hand' = Hand \cup {p}
  <2>1. Hand' = Hand \cup {p}
    BY ZenonT(60), <1>f, <1>0, <1>1, <1>2 DEF Hand
  <2> QED BY ZenonT(60), <1>2, <1>3, <2>1 DEF Keeps, Shows
<1> QED BY Zenon, <1>0, <1>3, <1>4, <1>5, <1>8, <1>9, <1>11, <1>12 DEF Core, Quiet

\* A caller gives its block the value v.
LEMMA Changed ==
  ASSUME Types, NEW b \in Bufs, NEW v \in Values,
         buf' = [buf EXCEPT ![b] = [buf[b] EXCEPT !.data = v, !.dirty = TRUE]]
  PROVE  /\ buf' \in [Bufs -> BufType] /\ \A c \in Bufs : c # b => buf'[c] = buf[c]
         /\ Block' = Block /\ Content' = [Content EXCEPT ![b] = v] /\ Ref' = Ref
         /\ Valid' = Valid /\ Dirty' = Dirty \cup {b} /\ Locked' = Locked
<1> DEFINE e == [buf[b] EXCEPT !.data = v, !.dirty = TRUE]
<1>1. /\ e \in BufType /\ e.data = v /\ e.dirty = TRUE /\ e.block = buf[b].block
      /\ e.refcnt = buf[b].refcnt /\ e.valid = buf[b].valid /\ e.locked = buf[b].locked
  BY ZenonT(60) DEF Types, BufType
<1>2. buf' = [buf EXCEPT ![b] = e]
  OBVIOUS
<1> HIDE DEF e
<1>3. /\ buf' \in [Bufs -> BufType]
      /\ \A c \in Bufs : buf'[c] = IF c = b THEN e ELSE buf[c]
      /\ Block' = [Block EXCEPT ![b] = e.block] /\ Content' = [Content EXCEPT ![b] = e.data]
      /\ Ref' = [Ref EXCEPT ![b] = e.refcnt]
      /\ Valid' = IF e.valid THEN Valid \cup {b} ELSE Valid \ {b}
      /\ Dirty' = IF e.dirty THEN Dirty \cup {b} ELSE Dirty \ {b}
      /\ Locked' = IF e.locked THEN Locked \cup {b} ELSE Locked \ {b}
  BY Zenon, <1>1, <1>2, OneBuf
<1>4. Block' = Block
  BY <1>1, <1>3 DEF Block
<1>5. Ref' = Ref
  BY <1>1, <1>3 DEF Ref
<1>6. Valid' = Valid
  BY <1>1, <1>3 DEF Valid
<1>7. Locked' = Locked
  BY <1>1, <1>3 DEF Locked
<1> QED BY Zenon, <1>1, <1>3, <1>4, <1>5, <1>6, <1>7

\* The caller changes the block, and log_write marks the buffer B_DIRTY.
LEMMA UseLogWriteInv ==
  ASSUME Core, NEW p \in Users, NEW v \in Values, UseLogWrite(p, v)
  PROVE  Core' /\ Ref' = Ref /\ (\A c \in Bufs : UsersOf(c)' = UsersOf(c)) /\ Kept' \subseteq Dirty \cup {At[p]} /\ Changes(p, v)
<1> USE DEF FieldTypes
<1>0. Types /\ CallInv /\ ListInv /\ LockInv /\ FlagInv /\ PhaseInv /\ QueueInv /\ panicked = FALSE
  BY DEF Core
<1>f. FieldTypes
  BY Zenon, <1>0, Fields
<1>1. Pc[p] = "use" /\ After[p] = "use" /\ At[p] \in Valid /\ At[p] \in Bufs
  BY ZenonT(60), <1>f, <1>0 DEF UseLogWrite, PhaseInv, Phase, Pc
<1>2. user' \in [Users -> UserType] /\ Pc' = [Pc EXCEPT ![p] = "brelse"] /\ At' = At /\ Of' = Of /\ After' = After
  BY ZenonT(60), <1>0, OnePc DEF UseLogWrite, Goes, Places, Holding
<1>3. /\ buf' \in [Bufs -> BufType] /\ \A c \in Bufs : c # At[p] => buf'[c] = buf[c]
      /\ Block' = Block /\ Content' = [Content EXCEPT ![At[p]] = v] /\ Ref' = Ref
      /\ Valid' = Valid /\ Dirty' = Dirty \cup {At[p]} /\ Locked' = Locked
      /\ lru' = lru /\ idequeue' = idequeue /\ drive' = drive /\ disk' = disk /\ panicked' = panicked
  <2>1. buf' = [buf EXCEPT ![At[p]] = [buf[At[p]] EXCEPT !.data = v, !.dirty = TRUE]]
    BY DEF UseLogWrite, At
  <2> QED BY Zenon, <1>0, <1>1, <2>1, Changed DEF UseLogWrite
<1>4. Types'
  BY <1>0, <1>2, <1>3 DEF Types
<1>5. CallInv' /\ ListInv' /\ LockInv' /\ QueueInv' /\ \A c \in Bufs : UsersOf(c)' = UsersOf(c)
  BY Zenon, <1>f, <1>0, <1>1, <1>2, <1>3, HolderStep DEF Holding
<1>8. FlagInv'
  BY Zenon, <1>f, <1>0, <1>1, <1>3 DEF FlagInv
<1>a. \A q \in Users : q # p /\ Pc[q] \in Holding => At[q] # At[p]
  BY <1>0, <1>1 DEF LockInv, Holding
<1>9. PhaseInv'
  <2>1. ASSUME NEW q \in Users, q # p PROVE Phase(q)'
    BY ZenonT(60), <1>f, <1>0, <1>1, <1>2, <1>3, <1>a, <2>1 DEF PhaseInv, Phase, Holding
  <2>2. Phase(p)'
    BY ZenonT(60), <1>f, <1>0, <1>1, <1>2, <1>3 DEF PhaseInv, Phase, Holding
  <2> QED BY <2>1, <2>2 DEF PhaseInv
<1>11. Kept' \subseteq Dirty \cup {At[p]}
  BY <1>3 DEF Kept
<1>12. Changes(p, v)
  <2>1. p \in Hand /\ Hand' = Hand
    BY ZenonT(60), <1>f, <1>1, <1>2 DEF Hand
  <2>2. Block[At[p]] = Of[p] /\ Of[p] \in Blocks
    BY Zenon, <1>0, <1>1 DEF CallInv
  <2>3. \A c \in Valid : Content'[c] = IF c = At[p] THEN v ELSE Content[c]
    BY ZenonT(60), <1>f, <1>3
  <2>4. Shows(Of[p], v)'
    BY ZenonT(60), <1>1, <1>2, <1>3, <2>2, <2>3 DEF Shows
  <2>5. \A blk \in Blocks \ {Of[p]} : \A w : Shows(blk, w) => Shows(blk, w)'
    BY ZenonT(60), <1>3, <2>2, <2>3 DEF Shows
  <2> QED BY ZenonT(60), <1>2, <2>1, <2>4, <2>5 DEF Changes
<1> QED BY <1>0, <1>3, <1>4, <1>5, <1>8, <1>9, <1>11, <1>12 DEF Core

\* bwrite.
LEMMA BwriteInv ==
  ASSUME Core, NEW p \in Users, NEW v \in Values, Bwrite(p, v)
  PROVE  Core' /\ Quiet /\ Changes(p, v)
<1> USE DEF FieldTypes
<1>0. Types /\ CallInv /\ ListInv /\ LockInv /\ FlagInv /\ PhaseInv /\ QueueInv /\ panicked = FALSE
  BY DEF Core
<1>f. FieldTypes
  BY <1>0, Fields
<1>1. Pc[p] = "use" /\ After[p] = "use" /\ At[p] \in Valid /\ At[p] \in Bufs
  BY Zenon, <1>f, <1>0 DEF Bwrite, PhaseInv, Phase, Pc
<1>2. /\ user' \in [Users -> UserType] /\ Pc' = [Pc EXCEPT ![p] = "iderw"] /\ At' = At /\ Of' = Of
      /\ After' = [After EXCEPT ![p] = "brelse"]
  <2> DEFINE u == [user[p] EXCEPT !.pc = "iderw", !.after = "brelse"]
  <2>1. u \in UserType /\ u.pc = "iderw" /\ u.after = "brelse" /\ u.buf = user[p].buf /\ u.block = user[p].block
    BY Zenon, <1>0 DEF Types, UserType, Places, Holding
  <2>2. user' = [user EXCEPT ![p] = u]
    BY DEF Bwrite
  <2> HIDE DEF u
  <2>3. /\ user' \in [Users -> UserType]
        /\ Pc' = [Pc EXCEPT ![p] = u.pc] /\ At' = [At EXCEPT ![p] = u.buf]
        /\ Of' = [Of EXCEPT ![p] = u.block] /\ After' = [After EXCEPT ![p] = u.after]
    BY Zenon, <1>0, <2>1, <2>2, OneUser
  <2>4. At' = At
    BY Zenon, <2>1, <2>3 DEF At
  <2>5. Of' = Of
    BY Zenon, <2>1, <2>3 DEF Of
  <2> QED BY <2>1, <2>3, <2>4, <2>5
<1>3. /\ buf' \in [Bufs -> BufType] /\ \A c \in Bufs : c # At[p] => buf'[c] = buf[c]
      /\ Block' = Block /\ Content' = [Content EXCEPT ![At[p]] = v] /\ Ref' = Ref
      /\ Valid' = Valid /\ Dirty' = Dirty \cup {At[p]} /\ Locked' = Locked
      /\ lru' = lru /\ idequeue' = idequeue /\ drive' = drive /\ disk' = disk /\ panicked' = panicked
  <2>1. buf' = [buf EXCEPT ![At[p]] = [buf[At[p]] EXCEPT !.data = v, !.dirty = TRUE]]
    BY DEF Bwrite, At
  <2> QED BY Zenon, <1>0, <1>1, <2>1, Changed DEF Bwrite
<1>4. Types'
  BY <1>0, <1>2, <1>3 DEF Types
<1>5. CallInv' /\ ListInv' /\ LockInv' /\ QueueInv' /\ \A c \in Bufs : UsersOf(c)' = UsersOf(c)
  BY Zenon, <1>f, <1>0, <1>1, <1>2, <1>3, HolderStep DEF Holding
<1>8. FlagInv'
  BY <1>f, <1>0, <1>1, <1>3 DEF FlagInv
<1>a. \A q \in Users : q # p /\ Pc[q] \in Holding => At[q] # At[p]
  BY <1>0, <1>1 DEF LockInv, Holding
<1>9. PhaseInv'
  <2>1. ASSUME NEW q \in Users, q # p PROVE Phase(q)'
    BY ZenonT(60), <1>f, <1>0, <1>1, <1>2, <1>3, <1>a, <2>1 DEF PhaseInv, Phase, Holding
  <2>2. Phase(p)'
    BY ZenonT(60), <1>f, <1>0, <1>1, <1>2, <1>3 DEF PhaseInv, Phase, Holding
  <2> QED BY <2>1, <2>2 DEF PhaseInv
<1>11. Kept' \subseteq Kept
  BY ZenonT(60), <1>f, <1>0, <1>1, <1>2, <1>3 DEF Kept, Written
<1>12. Changes(p, v)
  <2>1. p \in Hand /\ Hand' = Hand
    BY ZenonT(60), <1>f, <1>1, <1>2 DEF Hand
  <2>2. Block[At[p]] = Of[p] /\ Of[p] \in Blocks
    BY Zenon, <1>0, <1>1 DEF CallInv
  <2>3. \A c \in Valid : Content'[c] = IF c = At[p] THEN v ELSE Content[c]
    BY ZenonT(60), <1>f, <1>3
  <2>4. Shows(Of[p], v)'
    BY ZenonT(60), <1>1, <1>2, <1>3, <2>2, <2>3 DEF Shows
  <2>5. \A blk \in Blocks \ {Of[p]} : \A w : Shows(blk, w) => Shows(blk, w)'
    BY ZenonT(60), <1>3, <2>2, <2>3 DEF Shows
  <2> QED BY ZenonT(60), <1>2, <2>1, <2>4, <2>5 DEF Changes
<1> QED BY Zenon, <1>0, <1>3, <1>4, <1>5, <1>8, <1>9, <1>11, <1>12 DEF Core, Quiet

\* The lock of one buffer is taken or released.
LEMMA LockSet ==
  ASSUME Types, NEW b \in Bufs, NEW x \in BOOLEAN, buf' = [buf EXCEPT ![b].locked = x]
  PROVE  /\ buf' \in [Bufs -> BufType] /\ \A c \in Bufs : c # b => buf'[c] = buf[c]
         /\ Block' = Block /\ Content' = Content /\ Ref' = Ref /\ Valid' = Valid /\ Dirty' = Dirty
         /\ Locked' = IF x THEN Locked \cup {b} ELSE Locked \ {b}
<1> DEFINE e == [buf[b] EXCEPT !.locked = x]
<1>1. /\ e \in BufType /\ e.locked = x /\ e.data = buf[b].data /\ e.block = buf[b].block
      /\ e.refcnt = buf[b].refcnt /\ e.valid = buf[b].valid /\ e.dirty = buf[b].dirty
  BY ZenonT(60) DEF Types, BufType
<1>2. buf' = [buf EXCEPT ![b] = e]
  OBVIOUS
<1> HIDE DEF e
<1>3. /\ buf' \in [Bufs -> BufType]
      /\ \A c \in Bufs : buf'[c] = IF c = b THEN e ELSE buf[c]
      /\ Block' = [Block EXCEPT ![b] = e.block] /\ Content' = [Content EXCEPT ![b] = e.data]
      /\ Ref' = [Ref EXCEPT ![b] = e.refcnt]
      /\ Valid' = IF e.valid THEN Valid \cup {b} ELSE Valid \ {b}
      /\ Dirty' = IF e.dirty THEN Dirty \cup {b} ELSE Dirty \ {b}
      /\ Locked' = IF e.locked THEN Locked \cup {b} ELSE Locked \ {b}
  BY Zenon, <1>1, <1>2, OneBuf
<1>4. Block' = Block
  BY <1>1, <1>3 DEF Block
<1>5. Ref' = Ref
  BY <1>1, <1>3 DEF Ref
<1>6. Valid' = Valid
  BY <1>1, <1>3 DEF Valid
<1>7. Dirty' = Dirty
  BY <1>1, <1>3 DEF Dirty
<1>8. Content' = Content
  BY Zenon, <1>1, <1>3 DEF Content
<1> QED BY Zenon, <1>1, <1>3, <1>4, <1>5, <1>6, <1>7, <1>8

\* acquiresleep, when the lock is free.
LEMMA LockedInv ==
  ASSUME Core, NEW p \in Users, Acquiresleep(p), ~buf[user[p].buf].locked
  PROVE  Core' /\ Quiet /\ Keeps /\ Hand' \in {Hand, Hand \cup {p}}
<1> USE DEF FieldTypes
<1> DEFINE x == IF At[p] \in Valid THEN "use" ELSE "iderw"
<1>0. Types /\ CallInv /\ ListInv /\ LockInv /\ FlagInv /\ PhaseInv /\ QueueInv /\ panicked = FALSE
  BY DEF Core
<1>f. FieldTypes
  BY Zenon, <1>0, Fields
<1>1. Pc[p] = "lock" /\ At[p] \in Bufs \ Locked
  <2>1. Pc[p] = "lock"
    BY DEF Acquiresleep, Pc
  <2> QED BY Zenon, <1>0, <2>1 DEF CallInv, At, Locked
<1>2. /\ user' \in [Users -> UserType] /\ Pc' = [Pc EXCEPT ![p] = x] /\ At' = At /\ Of' = Of
      /\ After' = [After EXCEPT ![p] = "use"]
  <2> DEFINE u == [user[p] EXCEPT !.pc = x, !.after = "use"]
  <2>1. x \in Places
    BY DEF Places, Holding
  <2>2. user' = [user EXCEPT ![p] = u]
    BY Zenon, <1>1 DEF Acquiresleep, At, Valid
  <2> HIDE DEF x
  <2>3. u \in UserType /\ u.pc = x /\ u.after = "use" /\ u.buf = user[p].buf /\ u.block = user[p].block
    BY Zenon, <1>0, <2>1 DEF Types, UserType
  <2> HIDE DEF u
  <2>4. /\ user' \in [Users -> UserType]
        /\ Pc' = [Pc EXCEPT ![p] = u.pc] /\ At' = [At EXCEPT ![p] = u.buf]
        /\ Of' = [Of EXCEPT ![p] = u.block] /\ After' = [After EXCEPT ![p] = u.after]
    BY Zenon, <1>0, <2>2, <2>3, OneUser
  <2>5. At' = At
    BY Zenon, <2>3, <2>4 DEF At
  <2>6. Of' = Of
    BY Zenon, <2>3, <2>4 DEF Of
  <2> QED BY <2>3, <2>4, <2>5, <2>6
<1>3. /\ buf' \in [Bufs -> BufType] /\ \A c \in Bufs : c # At[p] => buf'[c] = buf[c]
      /\ Block' = Block /\ Content' = Content /\ Ref' = Ref /\ Valid' = Valid /\ Dirty' = Dirty
      /\ Locked' = Locked \cup {At[p]}
      /\ lru' = lru /\ idequeue' = idequeue /\ drive' = drive /\ disk' = disk /\ panicked' = panicked
  <2>1. buf' = [buf EXCEPT ![At[p]].locked = TRUE]
    BY Zenon, <1>1 DEF Acquiresleep, At, Locked
  <2> QED BY Zenon, <1>0, <1>1, <2>1, LockSet DEF Acquiresleep
<1>4. Types'
  BY <1>0, <1>2, <1>3 DEF Types
<1>5. CallInv' /\ \A c \in Bufs : UsersOf(c)' = UsersOf(c)
  BY Zenon, <1>f, <1>0, <1>1, <1>2, <1>3, SameCalls
<1>6. ListInv'
  BY Zenon, <1>0, <1>3, SameList
<1>a. \A q \in Users : q # p /\ Pc[q] \in Holding => At[q] # At[p]
  BY Zenon, <1>0, <1>1 DEF LockInv
<1>7. LockInv'
  <2>1. \A q \in Users : Pc'[q] \in Holding <=> Pc[q] \in Holding \/ q = p
    BY Zenon, <1>f, <1>1, <1>2 DEF Holding
  <2>2. \A q \in Users : Pc'[q] = "locksleep" => Pc[q] = "locksleep"
    BY Zenon, <1>f, <1>1, <1>2
  <2>3. \A q, r \in Users : Pc'[q] \in Holding /\ Pc'[r] \in Holding /\ At'[q] = At'[r] => q = r
    BY Zenon, <1>0, <1>2, <1>a, <2>1 DEF LockInv
  <2>4. \A c \in Locked' : \E q \in Users : Pc'[q] \in Holding /\ At'[q] = c
    BY Zenon, <1>0, <1>2, <1>3, <2>1 DEF LockInv
  <2>5. \A q \in Users : Pc'[q] \in Holding \cup {"locksleep"} => At'[q] \in Locked'
    BY Zenon, <1>0, <1>2, <1>3, <2>1, <2>2 DEF LockInv
  <2> QED BY <2>3, <2>4, <2>5 DEF LockInv
<1>8. FlagInv'
  BY Zenon, <1>f, <1>0, <1>1, <1>3 DEF FlagInv
<1>9. PhaseInv'
  <2>1. ASSUME NEW q \in Users, q # p PROVE Phase(q)'
    BY ZenonT(60), <1>f, <1>0, <1>1, <1>2, <1>3, <1>a, <2>1 DEF PhaseInv, Phase, Holding
  <2>2. Phase(p)'
    BY ZenonT(60), <1>f, <1>0, <1>1, <1>2, <1>3 DEF PhaseInv, Phase, Holding, FlagInv
  <2> QED BY <2>1, <2>2 DEF PhaseInv
<1>10. QueueInv'
  <2>1. \A q \in Users : (Pc'[q] = "iosleep") <=> (Pc[q] = "iosleep")
    BY ZenonT(60), <1>f, <1>1, <1>2
  <2>2. \A q \in Users : Pc[q] = "iosleep" => At[q] # At[p]
    BY <1>1, <1>a DEF Holding
  <2> QED BY Zenon, <1>0, <1>2, <1>3, <2>1, <2>2, SameQueue
<1>11. Kept' \subseteq Kept
  BY Zenon, <1>f, <1>0, <1>1, <1>2, <1>3 DEF Kept, Written
<1>12. Keeps /\ Hand' \in {Hand, Hand \cup {p}}
  <2>1. \A q \in Users \ {p} : q \in Hand' <=> q \in Hand
    BY ZenonT(60), <1>f, <1>2 DEF Hand
  <2>2. p \notin Hand
    BY ZenonT(60), <1>1 DEF Hand
  <2>3. Hand \subseteq Users /\ Hand' \subseteq Users
    BY DEF Hand
  <2>4. Hand' \in {Hand, Hand \cup {p}}
    BY <2>1, <2>2, <2>3
  <2> QED BY ZenonT(60), <1>2, <1>3, <2>4 DEF Keeps, Shows
<1> QED BY Zenon, <1>0, <1>3, <1>4, <1>5, <1>6, <1>7, <1>8, <1>9, <1>10, <1>11, <1>12 DEF Core, Quiet

\* A step after which the calls are at the places in f.
LEMMA ManyPc ==
  ASSUME Types, NEW f \in [Users -> Places], user' = [q \in Users |-> [user[q] EXCEPT !.pc = f[q]]]
  PROVE  user' \in [Users -> UserType] /\ Pc' = f /\ At' = At /\ Of' = Of /\ After' = After
<1>1. \A q \in Users : /\ user'[q] \in UserType /\ user'[q].pc = f[q] /\ user'[q].buf = user[q].buf
                       /\ user'[q].block = user[q].block /\ user'[q].after = user[q].after
  BY Zenon DEF Types, UserType
<1>2. user' \in [Users -> UserType]
  BY <1>1
<1>3. Pc' = f
  BY <1>1 DEF Pc
<1>4. At' = At
  BY <1>1 DEF At
<1>5. Of' = Of
  BY <1>1 DEF Of
<1>6. After' = After
  BY Zenon, <1>1 DEF After
<1> QED BY <1>2, <1>3, <1>4, <1>5, <1>6

\* releasesleep in brelse.
LEMMA ReleasesleepInv ==
  ASSUME Core, NEW p \in Users, Releasesleep(p)
  PROVE  Core' /\ Quiet /\ Keeps /\ p \in Hand /\ Hand' = Hand \ {p}
<1> USE DEF FieldTypes
<1> DEFINE f == [q \in Users |-> IF q = p THEN "put"
                                 ELSE IF Pc[q] = "locksleep" /\ At[q] = At[p] THEN "lock" ELSE Pc[q]]
<1>0. Types /\ CallInv /\ ListInv /\ LockInv /\ FlagInv /\ PhaseInv /\ QueueInv /\ panicked = FALSE
  BY DEF Core
<1>f. FieldTypes
  BY <1>0, Fields
<1>1. Pc[p] = "brelse" /\ At[p] \in Bufs
  <2>1. Pc[p] = "brelse"
    BY DEF Releasesleep, Pc
  <2> QED BY Zenon, <1>0, <2>1 DEF CallInv
<1>2. user' \in [Users -> UserType] /\ Pc' = f /\ At' = At /\ Of' = Of /\ After' = After
  <2>1. f \in [Users -> Places]
    BY Zenon, <1>f DEF Places
  <2>2. \A q \in Users : user[q] = [user[q] EXCEPT !.pc = Pc[q]]
    BY Zenon, <1>0 DEF Types, UserType, Pc
  <2>3. user' = [q \in Users |-> [user[q] EXCEPT !.pc = f[q]]]
    BY Zenon, <2>2 DEF Releasesleep, Sleepers, Woken, Pc, At
  <2> HIDE DEF f
  <2> QED BY Zenon, <1>0, <2>1, <2>3, ManyPc
<1>3. /\ buf' \in [Bufs -> BufType] /\ \A c \in Bufs : c # At[p] => buf'[c] = buf[c]
      /\ Block' = Block /\ Content' = Content /\ Ref' = Ref /\ Valid' = Valid /\ Dirty' = Dirty
      /\ Locked' = Locked \ {At[p]}
      /\ lru' = lru /\ idequeue' = idequeue /\ drive' = drive /\ disk' = disk /\ panicked' = panicked
  <2>1. buf' = [buf EXCEPT ![At[p]].locked = FALSE]
    BY Zenon, <1>1 DEF Releasesleep, At, Locked
  <2> QED BY Zenon, <1>0, <1>1, <2>1, LockSet DEF Releasesleep
<1>4. Types'
  BY <1>0, <1>2, <1>3 DEF Types
<1>5. CallInv' /\ \A c \in Bufs : UsersOf(c)' = UsersOf(c)
  BY ZenonT(60), <1>f, <1>0, <1>1, <1>2, <1>3, SameCalls
<1>6. ListInv'
  BY Zenon, <1>0, <1>3, SameList
<1>a. \A q \in Users : q # p /\ Pc[q] \in Holding => At[q] # At[p]
  BY Zenon, <1>0, <1>1 DEF LockInv, Holding
<1>7. LockInv'
  <2>1. \A q \in Users : Pc'[q] \in Holding <=> Pc[q] \in Holding /\ q # p
    BY Zenon, <1>f, <1>1, <1>2 DEF Holding
  <2>2. \A q \in Users : Pc'[q] = "locksleep" => Pc[q] = "locksleep" /\ At[q] # At[p]
    BY Zenon, <1>f, <1>1, <1>2
  <2>3. \A q, r \in Users : Pc'[q] \in Holding /\ Pc'[r] \in Holding /\ At'[q] = At'[r] => q = r
    BY Zenon, <1>0, <1>2, <1>a, <2>1 DEF LockInv
  <2>4. \A c \in Locked' : \E q \in Users : Pc'[q] \in Holding /\ At'[q] = c
    BY Zenon, <1>0, <1>2, <1>3, <2>1 DEF LockInv
  <2>5. \A q \in Users : Pc'[q] \in Holding \cup {"locksleep"} => At'[q] \in Locked'
    BY Zenon, <1>0, <1>2, <1>3, <1>a, <2>1, <2>2 DEF LockInv
  <2> QED BY <2>3, <2>4, <2>5 DEF LockInv
<1>8. FlagInv'
  BY Zenon, <1>f, <1>0, <1>1, <1>3 DEF FlagInv
<1>9. PhaseInv'
  <2>1. ASSUME NEW q \in Users, q # p PROVE Phase(q)'
    BY ZenonT(60), <1>f, <1>0, <1>1, <1>2, <1>3, <1>a, <2>1 DEF PhaseInv, Phase, Holding
  <2>2. Phase(p)'
    BY ZenonT(60), <1>f, <1>0, <1>1, <1>2, <1>3 DEF PhaseInv, Phase, Holding, FlagInv
  <2> QED BY <2>1, <2>2 DEF PhaseInv
<1>10. QueueInv'
  <2>1. \A q \in Users : (Pc'[q] = "iosleep") <=> (Pc[q] = "iosleep")
    BY Zenon, <1>f, <1>1, <1>2
  <2>2. \A q \in Users : Pc[q] = "iosleep" => At[q] # At[p]
    BY <1>1, <1>a DEF Holding
  <2> QED BY Zenon, <1>0, <1>2, <1>3, <2>1, <2>2, SameQueue
<1>11. Kept' \subseteq Kept
  BY Zenon, <1>f, <1>0, <1>1, <1>2, <1>3 DEF Kept, Written
<1>12. Keeps /\ p \in Hand /\ Hand' = Hand \ {p}
  <2>1. p \in Hand /\ Hand' = Hand \ {p}
    BY ZenonT(60), <1>f, <1>1, <1>2 DEF Hand
  <2> QED BY ZenonT(60), <1>2, <1>3, <2>1 DEF Keeps, Shows
<1> QED BY Zenon, <1>0, <1>3, <1>4, <1>5, <1>6, <1>7, <1>8, <1>9, <1>10, <1>11, <1>12 DEF Core, Quiet

\* The disk and a buffer exchange the data of a block.
LEMMA Transfer ==
  ASSUME Types, ListInv, FlagInv, NEW b \in Bufs, Block[b] \in Blocks,
         disk' = IF buf[b].dirty THEN [disk EXCEPT ![buf[b].block] = buf[b].data] ELSE disk,
         buf' = [buf EXCEPT ![b] = [buf[b] EXCEPT !.data = IF buf[b].dirty THEN buf[b].data ELSE disk[buf[b].block],
                                                  !.valid = TRUE, !.dirty = FALSE]]
  PROVE  /\ buf' \in [Bufs -> BufType] /\ \A c \in Bufs : c # b => buf'[c] = buf[c]
         /\ Block' = Block /\ Ref' = Ref /\ Locked' = Locked
         /\ Content' = [Content EXCEPT ![b] = IF b \in Dirty THEN Content[b] ELSE disk[Block[b]]]
         /\ Valid' = Valid \cup {b} /\ Dirty' = Dirty \ {b}
         /\ disk' = IF b \in Dirty THEN [disk EXCEPT ![Block[b]] = Content[b]] ELSE disk
         /\ disk' \in [Blocks -> Values]
         /\ FlagInv'
<1> DEFINE d == IF b \in Dirty THEN Content[b] ELSE disk[Block[b]]
           e == [buf[b] EXCEPT !.data = d, !.valid = TRUE, !.dirty = FALSE]
<1>1. buf[b].dirty <=> b \in Dirty
  BY DEF Dirty
<1>2. Content[b] = buf[b].data /\ Block[b] = buf[b].block
  BY DEF Content, Block
<1>3. disk' = IF b \in Dirty THEN [disk EXCEPT ![Block[b]] = Content[b]] ELSE disk
  BY Zenon, <1>1, <1>2
<1>4. buf' = [buf EXCEPT ![b] = e]
  BY Zenon, <1>1, <1>2
<1>5. d \in Values /\ (b \in Dirty => Content[b] \in Values)
  BY DEF Types, FlagInv
<1>6. disk' \in [Blocks -> Values]
  BY Zenon, <1>3, <1>5 DEF Types
<1>7. /\ e \in BufType /\ e.data = d /\ e.valid = TRUE /\ e.dirty = FALSE /\ e.block = buf[b].block
      /\ e.refcnt = buf[b].refcnt /\ e.locked = buf[b].locked
  <2> HIDE DEF d
  <2> QED BY ZenonT(60), <1>5 DEF Types, BufType
<1>8. /\ buf' \in [Bufs -> BufType]
      /\ \A c \in Bufs : buf'[c] = IF c = b THEN e ELSE buf[c]
      /\ Block' = [Block EXCEPT ![b] = e.block] /\ Content' = [Content EXCEPT ![b] = e.data]
      /\ Ref' = [Ref EXCEPT ![b] = e.refcnt]
      /\ Valid' = IF e.valid THEN Valid \cup {b} ELSE Valid \ {b}
      /\ Dirty' = IF e.dirty THEN Dirty \cup {b} ELSE Dirty \ {b}
      /\ Locked' = IF e.locked THEN Locked \cup {b} ELSE Locked \ {b}
  <2> HIDE DEF e
  <2> QED BY Zenon, <1>4, <1>7, OneBuf
<1>9. Block' = Block
  <2> HIDE DEF e
  <2> QED BY <1>7, <1>8 DEF Block
<1>10. Ref' = Ref
  <2> HIDE DEF e
  <2> QED BY <1>7, <1>8 DEF Ref
<1>11. Locked' = Locked
  <2> HIDE DEF e
  <2> QED BY <1>7, <1>8 DEF Locked
<1>12. Content' = [Content EXCEPT ![b] = d] /\ Valid' = Valid \cup {b} /\ Dirty' = Dirty \ {b}
  <2> HIDE DEF e
  <2> QED BY <1>7, <1>8
<1>13. FlagInv'
  <2> HIDE DEF e
  <2>1. Dirty' \subseteq Valid'
    BY <1>12 DEF FlagInv
  <2>2. Content \in [Bufs -> Values \cup {"none"}] /\ Valid \subseteq Bufs
    BY Zenon, Fields DEF FieldTypes
  <2>3. \A c \in Valid' : Block'[c] \in Blocks /\ Content'[c] \in Values
    <3> HIDE DEF d
    <3> QED BY Zenon, <1>5, <1>9, <1>12, <2>2 DEF FlagInv
  <2>4. ASSUME NEW c \in Valid' \ Dirty', c # b PROVE disk'[Block'[c]] = Content'[c]
    <3>1. c \in Valid \ Dirty /\ c \in Bufs
      BY <1>12, <2>2, <2>4
    <3>2. Block[c] # Block[b] /\ Block[c] \in Blocks
      BY Zenon, <2>4, <3>1, BuffersAssumption DEF ListInv, FlagInv
    <3>3. Content'[c] = Content[c]
      BY Zenon, <1>12, <2>2, <2>4, <3>1
    <3>4. disk'[Block[c]] = disk[Block[c]]
      BY Zenon, <1>3, <3>2 DEF Types
    <3> QED BY Zenon, <1>9, <3>1, <3>3, <3>4 DEF FlagInv
  <2>5. disk'[Block'[b]] = Content'[b]
    <3>1. Content'[b] = d
      BY Zenon, <1>12, <2>2
    <3> QED BY Zenon, <1>3, <1>9, <3>1 DEF Types
  <2> QED BY <2>1, <2>3, <2>4, <2>5 DEF FlagInv
<1>14. \A c \in Bufs : c # b => buf'[c] = buf[c]
  BY <1>8
<1> HIDE DEF e
<1> QED BY Zenon, <1>3, <1>6, <1>8, <1>9, <1>10, <1>11, <1>12, <1>13, <1>14

\* The transfer of a buffer shows no block another value.
LEMMA TransferShows ==
  ASSUME FieldTypes, Types, ListInv, NEW b \in Bufs, Block[b] \in Blocks, b \in Valid <=> b \in Dirty,
         Block' = Block, Valid' = Valid \cup {b},
         Content' = [Content EXCEPT ![b] = IF b \in Dirty THEN Content[b] ELSE disk[Block[b]]],
         disk' = IF b \in Dirty THEN [disk EXCEPT ![Block[b]] = Content[b]] ELSE disk,
         NEW blk \in Blocks, NEW v, Shows(blk, v)
  PROVE  Shows(blk, v)'
<1>0. \A c \in Bufs : Block[c] = Block[b] => c = b
  BY BuffersAssumption DEF ListInv
<1>1. b \in Valid' /\ Block'[b] = Block[b] /\ Content'[b] = IF b \in Dirty THEN Content[b] ELSE disk[Block[b]]
  BY Zenon DEF FieldTypes
<1>2. CASE blk = Block[b] /\ b \in Dirty
  <2>1. Content[b] = v
    <3>1. b \in Valid
      BY Zenon, <1>2
    <3>2. \A c \in Valid : Block[c] = Block[b] => c = b
      BY Zenon, <1>0 DEF FieldTypes
    <3>3. \E c \in Valid : Block[c] = blk /\ Content[c] = v
      BY Zenon, <1>2, <3>1 DEF Shows
    <3>4. PICK c \in Valid : Block[c] = blk /\ Content[c] = v
      BY <3>3
    <3> QED BY <1>2, <3>2, <3>4
  <2> QED BY Zenon, <1>1, <1>2, <2>1 DEF Shows
<1>3. CASE blk = Block[b] /\ b \notin Dirty
  <2>1. disk[blk] = v
    BY Zenon, <1>0, <1>3 DEF Shows, FieldTypes
  <2> QED BY <1>1, <1>3, <2>1 DEF Shows
<1>4. CASE blk # Block[b]
  <2>1. disk'[blk] = disk[blk]
    BY <1>4 DEF Types
  <2>2. \A c \in Valid : Block[c] = blk => c \in Valid' /\ Content'[c] = Content[c]
    BY Zenon, <1>4 DEF FieldTypes
  <2> QED BY Zenon, <1>4, <2>1, <2>2 DEF Shows
<1> QED BY <1>2, <1>3, <1>4

\* iderw of memide.c.
LEMMA MemIderwInv ==
  ASSUME Core, NEW p \in Users, MemIderw(p)
  PROVE  Core' /\ Quiet /\ Keeps /\ Hand' = Hand \cup {p}
<1> USE DEF FieldTypes
<1> DEFINE b == At[p]
<1>0. Types /\ CallInv /\ ListInv /\ LockInv /\ FlagInv /\ PhaseInv /\ QueueInv /\ panicked = FALSE
  BY DEF Core
<1>f. FieldTypes
  BY <1>0, Fields
<1>1. /\ Pc[p] = "iderw" /\ b \in Bufs /\ Block[b] \in Blocks /\ After[p] \in {"use", "brelse"}
      /\ b \in Valid <=> b \in Dirty
      /\ b \in Dirty <=> After[p] = "brelse"
  <2>1. Pc[p] = "iderw"
    BY DEF MemIderw, Pc
  <2> QED BY Zenon, <1>0, <2>1 DEF CallInv, PhaseInv, Phase, Holding
<1>2. user' \in [Users -> UserType] /\ Pc' = [Pc EXCEPT ![p] = After[p]] /\ At' = At /\ Of' = Of /\ After' = After
  <2>1. user' = [user EXCEPT ![p].pc = After[p]]
    BY DEF MemIderw, Goes, After
  <2> QED BY Zenon, <1>0, <1>1, <2>1, OnePc DEF Places, Holding
<1>3. /\ buf' \in [Bufs -> BufType] /\ \A c \in Bufs : c # b => buf'[c] = buf[c]
      /\ Block' = Block /\ Ref' = Ref /\ Locked' = Locked
      /\ Content' = [Content EXCEPT ![b] = IF b \in Dirty THEN Content[b] ELSE disk[Block[b]]]
      /\ Valid' = Valid \cup {b} /\ Dirty' = Dirty \ {b}
      /\ disk' \in [Blocks -> Values] /\ FlagInv'
      /\ disk' = IF b \in Dirty THEN [disk EXCEPT ![Block[b]] = Content[b]] ELSE disk
      /\ lru' = lru /\ idequeue' = idequeue /\ drive' = drive /\ panicked' = FALSE
  <2>0. b = user[p].buf
    BY DEF At
  <2>1. disk' = IF buf[b].dirty THEN [disk EXCEPT ![buf[b].block] = buf[b].data] ELSE disk
    BY <2>0 DEF MemIderw
  <2>a. buf' = [buf EXCEPT ![b] = [buf[b] EXCEPT !.data = IF buf[b].dirty THEN buf[b].data ELSE disk[buf[b].block],
                                                 !.valid = TRUE, !.dirty = FALSE]]
    BY Zenon, <2>0 DEF MemIderw
  <2>2. panicked' = FALSE
    <3>1. panicked' = (buf[b].valid /\ ~buf[b].dirty)
      BY Zenon DEF MemIderw, NothingToDo, At
    <3>2. buf[b].valid <=> buf[b].dirty
      BY Zenon, <1>1 DEF Valid, Dirty
    <3> QED BY Zenon, <3>1, <3>2
  <2>3. lru' = lru /\ idequeue' = idequeue /\ drive' = drive
    BY Zenon DEF MemIderw
  <2> HIDE DEF b
  <2> QED BY Zenon, <1>0, <1>1, <2>1, <2>a, <2>2, <2>3, Transfer
<1>4. Types'
  BY <1>0, <1>2, <1>3 DEF Types
<1>5. CallInv' /\ ListInv' /\ LockInv' /\ QueueInv' /\ \A c \in Bufs : UsersOf(c)' = UsersOf(c)
  BY Zenon, <1>f, <1>0, <1>1, <1>2, <1>3, HolderStep DEF Holding
<1>a. \A q \in Users : q # p /\ Pc[q] \in Holding => At[q] # At[p]
  BY Zenon, <1>0, <1>1 DEF LockInv, Holding
<1>9. PhaseInv'
  <2>1. ASSUME NEW q \in Users, q # p PROVE Phase(q)'
    BY ZenonT(60), <1>f, <1>0, <1>1, <1>2, <1>3, <1>a, <2>1 DEF PhaseInv, Phase, Holding
  <2>2. Phase(p)'
    BY ZenonT(60), <1>f, <1>0, <1>1, <1>2, <1>3 DEF PhaseInv, Phase, Holding, FlagInv
  <2> QED BY <2>1, <2>2 DEF PhaseInv
<1>11. Kept' \subseteq Kept
  BY Zenon, <1>f, <1>0, <1>1, <1>2, <1>3 DEF Kept, Written
<1>12. Keeps /\ Hand' = Hand \cup {p}
  <2>1. Hand' = Hand \cup {p}
    BY ZenonT(60), <1>f, <1>1, <1>2 DEF Hand
  <2>2. \A blk \in Blocks : \A v : Shows(blk, v) => Shows(blk, v)'
    <3> HIDE DEF b
    <3> QED BY ZenonT(60), <1>f, <1>0, <1>1, <1>3, TransferShows
  <2> QED BY Zenon, <1>2, <2>1, <2>2 DEF Keeps
<1> QED BY Zenon, <1>3, <1>4, <1>5, <1>9, <1>11, <1>12 DEF Core, Quiet

\* iderw of ide.c, up to its first sleep.
LEMMA IderwInv ==
  ASSUME Core, NEW p \in Users, Iderw(p)
  PROVE  Core' /\ Quiet /\ Keeps /\ Hand' = Hand
<1> USE DEF FieldTypes
<1>0. Types /\ CallInv /\ ListInv /\ LockInv /\ FlagInv /\ PhaseInv /\ QueueInv /\ panicked = FALSE
  BY DEF Core
<1>f. FieldTypes
  BY <1>0, Fields
<1>1. /\ Pc[p] = "iderw" /\ At[p] \in Bufs
      /\ At[p] \in Valid <=> At[p] \in Dirty
  <2>1. Pc[p] = "iderw"
    BY DEF Iderw, Pc
  <2> QED BY <1>0, <2>1 DEF CallInv, PhaseInv, Phase
<1>2. user' \in [Users -> UserType] /\ Pc' = [Pc EXCEPT ![p] = "iosleep"] /\ At' = At /\ Of' = Of /\ After' = After
  BY Zenon, <1>0, OnePc DEF Iderw, Goes, Places, Holding
<1>3. /\ buf' = buf /\ lru' = lru /\ disk' = disk /\ panicked' = FALSE
      /\ Block' = Block /\ Content' = Content /\ Ref' = Ref /\ Valid' = Valid /\ Dirty' = Dirty /\ Locked' = Locked
  <2>1. buf' = buf /\ lru' = lru /\ disk' = disk
    BY DEF Iderw
  <2>2. panicked' = FALSE
    <3>1. panicked' = (buf[At[p]].valid /\ ~buf[At[p]].dirty)
      BY Zenon DEF Iderw, NothingToDo, At
    <3>2. buf[At[p]].valid <=> buf[At[p]].dirty
      BY Zenon, <1>1 DEF Valid, Dirty
    <3> QED BY Zenon, <3>1, <3>2
  <2> QED BY <2>1, <2>2, NoBuf
<1>q. idequeue' = Append(idequeue, At[p]) /\ drive' = IF idequeue = << >> THEN Idestart(At[p]) ELSE drive
  BY Zenon DEF Iderw, At
<1>4. Types'
  BY <1>0, <1>1, <1>2, <1>3, <1>q DEF Types
<1>5. CallInv' /\ \A c \in Bufs : UsersOf(c)' = UsersOf(c)
  BY Zenon, <1>f, <1>0, <1>1, <1>2, <1>3, SameCalls
<1>6. ListInv'
  BY Zenon, <1>0, <1>3, SameList
<1>a. \A q \in Users : q # p /\ Pc[q] \in Holding => At[q] # At[p]
  BY Zenon, <1>0, <1>1 DEF LockInv, Holding
<1>7. LockInv'
  <2>1. \A q \in Users : (Pc'[q] \in Holding) <=> (Pc[q] \in Holding)
    BY Zenon, <1>f, <1>1, <1>2 DEF Holding
  <2>2. \A q \in Users : Pc'[q] = "locksleep" => Pc[q] = "locksleep" \/ At[q] \in Locked
    BY ZenonT(60), <1>f, <1>1, <1>2
  <2> QED BY Zenon, <1>0, <1>2, <1>3, <2>1, <2>2, SameLock
<1>8. FlagInv'
  BY ZenonT(60), <1>f, <1>0, <1>1, <1>3 DEF FlagInv
<1>9. PhaseInv'
  <2>1. ASSUME NEW q \in Users, q # p PROVE Phase(q)'
    BY ZenonT(60), <1>f, <1>0, <1>1, <1>2, <1>3, <1>a, <2>1 DEF PhaseInv, Phase, Holding
  <2>2. Phase(p)'
    BY ZenonT(60), <1>f, <1>0, <1>1, <1>2, <1>3 DEF PhaseInv, Phase, Holding, FlagInv
  <2> QED BY <2>1, <2>2 DEF PhaseInv
<1>10. QueueInv'
  <2>1. /\ idequeue \in Seq(Bufs) /\ idequeue' \in Seq(Bufs) /\ DOMAIN idequeue = 1 .. Len(idequeue)
        /\ DOMAIN idequeue' = 1 .. Len(idequeue) + 1 /\ Len(idequeue) \in Nat
        /\ idequeue'[Len(idequeue) + 1] = At[p]
        /\ \A i \in 1 .. Len(idequeue) : idequeue'[i] = idequeue[i]
    BY <1>0, <1>1, <1>q DEF Types
  <2>2. \A i \in 1 .. Len(idequeue) : idequeue[i] # At[p]
    BY <1>0, <1>1, <1>a, <2>1 DEF QueueInv, Holding
  <2>3. \A i, j \in DOMAIN idequeue' : idequeue'[i] = idequeue'[j] => i = j
    BY <1>0, <2>1, <2>2 DEF QueueInv
  <2>4. \A q \in Users : Pc'[q] = "iosleep" <=> Pc[q] = "iosleep" \/ q = p
    BY Zenon, <1>f, <1>2
  <2>5. \A i \in DOMAIN idequeue' : \E q \in Users : Pc'[q] = "iosleep" /\ At'[q] = idequeue'[i]
    <3>1. ASSUME NEW i \in 1 .. Len(idequeue) PROVE \E q \in Users : Pc'[q] = "iosleep" /\ At'[q] = idequeue'[i]
      <4>1. PICK q \in Users : Pc[q] = "iosleep" /\ At[q] = idequeue[i]
        BY Zenon, <1>0, <2>1 DEF QueueInv
      <4> QED BY Zenon, <1>2, <2>1, <2>4, <4>1
    <3>2. Pc'[p] = "iosleep" /\ At'[p] = idequeue'[Len(idequeue) + 1]
      BY <1>2, <2>1, <2>4
    <3>3. \A i \in DOMAIN idequeue' : i \in 1 .. Len(idequeue) \/ i = Len(idequeue) + 1
      BY <2>1
    <3> QED BY Zenon, <3>1, <3>2, <3>3
  <2>6. ASSUME NEW q \in Users, Pc'[q] = "iosleep" PROVE \E i \in DOMAIN idequeue' : idequeue'[i] = At'[q]
    <3>1. CASE q = p
      <4>1. Len(idequeue) + 1 \in DOMAIN idequeue'
        BY <2>1
      <4> QED BY Zenon, <1>2, <2>1, <3>1, <4>1
    <3>2. CASE q # p
      <4>1. PICK i \in DOMAIN idequeue : idequeue[i] = At[q]
        BY Zenon, <1>0, <2>4, <2>6, <3>2 DEF QueueInv
      <4>2. i \in DOMAIN idequeue' /\ idequeue'[i] = idequeue[i]
        BY <2>1
      <4> QED BY Zenon, <1>2, <4>1, <4>2
    <3> QED BY <3>1, <3>2
  <2>7. \A c : Idestart(c)' = Idestart(c)
    BY Zenon, <1>3 DEF Idestart
  <2>8. idequeue' # << >> /\ Head(idequeue)' = IF idequeue = << >> THEN At[p] ELSE Head(idequeue)
    BY <1>0, <1>1, <1>q, <2>1 DEF Types
  <2>9. drive' = Idestart(Head(idequeue)')
    BY Zenon, <1>0, <1>q, <2>8 DEF QueueInv
  <2>10. drive' = Idestart(Head(idequeue))'
    BY <1>3, <2>9 DEF Idestart
  <2> QED BY Zenon, <2>3, <2>5, <2>6, <2>8, <2>10 DEF QueueInv
<1>11. Kept' \subseteq Kept
  BY Zenon, <1>f, <1>0, <1>1, <1>2, <1>3 DEF Kept, Written
<1>12. Keeps /\ Hand' = Hand
  <2>1. Hand' = Hand
    BY ZenonT(60), <1>f, <1>0, <1>1, <1>2 DEF Hand
  <2> QED BY ZenonT(60), <1>2, <1>3, <2>1 DEF Keeps, Shows
<1> QED BY <1>3, <1>4, <1>5, <1>6, <1>7, <1>8, <1>9, <1>10, <1>11, <1>12 DEF Core, Quiet

\* The head of a queue that is not empty.
LEMMA HeadIs ==
  ASSUME NEW s \in Seq(Bufs), 1 \in DOMAIN s
  PROVE  s # << >> /\ Head(s) = s[1] /\ s[1] \in Bufs
OBVIOUS

\* ideintr.
LEMMA IdeintrInv ==
  ASSUME Core, Ideintr
  PROVE  Core' /\ Quiet /\ Keeps /\ Hand' = Hand
<1> USE DEF FieldTypes
<1> DEFINE b == Head(idequeue)
           f == [q \in Users |-> IF Pc[q] = "iosleep" /\ At[q] = b THEN "iowoken" ELSE Pc[q]]
<1>0. Types /\ CallInv /\ ListInv /\ LockInv /\ FlagInv /\ PhaseInv /\ QueueInv /\ panicked = FALSE
  BY DEF Core
<1>f. FieldTypes
  BY Zenon, <1>0, Fields
<1>q. /\ DOMAIN idequeue = 1 .. Len(idequeue) /\ Len(idequeue) \in Nat \ {0} /\ b = idequeue[1] /\ b \in Bufs
      /\ idequeue' = Tail(idequeue) /\ idequeue' \in Seq(Bufs) /\ DOMAIN idequeue' = 1 .. Len(idequeue) - 1
      /\ \A i \in 1 .. Len(idequeue) - 1 : idequeue'[i] = idequeue[i + 1]
  BY <1>0 DEF Types, Ideintr
<1>p. PICK p \in Users : Pc[p] = "iosleep" /\ At[p] = b
  BY <1>0, <1>q DEF QueueInv
<1>1. Block[b] \in Blocks
  BY Zenon, <1>0, <1>p DEF CallInv
<1>a. \A q \in Users : q # p /\ Pc[q] \in Holding => At[q] # At[p]
  BY <1>0, <1>p DEF LockInv, Holding
<1>2. user' \in [Users -> UserType] /\ Pc' = [Pc EXCEPT ![p] = "iowoken"] /\ At' = At /\ Of' = Of /\ After' = After
  <2>1. f \in [Users -> Places]
    BY Zenon, <1>f DEF Places, Holding
  <2>2. \A q \in Users : user[q] = [user[q] EXCEPT !.pc = Pc[q]]
    BY Zenon, <1>0 DEF Types, UserType, Pc
  <2>3. user' = [q \in Users |-> [user[q] EXCEPT !.pc = f[q]]]
    <3>1. user' = Woken("iosleep", b, "iowoken")
      BY DEF Ideintr
    <3> HIDE DEF b
    <3> QED BY <3>1, <2>2 DEF Woken, Pc, At
  <2>4. user' \in [Users -> UserType] /\ Pc' = f /\ At' = At /\ Of' = Of /\ After' = After
    <3> HIDE DEF f
    <3> QED BY Zenon, <1>0, <2>1, <2>3, ManyPc
  <2>5. f = [Pc EXCEPT ![p] = "iowoken"]
    <3> HIDE DEF b
    <3>1. \A q \in Users : (Pc[q] = "iosleep" /\ At[q] = b) <=> q = p
      BY <1>p, <1>a DEF Holding
    <3> QED BY Zenon, <1>f, <3>1
  <2> QED BY <2>4, <2>5
<1>3. /\ buf' \in [Bufs -> BufType] /\ \A c \in Bufs : c # b => buf'[c] = buf[c]
      /\ Block' = Block /\ Ref' = Ref /\ Locked' = Locked
      /\ Content' = [Content EXCEPT ![b] = IF b \in Dirty THEN Content[b] ELSE disk[Block[b]]]
      /\ Valid' = Valid \cup {b} /\ Dirty' = Dirty \ {b}
      /\ disk' \in [Blocks -> Values] /\ FlagInv'
      /\ disk' = IF b \in Dirty THEN [disk EXCEPT ![Block[b]] = Content[b]] ELSE disk
      /\ lru' = lru /\ panicked' = FALSE
  <2>1. drive = Idestart(b)
    BY Zenon, <1>0 DEF QueueInv, Ideintr
  <2>2. drive.block = buf[b].block /\ drive.write = buf[b].dirty /\ drive.data = buf[b].data
    <3> HIDE DEF b
    <3> QED BY Zenon, <2>1 DEF Idestart
  <2>3. disk' = IF buf[b].dirty THEN [disk EXCEPT ![buf[b].block] = buf[b].data] ELSE disk
    <3>1. disk' = IF drive.write THEN [disk EXCEPT ![drive.block] = drive.data] ELSE disk
      BY DEF Ideintr
    <3> HIDE DEF b
    <3> QED BY Zenon, <2>2, <3>1
  <2>4. buf' = [buf EXCEPT ![b] = [buf[b] EXCEPT !.data = IF buf[b].dirty THEN buf[b].data ELSE disk[buf[b].block],
                                                 !.valid = TRUE, !.dirty = FALSE]]
    <3>1. buf' = [buf EXCEPT ![b] = [buf[b] EXCEPT !.data = IF buf[b].dirty THEN buf[b].data ELSE disk[drive.block],
                                                   !.valid = TRUE, !.dirty = FALSE]]
      BY DEF Ideintr
    <3> HIDE DEF b
    <3> QED BY Zenon, <2>2, <3>1
  <2>5. lru' = lru /\ panicked' = FALSE
    BY Zenon, <1>0 DEF Ideintr
  <2> HIDE DEF b
  <2> QED BY ZenonT(60), <1>0, <1>q, <1>1, <2>3, <2>4, <2>5, Transfer
<1> HIDE DEF b, f
<1>4. Types'
  BY <1>0, <1>q, <1>2, <1>3 DEF Types
<1>5. CallInv' /\ \A c \in Bufs : UsersOf(c)' = UsersOf(c)
  BY ZenonT(60), <1>f, <1>0, <1>p, <1>2, <1>3, SameCalls
<1>6. ListInv'
  BY Zenon, <1>0, <1>3, SameList
<1>7. LockInv'
  <2>1. \A q \in Users : (Pc'[q] \in Holding) <=> (Pc[q] \in Holding)
    BY Zenon, <1>f, <1>p, <1>2 DEF Holding
  <2>2. \A q \in Users : Pc'[q] = "locksleep" => Pc[q] = "locksleep" \/ At[q] \in Locked
    BY Zenon, <1>f, <1>p, <1>2
  <2> QED BY Zenon, <1>0, <1>2, <1>3, <2>1, <2>2, SameLock
<1>9. PhaseInv'
  <2>1. ASSUME NEW q \in Users, q # p PROVE Phase(q)'
    BY ZenonT(60), <1>f, <1>0, <1>p, <1>2, <1>3, <1>a, <2>1 DEF PhaseInv, Phase, Holding
  <2>2. Phase(p)'
    BY Zenon, <1>f, <1>0, <1>p, <1>2, <1>3 DEF PhaseInv, Phase, Holding
  <2> QED BY <2>1, <2>2 DEF PhaseInv
<1>10. QueueInv'
  <2>1. \A i, j \in DOMAIN idequeue' : idequeue'[i] = idequeue'[j] => i = j
    BY <1>0, <1>q DEF QueueInv
  <2>2. \A i \in 1 .. Len(idequeue) - 1 : idequeue[i + 1] # b
    <3> SUFFICES ASSUME NEW i \in 1 .. Len(idequeue) - 1 PROVE idequeue[i + 1] # idequeue[1]
      BY Zenon, <1>q
    <3>1. i + 1 \in DOMAIN idequeue /\ 1 \in DOMAIN idequeue /\ i + 1 # 1
      BY <1>q
    <3> QED BY <1>0, <3>1 DEF QueueInv
  <2>3. \A q \in Users : Pc'[q] = "iosleep" <=> Pc[q] = "iosleep" /\ q # p
    BY Zenon, <1>f, <1>2
  <2>4. ASSUME NEW i \in DOMAIN idequeue' PROVE \E q \in Users : Pc'[q] = "iosleep" /\ At'[q] = idequeue'[i]
    <3>1. i + 1 \in DOMAIN idequeue /\ idequeue'[i] = idequeue[i + 1] /\ idequeue[i + 1] # b
      BY <1>q, <2>2
    <3>2. PICK q \in Users : Pc[q] = "iosleep" /\ At[q] = idequeue[i + 1]
      BY Zenon, <1>0, <3>1 DEF QueueInv
    <3> QED BY Zenon, <1>p, <1>2, <2>3, <3>1, <3>2
  <2>5. ASSUME NEW q \in Users, Pc'[q] = "iosleep" PROVE \E i \in DOMAIN idequeue' : idequeue'[i] = At'[q]
    <3>1. PICK i \in DOMAIN idequeue : idequeue[i] = At[q]
      BY Zenon, <1>0, <2>3, <2>5 DEF QueueInv
    <3>2. i # 1
      BY Zenon, <1>p, <1>q, <1>a, <2>3, <2>5, <3>1 DEF Holding
    <3>3. i - 1 \in DOMAIN idequeue' /\ idequeue'[i - 1] = idequeue[i]
      BY <1>q, <3>2
    <3> QED BY Zenon, <1>2, <3>1, <3>3
  <2>6. CASE Len(idequeue) = 1
    <3>1. idequeue' = << >>
      BY <1>q, <2>6
    <3>2. drive' = NoDrive
      BY Zenon, <2>6 DEF Ideintr, NextRequest
    <3> QED BY Zenon, <2>1, <2>4, <2>5, <3>1, <3>2 DEF QueueInv
  <2>7. CASE Len(idequeue) # 1
    <3>1. drive' = Idestart(idequeue[2])
      BY <2>7 DEF Ideintr, NextRequest
    <3>a. 1 \in 1 .. Len(idequeue) - 1 /\ 1 + 1 = 2
      BY <1>q, <2>7
    <3>b. 1 \in DOMAIN idequeue' /\ idequeue'[1] = idequeue[2] /\ idequeue[2] # b
      BY Zenon, <1>q, <2>2, <3>a
    <3>2. Head(idequeue)' = idequeue[2] /\ idequeue' # << >> /\ idequeue[2] \in Bufs /\ idequeue[2] # b
      <4>1. idequeue' \in Seq(Bufs)
        BY Zenon, <1>q
      <4>2. idequeue' # << >> /\ Head(idequeue') = idequeue'[1] /\ idequeue'[1] \in Bufs
        BY Zenon, <3>b, <4>1, HeadIs
      <4> QED BY Zenon, <3>b, <4>2
    <3>3. buf'[idequeue[2]] = buf[idequeue[2]]
      BY Zenon, <1>3, <3>2
    <3>4. Idestart(Head(idequeue))' = Idestart(idequeue[2])
      BY <3>2, <3>3 DEF Idestart
    <3> QED BY Zenon, <2>1, <2>4, <2>5, <3>1, <3>2, <3>4 DEF QueueInv
  <2> QED BY Zenon, <2>6, <2>7
<1>11. Kept' \subseteq Kept
  BY ZenonT(60), <1>f, <1>p, <1>2, <1>3 DEF Kept, Written
<1>12. Keeps /\ Hand' = Hand
  <2>1. Hand' = Hand
    BY ZenonT(60), <1>f, <1>p, <1>2 DEF Hand
  <2>2. b \in Valid <=> b \in Dirty
    BY ZenonT(60), <1>0, <1>p DEF PhaseInv, Phase
  <2>3. \A blk \in Blocks : \A v : Shows(blk, v) => Shows(blk, v)'
    BY ZenonT(60), <1>f, <1>0, <1>q, <1>1, <1>3, <2>2, TransferShows
  <2> QED BY Zenon, <1>2, <2>1, <2>3 DEF Keeps
<1> QED BY Zenon, <1>3, <1>4, <1>5, <1>6, <1>7, <1>9, <1>10, <1>11, <1>12 DEF Core, Quiet

\* A buffer moved to the front leaves the others in the list.
LEMMA FrontList ==
  ASSUME lru \in [Bufs -> Bufs], NEW b \in Bufs, \A c \in Bufs : \E i \in Bufs : lru[i] = c
  PROVE  /\ ToFront(b) \in [Bufs -> Bufs]
         /\ \A c \in Bufs : \E i \in Bufs : ToFront(b)[i] = c
<1> DEFINE at == CHOOSE i \in Bufs : lru[i] = b
<1>1. at \in Bufs /\ lru[at] = b
  OBVIOUS
<1> HIDE DEF at
<1>2. ToFront(b) = [i \in Bufs |-> IF i = 1 THEN b ELSE IF i <= at THEN lru[i - 1] ELSE lru[i]]
  BY DEF ToFront, at
<1>3. 1 \in Bufs /\ Bufs \subseteq Nat
  BY <1>1, BuffersAssumption DEF Bufs
<1>4. \A i \in Bufs : i # 1 => i - 1 \in Bufs
  BY BuffersAssumption DEF Bufs
<1>5. ToFront(b) \in [Bufs -> Bufs]
  BY <1>2, <1>4
<1>6. ASSUME NEW c \in Bufs PROVE \E i \in Bufs : ToFront(b)[i] = c
  <2>1. PICK j \in Bufs : lru[j] = c
    BY Zenon
  <2>2. CASE j = at
    BY Zenon, <1>1, <1>2, <1>3, <2>1, <2>2
  <2>3. CASE j < at
    <3>1. j + 1 \in Bufs /\ j + 1 # 1 /\ j + 1 <= at /\ (j + 1) - 1 = j
      BY <1>1, <2>3, BuffersAssumption DEF Bufs
    <3> QED BY Zenon, <1>2, <2>1, <3>1
  <2>4. CASE j > at
    <3>1. j # 1 /\ ~(j <= at)
      BY <1>1, <2>4, BuffersAssumption DEF Bufs
    <3> QED BY Zenon, <1>2, <2>1, <3>1
  <2>5. j = at \/ j < at \/ j > at
    BY <1>1, <1>3
  <2> QED BY Zenon, <2>2, <2>3, <2>4, <2>5
<1> QED BY <1>5, <1>6

\* Another count of references.
LEMMA RefSet ==
  ASSUME Types, NEW b \in Bufs, NEW n \in Nat, buf' = [buf EXCEPT ![b] = [buf[b] EXCEPT !.refcnt = n]]
  PROVE  /\ buf' \in [Bufs -> BufType]
         /\ \A c \in Bufs : /\ buf'[c].block = buf[c].block /\ buf'[c].dirty = buf[c].dirty
                            /\ buf'[c].data = buf[c].data
         /\ Block' = Block /\ Content' = Content /\ Ref' = [Ref EXCEPT ![b] = n] /\ Valid' = Valid
         /\ Dirty' = Dirty /\ Locked' = Locked
<1> DEFINE e == [buf[b] EXCEPT !.refcnt = n]
<1>1. /\ e \in BufType /\ e.refcnt = n /\ e.data = buf[b].data /\ e.block = buf[b].block
      /\ e.locked = buf[b].locked /\ e.valid = buf[b].valid /\ e.dirty = buf[b].dirty
  BY ZenonT(60) DEF Types, BufType
<1>2. buf' = [buf EXCEPT ![b] = e]
  OBVIOUS
<1> HIDE DEF e
<1>3. /\ buf' \in [Bufs -> BufType]
      /\ \A c \in Bufs : buf'[c] = IF c = b THEN e ELSE buf[c]
      /\ Block' = [Block EXCEPT ![b] = e.block] /\ Content' = [Content EXCEPT ![b] = e.data]
      /\ Ref' = [Ref EXCEPT ![b] = e.refcnt]
      /\ Valid' = IF e.valid THEN Valid \cup {b} ELSE Valid \ {b}
      /\ Dirty' = IF e.dirty THEN Dirty \cup {b} ELSE Dirty \ {b}
      /\ Locked' = IF e.locked THEN Locked \cup {b} ELSE Locked \ {b}
  BY Zenon, <1>1, <1>2, OneBuf
<1>4. Block' = Block
  BY <1>1, <1>3 DEF Block
<1>5. Locked' = Locked
  BY <1>1, <1>3 DEF Locked
<1>6. Valid' = Valid
  BY <1>1, <1>3 DEF Valid
<1>7. Dirty' = Dirty
  BY <1>1, <1>3 DEF Dirty
<1>8. Content' = Content
  BY Zenon, <1>1, <1>3 DEF Content
<1> QED BY Zenon, <1>1, <1>3, <1>4, <1>5, <1>6, <1>7, <1>8

\* A step of a call that has no sleep lock before it or after it.
LEMMA OtherLocks ==
  ASSUME LockInv, NEW p \in Users, Locked' = Locked, Pc[p] \notin Holding, Pc'[p] \notin Holding \cup {"locksleep"},
         \A q \in Users : q # p => Pc'[q] = Pc[q] /\ At'[q] = At[q]
  PROVE  LockInv'
<1>1. \A q, r \in Users : Pc'[q] \in Holding /\ Pc'[r] \in Holding /\ At'[q] = At'[r] => q = r
  BY DEF LockInv
<1>2. \A b \in Locked : \E q \in Users : Pc'[q] \in Holding /\ At'[q] = b
  BY DEF LockInv
<1>3. \A q \in Users : Pc'[q] \in Holding \cup {"locksleep"} => At'[q] \in Locked
  BY DEF LockInv
<1> QED BY Zenon, <1>1, <1>2, <1>3 DEF LockInv

\* The rest of brelse.
LEMMA BrelseInv ==
  ASSUME Core, NEW p \in Users, Brelse(p), Ref[At[p]] # 0
  PROVE  /\ Core' /\ At[p] \in Bufs /\ p \in UsersOf(At[p]) /\ Kept' \subseteq Kept
         /\ \A c \in Bufs : /\ Ref'[c] = IF c = At[p] THEN Ref[c] - 1 ELSE Ref[c]
                            /\ UsersOf(c)' = IF c = At[p] THEN UsersOf(c) \ {p} ELSE UsersOf(c)
         /\ Keeps /\ Hand' = Hand
<1> USE DEF FieldTypes
<1> DEFINE b == At[p]
<1>0. Types /\ CallInv /\ ListInv /\ LockInv /\ FlagInv /\ PhaseInv /\ QueueInv /\ panicked = FALSE
  BY DEF Core
<1>f. FieldTypes
  BY Zenon, <1>0, Fields
<1>1. Pc[p] = "put" /\ b \in Bufs
  <2>1. Pc[p] = "put"
    BY DEF Brelse, Pc
  <2> QED BY Zenon, <1>0, <2>1 DEF CallInv
<1>2. /\ user' \in [Users -> UserType] /\ Pc' = [Pc EXCEPT ![p] = "idle"] /\ At' = [At EXCEPT ![p] = 0]
      /\ Of' = [Of EXCEPT ![p] = "none"] /\ After' = [After EXCEPT ![p] = ""]
  <2>1. NoCall \in UserType /\ NoCall.pc = "idle" /\ NoCall.buf = 0 /\ NoCall.block = "none" /\ NoCall.after = ""
    BY DEF NoCall, UserType, Places
  <2>2. user' = [user EXCEPT ![p] = NoCall]
    BY DEF Brelse
  <2>3. /\ user' \in [Users -> UserType]
        /\ Pc' = [Pc EXCEPT ![p] = NoCall.pc] /\ At' = [At EXCEPT ![p] = NoCall.buf]
        /\ Of' = [Of EXCEPT ![p] = NoCall.block] /\ After' = [After EXCEPT ![p] = NoCall.after]
    BY ZenonT(60), <1>0, <2>1, <2>2, OneUser
  <2> QED BY Zenon, <2>1, <2>3
<1>c. Ref[b] \in Nat \ {0} /\ p \in UsersOf(b)
  BY Zenon, <1>f, <1>1 DEF UsersOf
<1>3. /\ buf' \in [Bufs -> BufType]
      /\ \A c \in Bufs : /\ buf'[c].block = buf[c].block /\ buf'[c].dirty = buf[c].dirty
                         /\ buf'[c].data = buf[c].data
      /\ Block' = Block /\ Content' = Content /\ Ref' = [Ref EXCEPT ![b] = Ref[b] - 1] /\ Valid' = Valid
      /\ Dirty' = Dirty /\ Locked' = Locked
      /\ idequeue' = idequeue /\ drive' = drive /\ disk' = disk /\ panicked' = panicked
  <2>1. buf' = [buf EXCEPT ![b] = [buf[b] EXCEPT !.refcnt = Ref[b] - 1]]
    BY ZenonT(60), <1>1 DEF Brelse, Dropped, At, Ref
  <2>2. idequeue' = idequeue /\ drive' = drive /\ disk' = disk /\ panicked' = panicked
    BY DEF Brelse
  <2>3. Ref[b] - 1 \in Nat
    BY <1>c
  <2> HIDE DEF b
  <2> QED BY Zenon, <1>0, <1>1, <2>1, <2>2, <2>3, RefSet
<1>6. ListInv' /\ lru' \in [Bufs -> Bufs]
  <2>1. lru' = lru \/ lru' = ToFront(b)
    BY DEF Brelse, At
  <2>2. /\ lru' \in [Bufs -> Bufs]
        /\ \A c \in Bufs : \E j \in Bufs : lru'[j] = c
    <3> HIDE DEF b
    <3>1. lru \in [Bufs -> Bufs] /\ \A c \in Bufs : \E j \in Bufs : lru[j] = c
      BY <1>0 DEF Types, ListInv
    <3>2. /\ ToFront(b) \in [Bufs -> Bufs]
          /\ \A c \in Bufs : \E j \in Bufs : ToFront(b)[j] = c
      BY ZenonT(60), <1>1, <3>1, FrontList
    <3> QED BY Zenon, <2>1, <3>1, <3>2
  <2> QED BY Zenon, <1>0, <1>3, <2>2 DEF ListInv
<1>4. Types'
  BY Zenon, <1>0, <1>2, <1>3, <1>6 DEF Types
<1>5. /\ CallInv'
      /\ \A c \in Bufs : /\ Ref'[c] = IF c = b THEN Ref[c] - 1 ELSE Ref[c]
                         /\ UsersOf(c)' = IF c = b THEN UsersOf(c) \ {p} ELSE UsersOf(c)
  <2>1. \A c \in Bufs : UsersOf(c)' = IF c = b THEN UsersOf(c) \ {p} ELSE UsersOf(c)
    BY ZenonT(60), <1>f, <1>1, <1>2 DEF UsersOf
  <2>2. \A c \in Bufs : Ref'[c] = IF c = b THEN Ref[c] - 1 ELSE Ref[c]
    <3> HIDE DEF b
    <3> QED BY Zenon, <1>f, <1>1, <1>3
  <2>3. CallInv'
    BY ZenonT(60), <1>f, <1>0, <1>2, <1>3 DEF CallInv
  <2> QED BY Zenon, <2>1, <2>2, <2>3
<1>7. LockInv'
  <2>1. Pc[p] \notin Holding /\ Pc'[p] \notin Holding \cup {"locksleep"}
    BY ZenonT(60), <1>f, <1>1, <1>2 DEF Holding
  <2>2. \A q \in Users : q # p => Pc'[q] = Pc[q] /\ At'[q] = At[q]
    BY ZenonT(60), <1>f, <1>2
  <2> QED BY ZenonT(60), <1>0, <1>3, <2>1, <2>2, OtherLocks
<1>8. FlagInv'
  BY ZenonT(60), <1>f, <1>0, <1>1, <1>3 DEF FlagInv
<1>9. PhaseInv'
  <2>1. ASSUME NEW q \in Users, q # p PROVE Phase(q)'
    BY ZenonT(60), <1>f, <1>0, <1>2, <1>3, <2>1 DEF PhaseInv, Phase
  <2>2. Phase(p)'
    BY ZenonT(60), <1>f, <1>2 DEF Phase, Holding
  <2> QED BY <2>1, <2>2 DEF PhaseInv
<1>10. QueueInv'
  <2>1. \A q \in Users : (Pc'[q] = "iosleep") <=> (Pc[q] = "iosleep")
    BY ZenonT(60), <1>f, <1>1, <1>2
  <2>2. \A q \in Users : Pc[q] = "iosleep" => At'[q] = At[q]
    BY ZenonT(60), <1>f, <1>1, <1>2
  <2> QED BY Zenon, <1>0, <1>3, <2>1, <2>2, SameQueue
<1>11. Kept' \subseteq Kept
  BY ZenonT(60), <1>f, <1>0, <1>1, <1>2, <1>3 DEF Kept, Written
<1>12. Keeps /\ Hand' = Hand
  <2>1. Hand' = Hand
    BY ZenonT(60), <1>f, <1>0, <1>1, <1>2 DEF Hand
  <2>2. \A q \in Hand : Of'[q] = Of[q]
    BY ZenonT(60), <1>f, <1>1, <1>2 DEF Hand
  <2>3. \A blk \in Blocks : \A v : Shows(blk, v) => Shows(blk, v)'
    BY ZenonT(60), <1>3 DEF Shows
  <2> QED BY Zenon, <2>1, <2>2, <2>3 DEF Keeps
<1> QED BY Zenon, <1>0, <1>1, <1>c, <1>3, <1>4, <1>5, <1>6, <1>7, <1>8, <1>9, <1>10, <1>11, <1>12 DEF Core

\* bget gives the call its buffer.
LEMMA Entered ==
  ASSUME Types, NEW p \in Users, NEW blk \in Blocks, NEW b \in Bufs,
         user' = [user EXCEPT ![p] = [user[p] EXCEPT !.pc = "lock", !.buf = b, !.block = blk]]
  PROVE  /\ user' \in [Users -> UserType] /\ Pc' = [Pc EXCEPT ![p] = "lock"] /\ At' = [At EXCEPT ![p] = b]
         /\ Of' = [Of EXCEPT ![p] = blk] /\ After' = After
<1> DEFINE u == [user[p] EXCEPT !.pc = "lock", !.buf = b, !.block = blk]
<1>1. u \in UserType /\ u.pc = "lock" /\ u.buf = b /\ u.block = blk /\ u.after = user[p].after
  BY Zenon DEF Types, UserType, Places
<1> HIDE DEF u
<1>2. /\ user' \in [Users -> UserType]
      /\ Pc' = [Pc EXCEPT ![p] = u.pc] /\ At' = [At EXCEPT ![p] = u.buf]
      /\ Of' = [Of EXCEPT ![p] = u.block] /\ After' = [After EXCEPT ![p] = u.after]
  BY Zenon, <1>1, OneUser DEF u
<1>3. After' = After
  BY <1>1, <1>2 DEF After
<1> QED BY <1>1, <1>2, <1>3

\* bget finds the block in the cache.
LEMMA BgetHitInv ==
  ASSUME Core, NEW p \in Users, NEW blk \in Blocks, NEW b \in Bufs, Pc[p] = "idle", Block[b] = blk,
         BgetTo(p, blk, b, [buf[b] EXCEPT !.refcnt = buf[b].refcnt + 1]),
         lru' = lru, idequeue' = idequeue, drive' = drive, disk' = disk
  PROVE  /\ Core' /\ p \notin UsersOf(b) /\ Kept' \subseteq Kept
         /\ \A c \in Bufs : /\ Ref'[c] = IF c = b THEN Ref[c] + 1 ELSE Ref[c]
                            /\ UsersOf(c)' = IF c = b THEN UsersOf(c) \cup {p} ELSE UsersOf(c)
         /\ Keeps /\ Hand' = Hand
<1> USE DEF FieldTypes
<1>0. Types /\ CallInv /\ ListInv /\ LockInv /\ FlagInv /\ PhaseInv /\ QueueInv /\ panicked = FALSE
  BY DEF Core
<1>f. FieldTypes
  BY Zenon, <1>0, Fields
<1>1. Pc[p] = "idle" /\ Block[b] = blk
  OBVIOUS
<1>2. /\ user' \in [Users -> UserType] /\ Pc' = [Pc EXCEPT ![p] = "lock"] /\ At' = [At EXCEPT ![p] = b]
      /\ Of' = [Of EXCEPT ![p] = blk] /\ After' = After
  BY ZenonT(60), <1>0, Entered DEF BgetTo
<1>3. /\ buf' \in [Bufs -> BufType]
      /\ \A c \in Bufs : /\ buf'[c].block = buf[c].block /\ buf'[c].dirty = buf[c].dirty
                         /\ buf'[c].data = buf[c].data
      /\ Block' = Block /\ Content' = Content /\ Ref' = [Ref EXCEPT ![b] = Ref[b] + 1] /\ Valid' = Valid
      /\ Dirty' = Dirty /\ Locked' = Locked /\ panicked' = panicked
  <2>1. buf' = [buf EXCEPT ![b] = [buf[b] EXCEPT !.refcnt = Ref[b] + 1]]
    BY DEF BgetTo, Ref
  <2>2. Ref[b] + 1 \in Nat
    <3>1. Ref \in [Bufs -> Nat]
      BY Zenon, <1>f
    <3>2. Ref[b] \in Nat
      BY <3>1
    <3> QED BY <3>2
  <2>3. panicked' = panicked
    BY DEF BgetTo
  <2> QED BY Zenon, <1>0, <2>1, <2>2, <2>3, RefSet
<1>4. Types'
  BY <1>0, <1>2, <1>3 DEF Types
<1>5. /\ CallInv' /\ p \notin UsersOf(b)
      /\ \A c \in Bufs : /\ Ref'[c] = IF c = b THEN Ref[c] + 1 ELSE Ref[c]
                         /\ UsersOf(c)' = IF c = b THEN UsersOf(c) \cup {p} ELSE UsersOf(c)
  <2>1. \A c \in Bufs : UsersOf(c)' = IF c = b THEN UsersOf(c) \cup {p} ELSE UsersOf(c)
    BY ZenonT(60), <1>f, <1>1, <1>2 DEF UsersOf
  <2>2. p \notin UsersOf(b)
    BY <1>1 DEF UsersOf
  <2>3. \A c \in Bufs : Ref'[c] = IF c = b THEN Ref[c] + 1 ELSE Ref[c]
    BY Zenon, <1>f, <1>3
  <2>4. CallInv'
    BY ZenonT(60), <1>f, <1>0, <1>1, <1>2, <1>3 DEF CallInv
  <2> QED BY Zenon, <2>1, <2>2, <2>3, <2>4
<1>6. ListInv'
  BY Zenon, <1>0, <1>3, SameList
<1>7. LockInv'
  <2>1. Pc[p] \notin Holding /\ Pc'[p] \notin Holding \cup {"locksleep"}
    BY Zenon, <1>f, <1>1, <1>2 DEF Holding
  <2>2. \A q \in Users : q # p => Pc'[q] = Pc[q] /\ At'[q] = At[q]
    BY Zenon, <1>f, <1>2
  <2> QED BY Zenon, <1>0, <1>3, <2>1, <2>2, OtherLocks
<1>8. FlagInv'
  BY Zenon, <1>f, <1>0, <1>1, <1>3 DEF FlagInv
<1>9. PhaseInv'
  <2>1. ASSUME NEW q \in Users, q # p PROVE Phase(q)'
    BY Zenon, <1>f, <1>0, <1>2, <1>3, <2>1 DEF PhaseInv, Phase
  <2>2. Phase(p)'
    BY Zenon, <1>f, <1>2 DEF Phase, Holding
  <2> QED BY <2>1, <2>2 DEF PhaseInv
<1>10. QueueInv'
  <2>1. \A q \in Users : (Pc'[q] = "iosleep") <=> (Pc[q] = "iosleep")
    BY Zenon, <1>f, <1>1, <1>2
  <2>2. \A q \in Users : Pc[q] = "iosleep" => At'[q] = At[q]
    BY Zenon, <1>f, <1>1, <1>2
  <2> QED BY Zenon, <1>0, <1>3, <2>1, <2>2, SameQueue
<1>11. Kept' \subseteq Kept
  BY ZenonT(60), <1>f, <1>0, <1>1, <1>2, <1>3 DEF Kept, Written
<1>12. Keeps /\ Hand' = Hand
  <2>1. Hand' = Hand
    BY ZenonT(60), <1>f, <1>0, <1>1, <1>2 DEF Hand
  <2>2. \A q \in Hand : Of'[q] = Of[q]
    BY ZenonT(60), <1>f, <1>1, <1>2 DEF Hand
  <2>3. \A x \in Blocks : \A v : Shows(x, v) => Shows(x, v)'
    BY ZenonT(60), <1>3 DEF Shows
  <2> QED BY Zenon, <2>1, <2>2, <2>3 DEF Keeps
<1> QED BY Zenon, <1>0, <1>3, <1>4, <1>5, <1>6, <1>7, <1>8, <1>9, <1>10, <1>11, <1>12 DEF Core

\* bget recycles a buffer that nobody uses and the log does not keep.
LEMMA BgetRecycleInv ==
  ASSUME Core, NEW p \in Users, NEW blk \in Blocks, NEW b \in Bufs, Pc[p] = "idle",
         \A c \in Bufs : Block[c] # blk, UsersOf(b) = {}, b \notin Dirty,
         BgetTo(p, blk, b, [buf[b] EXCEPT !.block = blk, !.valid = FALSE, !.dirty = FALSE, !.refcnt = 1]),
         lru' = lru, idequeue' = idequeue, drive' = drive, disk' = disk
  PROVE  /\ Core' /\ Kept' \subseteq Kept
         /\ \A c \in Bufs : /\ Ref'[c] = IF c = b THEN 1 ELSE Ref[c]
                            /\ UsersOf(c)' = IF c = b THEN {p} ELSE UsersOf(c)
         /\ Keeps /\ Hand' = Hand
<1> USE DEF FieldTypes
<1>0. Types /\ CallInv /\ ListInv /\ LockInv /\ FlagInv /\ PhaseInv /\ QueueInv /\ panicked = FALSE
  BY DEF Core
<1>f. FieldTypes
  BY Zenon, <1>0, Fields
<1>1. Pc[p] = "idle" /\ b \notin Dirty /\ \A q \in Users : Pc[q] # "idle" => At[q] # b
  BY DEF UsersOf
<1>2. /\ user' \in [Users -> UserType] /\ Pc' = [Pc EXCEPT ![p] = "lock"] /\ At' = [At EXCEPT ![p] = b]
      /\ Of' = [Of EXCEPT ![p] = blk] /\ After' = After
  BY Zenon, <1>0, Entered DEF BgetTo
<1>3. /\ buf' \in [Bufs -> BufType] /\ \A c \in Bufs : c # b => buf'[c] = buf[c]
      /\ Block' = [Block EXCEPT ![b] = blk] /\ Content' = Content /\ Ref' = [Ref EXCEPT ![b] = 1]
      /\ Valid' = Valid \ {b} /\ Dirty' = Dirty /\ Locked' = Locked /\ panicked' = panicked
  <2> DEFINE e == [buf[b] EXCEPT !.block = blk, !.valid = FALSE, !.dirty = FALSE, !.refcnt = 1]
  <2>1. /\ e \in BufType /\ e.block = blk /\ e.valid = FALSE /\ e.dirty = FALSE /\ e.refcnt = 1
        /\ e.data = buf[b].data /\ e.locked = buf[b].locked
    <3>1. buf[b] \in BufType
      BY <1>0 DEF Types
    <3>2. e \in BufType
      BY Zenon, <3>1 DEF BufType
    <3>3. e.block = blk /\ e.valid = FALSE /\ e.dirty = FALSE /\ e.refcnt = 1
      BY <3>1 DEF BufType
    <3>4. e.data = buf[b].data /\ e.locked = buf[b].locked
      BY <3>1 DEF BufType
    <3> QED BY Zenon, <3>2, <3>3, <3>4
  <2>2. buf' = [buf EXCEPT ![b] = e] /\ panicked' = panicked
    BY DEF BgetTo
  <2> HIDE DEF e
  <2>3. /\ buf' \in [Bufs -> BufType]
        /\ \A c \in Bufs : buf'[c] = IF c = b THEN e ELSE buf[c]
        /\ Block' = [Block EXCEPT ![b] = e.block] /\ Content' = [Content EXCEPT ![b] = e.data]
        /\ Ref' = [Ref EXCEPT ![b] = e.refcnt]
        /\ Valid' = IF e.valid THEN Valid \cup {b} ELSE Valid \ {b}
        /\ Dirty' = IF e.dirty THEN Dirty \cup {b} ELSE Dirty \ {b}
        /\ Locked' = IF e.locked THEN Locked \cup {b} ELSE Locked \ {b}
    BY Zenon, <1>0, <2>1, <2>2, OneBuf
  <2>4. Locked' = Locked
    BY <2>1, <2>3 DEF Locked
  <2>5. Content' = Content
    BY Zenon, <2>1, <2>3 DEF Content
  <2>6. Dirty' = Dirty
    BY Zenon, <1>1, <2>1, <2>3
  <2> QED BY Zenon, <2>1, <2>2, <2>3, <2>4, <2>5, <2>6
<1>4. Types'
  BY <1>0, <1>2, <1>3 DEF Types
<1>5. /\ CallInv'
      /\ \A c \in Bufs : /\ Ref'[c] = IF c = b THEN 1 ELSE Ref[c]
                         /\ UsersOf(c)' = IF c = b THEN {p} ELSE UsersOf(c)
  <2>1. \A c \in Bufs : UsersOf(c)' = IF c = b THEN {p} ELSE UsersOf(c)
    <3>1. \A q \in Users : q # p => Pc'[q] = Pc[q] /\ At'[q] = At[q]
      BY Zenon, <1>f, <1>2
    <3>2. Pc'[p] = "lock" /\ At'[p] = b
      BY Zenon, <1>f, <1>2
    <3>3. UsersOf(b)' = {p}
      BY Zenon, <1>1, <3>1, <3>2 DEF UsersOf
    <3>4. ASSUME NEW c \in Bufs, c # b PROVE UsersOf(c)' = UsersOf(c)
      BY Zenon, <1>1, <3>1, <3>2, <3>4 DEF UsersOf
    <3> QED BY <3>3, <3>4
  <2>2. \A c \in Bufs : Ref'[c] = IF c = b THEN 1 ELSE Ref[c]
    BY Zenon, <1>f, <1>3
  <2>3. CallInv'
    BY ZenonT(60), <1>f, <1>0, <1>1, <1>2, <1>3 DEF CallInv
  <2> QED BY Zenon, <2>1, <2>2, <2>3
<1>6. ListInv'
  BY ZenonT(60), <1>f, <1>0, <1>3 DEF ListInv
<1>7. LockInv'
  <2>1. Pc[p] \notin Holding /\ Pc'[p] \notin Holding \cup {"locksleep"}
    BY ZenonT(60), <1>f, <1>1, <1>2 DEF Holding
  <2>2. \A q \in Users : q # p => Pc'[q] = Pc[q] /\ At'[q] = At[q]
    BY <1>f, <1>2
  <2> QED BY Zenon, <1>0, <1>3, <2>1, <2>2, OtherLocks
<1>8. FlagInv'
  <2>1. Dirty' \subseteq Valid'
    BY Zenon, <1>0, <1>1, <1>3 DEF FlagInv
  <2>2. \A c \in Valid' : c \in Valid /\ c \in Bufs /\ Block'[c] = Block[c] /\ Content'[c] = Content[c]
    BY Zenon, <1>f, <1>3
  <2> QED BY <1>0, <1>3, <2>1, <2>2 DEF FlagInv
<1>9. PhaseInv'
  <2>1. ASSUME NEW q \in Users, q # p PROVE Phase(q)'
    BY ZenonT(60), <1>f, <1>0, <1>1, <1>2, <1>3, <2>1 DEF PhaseInv, Phase
  <2>2. Phase(p)'
    BY Zenon, <1>f, <1>2 DEF Phase, Holding
  <2> QED BY <2>1, <2>2 DEF PhaseInv
<1>10. QueueInv'
  <2>1. \A q \in Users : (Pc'[q] = "iosleep") <=> (Pc[q] = "iosleep")
    BY Zenon, <1>f, <1>1, <1>2
  <2>2. \A q \in Users : Pc[q] = "iosleep" => At'[q] = At[q]
    BY Zenon, <1>f, <1>1, <1>2
  <2>3. \A q \in Users : Pc[q] = "iosleep" => At[q] # b
    BY <1>1
  <2> QED BY Zenon, <1>0, <1>3, <2>1, <2>2, <2>3, SameQueue
<1>11. Kept' \subseteq Kept
  BY ZenonT(60), <1>f, <1>0, <1>1, <1>2, <1>3 DEF Kept, Written
<1>12. Keeps /\ Hand' = Hand
  <2>1. Hand' = Hand
    BY ZenonT(60), <1>f, <1>1, <1>2 DEF Hand
  <2>2. \A q \in Hand : Of'[q] = Of[q]
    BY ZenonT(60), <1>f, <1>1, <1>2 DEF Hand
  <2>3. ASSUME NEW x \in Blocks, NEW v, Shows(x, v) PROVE Shows(x, v)'
    <3>1. \A c \in Valid' : c \in Valid /\ c # b /\ Block'[c] = Block[c] /\ Content'[c] = Content[c]
      BY ZenonT(60), <1>f, <1>3
    <3>2. CASE \E c \in Valid' : Block[c] = x /\ Content[c] = v
      BY Zenon, <3>1, <3>2 DEF Shows
    <3>3. CASE b \in Valid /\ Block[b] = x /\ Content[b] = v
      <4>1. disk[x] = v
        BY <1>0, <1>1, <3>3 DEF FlagInv
      <4>2. \A c \in Valid' : Block'[c] # x
        BY ZenonT(60), <1>0, <1>f, <3>1, <3>3, BuffersAssumption DEF ListInv
      <4> QED BY Zenon, <4>1, <4>2 DEF Shows
    <3>4. CASE (\A c \in Valid : Block[c] # x) /\ disk[x] = v
      BY Zenon, <3>1, <3>4 DEF Shows
    <3> QED BY ZenonT(60), <1>3, <2>3, <3>2, <3>3, <3>4 DEF Shows
  <2> QED BY Zenon, <2>1, <2>2, <2>3 DEF Keeps
<1> QED BY Zenon, <1>0, <1>3, <1>4, <1>5, <1>6, <1>7, <1>8, <1>9, <1>10, <1>11, <1>12 DEF Core

\* What a caller puts into a buffer is data of the buffer's block.
LEMMA UsesItsBlock ==
  ASSUME Core, NEW p \in Users, NEW v \in Data(user[p].block), UseLogWrite(p, v) \/ Bwrite(p, v)
  PROVE  v \in Values
<1>1. Pc[p] = "use"
  BY Zenon DEF UseLogWrite, Bwrite, Pc
<1>2. user[p].block \in Blocks
  BY Zenon, <1>1 DEF Core, CallInv, Of
<1> QED BY <1>2 DEF Values

\* A step that changes nothing but the number of calls, or panics.
LEMMA Unchanged ==
  ASSUME Sound, UNCHANGED <<buf, lru, idequeue, drive, disk, user>>
  PROVE  Sound' /\ Quiet /\ Keeps /\ Hand' = Hand /\ Active' = Active
<1>1. /\ buf' = buf /\ lru' = lru /\ idequeue' = idequeue /\ drive' = drive
      /\ disk' = disk /\ user' = user
  OBVIOUS
<1>2. /\ Pc' = Pc /\ At' = At /\ Of' = Of /\ After' = After
      /\ Block' = Block /\ Content' = Content /\ Ref' = Ref /\ Valid' = Valid /\ Dirty' = Dirty /\ Locked' = Locked
  BY Zenon, <1>1, NoBuf DEF Pc, At, Of, After
<1>0. Types /\ CallInv /\ ListInv /\ LockInv /\ FlagInv /\ PhaseInv
  BY Zenon DEF Sound
<1>3. Types' /\ CallInv' /\ ListInv' /\ LockInv' /\ FlagInv' /\ PhaseInv'
  <2>1. Types' /\ CallInv' /\ ListInv'
    BY Zenon, <1>0, <1>1, <1>2 DEF Types, CallInv, ListInv
  <2>2. LockInv' /\ FlagInv'
    BY Zenon, <1>0, <1>1, <1>2 DEF LockInv, FlagInv
  <2>3. PhaseInv'
    BY Zenon, <1>0, <1>2 DEF PhaseInv, Phase
  <2> QED BY Zenon, <2>1, <2>2, <2>3
<1>4. QueueInv'
  BY <1>1, <1>2 DEF Sound, QueueInv, Idestart
<1>5. Quiet
  BY Zenon, <1>2 DEF Quiet, UsersOf, Kept, Written
<1>6. Keeps /\ Hand' = Hand
  BY Zenon, <1>1, <1>2 DEF Keeps, Hand, Shows
<1>7. Active' = Active
  BY <1>1 DEF Active
<1> QED BY Zenon, <1>3, <1>4, <1>5, <1>6, <1>7 DEF Sound

-----------------------------------------------------------------------------
(* The initial state, and what the invariant implies *)

\* After binit no buffer is in use, and each has its place in the list.
LEMMA InitCore == ASSUME BuffersInit PROVE Core /\ (\A b \in Bufs : Ref[b] = 0 /\ UsersOf(b) = {}) /\ Kept = {}
<1>1. /\ \A p \in Users : user[p] = NoCall
      /\ \A b \in Bufs : /\ buf[b].block = "none" /\ buf[b].data = "none" /\ buf[b].refcnt = 0
                         /\ ~buf[b].valid /\ ~buf[b].dirty /\ ~buf[b].locked
  BY DEF BuffersInit, Binit
<1>2. /\ \A p \in Users : Pc[p] = "idle"
      /\ \A b \in Bufs : Block[b] = "none" /\ Ref[b] = 0
      /\ Valid = {} /\ Dirty = {} /\ Locked = {}
  <2>1. \A p \in Users : Pc[p] = "idle"
    <3>1. NoCall.pc = "idle"
      BY DEF NoCall
    <3> QED BY Zenon, <1>1, <3>1 DEF Pc
  <2>2. \A b \in Bufs : Block[b] = "none" /\ Ref[b] = 0
    BY <1>1 DEF Block, Ref
  <2>3. Valid = {} /\ Dirty = {} /\ Locked = {}
    BY Zenon, <1>1 DEF Valid, Dirty, Locked
  <2> QED BY Zenon, <2>1, <2>2, <2>3
<1>3. Types
  <2>1. NoCall \in UserType
    BY Zenon DEF NoCall, UserType, Places
  <2>2. buf \in [Bufs -> BufType]
    BY Zenon DEF BuffersInit, Binit, BufType
  <2>3. lru \in [Bufs -> Bufs]
    BY BuffersAssumption DEF BuffersInit, Binit, Bufs
  <2>4. disk \in [Blocks -> Values]
    BY DEF BuffersInit, Values, Data
  <2> QED BY <2>1, <2>2, <2>3, <2>4 DEF Types, BuffersInit
<1>4. ListInv
  <2>1. ASSUME NEW b \in Bufs PROVE \E i \in Bufs : lru[i] = b
    <3>1. NBUF + 1 - b \in Bufs /\ lru[NBUF + 1 - b] = b
      BY BuffersAssumption DEF BuffersInit, Binit, Bufs
    <3> QED BY Zenon, <3>1
  <2> QED BY <1>2, <2>1 DEF ListInv
<1>5. CallInv /\ LockInv /\ FlagInv /\ PhaseInv
  BY Zenon, <1>2 DEF CallInv, LockInv, FlagInv, PhaseInv, Phase, Holding
<1>6. QueueInv /\ panicked = FALSE
  BY <1>2 DEF QueueInv, BuffersInit
<1>7. \A b \in Bufs : UsersOf(b) = {}
  BY <1>2 DEF UsersOf
<1>8. Kept = {}
  BY Zenon, <1>2 DEF Kept
<1> QED BY Zenon, <1>2, <1>3, <1>4, <1>5, <1>6, <1>7, <1>8 DEF Core

\* bwrite returns from a buffer that is not dirty.
LEMMA SoundDurable == ASSUME Sound PROVE BwriteDurable
<1> SUFFICES ASSUME NEW p \in Users, user[p].pc = "brelse", user[p].after = "brelse"
             PROVE  disk[user[p].block] = buf[user[p].buf].data
  BY DEF BwriteDurable
<1>1. Pc[p] = "brelse" /\ After[p] = "brelse"
  BY Zenon DEF Pc, After
<1>2. At[p] \in Valid \ Dirty /\ At[p] \in Bufs /\ Block[At[p]] = Of[p]
  BY Zenon, <1>1 DEF Sound, PhaseInv, Phase, CallInv
<1>3. disk[Of[p]] = Content[At[p]]
  BY <1>2 DEF Sound, FlagInv
<1> QED BY Zenon, <1>2, <1>3 DEF Of, At, Content

\* Who sleeps on a lock or on the disk is in LockInv or QueueInv.
LEMMA SoundAwaited == ASSUME Sound PROVE SleepersAwaited
<1>0. Types /\ CallInv /\ LockInv /\ QueueInv
  BY DEF Sound
<1>f. FieldTypes
  BY <1>0, Fields
<1>1. DriveHasHead
  <2>1. ASSUME idequeue # << >>
        PROVE  drive # NoDrive /\ drive.block = buf[Head(idequeue)].block
    <3>1. 1 \in DOMAIN idequeue /\ Head(idequeue) = idequeue[1] /\ idequeue[1] \in Bufs
      BY <1>0, <2>1 DEF Types
    <3>2. PICK q \in Users : Pc[q] = "iosleep" /\ At[q] = idequeue[1]
      BY Zenon, <1>0, <3>1 DEF QueueInv
    <3>3. Block[idequeue[1]] \in Blocks
      BY Zenon, <1>0, <3>2 DEF CallInv
    <3>4. drive = Idestart(idequeue[1])
      BY Zenon, <1>0, <2>1, <3>1 DEF QueueInv
    <3>5. drive.block = Block[idequeue[1]]
      BY Zenon, <3>1, <3>4 DEF Idestart, Block
    <3>6. drive.block # "none" /\ NoDrive.block = "none"
      BY Zenon, <3>3, <3>5, BuffersAssumption DEF NoDrive
    <3> QED BY Zenon, <3>1, <3>5, <3>6 DEF Block
  <2>2. idequeue = << >> => drive = NoDrive
    BY Zenon, <1>0 DEF QueueInv
  <2>3. \A i, j \in DOMAIN idequeue : idequeue[i] = idequeue[j] => i = j
    BY <1>0 DEF QueueInv
  <2> QED BY Zenon, <2>1, <2>2, <2>3 DEF DriveHasHead
<1>2. ASSUME NEW p \in Users, user[p].pc = "locksleep"
      PROVE  \E q \in Users \ {p} : user[q].buf = user[p].buf /\ user[q].pc \notin {"lock", "locksleep", "put"}
  <2>1. Pc[p] = "locksleep"
    BY Zenon, <1>2 DEF Pc
  <2>2. PICK q \in Users : Pc[q] \in Holding /\ At[q] = At[p]
    BY Zenon, <1>0, <2>1 DEF LockInv
  <2>3. q # p /\ Pc[q] \notin {"lock", "locksleep", "put"}
    BY Zenon, <2>1, <2>2 DEF Holding
  <2> QED BY Zenon, <2>2, <2>3 DEF At, Pc
<1>3. ASSUME NEW p \in Users, user[p].pc = "iosleep"
      PROVE  user[p].buf \in {idequeue[i] : i \in DOMAIN idequeue}
  BY <1>0, <1>3 DEF QueueInv, Pc, At
<1> QED BY Zenon, <1>1, <1>2, <1>3 DEF SleepersAwaited
-----------------------------------------------------------------------------
(* The refinement of Store *)

StoreValue == [blk \in Blocks |-> Current(blk)]
StoreView  == [p \in Users |-> IF InHand(p) THEN [block |-> user[p].block, value |-> buf[user[p].buf].data]
                               ELSE [block |-> "none", value |-> "none"]]

\* The cache shows one value of each block, and each process what it has in hand.
StoreInv ==
  /\ \A blk \in Blocks : \A v : Shows(blk, v) <=> v = Current(blk)
  /\ Hand \subseteq Users /\ \A p \in Hand : Of[p] \in Blocks
  /\ StoreView = [p \in Users |-> IF p \in Hand THEN [block |-> Of[p], value |-> StoreValue[Of[p]]] ELSE S!NoView]
  /\ \A p, q \in Hand : Of[p] = Of[q] => p = q

\* The value of a block is that of its one valid buffer, or of the disk.
LEMMA ShownIsCurrent ==
  ASSUME Sound, NEW blk \in Blocks, NEW v
  PROVE  Shows(blk, v) <=> v = Current(blk)
<1> DEFINE cached == {b \in Bufs : buf[b].block = blk /\ buf[b].valid}
<1>1. cached = {b \in Valid : Block[b] = blk}
  BY DEF Valid, Block
<1>2. Current(blk) = IF cached = {} THEN disk[blk] ELSE buf[CHOOSE b \in cached : TRUE].data
  BY DEF Current
<1>3. \A b \in cached : b \in Bufs /\ buf[b].data = Content[b]
  BY DEF Content
<1> HIDE DEF cached
<1>4. CASE cached = {}
  BY Zenon, <1>1, <1>2, <1>4 DEF Shows
<1>5. CASE cached # {}
  <2>1. PICK c \in cached : Current(blk) = buf[c].data
    BY Zenon, <1>2, <1>5
  <2>2. \A b \in cached : b = c
    BY Zenon, <1>1, <1>3, BuffersAssumption DEF Sound, ListInv
  <2>3. c \in Valid /\ Block[c] = blk /\ \A b \in Valid : Block[b] = blk => b = c
    BY Zenon, <1>1, <2>2
  <2> QED BY Zenon, <1>3, <2>1, <2>3 DEF Shows
<1> QED BY <1>4, <1>5

\* A process that has a block in hand holds the lock of its buffer, which is valid.
LEMMA SoundStore == Sound => StoreInv
<1> SUFFICES ASSUME Sound PROVE StoreInv
  OBVIOUS
<1>0. Types /\ CallInv /\ ListInv /\ LockInv /\ PhaseInv
  BY DEF Sound
<1>f. FieldTypes
  BY <1>0, Fields
<1>1. \A blk \in Blocks : \A v : Shows(blk, v) <=> v = Current(blk)
  BY ShownIsCurrent
<1>2. \A p \in Hand : /\ p \in Users /\ Pc[p] \in Holding /\ Pc[p] # "idle" /\ At[p] \in Valid
  <2> SUFFICES ASSUME NEW p \in Hand PROVE p \in Users /\ Pc[p] \in Holding /\ Pc[p] # "idle" /\ At[p] \in Valid
    OBVIOUS
  <2>1. p \in Users /\ Pc[p] \in Holding /\ Pc[p] # "idle"
    BY DEF Hand, Holding
  <2> QED BY Zenon, <1>0, <2>1 DEF Hand, PhaseInv, Phase
<1>3. \A p \in Hand : At[p] \in Bufs /\ Of[p] \in Blocks /\ Block[At[p]] = Of[p]
  BY Zenon, <1>0, <1>2 DEF CallInv
<1>4. \A p, q \in Hand : Of[p] = Of[q] => p = q
  <2> SUFFICES ASSUME NEW p \in Hand, NEW q \in Hand, Of[p] = Of[q] PROVE p = q
    BY Zenon
  <2>1. At[p] = At[q]
    BY <1>0, <1>3, BuffersAssumption DEF ListInv
  <2> QED BY Zenon, <1>0, <1>2, <2>1 DEF LockInv
<1>5. \A p \in Hand : Content[At[p]] = StoreValue[Of[p]]
  <2> SUFFICES ASSUME NEW p \in Hand PROVE Content[At[p]] = StoreValue[Of[p]]
    OBVIOUS
  <2>1. Shows(Of[p], Content[At[p]])
    BY Zenon, <1>2, <1>3 DEF Shows
  <2> QED BY Zenon, <1>1, <1>3, <2>1 DEF StoreValue
<1>6. \A p \in Users : InHand(p) <=> p \in Hand
  BY DEF InHand, Hand, Pc, After
<1>7. \A p \in Hand : user[p].block = Of[p] /\ buf[user[p].buf].data = Content[At[p]]
  BY Zenon, <1>2, <1>3 DEF Of, At, Content
<1>8. StoreView = [p \in Users |-> IF p \in Hand THEN [block |-> Of[p], value |-> StoreValue[Of[p]]] ELSE S!NoView]
  BY Zenon, <1>5, <1>6, <1>7 DEF StoreView, S!NoView
<1>9. Hand \subseteq Users
  BY DEF Hand
<1> QED BY Zenon, <1>1, <1>3, <1>4, <1>8, <1>9 DEF StoreInv

LEMMA StoreUnchanged ==
  ASSUME StoreInv, StoreInv', Keeps
  PROVE  StoreValue' = StoreValue
<1>1. ASSUME NEW blk \in Blocks PROVE Current(blk)' = Current(blk)
  <2>1. PICK v : v = Current(blk)
    OBVIOUS
  <2>2. Shows(blk, v)
    BY Zenon, <2>1 DEF StoreInv
  <2>3. Shows(blk, v)'
    BY Zenon, <2>2 DEF Keeps
  <2>4. v = Current(blk)'
    BY Zenon, <2>3 DEF StoreInv
  <2> QED BY Zenon, <2>1, <2>4
<1> QED BY Zenon, <1>1 DEF StoreValue

\* A step that takes no block, drops none and changes none.
LEMMA Stutters ==
  ASSUME StoreInv, StoreInv', Keeps, Hand' = Hand
  PROVE  UNCHANGED <<StoreValue, StoreView>>
<1>1. StoreValue' = StoreValue
  BY Zenon, StoreUnchanged
<1>2. StoreView' = StoreView
  BY Zenon, <1>1 DEF StoreInv, Keeps
<1> QED BY <1>1, <1>2

\* bread returns.
LEMMA Takes ==
  ASSUME StoreInv, StoreInv', Keeps, NEW p \in Users, p \notin Hand, Hand' = Hand \cup {p}
  PROVE  S!Next
<1>1. StoreValue' = StoreValue
  BY Zenon, StoreUnchanged
<1>2. PICK b \in Blocks : b = Of'[p]
  BY Zenon DEF StoreInv
<1>3. StoreView[p] = S!NoView
  BY DEF StoreInv
<1>4. \A q \in Users : StoreView[q].block # b
  <2>1. \A q \in Hand : Of[q] # b
    BY Zenon, <1>2 DEF StoreInv, Keeps
  <2>2. \A q \in Users : StoreView[q].block = IF q \in Hand THEN Of[q] ELSE "none"
    BY ZenonT(60) DEF StoreInv, S!NoView
  <2> QED BY Zenon, <1>2, <2>1, <2>2, BuffersAssumption
<1>5. StoreView' = [StoreView EXCEPT ![p] = [block |-> b, value |-> StoreValue[b]]]
  BY <1>1, <1>2 DEF StoreInv, Keeps
<1>6. S!Take(p, b)
  BY Zenon, <1>1, <1>3, <1>4, <1>5 DEF S!Take, StoreValue, StoreView
<1> QED BY <1>2, <1>6 DEF S!Next

\* brelse gives the block back.
LEMMA Drops ==
  ASSUME StoreInv, StoreInv', Keeps, NEW p \in Users, p \in Hand, Hand' = Hand \ {p}
  PROVE  S!Next
<1>1. StoreValue' = StoreValue
  BY Zenon, StoreUnchanged
<1>2. StoreView[p] # S!NoView
  <2>1. StoreView[p].block = Of[p] /\ Of[p] \in Blocks
    BY Zenon DEF StoreInv
  <2>2. S!NoView.block = "none"
    BY DEF S!NoView
  <2>3. "none" \notin Blocks
    BY ZenonT(60), BuffersAssumption
  <2> QED BY Zenon, <2>1, <2>2, <2>3
<1>3. StoreView' = [StoreView EXCEPT ![p] = S!NoView]
  BY <1>1 DEF StoreInv, Keeps
<1>4. S!Drop(p)
  BY Zenon, <1>1, <1>2, <1>3 DEF S!Drop, StoreValue, StoreView
<1> QED BY <1>4 DEF S!Next

\* The caller changes the block that it has in hand.
LEMMA ChangesStore ==
  ASSUME StoreInv, StoreInv', NEW p \in Users, NEW v \in Values, Changes(p, v)
  PROVE  S!Next
<1>0. PICK b : b = Of[p]
  BY ZenonT(60)
<1>1. p \in Hand /\ b \in Blocks /\ Of'[p] = b /\ Hand' = Hand
  BY <1>0 DEF Changes, StoreInv
<1>2. Current(b)' = v
  BY Zenon, <1>0, <1>1 DEF Changes, StoreInv
<1>3. ASSUME NEW blk \in Blocks \ {b} PROVE Current(blk)' = Current(blk)
  <2>1. PICK w : w = Current(blk)
    OBVIOUS
  <2>2. Shows(blk, w)
    BY Zenon, <2>1 DEF StoreInv
  <2>3. Shows(blk, w)'
    BY Zenon, <1>0, <2>2 DEF Changes
  <2>4. w = Current(blk)'
    BY Zenon, <2>3 DEF StoreInv
  <2> QED BY Zenon, <2>1, <2>4
<1>4. StoreValue' = [StoreValue EXCEPT ![b] = v]
  <2> QED BY Zenon, <1>1, <1>2, <1>3 DEF StoreValue
<1>5. StoreView' = [StoreView EXCEPT ![p].value = v]
  <2>0. \A x \in Blocks : StoreValue'[x] = IF x = b THEN v ELSE StoreValue[x]
    BY Zenon, <1>4 DEF StoreValue
  <2>1. \A q \in Users : StoreView'[q] = IF q = p THEN [StoreView[p] EXCEPT !.value = v] ELSE StoreView[q]
    BY SMTT(60), <1>0, <1>1, <2>0 DEF Changes, StoreInv
  <2> QED BY Zenon, <2>1 DEF StoreInv
<1>6. StoreView[p].block = b
  BY Zenon, <1>0, <1>1 DEF StoreInv
<1>7. S!Change(p, b, v)
  BY Zenon, <1>4, <1>5, <1>6 DEF S!Change, StoreValue, StoreView
<1> QED BY <1>1, <1>7 DEF S!Next, Values

\* A step of a process is a step of the store that the cache is to its callers.
LEMMA UserStores ==
  ASSUME Core, StoreInv, StoreInv', NEW p \in Users, UserStep(p), Brelse(p) => Ref[At[p]] # 0
  PROVE  S!Next \/ UNCHANGED <<StoreValue, StoreView>>
<1>t. ASSUME Keeps, Hand' = Hand \cup {p} PROVE S!Next \/ UNCHANGED <<StoreValue, StoreView>>
  <2>1. CASE p \in Hand
    <3>1. Hand' = Hand
      BY <1>t, <2>1
    <3> QED BY ZenonT(60), <1>t, <3>1, Stutters
  <2>2. CASE p \notin Hand
    BY Zenon, <1>t, <2>2, Takes
  <2> QED BY <2>1, <2>2
<1>1. CASE Acquiresleep(p)
  <2>1. CASE buf[user[p].buf].locked
    BY Zenon, <1>1, <2>1, SleepInv, Stutters
  <2>2. CASE ~buf[user[p].buf].locked
    <3>1. Keeps /\ Hand' \in {Hand, Hand \cup {p}}
      BY Zenon, <1>1, <2>2, LockedInv
    <3>2. CASE Hand' = Hand
      BY Zenon, <3>1, <3>2, Stutters
    <3>3. CASE Hand' = Hand \cup {p}
      BY Zenon, <1>t, <3>1, <3>3
    <3> QED BY Zenon, <3>1, <3>2, <3>3
  <2> QED BY Zenon, <2>1, <2>2
<1>2. CASE UseRead(p)
  BY Zenon, <1>2, UseReadInv, Stutters
<1>3. CASE Releasesleep(p)
  BY Zenon, <1>3, ReleasesleepInv, Drops
<1>4. CASE Brelse(p)
  BY Zenon, <1>4, BrelseInv, Stutters
<1>5. CASE \E v \in Data(user[p].block) : UseLogWrite(p, v) \/ Bwrite(p, v)
  <2>1. PICK v \in Data(user[p].block) : UseLogWrite(p, v) \/ Bwrite(p, v)
    BY Zenon, <1>5
  <2>2. v \in Values
    BY Zenon, <2>1, UsesItsBlock
  <2> QED BY ZenonT(60), <2>1, <2>2, UseLogWriteInv, BwriteInv, ChangesStore
<1>6. CASE Iderw(p)
  BY Zenon, <1>6, IderwInv, Stutters
<1>7. CASE IderwAgain(p)
  BY Zenon, <1>t, <1>7, IderwAgainInv
<1>8. CASE MemIderw(p)
  BY ZenonT(60), <1>t, <1>8, MemIderwInv
<1> QED BY ZenonT(60), <1>1, <1>2, <1>3, <1>4, <1>5, <1>6, <1>7, <1>8 DEF UserStep

\* At first nobody has a block in hand, and its value is the disk's.
LEMMA InitStore == ASSUME BuffersInit PROVE S!Init
<1>1. Core
  BY Zenon, InitCore
<1>2. StoreInv
  BY Zenon, <1>1, SoundStore DEF Core, Sound
<1>3. Hand = {}
  BY Zenon DEF Hand, Pc, BuffersInit, NoCall
<1>4. StoreView = [p \in Users |-> S!NoView]
  BY ZenonT(60), <1>2, <1>3 DEF StoreInv
<1>5. \A blk \in Blocks : Current(blk) = disk[blk]
  BY DEF BuffersInit, Binit, Current
<1>6. StoreValue \in [Blocks -> Values]
  <2>1. disk \in [Blocks -> Values]
    BY <1>1 DEF Core, Types
  <2> QED BY Zenon, <1>5, <2>1 DEF StoreValue
<1> QED BY <1>4, <1>6 DEF S!Init, StoreView, StoreValue, Values

-----------------------------------------------------------------------------
(* Counting *)

\* A set of natural numbers that is not empty has a least element.
LEMMA Least ==
  ASSUME NEW T \in SUBSET Nat, T # {}
  PROVE  \E n \in T : \A m \in T : n <= m
<1>1. PICK n \in T : \A m \in T : ~(<<m, n>> \in OpToRel(<, Nat))
  BY Zenon, NatLessThanWellFounded, WFMin
<1>2. \A m \in T : m < n => <<m, n>> \in OpToRel(<, Nat)
  BY DEF OpToRel
<1>3. \A m \in T : ~(m < n)
  BY Zenon, <1>1, <1>2
<1> QED BY <1>3

\* Sets of buffers are finite.
LEMMA BufsFinite == IsFiniteSet(Bufs) /\ Cardinality(Bufs) = NBUF
BY FS_Interval, BuffersAssumption DEF Bufs

\* A step after which the log keeps no other buffers than before.
LEMMA KeptSmaller ==
  ASSUME KeptInv, Kept' \subseteq Kept
  PROVE  KeptInv'
<1>1. IsFiniteSet(Kept)
  BY Zenon, BufsFinite, FS_Subset DEF Kept, Dirty
<1>2. Cardinality(Kept') <= Cardinality(Kept) /\ Cardinality(Kept') \in Nat /\ Cardinality(Kept) \in Nat
  BY Zenon, <1>1, FS_Subset, FS_CardinalityType
<1> QED BY <1>2, BuffersAssumption DEF KeptInv

\* The sets that bget counts.
LEMMA UsersOfFinite == \A b : IsFiniteSet(UsersOf(b)) /\ Cardinality(UsersOf(b)) \in Nat
<1>1. IsFiniteSet(Users) /\ \A b : UsersOf(b) \in SUBSET Users
  BY ZenonT(60), BuffersAssumption DEF UsersOf
<1> QED BY Zenon, <1>1, FS_Subset, FS_CardinalityType

\* The buffer that bget recycles.
LEMMA OldestUnused ==
  ASSUME Types, Unused # {}
  PROVE  Oldest(Unused) \in Bufs /\ Ref[Oldest(Unused)] = 0 /\ Oldest(Unused) \notin Dirty
<1> DEFINE T == {NBUF - i : i \in Unused}
<1>1. Unused \subseteq 1 .. NBUF /\ NBUF \in Nat
  BY Zenon, BuffersAssumption DEF Unused, Bufs
<1>2. T \in SUBSET Nat /\ T # {}
  <2>1. \A i \in Unused : NBUF - i \in Nat
    BY <1>1
  <2> QED BY <2>1
<1>3. PICK n \in T : \A m \in T : n <= m
  BY Zenon, <1>2, Least
<1>4. PICK i \in Unused : n = NBUF - i
  OBVIOUS
<1>5. ASSUME NEW j \in Unused PROVE j <= i
  <2>1. NBUF - j \in T
    OBVIOUS
  <2>2. NBUF - i <= NBUF - j
    BY Zenon, <1>3, <1>4, <2>1
  <2>3. i \in Nat /\ j \in Nat
    BY <1>1
  <2> QED BY <1>1, <2>2, <2>3
<1> DEFINE k == CHOOSE l \in Unused : \A j \in Unused : j <= l
<1>6. k \in Unused
  BY Zenon, <1>4, <1>5
<1>7. Oldest(Unused) = lru[k]
  BY Zenon DEF Oldest
<1> HIDE DEF k
<1> QED BY Zenon, <1>6, <1>7 DEF Unused, Types, Ref, Dirty

\* If bget finds nothing to recycle, each buffer is kept by the log or has a user.
LEMMA AllInUse ==
  ASSUME Working, Unused = {}
  PROVE  NBUF <= MaxPinned + Cardinality(Active)
<1>0. Types /\ CallInv /\ ListInv /\ LockInv /\ FlagInv /\ PhaseInv /\ QueueInv /\ CountInv /\ KeptInv
  BY Zenon DEF Working, Core
<1> DEFINE g == [q \in Active |-> At[q]]
           G == {At[q] : q \in Active}
<1>a. Active = {q \in Users : Pc[q] # "idle"}
  BY DEF Active, Pc
<1>1. ASSUME NEW b \in Bufs, b \notin Kept PROVE b \in G
  <2>1. Ref[b] # 0 \/ b \in Dirty
    <3>1. PICK j \in Bufs : lru[j] = b
      BY Zenon, <1>0 DEF ListInv
    <3> QED BY Zenon, <3>1 DEF Unused, Ref, Dirty
  <2>2. CASE Ref[b] # 0
    <3>1. UsersOf(b) # {}
      BY Zenon, <1>0, <2>2, FS_EmptySet DEF CountInv
    <3> QED BY Zenon, <1>a, <3>1 DEF UsersOf
  <2>3. CASE b \in Dirty
    <3>1. b \in Written
      BY Zenon, <1>1, <2>3 DEF Kept
    <3> QED BY Zenon, <1>a, <3>1 DEF Written
  <2> QED BY Zenon, <2>1, <2>2, <2>3
<1>2. IsFiniteSet(Active) /\ Cardinality(Active) \in Nat
  BY Zenon, BuffersAssumption, FS_Subset, FS_CardinalityType DEF Active
<1>3. g \in Surjection(Active, G)
  BY Zenon DEF Surjection
<1>4. IsFiniteSet(G) /\ Cardinality(G) <= Cardinality(Active) /\ Cardinality(G) \in Nat
  <2> HIDE DEF g, G
  <2> QED BY Zenon, <1>2, <1>3, FS_Surjection, FS_CardinalityType
<1>5. IsFiniteSet(Kept) /\ Cardinality(Kept) \in Nat /\ Cardinality(Kept) <= MaxPinned
  BY Zenon, <1>0, BufsFinite, FS_Subset, FS_CardinalityType DEF Kept, Dirty, KeptInv
<1>6. /\ IsFiniteSet(Kept \cup G) /\ Cardinality(Kept \cup G) \in Nat
      /\ Cardinality(Kept \cup G) <= Cardinality(Kept) + Cardinality(G)
  <2> HIDE DEF G
  <2>1. /\ IsFiniteSet(Kept \cup G) /\ IsFiniteSet(Kept \cap G)
        /\ Cardinality(Kept \cup G) = Cardinality(Kept) + Cardinality(G) - Cardinality(Kept \cap G)
    BY Zenon, <1>4, <1>5, FS_Union, FS_Intersection
  <2>2. Cardinality(Kept \cap G) \in Nat /\ Cardinality(Kept \cup G) \in Nat
    BY Zenon, <2>1, FS_CardinalityType
  <2> QED BY SMTT(60), <1>4, <1>5, <2>1, <2>2
<1>7. Bufs \subseteq Kept \cup G
  BY Zenon, <1>1
<1>8. NBUF <= Cardinality(Kept \cup G)
  <2> HIDE DEF G
  <2> QED BY Zenon, <1>6, <1>7, BufsFinite, FS_Subset
<1> QED BY SMTT(60), <1>2, <1>4, <1>5, <1>6, <1>8, BuffersAssumption

\* A step that begins and ends no call keeps the counts.
LEMMA QuietCounts ==
  ASSUME CountInv, KeptInv, Quiet
  PROVE  CountInv' /\ KeptInv'
<1>1. CountInv'
  BY Zenon DEF CountInv, Quiet
<1> QED BY Zenon, <1>1, KeptSmaller DEF Quiet

\* log_write keeps one buffer more, of at most LOGSIZE - 1 (log.c:213).
LEMMA UseLogWriteCounts ==
  ASSUME Working, NEW p \in Users, NEW v \in Values, UseLogWrite(p, v)
  PROVE  Working'
<1>1. Core' /\ Ref' = Ref /\ (\A c \in Bufs : UsersOf(c)' = UsersOf(c)) /\ Kept' \subseteq Dirty \cup {At[p]}
  BY Zenon, UseLogWriteInv DEF Working
<1>2. CountInv'
  BY Zenon, <1>1 DEF CountInv, Working
<1>3. KeptInv'
  <2> DEFINE D == {c \in Bufs \ {At[p]} : buf[c].dirty}
  <2>1. IsFiniteSet(D) /\ Cardinality(D) \in Nat /\ Cardinality(D) < MaxPinned
    BY Zenon, BufsFinite, FS_Subset, FS_CardinalityType DEF UseLogWrite, At
  <2>2. D = Dirty \ {At[p]}
    BY DEF Dirty
  <2> HIDE DEF D
  <2>3. Kept' \subseteq D \cup {At[p]}
    BY Zenon, <1>1, <2>2
  <2>4. IsFiniteSet(D \cup {At[p]}) /\ Cardinality(D \cup {At[p]}) = Cardinality(D) + 1
    BY Zenon, <2>1, <2>2, FS_AddElement
  <2>5. Cardinality(Kept') \in Nat /\ Cardinality(Kept') <= Cardinality(D \cup {At[p]})
    BY Zenon, <2>3, <2>4, FS_Subset, FS_CardinalityType
  <2> QED BY <2>1, <2>4, <2>5, BuffersAssumption DEF KeptInv
<1> QED BY Zenon, <1>1, <1>2, <1>3 DEF Working

\* The buffer that brelse is called with has been counted.
LEMMA BrelseReferenced ==
  ASSUME Working, NEW p \in Users, Brelse(p)
  PROVE  Ref[At[p]] # 0
<1>0. Core /\ CountInv
  BY Zenon DEF Working
<1>1. At[p] \in Bufs /\ p \in UsersOf(At[p])
  <2>1. Pc[p] = "put"
    BY DEF Brelse, Pc
  <2> QED BY Zenon, <1>0, <2>1 DEF Core, CallInv, UsersOf
<1>2. Cardinality(UsersOf(At[p])) # 0
  BY Zenon, <1>1, UsersOfFinite, FS_EmptySet
<1> QED BY Zenon, <1>0, <1>1, <1>2 DEF CountInv

\* brelse takes off the reference that bget counted for the call.
LEMMA BrelseCounts ==
  ASSUME Working, NEW p \in Users, Brelse(p)
  PROVE  Working'
<1>0. Core /\ CountInv /\ KeptInv
  BY Zenon DEF Working
<1>1. At[p] \in Bufs /\ p \in UsersOf(At[p])
  <2>1. Pc[p] = "put"
    BY DEF Brelse, Pc
  <2> QED BY <1>0, <2>1 DEF Core, CallInv, UsersOf
<1>2. Ref[At[p]] # 0
  BY Zenon, BrelseReferenced
<1>3. /\ Core' /\ Kept' \subseteq Kept
      /\ \A c \in Bufs : /\ Ref'[c] = IF c = At[p] THEN Ref[c] - 1 ELSE Ref[c]
                         /\ UsersOf(c)' = IF c = At[p] THEN UsersOf(c) \ {p} ELSE UsersOf(c)
  BY Zenon, <1>0, <1>2, BrelseInv
<1>4. Cardinality(UsersOf(At[p]) \ {p}) = Cardinality(UsersOf(At[p])) - 1
  BY Zenon, <1>1, UsersOfFinite, FS_RemoveElement
<1>5. CountInv'
  <2>1. ASSUME NEW c \in Bufs PROVE Ref'[c] = Cardinality(UsersOf(c)')
    <3>1. CASE c = At[p]
      BY Zenon, <1>0, <1>3, <1>4, <3>1 DEF CountInv
    <3>2. CASE c # At[p]
      BY Zenon, <1>0, <1>3, <3>2 DEF CountInv
    <3> QED BY Zenon, <3>1, <3>2
  <2> QED BY <2>1 DEF CountInv
<1> QED BY Zenon, <1>0, <1>3, <1>5, KeptSmaller DEF Working

\* bget counts the call that it returns to.
LEMMA BgetCounts ==
  ASSUME Working, NEW p \in Users, NEW blk \in Blocks, Bget(p, blk), panicked' = FALSE
  PROVE  Working' /\ Keeps /\ Hand' = Hand
<1>0. Core /\ CountInv /\ KeptInv
  BY Zenon DEF Working
<1>1. Pc[p] = "idle" /\ lru' = lru /\ idequeue' = idequeue /\ drive' = drive /\ disk' = disk
  BY DEF Bget, Pc
<1>2. CASE \E b \in Bufs : buf[b].block = blk /\ BgetTo(p, blk, b, [buf[b] EXCEPT !.refcnt = buf[b].refcnt + 1])
  <2>1. PICK b \in Bufs : buf[b].block = blk /\ BgetTo(p, blk, b, [buf[b] EXCEPT !.refcnt = buf[b].refcnt + 1])
    BY <1>2
  <2>2. Block[b] = blk
    BY <2>1 DEF Block
  <2>3. /\ Core' /\ p \notin UsersOf(b) /\ Kept' \subseteq Kept /\ Keeps /\ Hand' = Hand
        /\ \A c \in Bufs : /\ Ref'[c] = IF c = b THEN Ref[c] + 1 ELSE Ref[c]
                           /\ UsersOf(c)' = IF c = b THEN UsersOf(c) \cup {p} ELSE UsersOf(c)
    BY ZenonT(60), <1>0, <1>1, <2>1, <2>2, BgetHitInv
  <2>4. Cardinality(UsersOf(b) \cup {p}) = Cardinality(UsersOf(b)) + 1
    BY ZenonT(60), <2>3, UsersOfFinite, FS_AddElement
  <2>5. CountInv'
    BY Zenon, <1>0, <2>3, <2>4 DEF CountInv
  <2> QED BY Zenon, <1>0, <2>3, <2>5, KeptSmaller DEF Working
<1>3. CASE ~ \E b \in Bufs : buf[b].block = blk /\ BgetTo(p, blk, b, [buf[b] EXCEPT !.refcnt = buf[b].refcnt + 1])
  <2> DEFINE b == Oldest(Unused)
  <2>1. Unused # {}
    BY <1>3 DEF Bget
  <2>2. b \in Bufs /\ Ref[b] = 0 /\ b \notin Dirty
    BY Zenon, <1>0, <2>1, OldestUnused DEF Core
  <2>3. BgetTo(p, blk, b, [buf[b] EXCEPT !.block = blk, !.valid = FALSE, !.dirty = FALSE, !.refcnt = 1])
    BY Zenon, <1>3, <2>1 DEF Bget
  <2>4. \A c \in Bufs : Block[c] # blk
    BY <1>3 DEF Bget, Block
  <2> HIDE DEF b
  <2>5. UsersOf(b) = {}
    <3>1. Cardinality(UsersOf(b)) = 0
      BY Zenon, <1>0, <2>2 DEF CountInv
    <3> QED BY Zenon, <3>1, UsersOfFinite, FS_EmptySet
  <2>6. /\ Core' /\ Kept' \subseteq Kept /\ Keeps /\ Hand' = Hand
        /\ \A c \in Bufs : /\ Ref'[c] = IF c = b THEN 1 ELSE Ref[c]
                           /\ UsersOf(c)' = IF c = b THEN {p} ELSE UsersOf(c)
    BY ZenonT(60), <1>0, <1>1, <2>2, <2>3, <2>4, <2>5, BgetRecycleInv
  <2>7. Cardinality({p}) = 1
    BY Zenon, FS_Singleton
  <2>8. CountInv'
    BY Zenon, <1>0, <2>6, <2>7 DEF CountInv
  <2> QED BY Zenon, <1>0, <2>6, <2>8, KeptSmaller DEF Working
<1> QED BY <1>2, <1>3

\* bget changes nothing when it panics, and all buffers are taken then.
LEMMA BgetPanics ==
  ASSUME Working, NEW p \in Users, NEW blk \in Blocks, Bget(p, blk), panicked' # FALSE
  PROVE  /\ panicked' = TRUE /\ UNCHANGED <<buf, lru, idequeue, drive, disk, user>>
         /\ NBUF <= MaxPinned + Cardinality(Active)
<1>0. panicked = FALSE
  BY Zenon DEF Working, Core
<1>1. ~ \E b \in Bufs : buf[b].block = blk /\ BgetTo(p, blk, b, [buf[b] EXCEPT !.refcnt = buf[b].refcnt + 1])
  BY Zenon, <1>0 DEF BgetTo
<1>2. Unused = {}
  <2>1. ASSUME Unused # {} PROVE panicked' = panicked
    BY Zenon, <1>1, <2>1 DEF Bget, BgetTo
  <2> QED BY Zenon, <1>0, <2>1
<1>3. panicked' = TRUE /\ UNCHANGED <<buf, user, lru, idequeue, drive, disk>>
  BY Zenon, <1>1, <1>2 DEF Bget
<1> QED BY Zenon, <1>2, <1>3, AllInUse
-----------------------------------------------------------------------------
(* The inductive invariant *)

LEMMA WorkingIInv == Working <=> IInv /\ panicked = FALSE
BY Zenon DEF Working, Core, IInv, Sound, PanicInv

\* After binit nothing is counted.
LEMMA InitIInv == ASSUME BuffersInit PROVE IInv
<1>1. Core /\ (\A b \in Bufs : Ref[b] = 0 /\ UsersOf(b) = {}) /\ Kept = {}
  BY Zenon, InitCore
<1>2. Cardinality({}) = 0
  BY Zenon, FS_EmptySet
<1>3. CountInv
  BY Zenon, <1>1, <1>2 DEF CountInv
<1>4. KeptInv
  BY <1>1, <1>2, BuffersAssumption DEF KeptInv
<1> QED BY Zenon, <1>1, <1>3, <1>4, WorkingIInv DEF Working

\* A step of one process
LEMMA UserWorks ==
  ASSUME Working, NEW p \in Users, UserStep(p)
  PROVE  Working'
<1>0. Core /\ CountInv /\ KeptInv
  BY Zenon DEF Working
<1>q. ASSUME Core' /\ Quiet PROVE Working'
  BY Zenon, <1>0, <1>q, QuietCounts DEF Working
<1>1. CASE Acquiresleep(p)
  <2>1. CASE buf[user[p].buf].locked
    BY Zenon, <1>0, <1>q, <1>1, <2>1, SleepInv
  <2>2. CASE ~buf[user[p].buf].locked
    BY Zenon, <1>0, <1>q, <1>1, <2>2, LockedInv
  <2> QED BY Zenon, <2>1, <2>2
<1>2. CASE UseRead(p)
  BY Zenon, <1>0, <1>q, <1>2, UseReadInv
<1>3. CASE Releasesleep(p)
  BY Zenon, <1>0, <1>q, <1>3, ReleasesleepInv
<1>4. CASE Brelse(p)
  BY Zenon, <1>4, BrelseCounts
<1>5. CASE \E v \in Data(user[p].block) : UseLogWrite(p, v) \/ Bwrite(p, v)
  <2>1. PICK v \in Data(user[p].block) : UseLogWrite(p, v) \/ Bwrite(p, v)
    BY <1>5
  <2>2. v \in Values
    BY Zenon, <1>0, <2>1, UsesItsBlock
  <2> QED BY Zenon, <1>0, <1>q, <2>1, <2>2, UseLogWriteCounts, BwriteInv
<1>6. CASE Iderw(p)
  BY Zenon, <1>0, <1>q, <1>6, IderwInv
<1>7. CASE IderwAgain(p)
  BY Zenon, <1>0, <1>q, <1>7, IderwAgainInv
<1>8. CASE MemIderw(p)
  BY Zenon, <1>0, <1>q, <1>8, MemIderwInv
<1> QED BY Zenon, <1>1, <1>2, <1>3, <1>4, <1>5, <1>6, <1>7, <1>8 DEF UserStep

\* A step that leaves the cache as it is.
LEMMA UnchangedIInv ==
  ASSUME IInv, UNCHANGED <<buf, lru, idequeue, drive, disk, user>>, PanicInv'
  PROVE  IInv' /\ Keeps /\ Hand' = Hand
<1>1. Sound' /\ Quiet /\ Keeps /\ Hand' = Hand
  BY Zenon, Unchanged DEF IInv
<1>2. CountInv' /\ KeptInv'
  BY Zenon, <1>1, QuietCounts DEF IInv
<1> QED BY Zenon, <1>1, <1>2 DEF IInv

\* bget, whether it returns or panics
LEMMA BgetIInv ==
  ASSUME Working, NEW p \in Users, NEW blk \in Blocks, Bget(p, blk)
  PROVE  IInv' /\ Keeps /\ Hand' = Hand
<1>1. CASE panicked' = FALSE
  <2>1. Working' /\ Keeps /\ Hand' = Hand
    BY Zenon, <1>1, BgetCounts
  <2> QED BY Zenon, <2>1 DEF Working, Core, IInv, Sound, PanicInv
<1>2. CASE panicked' # FALSE
  <2>0. IInv
    BY Zenon, WorkingIInv
  <2>1. /\ panicked' = TRUE /\ UNCHANGED <<buf, lru, idequeue, drive, disk, user>>
        /\ NBUF <= MaxPinned + Cardinality(Active)
    BY Zenon, <1>2, BgetPanics
  <2>2. Active' = Active
    BY Zenon, <2>0, <2>1, Unchanged DEF IInv
  <2>3. PanicInv'
    BY Zenon, <2>1, <2>2 DEF PanicInv
  <2> QED BY Zenon, <2>0, <2>1, <2>3, UnchangedIInv
<1> QED BY Zenon, <1>1, <1>2

\* A step of nobody
LEMMA StutterIInv ==
  ASSUME IInv, UNCHANGED buffersVars
  PROVE  IInv' /\ Keeps /\ Hand' = Hand
<1>1. UNCHANGED <<buf, lru, idequeue, drive, disk, user>> /\ panicked' = panicked
  BY DEF buffersVars
<1>2. Active' = Active
  BY Zenon, <1>1, Unchanged DEF IInv
<1>3. PanicInv'
  BY Zenon, <1>1, <1>2 DEF IInv, PanicInv
<1> QED BY Zenon, <1>1, <1>3, UnchangedIInv

LEMMA NextIInv == ASSUME IInv, [BuffersNext]_buffersVars PROVE IInv'
<1>1. CASE BuffersNext
  <2>1. Working
    BY Zenon, <1>1 DEF BuffersNext, IInv, Sound, PanicInv, Working, Core
  <2>2. Working' => IInv'
    BY Zenon DEF Working, Core, IInv, Sound, PanicInv
  <2>3. CASE \E p \in Users : UserStep(p)
    BY Zenon, <2>1, <2>2, <2>3, UserWorks
  <2>4. CASE \E p \in Users : \E blk \in Blocks : Bget(p, blk)
    BY Zenon, <2>1, <2>4, BgetIInv
  <2>5. CASE Ideintr
    <3>1. Core' /\ Quiet
      BY Zenon, <2>1, <2>5, IdeintrInv DEF Working
    <3> QED BY Zenon, <2>1, <2>2, <3>1, QuietCounts DEF Working
  <2> QED BY Zenon, <1>1, <2>3, <2>4, <2>5 DEF BuffersNext
<1>2. CASE UNCHANGED buffersVars
  BY Zenon, <1>2, StutterIInv
<1> QED BY Zenon, <1>1, <1>2

\* Every state of the cache satisfies the invariant.
THEOREM BuffersInductive == BuffersSpec => []IInv
<1>1. BuffersInit => IInv
  BY Zenon, InitIInv
<1>2. IInv /\ [BuffersNext]_buffersVars => IInv'
  BY Zenon, NextIInv
<1> QED BY <1>1, <1>2, PTL DEF BuffersSpec

\* When bwrite returns, the disk holds the buffer's data (ide.c:153).
THEOREM BwriteReachesDisk == BuffersSpec => []BwriteDurable
<1>1. IInv => BwriteDurable
  BY Zenon, SoundDurable DEF IInv
<1> QED BY <1>1, BuffersInductive, PTL

\* A buffer is recycled exactly if nobody uses it and the log does not keep it: bget counts
\* its users, and bio.c:92 is reached only if the log and the users have all the buffers.
THEOREM BuffersRunOutWhenTaken == BuffersSpec => []BuffersAccounted
<1>1. ASSUME IInv PROVE BuffersAccounted
  <2>1. \A b \in Bufs : UsersOf(b) = {p \in Active : user[p].buf = b}
    BY DEF UsersOf, Pc, At, Active
  <2>2. \A b \in Bufs : Ref[b] = buf[b].refcnt
    BY Zenon DEF Ref
  <2>3. \A b \in Bufs : buf[b].refcnt = Cardinality({p \in Active : user[p].buf = b})
    BY Zenon, <1>1, <2>1, <2>2 DEF IInv, CountInv
  <2> QED BY Zenon, <1>1, <2>3 DEF IInv, PanicInv, BuffersAccounted
<1> QED BY <1>1, BuffersInductive, PTL

\* No wakeup is lost (sleeplock.c:26, ide.c:153).
THEOREM BuffersAwaited == BuffersSpec => []SleepersAwaited
<1>1. IInv => SleepersAwaited
  BY Zenon, SoundAwaited DEF IInv
<1> QED BY <1>1, BuffersInductive, PTL
-----------------------------------------------------------------------------
(* The refinement of Store *)

LEMMA NextStores ==
  ASSUME IInv, IInv', StoreInv, StoreInv', [BuffersNext]_buffersVars
  PROVE  S!Next \/ UNCHANGED <<StoreValue, StoreView>>
<1>1. CASE BuffersNext
  <2>1. Working
    BY Zenon, <1>1 DEF BuffersNext, IInv, Sound, PanicInv, Working, Core
  <2>2. CASE \E p \in Users : UserStep(p)
    BY Zenon, <2>1, <2>2, UserStores, BrelseReferenced DEF Working
  <2>3. CASE \E p \in Users : \E blk \in Blocks : Bget(p, blk)
    BY Zenon, <2>1, <2>3, BgetIInv, Stutters
  <2>4. CASE Ideintr
    BY Zenon, <2>1, <2>4, IdeintrInv, Stutters DEF Working
  <2> QED BY Zenon, <1>1, <2>2, <2>3, <2>4 DEF BuffersNext
<1>2. CASE UNCHANGED buffersVars
  BY Zenon, <1>2, StutterIInv, Stutters
<1> QED BY Zenon, <1>1, <1>2

\* To its callers the cache is a store of blocks: one process at a time has a block, and
\* it sees the value that the block was last given, wherever that value is (bio.c:79).
THEOREM CacheRefinesStore == BuffersSpec => CacheIsStore
<1>1. BuffersInit => S!Init
  BY Zenon, InitStore
<1>2. IInv => StoreInv
  BY Zenon, SoundStore DEF IInv
<1>3. IInv /\ IInv' /\ StoreInv /\ StoreInv' /\ [BuffersNext]_buffersVars => [S!Next]_<<StoreValue, StoreView>>
  BY Zenon, NextStores
<1> QED BY <1>1, <1>2, <1>3, BuffersInductive, PTL DEF BuffersSpec, CacheIsStore, S!Spec, StoreValue, StoreView
=============================================================================
