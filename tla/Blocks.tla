------------------------------- MODULE Blocks ------------------------------
(***************************************************************************)
(* The content of files: blocks, the bitmap, direct and indirect addresses *)
(* (fs.c), reads and writes of open files in chunks (file.c), and the file *)
(* system that mkfs makes (mkfs.c).                                        *)
(*                                                                         *)
(* A process holds the lock of the inode for a whole readi or writei, so   *)
(* that each is one step; a filewrite is one step per chunk.  A block has  *)
(* BSIZE cells; a cell holds a byte, an address or a directory entry.  The *)
(* operators work on a record s of the state of the disk.                  *)
(*                                                                         *)
(* An operator named ...Wrong is the operator that follows it with a       *)
(* mistake in it, to see that a property notices.                          *)
(***************************************************************************)
EXTENDS Integers, Sequences, FiniteSetsExt

CONSTANTS
  BSIZE, NDIRECT, \* cells of a block, direct addresses of an inode
  FSSIZE, NMETA,  \* blocks of the disk; the first NMETA hold no data
  MaxChunk,       \* the bytes that filewrite writes in one transaction
  Writers,        \* processes that write; the byte that a process writes
  Lengths,        \* how much they write
  Opened,         \* the inode that each open file refers to
  MaxIo,          \* bound on the system calls of a behaviour
  Images          \* the files that mkfs may be given, as sequences of bytes

NINDIRECT == BSIZE
MAXFILE   == NDIRECT + NINDIRECT

ASSUME BlocksAssumption ==
  /\ {BSIZE, NDIRECT, MaxChunk} \subseteq Nat \ {0}
  /\ {FSSIZE, MaxIo} \subseteq Nat /\ NMETA \in 1 .. FSSIZE
  /\ Writers \subseteq Nat \ {0}

VARIABLES
  fs,            \* the disk: bitmap, blocks, inodes, and whether balloc panicked
  off,           \* f->off of the open files
  todo,          \* the file and the bytes that a process is still to write
  ioCalls,       \* system calls that are still to be made
  image          \* what mkfs was given, for the properties

blocksVars == <<fs, off, todo, ioCalls, image>>

Cells  == [k \in 0 .. BSIZE - 1 |-> 0]
NoData == [addrs |-> [k \in 0 .. NDIRECT |-> 0], size |-> 0]

\* Write bytes into a block from cell k on.
Memmove(block, k, bytes) ==
  [c \in DOMAIN block |-> IF c \in k .. k + Len(bytes) - 1 THEN bytes[c - k + 1] ELSE block[c]]
-----------------------------------------------------------------------------
(* Blocks and addresses *)

FreeBlocks(s) == (0 .. FSSIZE - 1) \ s.bitmap

BallocWrong(s) ==
  IF FreeBlocks(s) = {} THEN [fs |-> [s EXCEPT !.panic = TRUE], addr |-> 0]
  ELSE LET b == Min(FreeBlocks(s)) IN [fs |-> [s EXCEPT !.bitmap = @ \cup {b}], addr |-> b]

\* The first block that is free, filled with zeroes.
Balloc(s) ==
  IF FreeBlocks(s) = {} THEN [fs |-> [s EXCEPT !.panic = TRUE], addr |-> 0]
  ELSE LET b == Min(FreeBlocks(s))
       IN  [fs |-> [s EXCEPT !.bitmap = @ \cup {b}, !.block[b] = Cells], addr |-> b]

\* The address of block bn of inode i, allocated if there is none.
Bmap(s, i, bn) ==
  LET got(x, a) == [fs |-> x, addr |-> a]
      addrs     == s.inode[i].addrs
  IN  IF bn < NDIRECT
      THEN IF addrs[bn] # 0 THEN got(s, addrs[bn])
           ELSE LET b == Balloc(s) IN got([b.fs EXCEPT !.inode[i].addrs[bn] = b.addr], b.addr)
      ELSE LET ind == IF addrs[NDIRECT] # 0 THEN got(s, addrs[NDIRECT])
                      ELSE LET b == Balloc(s) IN got([b.fs EXCEPT !.inode[i].addrs[NDIRECT] = b.addr], b.addr)
               a   == ind.fs.block[ind.addr][bn - NDIRECT]
           IN  IF ind.fs.panic THEN ind
               ELSE IF a # 0 THEN got(ind.fs, a)
               ELSE LET b == Balloc(ind.fs)
                    IN  got([b.fs EXCEPT !.block[ind.addr][bn - NDIRECT] = b.addr], b.addr)

\* Free the direct blocks, the indirect ones and the block of their addresses.
Itrunc(s, i) ==
  LET a   == s.inode[i].addrs
      ind == IF a[NDIRECT] = 0 THEN {} ELSE {s.block[a[NDIRECT]][j] : j \in 0 .. NINDIRECT - 1}
  IN  [s EXCEPT !.bitmap = @ \ (({a[k] : k \in 0 .. NDIRECT} \cup ind) \ {0}), !.inode[i] = NoData]
-----------------------------------------------------------------------------
(* readi and writei *)

\* The bytes of the block at offset o that a transfer of n bytes takes.
Piece(o, n) == Min({n, BSIZE - (o % BSIZE)})

RECURSIVE WriteLoop(_, _, _, _)
WriteLoop(s, i, o, src) ==
  IF src = << >> \/ s.panic THEN s
  ELSE LET m == Piece(o, Len(src))
           a == Bmap(s, i, o \div BSIZE)
       IN  IF a.fs.panic THEN a.fs
           ELSE WriteLoop([a.fs EXCEPT !.block[a.addr] = Memmove(@, o % BSIZE, SubSeq(src, 1, m))],
                          i, o + m, SubSeq(src, m + 1, Len(src)))

WriteiFails(s, i, o, n) == o > s.inode[i].size \/ o + n > MAXFILE * BSIZE

Writei(s, i, o, src) ==
  LET w == WriteLoop(s, i, o, src)
  IN  IF w.panic \/ o + Len(src) <= w.inode[i].size THEN w
      ELSE [w EXCEPT !.inode[i].size = o + Len(src)]

RECURSIVE ReadLoop(_, _, _, _)
ReadLoop(s, i, o, n) ==
  IF n = 0 \/ s.panic THEN [fs |-> s, bytes |-> << >>]
  ELSE LET m    == Piece(o, n)
           a    == Bmap(s, i, o \div BSIZE)
           rest == ReadLoop(a.fs, i, o + m, n - m)
       IN  [fs |-> rest.fs, bytes |-> [k \in 1 .. m |-> a.fs.block[a.addr][(o % BSIZE) + k - 1]] \o rest.bytes]

\* readi of n bytes at an offset that is not behind the end.  bmap allocates a
\* block that is missing here, too.
Readi(s, i, o, n) == ReadLoop(s, i, o, Min({n, s.inode[i].size - o}))
-----------------------------------------------------------------------------
(* mkfs *)

RECURSIVE Iappend(_, _, _)
Iappend(s, i, bytes) ==
  IF bytes = << >> THEN s
  ELSE LET o    == s.inode[i].size
           fbn  == o \div BSIZE
           m    == Piece(o, Len(bytes))
           a    == s.inode[i].addrs
           new(x) == [x EXCEPT !.freeblock = @ + 1]
           s1   == IF fbn < NDIRECT
                   THEN IF a[fbn] # 0 THEN s ELSE new([s EXCEPT !.inode[i].addrs[fbn] = s.freeblock])
                   ELSE IF a[NDIRECT] # 0 THEN s ELSE new([s EXCEPT !.inode[i].addrs[NDIRECT] = s.freeblock])
           ind  == s1.inode[i].addrs[NDIRECT]
           s2   == IF fbn < NDIRECT \/ s1.block[ind][fbn - NDIRECT] # 0 THEN s1
                   ELSE new([s1 EXCEPT !.block[ind][fbn - NDIRECT] = s1.freeblock])
           x    == IF fbn < NDIRECT THEN s2.inode[i].addrs[fbn] ELSE s2.block[ind][fbn - NDIRECT]
       IN  Iappend([s2 EXCEPT !.block[x] = Memmove(@, o % BSIZE, SubSeq(bytes, 1, m)), !.inode[i].size = o + m],
                   i, SubSeq(bytes, m + 1, Len(bytes)))

\* The image of a root directory (inode 1) and the given files (inodes 2, 3, ...).
RECURSIVE Appended(_, _, _)
Appended(s, files, k) ==
  IF k > Len(files) THEN s
  ELSE Appended(Iappend(Iappend(s, 1, <<k + 1>>), k + 1, files[k]), files, k + 1)

FixRootSize(s) == [s EXCEPT !.inode[1].size = (@ \div BSIZE + 1) * BSIZE]

MkfsBalloc(s) == 0 .. s.freeblock - 1

Mkfs(files) ==
  LET zero == [freeblock |-> NMETA, panic |-> FALSE, bitmap |-> {},
               block |-> [b \in 0 .. FSSIZE - 1 |-> Cells],
               inode |-> [i \in 1 .. Max({Opened[f] : f \in DOMAIN Opened}) |-> NoData]]
      s    == FixRootSize(Appended(Iappend(Iappend(zero, 1, <<1>>), 1, <<1>>), files, 1))
  IN  [panic |-> FALSE, bitmap |-> MkfsBalloc(s), block |-> s.block, inode |-> s.inode]
-----------------------------------------------------------------------------
(* Open files *)

NoWrite    == [f |-> 0, bytes |-> << >>]
TextOf(p) == [k \in 1 .. Max(Lengths) |-> 2 * k + p]      \* what process p writes

\* A panic stops the kernel before the transaction commits.
Commit(s) == fs' = IF s.panic THEN [fs EXCEPT !.panic = TRUE] ELSE s

\* Another system call.
IoCall == ~fs.panic /\ ioCalls > 0 /\ ioCalls' = ioCalls - 1 /\ UNCHANGED image

\* sys_write of n bytes to open file f.
SysWrite(p, f, n) ==
  /\ todo[p] = NoWrite /\ IoCall
  /\ todo' = [todo EXCEPT ![p] = [f |-> f, bytes |-> SubSeq(TextOf(p), 1, n)]]
  /\ UNCHANGED <<fs, off>>

OffsetWrong(f, n) == off

Offset(f, n) == [off EXCEPT ![f] = @ + n]

\* One turn of the loop in filewrite.
FileWrite(p) ==
  LET f     == todo[p].f
      bytes == todo[p].bytes
      n1    == Min({Len(bytes), MaxChunk})
      i     == Opened[f]
      w     == Writei(fs, i, off[f], SubSeq(bytes, 1, n1))
  IN  /\ todo[p] # NoWrite /\ ~fs.panic
      /\ UNCHANGED <<ioCalls, image>>
      /\ IF WriteiFails(fs, i, off[f], n1)
         THEN todo' = [todo EXCEPT ![p] = NoWrite] /\ UNCHANGED <<fs, off>>
         ELSE /\ Commit(w)
              /\ off' = IF w.panic THEN off ELSE Offset(f, n1)
              /\ todo' = [todo EXCEPT ![p] = IF Len(bytes) = n1 THEN NoWrite
                                             ELSE [@ EXCEPT !.bytes = SubSeq(bytes, n1 + 1, Len(bytes))]]

FileRead(f, n) ==
  LET r == Readi(fs, Opened[f], off[f], n)
  IN  /\ IoCall /\ Len(r.bytes) > 0
      /\ Commit(r.fs)
      /\ off' = Offset(f, Len(r.bytes))
      /\ UNCHANGED todo

NotWriting(f) == \A p \in Writers : todo[p].f # f

\* Close f and open its file again.
Reopen(f) ==
  /\ NotWriting(f) /\ IoCall
  /\ off' = [off EXCEPT ![f] = 0]
  /\ UNCHANGED <<fs, todo>>

\* The last name and the last open file of inode i are gone, iput frees its
\* blocks; the inode is then used for a new file, which is opened.
Delete(i) ==
  /\ IoCall /\ \A f \in DOMAIN Opened : Opened[f] = i => NotWriting(f)
  /\ fs' = Itrunc(fs, i)
  /\ off' = [f \in DOMAIN off |-> IF Opened[f] = i THEN 0 ELSE off[f]]
  /\ UNCHANGED todo

BlocksInit ==
  /\ image \in Images
  /\ fs = Mkfs(image)
  /\ off = [f \in DOMAIN Opened |-> 0]
  /\ todo = [p \in Writers |-> NoWrite]
  /\ ioCalls = MaxIo

BlocksOff ==
  /\ image = << >> /\ ioCalls = 0 /\ fs = [Mkfs(image) EXCEPT !.panic = TRUE]
  /\ off = [f \in DOMAIN Opened |-> 0]
  /\ todo = [p \in Writers |-> NoWrite]

BlocksNext ==
  \/ \E p \in Writers : FileWrite(p) \/ \E f \in DOMAIN Opened, n \in Lengths : SysWrite(p, f, n)
  \/ \E f \in DOMAIN Opened : Reopen(f) \/ \E n \in Lengths : FileRead(f, n)
  \/ \E i \in {Opened[f] : f \in DOMAIN Opened} : Delete(i)

-----------------------------------------------------------------------------
(* Properties *)

\* Every address is that of a block of the disk.
BlocksTypeOK ==
  /\ fs.bitmap \subseteq 0 .. FSSIZE - 1
  /\ \A i \in DOMAIN fs.inode : fs.inode[i].addrs \in [0 .. NDIRECT -> 0 .. FSSIZE - 1]
  /\ \A f \in DOMAIN off : off[f] \in 0 .. fs.inode[Opened[f]].size

\* The addresses of the blocks that hold inode i: in the inode, and in its
\* indirect block.
Direct(i)   == {<<i, k>> : k \in {k \in 0 .. NDIRECT : fs.inode[i].addrs[k] # 0}}
Indirect(i) == LET b == fs.inode[i].addrs[NDIRECT]
               IN  IF b = 0 THEN {} ELSE {<<i, NDIRECT + 1 + k>> : k \in {k \in DOMAIN Cells : fs.block[b][k] # 0}}
AddressAt(r) == IF r[2] <= NDIRECT THEN fs.inode[r[1]].addrs[r[2]]
                ELSE fs.block[fs.inode[r[1]].addrs[NDIRECT]][r[2] - NDIRECT - 1]

\* No block is used twice, and the bitmap has exactly the blocks in use: bmap,
\* itrunc and mkfs neither leak a block nor free one that is still used, also
\* when a write fails in its middle.
BitmapExact ==
  LET refs == UNION {Direct(i) \cup Indirect(i) : i \in DOMAIN fs.inode}
  IN  /\ \A r1, r2 \in refs : AddressAt(r1) = AddressAt(r2) => r1 = r2
      /\ {AddressAt(r) : r \in refs} = fs.bitmap \ (0 .. NMETA - 1)

\* The bytes of the files, where the addresses say they are.
Content ==
  [i \in DOMAIN fs.inode \ {1} |->
    [k \in 1 .. fs.inode[i].size |->
      LET bn == (k - 1) \div BSIZE
      IN  fs.block[AddressAt(<<i, IF bn < NDIRECT THEN bn ELSE bn + 1>>)][(k - 1) % BSIZE]]]

\* A read returns the bytes of the file from its offset on, and allocates
\* nothing: readi runs outside of a transaction, where a balloc in its bmap would
\* stop the kernel ("log_write outside of trans").
ReadBack ==
  ~fs.panic =>
    \A f \in DOMAIN Opened, n \in Lengths :
      LET i == Opened[f]
          r == Readi(fs, i, off[f], n)
      IN  r.fs = fs /\ r.bytes = SubSeq(Content[i], off[f] + 1, Min({off[f] + n, fs.inode[i].size}))

\* The blocks of the disk are those of its inodes, and reads see what is there.
BlocksExact == BlocksTypeOK /\ BitmapExact /\ ReadBack

Given   == [i \in DOMAIN fs.inode \ {1} |-> IF i - 1 \in DOMAIN image THEN image[i - 1] ELSE << >>]
Chunks  == {SubSeq(TextOf(p), a, b) : p \in Writers, a \in 1 .. Max(Lengths), b \in 1 .. Max(Lengths)}

B == INSTANCE Bytes WITH image <- Given, Data <- {t \in Chunks : Len(t) \in 1 .. MaxChunk}, content <- Content

\* Files are sequences of bytes (module Bytes): through direct and indirect
\* blocks, freed and reused blocks, and two processes that share an offset, what
\* filewrite writes lands at the offset and nowhere else, and mkfs's image holds
\* the files that it was given.
FilesAreBytes == B!Spec
=============================================================================
