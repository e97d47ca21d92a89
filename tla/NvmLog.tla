------------------------------ MODULE NvmLog ------------------------------
(***************************************************************************)
(* The undo-redo log of one thread (lbtree/common/nvm-common.h) and the    *)
(* node pool it allocates from (tools/mempool.h).  The log is a ring of    *)
(* cache lines in NVM.  A line's first byte holds a checksum and the       *)
(* version of the round it was written in, its second the offset of its    *)
(* first record, the rest records that run on from line to line.  A        *)
(* mini-transaction logs an old value before it stores a new one, and      *)
(* keeps redo records and deletions until it commits; an abort reads its   *)
(* records backward and puts the old values back.                          *)
(*                                                                         *)
(* Granularity.  Appending a record, flushing, and storing to the data are *)
(* steps.  Between any two the cache may write a line back to NVM.         *)
(*                                                                         *)
(* Data.  A unit is a tag, an address, a length or a value of any width;   *)
(* no two contents of a line have the same checksum.                       *)
(***************************************************************************)
EXTENDS Integers, Sequences, FiniteSets, SequencesExt

CONSTANTS
  LINES,    \* lines of the log: NVM_LOG_SIZE / CACHE_LINE_SIZE
  UNITS,    \* units of a line: CACHE_LINE_SIZE - 2
  NODES,    \* nodes the pool has room for
  History,  \* numbers of transactions logged before the first one here
  MaxTx     \* bound: transactions

ASSUME NvmLogConstants ==
  /\ LINES \in Nat \ {0, 1} /\ UNITS \in Nat \ {0, 1}
  /\ NODES \in Nat /\ History \subseteq Nat /\ MaxTx \in Nat

VARIABLES
  log,     \* line: the log as the thread sees it, nvm: as NVM holds it; wr and off: nl_log_wr_
  txpos,   \* nl_log_tx_pos_
  redo,    \* nl_redo_rec_
  dels,    \* nl_node_to_del_
  mem,     \* the data
  pool,    \* free: mempool_free_node and on, cur: nodes taken from the region
  pc,
  op,      \* the store under way, and where the thread goes after the flush
  back,    \* the position an abort has read back to
  n,       \* transactions started
  \* History variables, for the properties.
  before,  \* the data and mine when the transaction started
  wrote,   \* the units it has logged
  fresh,   \* the words it has written as not used before
  mine     \* nodes in use, in the order they were allocated

heap  == <<mem, pool>>
ghost == <<before, wrote, fresh, mine>>
vars  == <<log, txpos, redo, dels, mem, pool, pc, op, back, n, ghost>>

Line == 1..LINES
Addr == 1..2
Values == {0, 1}
Other(a) == 1 - mem[a]    \* what is stored differs from what is there

\* Tags.
NL_INVALID == 0
NL_NEW == 1
NL_NEWVCHAR == 2
NL_WRITE == 3
NL_WRITEVCHAR == 4
NL_REDO == 5
NL_ALLOCNODE == 6
NL_DELNODE == 7
NL_COMMIT == 8
NL_ABORT == 9

-----------------------------------------------------------------------------
(* Writing the log.                                                        *)

Empty == [ver |-> 0, sum |-> <<0, [i \in 1..UNITS |-> 0]>>,
          off |-> 0, unit |-> [i \in 1..UNITS |-> 0]]

\* setByteOne and checkByteOne.
Sealed(f, ver)  == [ver |-> ver, sum |-> <<f.off, f.unit>>, off |-> f.off, unit |-> f.unit]
Intact(f, ver)  == f.ver = ver /\ f.sum = <<f.off, f.unit>>

\* Mutant: the version stays when the log starts again.
SameVersion(p, d) ==
  LET x == (p.line - 1) * UNITS + p.pos + d + LINES * UNITS IN
  [line |-> ((x \div UNITS) % LINES) + 1, pos |-> x % UNITS, ver |-> p.ver]

\* The position d units on from p, in the middle of a line or at its start.
\* After the last line comes the first, in the other version.
Moved(p, d) ==
  LET x == (p.line - 1) * UNITS + p.pos + d + LINES * UNITS IN
  [line |-> ((x \div UNITS) % LINES) + 1, pos |-> x % UNITS,
   ver |-> IF x \div (LINES * UNITS) = 1 THEN p.ver ELSE 1 - p.ver]

\* Mutant: the line stays in the cache.
NoClwb(nvm, line, done) == nvm

\* clwb and sfence of the lines done.
Persist(nvm, line, done) == [l \in Line |-> IF l \in done THEN line[l] ELSE nvm[l]]

\* Each line that rec fills is completed: its offset, then its first byte, and
\* a flush.  The first call in a line sets its offset, two bytes into the line.
writeLog(s, rec) ==
  LET off   == IF s.off = 0 THEN s.wr.pos + 2 ELSE s.off
      end   == Moved(s.wr, Len(rec))
      index == [l \in Line, i \in 1..UNITS |->
                  (((l - s.wr.line) * UNITS + i - 1 - s.wr.pos) % (LINES * UNITS)) + 1]
      done  == {l \in Line : index[l, UNITS] <= Len(rec)}
      text  == [l \in Line |-> [i \in 1..UNITS |->
                  IF index[l, i] <= Len(rec) THEN rec[index[l, i]]
                  ELSE s.line[l].unit[i]]]
      line  == [l \in Line |->
                  IF l \in done
                    THEN Sealed([off |-> IF l = s.wr.line THEN off ELSE 0, unit |-> text[l]],
                                IF l >= s.wr.line THEN s.wr.ver ELSE 1 - s.wr.ver)
                    ELSE [s.line[l] EXCEPT !.unit = text[l]]]
  IN [line |-> line, nvm |-> Persist(s.nvm, line, done), wr |-> end,
      off |-> IF done = {} THEN off ELSE 0]

\* A record that is built by several calls.
WriteParts(s, parts) == FoldLeft(writeLog, s, parts)

\* The byte after the last record is overwritten, the line sealed.
flushLog(s) ==
  LET l    == s.wr.line
      text == [s.line[l].unit EXCEPT ![s.wr.pos + 1] = NL_INVALID]
      line == [s.line EXCEPT ![l] = Sealed([off |-> s.off, unit |-> text], s.wr.ver)]
  IN IF s.wr.pos = 0 THEN s
     ELSE [s EXCEPT !.line = line, !.nvm = Persist(@, line, {l})]

-----------------------------------------------------------------------------
(* Records.                                                                *)

NewRec(a, v)         == <<NL_NEW, a, v, NL_NEW>>
\* Mutant: the new value stands before the old one.
WriteRecSwapped(a, old, v) == <<NL_WRITE, a, v, old, NL_WRITE>>

WriteRec(a, old, v)  == <<NL_WRITE, a, old, v, NL_WRITE>>
RedoRec(a, v)        == <<NL_REDO, a, v, NL_REDO>>
AllocRec(p)          == <<NL_ALLOCNODE, p, NL_ALLOCNODE>>
NewVcharParts(v)     == <<<<NL_NEWVCHAR, 1, 2>>, v, <<2, NL_NEWVCHAR>>>>
WriteVcharParts(old, v) == <<<<NL_WRITEVCHAR, 1, 2>>, old, v, <<2, NL_WRITEVCHAR>>>>
DelParts(ps) == IF ps = <<>> THEN <<>>
                ELSE <<<<NL_DELNODE, Len(ps)>>, ps, <<Len(ps), NL_DELNODE>>>>

Logged(parts) == /\ log' = WriteParts(log, parts)
                 /\ wrote' = wrote \o FlattenSeq(parts)

-----------------------------------------------------------------------------
(* Reading the log.                                                        *)

\* readLog: k units forward from p.  The reading stops at a line that is not
\* intact or is of another version.
readLog(f, p, k) ==
  LET bad  == {d \in 0..(k - 1) : ~Intact(f[Moved(p, d).line], Moved(p, d).ver)}
      upto == IF bad = {} THEN k ELSE CHOOSE d \in bad : \A e \in bad : d <= e
  IN [i \in 1..upto |-> f[Moved(p, i - 1).line].unit[Moved(p, i - 1).pos + 1]]

Place(p) == [line |-> p.line, pos |-> p.pos]

\* Mutant: the position to stop at is taken as it is.
Unadjusted(p) == p

\* A reading backward does not rest at the start of a line but at the end of
\* the line before.
reverseAdjustPtr(p) ==
  IF p.pos = 0 THEN [Moved(p, -1) EXCEPT !.pos = UNITS] ELSE p

\* readLogReverse: the k units before p, and where they start.  The reading
\* stops where the lines are not Whole.
Whole(f, p, k) == \A d \in 1..k : Intact(f[Moved(p, -d).line], Moved(p, -d).ver)

readLogReverse(f, p, k) ==
  [at  |-> reverseAdjustPtr(Moved(p, -k)),
   got |-> [i \in 1..k |-> f[Moved(p, i - 1 - k).line].unit[Moved(p, i - 1 - k).pos + 1]]]

-----------------------------------------------------------------------------
(* The node pool.                                                          *)

\* Mutant: freed nodes are not used again.
NoReuse(pl) == [node |-> pl.cur + 1, pool |-> [pl EXCEPT !.cur = @ + 1]]

alloc_node(pl) ==
  IF pl.free # <<>>
    THEN [node |-> Head(pl.free), pool |-> [pl EXCEPT !.free = Tail(@)]]
    ELSE [node |-> pl.cur + 1, pool |-> [pl EXCEPT !.cur = @ + 1]]

free_node(pl, p) == [pl EXCEPT !.free = <<p>> \o @]

-----------------------------------------------------------------------------
initLog == [line |-> [l \in Line |-> Empty], nvm |-> [l \in Line |-> Empty],
            wr |-> [line |-> 1, pos |-> 0, ver |-> 1], off |-> 0]

\* The log after k transactions that each wrote one new word.
Past(k) ==
  flushLog(WriteParts(initLog,
    FlattenSeq([i \in 1..k |-> <<NewRec(1, 0), <<NL_COMMIT>>>>])))

Init ==
  /\ \E k \in History : log = Past(k)
  /\ txpos = log.wr
  /\ redo = <<>> /\ dels = <<>>
  /\ mem = [a \in Addr |-> 0]
  /\ pool = [free |-> <<>>, cur |-> 0]
  /\ pc = "idle"
  /\ op = [to |-> <<>>, then |-> "tx"]
  /\ back = log.wr
  /\ n = 0
  /\ before = [mem |-> mem, mine |-> <<>>] /\ wrote = <<>> /\ fresh = {} /\ mine = <<>>

\* Mutant: the nodes to delete are kept.
KeepDels == UNCHANGED dels

ClearDels == dels' = <<>>

startMiniTransaction ==
  /\ pc = "idle" /\ n < MaxTx
  /\ txpos' = log.wr
  /\ redo' = <<>> /\ ClearDels
  /\ n' = n + 1
  /\ pc' = "tx"
  /\ before' = [mem |-> mem, mine |-> mine] /\ wrote' = <<>> /\ fresh' = {}
  /\ UNCHANGED <<log, mem, pool, op, back, mine>>

\* Bound: a transaction leaves its first line in the ring.
Fits(k) ==
  Len(wrote) + 4 * Len(redo) + (IF dels = <<>> THEN 0 ELSE Len(dels) + 4) + k + 1
    <= (LINES - 1) * UNITS

\* A store of the words of v from address a, after the flush.
StoreOf(a, v) == [to |-> [i \in 1..Len(v) |-> <<a + i - 1, v[i]>>], then |-> "store"]

FlushFirst(s) == op' = s /\ pc' = "flush" /\ UNCHANGED mem

write ==
  /\ pc = "tx" /\ Fits(5)
  /\ \E a \in Addr :
       /\ Logged(<<WriteRec(a, mem[a], Other(a))>>)
       /\ FlushFirst(StoreOf(a, <<Other(a)>>))
  /\ UNCHANGED <<txpos, redo, dels, pool, back, n, before, fresh, mine>>

writeVchar ==
  /\ pc = "tx" /\ Fits(9)
  /\ Logged(WriteVcharParts(<<mem[1], mem[2]>>, <<Other(1), Other(2)>>))
  /\ FlushFirst(StoreOf(1, <<Other(1), Other(2)>>))
  /\ UNCHANGED <<txpos, redo, dels, pool, back, n, before, fresh, mine>>

flush ==
  /\ pc = "flush"
  /\ log' = flushLog(log)
  /\ pc' = op.then
  /\ UNCHANGED <<txpos, redo, dels, heap, op, back, n, ghost>>

store ==
  /\ pc = "store"
  /\ mem' = [mem EXCEPT ![op.to[1][1]] = op.to[1][2]]
  /\ op' = [op EXCEPT !.to = Tail(@)]
  /\ pc' = IF Len(op.to) = 1 THEN "tx" ELSE "store"
  /\ UNCHANGED <<log, txpos, redo, dels, pool, back, n, ghost>>

\* A word not used before is logged without a flush.
new ==
  /\ pc = "tx" /\ Fits(4)
  /\ \E a \in Addr :
       /\ Logged(<<NewRec(a, Other(a))>>)
       /\ mem' = [mem EXCEPT ![a] = Other(a)]
       /\ fresh' = fresh \cup {a}
  /\ UNCHANGED <<txpos, redo, dels, pool, pc, op, back, n, before, mine>>

newVchar ==
  /\ pc = "tx" /\ Fits(7)
  /\ Logged(NewVcharParts(<<Other(1), Other(2)>>))
  /\ mem' = [a \in Addr |-> Other(a)]
  /\ fresh' = Addr
  /\ UNCHANGED <<txpos, redo, dels, pool, pc, op, back, n, before, mine>>

redoWrite ==
  /\ pc = "tx" /\ Fits(4)
  /\ \E a \in Addr : redo' = Append(redo, <<a, Other(a)>>)
  /\ UNCHANGED <<log, txpos, dels, heap, pc, op, back, n, ghost>>

\* Bound: the pool has room.
allocNode ==
  /\ pc = "tx" /\ Fits(3)
  /\ pool.free # <<>> \/ pool.cur < NODES
  /\ LET got == alloc_node(pool) IN
       /\ pool' = got.pool
       /\ Logged(<<AllocRec(got.node)>>)
       /\ mine' = Append(mine, got.node)
  /\ op' = [to |-> <<>>, then |-> "tx"]
  /\ pc' = "flush"
  /\ UNCHANGED <<txpos, redo, dels, mem, back, n, before, fresh>>

\* The caller deletes a node it has, once.
delNode ==
  /\ pc = "tx" /\ Fits(IF dels = <<>> THEN 5 ELSE 1)
  /\ \E p \in ToSet(mine) \ ToSet(dels) : dels' = Append(dels, p)
  /\ UNCHANGED <<log, txpos, redo, heap, pc, op, back, n, ghost>>

-----------------------------------------------------------------------------
(* Commit: log the redo records, the nodes and NL_COMMIT, flush, then do   *)
(* what was put off.                                                       *)

commitMiniTransaction ==
  LET recs   == [i \in 1..Len(redo) |-> RedoRec(redo[i][1], redo[i][2])]
      parts  == recs \o DelParts(dels)
      logged == wrote # <<>> \/ parts # <<>>
  IN
  /\ pc = "tx"
  /\ Logged(parts \o IF logged THEN <<<<NL_COMMIT>>>> ELSE <<>>)
  /\ op' = [to |-> <<>>, then |-> "apply"]
  /\ pc' = IF logged THEN "flush" ELSE "apply"
  /\ UNCHANGED <<txpos, redo, dels, heap, back, n, before, fresh, mine>>

applyRedo ==
  /\ pc = "apply" /\ redo # <<>>
  /\ mem' = [mem EXCEPT ![Head(redo)[1]] = Head(redo)[2]]
  /\ redo' = Tail(redo)
  /\ UNCHANGED <<log, txpos, dels, pool, pc, op, back, n, ghost>>

deleteNodes ==
  /\ pc = "apply" /\ redo = <<>>
  /\ pool' = FoldLeft(free_node, pool, dels)
  /\ mine' = SelectSeq(mine, LAMBDA p : p \notin ToSet(dels))
  /\ pc' = "idle"
  /\ UNCHANGED <<log, txpos, redo, dels, mem, op, back, n, before, wrote, fresh>>

-----------------------------------------------------------------------------
(* Abort: flush, and undo backward.                                        *)

\* When the last record ends its line, reading back starts at the line after
\* it, which has no record yet: the byte before the position is that line's
\* offset.  It is taken for a tag, and the line's old version for the log's.
abortMiniTransaction ==
  /\ pc = "tx"
  /\ log' = flushLog(log)
  /\ back' = [log.wr EXCEPT !.ver = log'.line[log.wr.line].ver]
  /\ pc' = IF log.wr.pos = 0 THEN "astray" ELSE "undo"
  /\ UNCHANGED <<txpos, redo, dels, heap, op, n, ghost>>

LastTag == log.line[back.line].unit[back.pos]
AtStart == Place(back) = Place(reverseAdjustPtr(txpos))
ToUndo(tag, k) ==
  pc = "undo" /\ ~AtStart /\ LastTag = tag /\ Whole(log.line, back, k)

undoSkip ==
  /\ \/ ToUndo(NL_NEW, 4) /\ back' = readLogReverse(log.line, back, 4).at
     \/ ToUndo(NL_NEWVCHAR, 7) /\ back' = readLogReverse(log.line, back, 7).at
  /\ UNCHANGED <<log, txpos, redo, dels, heap, pc, op, n, ghost>>

undoWrite ==
  LET r == readLogReverse(log.line, back, 5) IN
  /\ ToUndo(NL_WRITE, 5)
  /\ back' = r.at
  /\ mem' = [mem EXCEPT ![r.got[2]] = r.got[3]]
  /\ UNCHANGED <<log, txpos, redo, dels, pool, pc, op, n, ghost>>

\* The length at the end says where the record starts.
undoWriteVchar ==
  LET e   == readLogReverse(log.line, back, 2)
      len == e.got[1]
      r   == readLogReverse(log.line, e.at, 3 + len + len)
  IN
  /\ ToUndo(NL_WRITEVCHAR, 9)
  /\ back' = r.at
  /\ mem' = [a \in Addr |-> IF a - r.got[2] \in 0..(len - 1)
                            THEN r.got[4 + a - r.got[2]] ELSE mem[a]]
  /\ UNCHANGED <<log, txpos, redo, dels, pool, pc, op, n, ghost>>

undoAlloc ==
  LET r == readLogReverse(log.line, back, 3) IN
  /\ ToUndo(NL_ALLOCNODE, 3)
  /\ back' = r.at
  /\ pool' = free_node(pool, r.got[2])
  /\ mine' = SelectSeq(mine, LAMBDA p : p # r.got[2])
  /\ UNCHANGED <<log, txpos, redo, dels, mem, pc, op, n, before, wrote, fresh>>

undone ==
  /\ pc = "undo" /\ AtStart
  /\ log' = flushLog(writeLog(log, <<NL_ABORT>>))
  /\ wrote' = Append(wrote, NL_ABORT)
  /\ pc' = "aborted"
  /\ UNCHANGED <<txpos, redo, dels, heap, op, back, n, before, fresh, mine>>

abortReturn ==
  /\ pc = "aborted"
  /\ pc' = "idle"
  /\ UNCHANGED <<log, txpos, redo, dels, heap, op, back, n, ghost>>

-----------------------------------------------------------------------------
\* The cache writes a line back.
Evict ==
  /\ \E l \in Line :
       /\ log.nvm[l] # log.line[l]
       /\ log' = [log EXCEPT !.nvm[l] = log.line[l]]
  /\ UNCHANGED <<txpos, redo, dels, heap, pc, op, back, n, ghost>>

\* The programs end, or an abort goes astray: with an offset that is no tag the
\* process exits, with another it waits for ever or stores what it has not
\* read, which is followed no further.
Finished == pc = "astray" \/ (pc = "idle" /\ n = MaxTx)

Next ==
  \/ startMiniTransaction \/ write \/ writeVchar \/ flush \/ store \/ new
  \/ newVchar \/ redoWrite \/ allocNode \/ delNode
  \/ commitMiniTransaction \/ applyRedo \/ deleteNodes
  \/ abortMiniTransaction \/ undoSkip \/ undoWrite \/ undoWriteVchar
  \/ undoAlloc \/ undone \/ abortReturn
  \/ Evict
  \/ Finished /\ UNCHANGED vars

Spec == Init /\ [][Next]_vars

-----------------------------------------------------------------------------
(* Properties.                                                             *)

Filled == [ver : {0, 1}, sum : (0..(UNITS + 1)) \X [1..UNITS -> 0..9],
           off : 0..(UNITS + 1), unit : [1..UNITS -> 0..9]]

\* Type invariant; offsets point into their line.
TypeOK ==
  /\ log.line \in [Line -> Filled] /\ log.nvm \in [Line -> Filled]
  /\ log.off \in 0..(UNITS + 1)
  /\ {log.wr, txpos, back} \subseteq
       [ver : {0, 1}, line : Line, pos : 0..UNITS]
  /\ redo \in Seq(Addr \X Values) /\ dels \in Seq(1..NODES)
  /\ mem \in [Addr -> Values]
  /\ pool.free \in Seq(1..NODES) /\ pool.cur \in 0..NODES
  /\ n \in 0..MaxTx

\* A reader of NVM that starts with the transaction gets its records, and
\* stops in the line last written: at a unit that is not a tag, or at the end
\* of the line.
ReadsBack(nvm) ==
  LET got == readLog(nvm, txpos, LINES * UNITS) IN
  /\ Len(wrote) <= Len(got) /\ SubSeq(got, 1, Len(wrote)) = wrote
  /\ IF log.wr.pos = 0 THEN Len(got) = Len(wrote)
     ELSE /\ Len(got) <= Len(wrote) + UNITS - log.wr.pos
          /\ Len(got) > Len(wrote) => got[Len(wrote) + 1] = NL_INVALID

\* When a thread stores over an old value, does what it put off until its
\* commit, or undoes, NVM holds every record of the transaction where a reader
\* that checks checksums and versions finds it and its end, whatever earlier
\* rounds have left in the lines and whatever the cache has written back.
LoggedFirst == pc \in {"store", "apply", "undo", "idle"} => ReadsBack(log.nvm)

\* An abort reads back whole records, from their last tag on, to the place
\* where the transaction started and no further, over the ends of lines and of
\* the log: else it exits, or stores what it has not read.
ReadsRecord ==
  \E rec \in {<<NL_NEW, 4>>, <<NL_NEWVCHAR, 7>>, <<NL_WRITE, 5>>,
             <<NL_WRITEVCHAR, 9>>, <<NL_ALLOCNODE, 3>>} :
    back.pos > 0 /\ LastTag = rec[1] /\ Whole(log.line, back, rec[2])

\* An abort that does not start at the start of a line finds its way through
\* all records of its transaction, and after it the words are as they were
\* before, but for those that were not used before, and the nodes in use are
\* those in use before.
AbortRestores ==
  /\ pc = "undo" => AtStart \/ ReadsRecord
  /\ pc = "aborted" => /\ \A a \in Addr \ fresh : mem[a] = before.mem[a]
                       /\ mine = before.mine

\* A node is free once, or in use once: through commits and aborts of
\* transactions that allocate, delete, and do both.
PoolSound ==
  /\ TypeOK
  /\ IsInjective(pool.free \o mine)
  /\ ToSet(pool.free \o mine) = 1..pool.cur
=============================================================================
