------------------------------- MODULE Flock --------------------------------
(***************************************************************************)
(* The byte-range lock table of fs.Flock (src/fs/api_internal.go 176-306). *)
(*                                                                         *)
(* Per inode the volume keeps a container/list of FlockStruct, meant to be *)
(* ordered by Start.  Flock holds only a READ lock on the inode, and       *)
(* getFileLockList drops the volume mutex before returning the list, so    *)
(* several callers may walk and change one list at once.  The model keeps  *)
(* one inode's list.  A list element has an identity (id), since a walker  *)
(* holds a pointer to its current element and to its insertion mark; one   *)
(* loop iteration of the lock path is one step, and so are the unlock     *)
(* path and the final insertion.  Offsets are W-bit unsigned integers and  *)
(* Start + Len wraps as the code's uint64 addition does.                   *)
(***************************************************************************)
EXTENDS Naturals, Sequences, FiniteSets, SequencesExt

CONSTANTS Callers,   \* concurrent Flock calls on the inode
          Pids,      \* FlockStruct.Pid values
          Starts,    \* FlockStruct.Start values the callers use
          Lens,      \* FlockStruct.Len values the callers use (0: to end of file)
          W,         \* width of offsets in bits (uint64 in the code)
          ElemIds,   \* addresses for list elements; bounds the list length
          NoElem     \* nil *list.Element

MaxU == 2^W - 1                                        \* ^uint64(0)

ASSUME Starts \subseteq 0..MaxU /\ Lens \subseteq 0..MaxU /\ NoElem \notin ElemIds

VARIABLES flockList, \* the inode's list, front first
          pc,        \* pc[c]: where call c is
          inReq,     \* inReq[c]: c's *FlockStruct argument
          cur,       \* cur[c]: the element e of the loop, NoElem for nil
          insertElm, \* insertElm[c]: the insertion mark, NoElem for nil
          result     \* result[c]: what c returned

vars == <<flockList, pc, inReq, cur, insertElm, result>>

\* F_UNLCK is "U"; F_RDLCK and F_WRLCK are "R" and "W".
FlockStruct == [pid : Pids, start : Starts, len : Lens, type : {"R", "W", "U"}]
Elem == [id : ElemIds, pid : Pids, start : Starts, len : Lens, type : {"R", "W"}]
Results == {"none", "ok", "tryagain", "nodata", "notsupported", "denied", "panic"}

\* lockEnd and elmEnd: Len 0 means to the end; else Start + Len in uint64.
LockEnd(r) == IF r.len = 0 THEN MaxU ELSE (r.start + r.len) % (MaxU + 1)

\* Faulty variant, for mutation checks: compares the range only.
SameFlockRange(e, r) == e.start = r.start /\ e.len = r.len

\* reflect.DeepEqual(elm, inFlockStruct) on the FlockStruct fields.
SameFlock(e, r) ==
  e.pid = r.pid /\ e.start = r.start /\ e.len = r.len /\ e.type = r.type

IdsInList == {flockList[i].id : i \in 1..Len(flockList)}

Position(e) == SelectInSeq(flockList, LAMBDA x : x.id = e.id)

\* e.Next(): nil at the back, and nil for an element that list.Remove
\* took out (Remove clears its links).
NextElem(e) ==
  LET i == Position(e) IN
  IF i = 0 \/ i = Len(flockList) THEN NoElem ELSE flockList[i + 1]

\* Addresses not reachable from the list nor from any walker's pointers.
FreeElemIds ==
  ElemIds \ (IdsInList \cup {cur[c].id : c \in {d \in Callers : cur[d] # NoElem}}
                       \cup {insertElm[c].id : c \in {d \in Callers : insertElm[d] # NoElem}})

NewElem(r) == [id |-> CHOOSE k \in FreeElemIds : TRUE, pid |-> r.pid,
               start |-> r.start, len |-> r.len, type |-> r.type]

\* list.InsertBefore(v, mark), mark # nil: nothing happens if mark is no
\* longer in the list (mark.list != l).
ListInsertBefore(v, mark) ==
  IF Position(mark) = 0 THEN flockList ELSE InsertAt(flockList, Position(mark), v)

\* inReq of a caller with no call in progress (kept canonical).
NoFlock == [pid |-> CHOOSE p \in Pids : TRUE, start |-> CHOOSE x \in Starts : TRUE,
            len |-> CHOOSE x \in Lens : TRUE, type |-> "U"]

\* Faulty variant, for mutation checks: only an existing write lock conflicts.
WriterOnEitherSideElmOnly(e, r) == e.type = "W"

\* The conflict test of line 287.
WriterOnEitherSide(e, r) == e.type = "W" \/ r.type = "W"

\* Faulty variant, for mutation checks: the first lock not skipped is the mark.
TakesMarkAny(c, e) == insertElm[c] = NoElem

\* Line 271: insertElm == nil && elm.Start >= inFlockStruct.Start.
TakesMark(c, e) == insertElm[c] = NoElem /\ e.start >= inReq[c].start

Finish(c, res) ==
  /\ pc' = [pc EXCEPT ![c] = "done"]
  /\ result' = [result EXCEPT ![c] = res]

-----------------------------------------------------------------------------
Init ==
  /\ flockList = <<>>
  /\ pc = [c \in Callers |-> "idle"]
  /\ inReq = [c \in Callers |-> NoFlock]
  /\ cur = [c \in Callers |-> NoElem]
  /\ insertElm = [c \in Callers |-> NoElem]
  /\ result = [c \in Callers |-> "none"]

\* Flock, 200-225: F_SETLKW is not supported; the inode may be gone or not
\* readable.  Nothing is changed.
FlockReject(c) ==
  /\ pc[c] = "idle"
  /\ \E res \in {"notsupported", "denied"} : Finish(c, res)
  /\ UNCHANGED <<flockList, inReq, cur, insertElm>>

\* Flock, 233-245: unlock removes the first exact (pid, start, len) match.
FlockUnlock(c, r) ==
  LET i == SelectInSeq(flockList, LAMBDA e : e.pid = r.pid /\ e.start = r.start /\ e.len = r.len)
  IN
  /\ pc[c] = "idle"
  /\ r.type = "U"
  /\ inReq' = [inReq EXCEPT ![c] = r]
  /\ IF i = 0 THEN /\ Finish(c, "nodata") /\ UNCHANGED flockList
     ELSE /\ flockList' = RemoveAt(flockList, i)
          /\ Finish(c, "ok")
  /\ UNCHANGED <<cur, insertElm>>

\* Faulty variant, for mutation checks: no F_UNLCK test before the walk.
FlockBeginAnyType(c, r) ==
  /\ pc[c] = "idle"
  /\ Cardinality(FreeElemIds) > Cardinality({d \in Callers : pc[d] = "scan"})
  /\ inReq' = [inReq EXCEPT ![c] = r]
  /\ cur' = [cur EXCEPT ![c] = IF flockList = <<>> THEN NoElem ELSE flockList[1]]
  /\ pc' = [pc EXCEPT ![c] = "scan"]
  /\ UNCHANGED <<flockList, insertElm, result>>

\* Flock, 228-231 and 247-257: a lock request starts its walk at the front.
\* A free address is kept for every walk in progress (the ElemIds bound).
FlockBegin(c, r) ==
  /\ pc[c] = "idle"
  /\ r.type # "U"
  /\ Cardinality(FreeElemIds) > Cardinality({d \in Callers : pc[d] = "scan"})
  /\ inReq' = [inReq EXCEPT ![c] = r]
  /\ cur' = [cur EXCEPT ![c] = IF flockList = <<>> THEN NoElem ELSE flockList[1]]
  /\ pc' = [pc EXCEPT ![c] = "scan"]
  /\ UNCHANGED <<flockList, insertElm, result>>

\* Flock, 257-292: one iteration of the walk.  Locks ending before Start
\* are skipped; the first other one starting at or after Start becomes the
\* mark; one starting after lockEnd ends the walk with InsertBefore(mark),
\* which panics on a nil mark; an identical lock is returned as is; an
\* overlapping one with a writer on either side is TryAgain; else go on.
FlockScan(c) ==
  LET r == inReq[c]
      elm == cur[c]
      mark == IF TakesMark(c, elm) THEN elm ELSE insertElm[c]
      advance(m) == /\ cur' = [cur EXCEPT ![c] = NextElem(elm)]
                    /\ insertElm' = [insertElm EXCEPT ![c] = m]
                    /\ UNCHANGED <<flockList, pc, result>>
  IN
  /\ pc[c] = "scan"
  /\ elm # NoElem
  /\ CASE LockEnd(elm) < r.start -> advance(insertElm[c])
       [] elm.start > LockEnd(r) ->
            /\ IF mark = NoElem THEN /\ Finish(c, "panic") /\ UNCHANGED flockList
               ELSE /\ flockList' = ListInsertBefore(NewElem(r), mark)
                    /\ Finish(c, "ok")
            /\ UNCHANGED <<cur, insertElm>>
       [] SameFlock(elm, r) -> Finish(c, "ok") /\ UNCHANGED <<flockList, cur, insertElm>>
       [] WriterOnEitherSide(elm, r) ->
            Finish(c, "tryagain") /\ UNCHANGED <<flockList, cur, insertElm>>
       [] OTHER -> advance(mark)
  /\ UNCHANGED inReq

\* Flock, 294-305: the walk ran off the end; insert a copy before the mark,
\* or at the back if there is none.
FlockEnd(c) ==
  /\ pc[c] = "scan"
  /\ cur[c] = NoElem
  /\ flockList' = IF insertElm[c] = NoElem THEN Append(flockList, NewElem(inReq[c]))
                  ELSE ListInsertBefore(NewElem(inReq[c]), insertElm[c])
  /\ Finish(c, "ok")
  /\ UNCHANGED <<inReq, cur, insertElm>>

\* The caller goes on; its pointers are dropped (kept canonical).
FlockReturn(c) ==
  /\ pc[c] = "done"
  /\ pc' = [pc EXCEPT ![c] = "idle"]
  /\ result' = [result EXCEPT ![c] = "none"]
  /\ cur' = [cur EXCEPT ![c] = NoElem]
  /\ insertElm' = [insertElm EXCEPT ![c] = NoElem]
  /\ inReq' = [inReq EXCEPT ![c] = NoFlock]
  /\ UNCHANGED flockList

Next ==
  \E c \in Callers :
    \/ FlockReject(c)
    \/ \E r \in FlockStruct : FlockUnlock(c, r) \/ FlockBegin(c, r)
    \/ FlockScan(c)
    \/ FlockEnd(c)
    \/ FlockReturn(c)

Spec == Init /\ [][Next]_vars

-----------------------------------------------------------------------------
(* Ranges as fcntl(2) and spec.md 4.F mean them: [Start, Start+Len), and    *)
(* Len 0 up to MAX inclusive.  Computed without wrapping.                 *)
RangeEnd(r) == IF r.len = 0 THEN MaxU + 1 ELSE r.start + r.len

Overlap(a, b) == a.start < RangeEnd(b) /\ b.start < RangeEnd(a)

Conflict(a, b) == Overlap(a, b) /\ "W" \in {a.type, b.type}

\* The list holds distinct elements, each a read or write lock.
TypeOK ==
  /\ flockList \in Seq(Elem)
  /\ Cardinality(IdsInList) = Len(flockList)
  /\ pc \in [Callers -> {"idle", "scan", "done"}]
  /\ inReq \in [Callers -> FlockStruct]
  /\ cur \in [Callers -> Elem \cup {NoElem}]
  /\ insertElm \in [Callers -> Elem \cup {NoElem}]
  /\ result \in [Callers -> Results]

(***************************************************************************)
(* The table never holds two overlapping locks of which one is a write    *)
(* lock (spec.md 4.F: conflicting requests get TryAgain).  It is about the *)
(* walk of Flock 257-292: the skip test, the early stop at lockEnd, and    *)
(* the conflict test must together visit every lock the new one overlaps. *)
(***************************************************************************)
NoConflictingLocks ==
  \A i, j \in 1..Len(flockList) : i < j => ~Conflict(flockList[i], flockList[j])

(***************************************************************************)
(* The list stays ordered by Start (spec.md 4.H), which the early stop at  *)
(* elm.Start > lockEnd relies on; it is about the choice of insertElm.     *)
(***************************************************************************)
SortedByStart ==
  \A i \in 1..Len(flockList) - 1 : flockList[i].start <= flockList[i + 1].start

(***************************************************************************)
(* A lock request that returns success is in the table when it returns:  *)
(* inserted, or found identical.  It is about the three success exits of  *)
(* the walk.                                                              *)
(***************************************************************************)
GrantRecorded ==
  \A c \in Callers :
    pc[c] = "done" /\ result[c] = "ok" /\ inReq[c].type # "U" =>
      \E i \in 1..Len(flockList) :
        LET e == flockList[i] IN
        [pid |-> e.pid, start |-> e.start, len |-> e.len, type |-> e.type] = inReq[c]

(***************************************************************************)
(* Flock never panics: InsertBefore is never handed a nil mark (line 277). *)
(***************************************************************************)
NoPanic == \A c \in Callers : result[c] # "panic"

=============================================================================
