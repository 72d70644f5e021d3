--------------------------- MODULE BufferManager ---------------------------
(***************************************************************************)
(* The manager of a decoder's output buffers (osal/ExynosBufferManager and *)
(* RefDPBManager of ExynosVideoCodecDec): which buffers are in the codec,  *)
(* how often each memory is in use as a picture (mMap), and the fixed file *)
(* descriptor that each memory keeps (mFdMap), because the driver knows a  *)
(* picture by its descriptor's number.                                     *)
(*                                                                         *)
(* The driver reports with every picture which descriptors it no longer    *)
(* refers to; this is the decoder whose library manages the DPB.  Enqueues *)
(* run on one thread and dequeues on another; every entry point holds the  *)
(* manager's mutex, so each is one step.  A buffer is identified with its  *)
(* memory (the inode) and has one plane.                                   *)
(***************************************************************************)
EXTENDS Integers, FiniteSets, Functions

CONSTANTS
  Keys,         \* memories, by inode
  Fds,          \* file descriptors the process can open
  GARBAGE_CLEANUP_BASELINE,
  MaxUse        \* bound: pictures of one memory the driver refers to

NoFd   == -1
NoKey  == "nokey"
STDOUT == "stdout"

VARIABLES
  file,         \* [Fds -> what a descriptor refers to]
  fdMap,        \* BufferFdManager::mFdMap: key -> [fd, dupCount]
  mQueue,       \* SharedPtrManager::mQueue: buffers in the codec
  mMap,         \* RefDPBManager::mMap: key -> count
  enq,          \* enqueue thread: a buffer between swap and QBUF, or NoKey
  report,       \* dequeue thread: descriptors that delRefDPB() will get
  queuedDrv, uses, fdOf,  \* driver: queued, pictures not reported, last fd
  lost          \* history: descriptors that a dup2() failed on

memVars == <<file, fdMap, mQueue, mMap, enq, report, queuedDrv, uses, fdOf, lost>>

Entry == [fd : Fds \union {NoFd}, dupCount : 0..(MaxUse + 1)]

Init ==
  /\ file = [f \in Fds |-> "closed"]
  /\ fdMap = << >> /\ mMap = << >>
  /\ mQueue = {} /\ enq = NoKey /\ report = {}
  /\ queuedDrv = {}
  /\ uses = [k \in Keys |-> 0]
  /\ fdOf = [k \in Keys |-> NoFd]
  /\ lost = {}

\* The map m with the value of k changed or added; without the keys of K.
Put(m, k, v) == [x \in DOMAIN m \union {k} |-> IF x = k THEN v ELSE m[x]]
Drop(m, K)   == Restrict(m, DOMAIN m \ K)

-----------------------------------------------------------------------------
(* Descriptors.  d is [file, map, lost]; bad is the set of descriptors on  *)
(* which dup2() fails in this call.                                        *)

Desc == [file |-> file, map |-> fdMap, lost |-> lost]

Close(fl, F) == [f \in Fds |-> IF f \in F THEN "closed" ELSE fl[f]]

\* Reserved descriptors are closed when there are many.
Cleaned(d) ==
  LET idle == {k \in DOMAIN d.map : d.map[k].dupCount = 0}
  IN  IF Cardinality(DOMAIN d.map) > GARBAGE_CLEANUP_BASELINE
      THEN [d EXCEPT !.map = Drop(d.map, idle),
                     !.file = Close(d.file, {d.map[k].fd : k \in idle})]
      ELSE d

\* dup() for k: any free descriptor, none when all are in use.
Duped(d, k, count) ==
  LET free == {f \in Fds : d.file[f] = "closed"}
  IN  {[d EXCEPT !.file = IF f = NoFd THEN @ ELSE [@ EXCEPT ![f] = k],
                 !.map = Put(@, k, [fd |-> f, dupCount |-> count])]
       : f \in IF free = {} THEN {NoFd} ELSE free}

GetFixedFds(d0, k, bad) ==
  LET d == Cleaned(d0)
      e == d.map[k]
  IN  IF k \notin DOMAIN d.map
      THEN Duped(d, k, 1)
      ELSE IF e.fd \notin bad \union {NoFd}
           THEN {[d EXCEPT !.file[e.fd] = k, !.map[k].dupCount = @ + 1]}
           ELSE Duped([d EXCEPT !.lost = @ \union ({e.fd} \ {NoFd})], k, e.dupCount + 1)

\* The map with one use less of each memory of K.
LessUsed(map, K) ==
  [k \in DOMAIN map |-> IF k \in K /\ map[k].dupCount > 0
                        THEN [map[k] EXCEPT !.dupCount = @ - 1] ELSE map[k]]

\* Mutation: the number is kept for the memory after the last use too.
ReturnFixedFds_KeepFile(d, K, bad) == [d EXCEPT !.map = LessUsed(@, K)]

\* For each of the memories K: the last use reserves the number, it is made to
\* refer to STDOUT; where that fails the memory leaves the map.
ReturnFixedFds(d, K, bad) ==
  LET last  == {k \in K \intersect DOMAIN d.map : d.map[k].dupCount = 1}
      fails == {k \in last : d.map[k].fd \in bad \union {NoFd}}
      idle  == {d.map[k].fd : k \in last \ fails}
  IN  [file |-> [f \in Fds |-> IF f \in idle THEN STDOUT ELSE d.file[f]],
       map  |-> Drop(LessUsed(d.map, K), fails),
       lost |-> d.lost \union ({d.map[k].fd : k \in fails} \ {NoFd})]

SetDesc(d) == file' = d.file /\ fdMap' = d.map /\ lost' = d.lost

-----------------------------------------------------------------------------
(* Reference counts.                                                       *)

CountOf(m, k) == IF k \in DOMAIN m THEN m[k] ELSE 0

AddRefDPB(m, k) == Put(m, k, CountOf(m, k) + 1)

\* Shared by eraseSharedPtr() and delRefDPB(): one less of each memory of K, and
\* the entry goes at 0.
Dropped(m, K) ==
  [k \in DOMAIN m \ {j \in K \intersect DOMAIN m : m[j] = 1} |-> IF k \in K THEN m[k] - 1 ELSE m[k]]

-----------------------------------------------------------------------------
(* The enqueue thread.                                                     *)

\* swapSharedPtrToPtr() of commonDstEnqueue(), for a buffer the codec has not.
Enqueue(k, bad) ==
  /\ enq = NoKey /\ k \notin mQueue
  /\ uses[k] < MaxUse
  /\ mMap' = AddRefDPB(mMap, k)
  /\ mQueue' = mQueue \union {k}
  /\ \E d \in GetFixedFds(Desc, k, bad) : SetDesc(d)
  /\ enq' = k
  /\ UNCHANGED <<report, queuedDrv, uses, fdOf>>

Queued ==
  /\ enq # NoKey /\ fdMap[enq].fd # NoFd
  /\ queuedDrv' = queuedDrv \union {enq}
  /\ uses' = [uses EXCEPT ![enq] = @ + 1]
  /\ fdOf' = [fdOf EXCEPT ![enq] = fdMap[enq].fd]
  /\ enq' = NoKey
  /\ UNCHANGED <<file, fdMap, mQueue, mMap, report, lost>>

\* The driver refuses the buffer: eraseSharedPtr().
QueueRefused(bad) ==
  /\ enq # NoKey
  /\ mQueue' = mQueue \ {enq}
  /\ SetDesc(ReturnFixedFds(Desc, {enq}, bad))
  /\ mMap' = Dropped(mMap, {enq})
  /\ enq' = NoKey
  /\ UNCHANGED <<report, queuedDrv, uses, fdOf>>

-----------------------------------------------------------------------------
(* The dequeue thread.                                                     *)

\* Pictures of k the driver may stop to refer to when Q stays queued.
Unused(Q) == {k \in Keys : uses[k] > IF k \in Q THEN 1 ELSE 0}

\* The driver gives k back with its report; swapPtrToSharedPtr().  The fixed
\* descriptor is not returned yet (bDelayReturn).
Dequeue(k, R) ==
  /\ report = {} /\ k \in queuedDrv
  /\ R \subseteq Unused(queuedDrv \ {k})
  /\ queuedDrv' = queuedDrv \ {k}
  /\ uses' = [j \in Keys |-> IF j \in R THEN uses[j] - 1 ELSE uses[j]]
  /\ report' = {fdOf[j] : j \in R}
  /\ mQueue' = mQueue \ {k}
  /\ UNCHANGED <<file, fdMap, mMap, enq, fdOf, lost>>

\* updateBufferInfo() hands the report on; a memory is found by the inode that
\* the descriptor refers to now.
DelRefDPB(bad) ==
  LET keys == {file[f] : f \in report} \intersect DOMAIN mMap
  IN  /\ report # {}
      /\ SetDesc(ReturnFixedFds(Desc, keys, bad))
      /\ mMap' = Dropped(mMap, keys)
      /\ report' = {}
      /\ UNCHANGED <<mQueue, enq, queuedDrv, uses, fdOf>>

\* commonStop() of the output: the stream goes off and reset() follows, on the
\* dequeue thread while the enqueue thread waits for it or is kept out.
Stop ==
  /\ enq = NoKey /\ report = {}
  /\ queuedDrv' = {}
  /\ uses' = [k \in Keys |-> 0]
  /\ mQueue' = {} /\ mMap' = << >> /\ fdMap' = << >>
  /\ file' = Close(file, {fdMap[k].fd : k \in DOMAIN fdMap})
  /\ UNCHANGED <<enq, report, fdOf, lost>>

Next ==
  \/ \E bad \in {{}} \union {{f} : f \in Fds} :
       (\E k \in Keys : Enqueue(k, bad)) \/ QueueRefused(bad) \/ DelRefDPB(bad)
  \/ Queued
  \/ \E k \in Keys, R \in SUBSET Keys : Dequeue(k, R)
  \/ Stop

Spec == Init /\ [][Next]_memVars

-----------------------------------------------------------------------------
TypeOK ==
  /\ file \in [Fds -> Keys \union {"closed", STDOUT}]
  /\ DOMAIN fdMap \subseteq Keys /\ \A k \in DOMAIN fdMap : fdMap[k] \in Entry
  /\ DOMAIN mMap \subseteq Keys /\ \A k \in DOMAIN mMap : mMap[k] \in 1..(MaxUse + 1)
  /\ mQueue \subseteq Keys /\ queuedDrv \subseteq Keys
  /\ enq \in Keys \union {NoKey}
  /\ report \subseteq Fds /\ lost \subseteq Fds
  /\ uses \in [Keys -> 0..MaxUse] /\ fdOf \in [Keys -> Fds \union {NoFd}]

\* Pictures of k that the manager has to count.
Owed(k) == uses[k] + (IF enq = k THEN 1 ELSE 0)
                   + Cardinality({f \in report : file[f] = k})

\* A memory counts as in use, in both maps, as long as the driver refers to one
\* of its pictures: getReqOutBufCount() asks for too many or too few buffers
\* when the count drifts.
CountsMatchDriver ==
  \A k \in Keys : /\ CountOf(mMap, k) = Owed(k)
                  /\ (IF k \in DOMAIN fdMap THEN fdMap[k].dupCount ELSE 0) = Owed(k)

\* The number the driver has refers to the memory it was given for, also after
\* other memories came and went; the memory is let go with its last use.
FixedFdsHold ==
  /\ \A k \in Keys : uses[k] > 0 => file[fdOf[k]] = k
  /\ \A f \in Fds \ lost : file[f] \in Keys => Owed(file[f]) > 0

\* Every open descriptor is in the map, unless a dup2() failed on it.
NoFdLeak ==
  {f \in Fds : file[f] # "closed"} \ lost = {fdMap[k].fd : k \in DOMAIN fdMap} \ (lost \union {NoFd})

BuffersAgree == CountsMatchDriver /\ FixedFdsHold /\ NoFdLeak

=============================================================================
