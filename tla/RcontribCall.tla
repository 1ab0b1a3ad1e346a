---------------------------- MODULE RcontribCall ----------------------------
(***************************************************************************)
(* Rcontrib.__call__ (rcontribparts.c, rc3_mod.c): the calling process     *)
(* and, with -n above 1, the children it forks for the call.               *)
(*                                                                         *)
(* The controller feeds rays into a batch, writes a full batch to the pipe *)
(* of a free child, and puts what it reads back into the output queue,     *)
(* from which complete records leave in the order of the rows.  A child    *)
(* reads rays from its pipe, sums them, and writes a record back after one *)
(* ray (-c 1) or when a zero ray tells it to.                              *)
(*                                                                         *)
(* lastray, lastdone and out_bq are statics of the extension module: they  *)
(* live as long as the process does, across calls and across               *)
(* reset/initialize/load_scene.                                            *)
(***************************************************************************)
EXTENDS RcontribQueue

CONSTANTS
  MAXPROCESS,     \* most children (rc3_mod.c's kidpr and kida)
  MAXIQ,          \* rays that fit an atomic pipe write
  Nprocs,         \* values of -n an initialization may ask for
  Accumulates,    \* values of -c
  Kinds,          \* directions of the rows: some of "ray", "zero", "tiny"
  MayFail,        \* TRUE: fork may fail and children may die
  MaxRows,        \* bound: rows of a call
  MaxCalls        \* bound: calls of a process

ASSUME Assumption ==
  /\ MAXPROCESS \in Nat \ {0}
  /\ MAXIQ \in Nat /\ MAXIQ >= 2
  /\ Nprocs \subseteq Nat \ {0} /\ Nprocs # {}
  /\ Accumulates \subseteq Nat \ {0} /\ Accumulates # {}
  /\ Kinds \subseteq {"ray", "zero", "tiny"}
  /\ MayFail \in BOOLEAN
  /\ MaxRows \in Nat
  /\ MaxCalls \in Nat

VARIABLES
  pc,             \* where the calling process is
  why,            \* what next_child_nq was called for
  nproc, accumulate,                  \* options -n and -c
  vecs,           \* the kinds of the call's rows
  calls,          \* number of calls so far
  fed,            \* rays of this call fed so far (current_vec_cnt, feed_repeat)
  inq,            \* the batch: the first ninq rays of orgdir
  zray,           \* zero_ray: the ray just fed is a zero ray
  nchild,         \* children forked
  kida,           \* per child, first index and number of the rays it works on
  readset,        \* children select() found readable and still to be read
  target,         \* the child next_child_nq chose
  lastray,        \* last ray number sent
  lastdone,       \* last ray output
  out_bq,         \* output queue
  output_values,  \* records written to the result array; the rest is unwritten
  account, cbin,  \* accumulation countdown and sum of the single process
  kid,            \* state of a child process
  to, from,       \* a child's pipes: what it has still to read, what it wrote
  sum,            \* a child's sum
  holds           \* children whose pipes a child has inherited, still open

call == <<vecs, calls, fed>>
options == <<nproc, accumulate>>
solo == <<account, cbin>>
children == <<kid, to, from, sum, holds>>
numbers == <<lastray, lastdone>>
queue == <<out_bq, output_values>>
vars == <<pc, why, options, call, inq, zray, nchild, kida, readset, target,
          numbers, queue, solo, children>>

Kids == 0..(MAXPROCESS - 1)

(* A ray of a call: its number in the call tells its row. *)
RayIds == (1..MaxCalls) \X (Nat \ {0})

(* What travels to a child: a ray, or the all-zero terminator: no ray of a *)
(* call has the number 0.                                                  *)
Terminator == <<0, 0>>
Items == RayIds \cup {Terminator}

(* A mutation of Cap: more children than there are slots for. *)
Uncapped(n) == n

Cap(n) == IF n > MAXPROCESS THEN MAXPROCESS ELSE n

Row(ray) == (ray[2] - 1) \div accumulate + 1
RayCount == Len(vecs) * accumulate
NextRay == <<calls, fed + 1>>
Kind(ray) == vecs[Row(ray)]

(* A mutation of QLimit: no room is left for the terminator. *)
FullLimit == IF accumulate = 1 THEN 1 ELSE MAXIQ

QLimit == IF accumulate = 1 THEN 1 ELSE MAXIQ - 1

Free == {i \in 0..(nchild - 1) : kida[i].nr = 0}
Busy == {i \in 0..(nchild - 1) : kida[i].nr > 0}

(* select() finds a pipe readable when data, or its end, can be read. *)
Readable(i) == from[i] # <<>> \/ kid[i] \in {"write", "dead", "done"}

Flushing == why # "pick"

(***************************************************************************)
(* output_catchup on the queue bq when done is the last ray output: the    *)
(* sums of the records that leave are appended to the result array.        *)
(***************************************************************************)
OutputCatchup(bq, nmax, done) ==
  LET n == Catchup(bq, nmax, done, accumulate)
  IN  /\ out_bq' = SubSeq(bq, n + 1, Len(bq))
      /\ output_values' = output_values \o [k \in 1..n |-> bq[k].sum]
      /\ lastdone' = done + n * accumulate

(* put_zero_record: a black record, then whatever can be output. *)
PutZeroRecord(ndx, done) ==
  OutputCatchup(QueueOutput(out_bq, NewEntry(ndx, 1, BlackSum), accumulate),
                0, done)

-----------------------------------------------------------------------------
Init ==
  /\ pc = "idle" /\ why = "drain"
  /\ nproc \in Nprocs /\ accumulate \in Accumulates
  /\ vecs = <<>> /\ calls = 0 /\ fed = 0
  /\ inq = <<>> /\ zray = FALSE
  /\ nchild = 0
  /\ kida = [i \in Kids |-> [r1 |-> 0, nr |-> 0]]
  /\ readset = {} /\ target = 0
  /\ lastray = 0 /\ lastdone = 0
  /\ out_bq = <<>> /\ output_values = <<>>
  /\ account = 0 /\ cbin = BlackSum
  /\ kid = [i \in Kids |-> "none"]
  /\ to = [i \in Kids |-> <<>>] /\ from = [i \in Kids |-> <<>>]
  /\ sum = [i \in Kids |-> BlackSum]
  /\ holds = [i \in Kids |-> {}]

(***************************************************************************)
(* reset(), initialize() with other -n and -c, load_scene(): the options   *)
(* change and the numbers and the queue of earlier calls stay.             *)
(***************************************************************************)
Reinitialize(n, a) ==
  /\ pc = "idle" /\ calls < MaxCalls
  /\ <<n, a>> # options
  /\ nproc' = n /\ accumulate' = a
  /\ UNCHANGED <<pc, why, call, inq, zray, nchild, kida, readset, target,
                 numbers, queue, solo, children>>

(***************************************************************************)
(* rcontrib_call and rcinit2, up to the first fork or the first ray.       *)
(***************************************************************************)
Call(rows) ==
  /\ pc = "idle" /\ calls < MaxCalls
  /\ vecs' = rows /\ calls' = calls + 1 /\ fed' = 0
  /\ output_values' = <<>>
  /\ nproc' = Cap(nproc)
  /\ account' = accumulate
  /\ inq' = <<>> /\ zray' = FALSE
  /\ pc' = IF nproc' > 1 THEN "fork" ELSE "solo"
  /\ UNCHANGED <<why, accumulate, nchild, kida, readset, target, numbers,
                 out_bq, cbin, children>>

(***************************************************************************)
(* in_rchild2: fork children 0, 1, ... until there are nproc of them.  A   *)
(* child is born with the controller's ends of the pipes of those before.  *)
(***************************************************************************)
Fork ==
  /\ pc = "fork"
  /\ kid' = [kid EXCEPT ![nchild] = "start"]
  /\ holds' = [holds EXCEPT ![nchild] = 0..(nchild - 1)]
  /\ kida' = [kida EXCEPT ![nchild].nr = 0]
  /\ nchild' = nchild + 1
  /\ pc' = IF nchild' = nproc THEN "feed" ELSE "fork"
  /\ UNCHANGED <<why, options, call, inq, zray, readset, target, numbers,
                 queue, solo, to, from, sum>>

(***************************************************************************)
(* error() in the calling process, or a signal: quit() of the library, and *)
(* the process exits.  It does not end its children (quitrc, which would,  *)
(* is called in children only): the system closes its ends of their pipes. *)
(***************************************************************************)
Exit ==
  /\ pc' = "exit"
  /\ UNCHANGED <<why, options, call, inq, zray, nchild, kida, readset, target,
                 numbers, queue, solo, children>>

ForkFails == MayFail /\ pc = "fork" /\ Exit

Signalled == MayFail /\ pc \notin {"idle", "exit"} /\ Exit

-----------------------------------------------------------------------------
(***************************************************************************)
(* The loop of the single process: one ray, evaluated in place, and its    *)
(* done_contrib.                                                           *)
(***************************************************************************)
Contribution(ray) == IF Kind(ray) = "ray" THEN RaySum(ray) ELSE BlackSum

SoloRay ==
  /\ pc = "solo" /\ fed < RayCount
  /\ fed' = fed + 1
  /\ lastray' = lastray + 1 /\ lastdone' = lastdone + 1
  /\ \/ /\ account > 1
        /\ account' = account - 1
        /\ cbin' = AddSum(cbin, Contribution(NextRay))
        /\ UNCHANGED output_values
     \/ /\ account = 1
        /\ output_values' = Append(output_values, AddSum(cbin, Contribution(NextRay)))
        /\ cbin' = BlackSum
        /\ account' = accumulate
  /\ UNCHANGED <<pc, why, options, vecs, calls, inq, zray, nchild, kida,
                 readset, target, out_bq, children>>

SoloEnd ==
  /\ pc = "solo" /\ fed = RayCount
  /\ pc' = "idle"
  /\ UNCHANGED <<why, options, call, inq, zray, nchild, kida, readset, target,
                 numbers, queue, solo, children>>

-----------------------------------------------------------------------------
(***************************************************************************)
(* The head of parental_loop2's loop: feed one ray into the batch; a batch *)
(* that is full, that completes a record, or that a zero ray follows, must *)
(* be sent.                                                                *)
(***************************************************************************)
(* A mutation of MustSend: a batch may run into the next record. *)
SendWhenFull(batch, zero) ==
  IF zero THEN batch # <<>> ELSE Len(batch) >= QLimit

MustSend(batch, zero) ==
  IF zero THEN batch # <<>>
  ELSE \/ Len(batch) >= QLimit
       \/ lastray \div accumulate # (lastray + Len(batch)) \div accumulate

Feed ==
  /\ pc = "feed" /\ fed < RayCount
  /\ LET zero == Kind(NextRay) = "zero"
         batch == IF zero THEN inq ELSE Append(inq, NextRay)
     IN  /\ inq' = batch /\ zray' = zero
         /\ \/ MustSend(batch, zero) /\ pc' = "next" /\ why' = "pick"
            \/ ~MustSend(batch, zero) /\ zero /\ pc' = "zero" /\ UNCHANGED why
            \/ ~MustSend(batch, zero) /\ ~zero /\ UNCHANGED <<pc, why>>
  /\ fed' = fed + 1
  /\ UNCHANGED <<options, vecs, calls, nchild, kida, readset, target, numbers,
                 queue, solo, children>>

FeedEnd ==
  /\ pc = "feed" /\ fed = RayCount
  /\ pc' = "next" /\ why' = "drain"
  /\ UNCHANGED <<options, call, inq, zray, nchild, kida, readset, target,
                 numbers, queue, solo, children>>

(***************************************************************************)
(* Send the batch to the child next_child_nq chose.  Writing to a child    *)
(* that died fails (sigdie leaves an ignored SIGPIPE ignored, as Python    *)
(* has it), and a failed write is a fatal error.                           *)
(***************************************************************************)
(* A mutation of Assignment: no terminator is sent. *)
Unterminated == inq

Assignment == IF accumulate > 1 THEN Append(inq, Terminator) ELSE inq

(* A mutation of Send: the child is not marked as busy. *)
SendUnmarked ==
  /\ pc = "send" /\ kid[target] # "dead"
  /\ to' = [to EXCEPT ![target] = @ \o Assignment]
  /\ lastray' = lastray + Len(inq)
  /\ inq' = <<>>
  /\ pc' = IF zray THEN "zero" ELSE "feed"
  /\ UNCHANGED <<why, options, call, zray, nchild, kida, readset, target,
                 lastdone, queue, solo, kid, from, sum, holds>>

Send ==
  /\ pc = "send" /\ kid[target] # "dead"
  /\ to' = [to EXCEPT ![target] = @ \o Assignment]
  /\ kida' = [kida EXCEPT ![target] = [r1 |-> lastray + 1, nr |-> Len(inq)]]
  /\ lastray' = lastray + Len(inq)
  /\ inq' = <<>>
  /\ pc' = IF zray THEN "zero" ELSE "feed"
  /\ UNCHANGED <<why, options, call, zray, nchild, readset, target, lastdone,
                 queue, solo, kid, from, sum, holds>>

SendFails == pc = "send" /\ kid[target] = "dead" /\ Exit

(***************************************************************************)
(* A zero ray: at the end of a record the queue is cleared first and the   *)
(* numbering starts over.                                                  *)
(***************************************************************************)
EndsRecord == (lastray + 1) % accumulate = 0

Zero ==
  /\ pc = "zero"
  /\ \/ /\ EndsRecord
        /\ pc' = "next" /\ why' = "zero"
        /\ UNCHANGED <<numbers, queue>>
     \/ /\ ~EndsRecord
        /\ PutZeroRecord(lastray + 1, lastdone)
        /\ lastray' = lastray + 1
        /\ pc' = "feed"
        /\ UNCHANGED why
  /\ UNCHANGED <<options, call, inq, zray, nchild, kida, readset, target, solo,
                 children>>

(* A mutation of ZeroRestart: the zero ray is not counted. *)
RestartUncounted ==
  /\ pc = "restart"
  /\ PutZeroRecord(accumulate, accumulate - 1)
  /\ lastray' = accumulate - 1
  /\ pc' = "feed"
  /\ UNCHANGED <<why, options, call, inq, zray, nchild, kida, readset, target,
                 solo, children>>

ZeroRestart ==
  /\ pc = "restart"
  /\ PutZeroRecord(accumulate, accumulate - 1)
  /\ lastray' = accumulate
  /\ pc' = "feed"
  /\ UNCHANGED <<why, options, call, inq, zray, nchild, kida, readset, target,
                 solo, children>>

-----------------------------------------------------------------------------
(* The for loops of next_child_nq run from the last child to the first. *)
Highest(i, S) == i \in S /\ \A j \in S : j <= i

(***************************************************************************)
(* next_child_nq: the free child of highest number, if there is one and    *)
(* the queue is not being flushed.                                         *)
(***************************************************************************)
PickFree ==
  /\ pc = "next" /\ ~Flushing
  /\ \E i \in Free : Highest(i, Free) /\ target' = i
  /\ pc' = "send"
  /\ UNCHANGED <<why, options, call, inq, zray, nchild, kida, readset, numbers,
                 queue, solo, children>>

(***************************************************************************)
(* Otherwise wait for results.  With records ready for output and nothing  *)
(* to flush it only polls, having output the records beyond one a child;   *)
(* else all ready records are output before it blocks.                     *)
(***************************************************************************)
Wait ==
  /\ pc = "next" /\ (Flushing \/ Free = {}) /\ Busy # {}
  /\ LET nqr == QueueReady(out_bq, lastdone, accumulate)
     IN  \/ /\ nqr > 0 /\ ~Flushing
            /\ pc' = "poll"
            /\ \/ nqr > nchild /\ OutputCatchup(out_bq, nqr - nchild, lastdone)
               \/ nqr <= nchild /\ UNCHANGED <<queue, lastdone>>
         \/ /\ nqr = 0 \/ Flushing
            /\ pc' = "block"
            /\ OutputCatchup(out_bq, 0, lastdone)
  /\ UNCHANGED <<why, options, call, inq, zray, nchild, kida, readset, target,
                 lastray, solo, children>>

(* No child is busy: the flush is over. *)
FlushEnd ==
  /\ pc = "next" /\ Flushing /\ Busy = {}
  /\ OutputCatchup(out_bq, 0, lastdone)
  /\ pc' = IF why = "zero" THEN "restart" ELSE "close"
  /\ UNCHANGED <<why, options, call, inq, zray, nchild, kida, readset, target,
                 lastray, solo, children>>

(* A mutation of Poll: it goes on to block without catching up. *)
PollThenBlock ==
  /\ pc = "poll"
  /\ LET ready == {i \in Busy : Readable(i)}
     IN  \/ ready # {} /\ readset' = ready /\ pc' = "read"
         \/ ready = {} /\ pc' = "block" /\ UNCHANGED readset
  /\ UNCHANGED <<why, options, call, inq, zray, nchild, kida, target, numbers,
                 queue, solo, children>>

Poll ==
  /\ pc = "poll"
  /\ LET ready == {i \in Busy : Readable(i)}
     IN  \/ /\ ready # {}
            /\ readset' = ready
            /\ pc' = "read"
            /\ UNCHANGED <<queue, lastdone>>
         \/ /\ ready = {}
            /\ OutputCatchup(out_bq, 0, lastdone)
            /\ pc' = "block"
            /\ UNCHANGED readset
  /\ UNCHANGED <<why, options, call, inq, zray, nchild, kida, target, lastray,
                 solo, children>>

(* A single busy child is read without select(). *)
Block ==
  /\ pc = "block"
  /\ LET ready == {i \in Busy : Readable(i)}
     IN  readset' = IF Cardinality(Busy) = 1 THEN Busy ELSE ready
  /\ readset' # {}
  /\ pc' = "read"
  /\ UNCHANGED <<why, options, call, inq, zray, nchild, kida, target, numbers,
                 queue, solo, children>>

(***************************************************************************)
(* queue_results for the readable child of highest number.  The read waits *)
(* for a whole record; a child that died before it wrote one ends the      *)
(* calling process.                                                        *)
(***************************************************************************)
QueueResults ==
  /\ pc = "read"
  /\ \E i \in readset :
       LET bq == NewEntry(kida[i].r1, kida[i].nr, Head(from[i]))
       IN  /\ Highest(i, readset) /\ from[i] # <<>>
           /\ out_bq' = QueueOutput(out_bq, bq, accumulate)
           /\ from' = [from EXCEPT ![i] = Tail(@)]
           /\ kida' = [kida EXCEPT ![i].nr = 0]
           /\ readset' = readset \ {i}
           /\ target' = i
  /\ pc' = IF readset' # {} THEN "read" ELSE IF Flushing THEN "next" ELSE "send"
  /\ UNCHANGED <<why, options, call, inq, zray, nchild, numbers, output_values,
                 solo, kid, to, sum, holds>>

(* A mutation of ReadFails: a short read counts as a black record. *)
ShortRead ==
  /\ pc = "read"
  /\ \E i \in readset :
       /\ Highest(i, readset) /\ from[i] = <<>> /\ kid[i] = "dead"
       /\ out_bq' = QueueOutput(out_bq,
                       NewEntry(kida[i].r1, kida[i].nr, BlackSum), accumulate)
       /\ kida' = [kida EXCEPT ![i].nr = 0]
       /\ readset' = readset \ {i} /\ target' = i
  /\ pc' = IF readset' # {} THEN "read" ELSE IF Flushing THEN "next" ELSE "send"
  /\ UNCHANGED <<why, options, call, inq, zray, nchild, numbers, output_values,
                 solo, children>>

ReadFails ==
  /\ pc = "read"
  /\ \E i \in readset :
       Highest(i, readset) /\ from[i] = <<>> /\ kid[i] = "dead"
  /\ Exit

(***************************************************************************)
(* end_children(0): close_processes closes the controller's ends of all    *)
(* pipes (they are closed where pc is "close") and waits for all children. *)
(* Records still in the queue stay there.                                  *)
(***************************************************************************)
Close ==
  /\ pc = "close"
  /\ \A i \in 0..(nchild - 1) : kid[i] \in {"done", "dead"}
  /\ kid' = [i \in Kids |-> "none"]
  /\ to' = [i \in Kids |-> <<>>] /\ from' = [i \in Kids |-> <<>>]
  /\ sum' = [i \in Kids |-> BlackSum] /\ holds' = [i \in Kids |-> {}]
  /\ nchild' = 0
  /\ pc' = "idle"
  /\ UNCHANGED <<why, options, call, inq, zray, kida, readset, target, numbers,
                 queue, solo>>

-----------------------------------------------------------------------------
(***************************************************************************)
(* A child: rcontrib_call with control 0.  It sums rays; after a ray with  *)
(* -c 1, and after a direction that normalize() finds to be zero, it has a *)
(* record to write.                                                        *)
(***************************************************************************)
IsZeroItem(item) == item = Terminator \/ Kind(item) # "ray"

Alive(i) == kid[i] \in {"start", "run", "write"}

(* A mutation of KidStarts: it goes on with what it has inherited. *)
KidStartsSharing(i) ==
  /\ kid[i] = "start" /\ kid' = [kid EXCEPT ![i] = "run"]
  /\ UNCHANGED <<pc, why, options, call, inq, zray, nchild, kida, readset,
                 target, numbers, queue, solo, to, from, sum, holds>>

(* in_rchild2 in the child: "don't share other pipes". *)
KidStarts(i) ==
  /\ kid[i] = "start" /\ kid' = [kid EXCEPT ![i] = "run"]
  /\ holds' = [holds EXCEPT ![i] = {}]
  /\ UNCHANGED <<pc, why, options, call, inq, zray, nchild, kida, readset,
                 target, numbers, queue, solo, to, from, sum>>

KidReads(i) ==
  /\ kid[i] = "run" /\ to[i] # <<>>
  /\ to' = [to EXCEPT ![i] = Tail(@)]
  /\ LET item == Head(to[i])
     IN  /\ sum' = IF IsZeroItem(item) THEN sum
                   ELSE [sum EXCEPT ![i] = AddSum(@, RaySum(item))]
         /\ kid' = IF IsZeroItem(item) \/ accumulate = 1
                   THEN [kid EXCEPT ![i] = "write"] ELSE kid
  /\ UNCHANGED <<pc, why, options, call, inq, zray, nchild, kida, readset,
                 target, numbers, queue, solo, from, holds>>

(* A mutation of KidWrites: the sum is not cleared after it is written. *)
KidWritesOnly(i) ==
  /\ kid[i] = "write" /\ pc # "exit"
  /\ from' = [from EXCEPT ![i] = Append(@, sum[i])]
  /\ kid' = [kid EXCEPT ![i] = "run"]
  /\ UNCHANGED <<pc, why, options, call, inq, zray, nchild, kida, readset,
                 target, numbers, queue, solo, to, sum, holds>>

(* The record is complete in the pipe, and the child's sum cleared. *)
KidWrites(i) ==
  /\ kid[i] = "write" /\ pc # "exit"
  /\ from' = [from EXCEPT ![i] = Append(@, sum[i])]
  /\ sum' = [sum EXCEPT ![i] = BlackSum]
  /\ kid' = [kid EXCEPT ![i] = "run"]
  /\ UNCHANGED <<pc, why, options, call, inq, zray, nchild, kida, readset,
                 target, numbers, queue, solo, to, holds>>

(***************************************************************************)
(* The other ends of a child's pipes are all closed: the calling process   *)
(* has closed its own, or has exited, and no sibling has them open.        *)
(***************************************************************************)
Abandoned(i) ==
  pc \in {"close", "exit"} /\ \A k \in Kids : Alive(k) => i \notin holds[k]

(* Nobody reads the pipe any more: the record is lost, the child goes on.  *)
(* (A sibling that has it open does not read it: the pipe fills up.)       *)
KidBrokenPipe(i) ==
  /\ kid[i] = "write" /\ pc = "exit" /\ Abandoned(i)
  /\ sum' = [sum EXCEPT ![i] = BlackSum]
  /\ kid' = [kid EXCEPT ![i] = "run"]
  /\ UNCHANGED <<pc, why, options, call, inq, zray, nchild, kida, readset,
                 target, numbers, queue, solo, to, from, holds>>

(* End of input: the pipe is empty and nobody can write to it. *)
KidEnds(i) ==
  /\ kid[i] = "run" /\ to[i] = <<>> /\ Abandoned(i)
  /\ kid' = [kid EXCEPT ![i] = "done"]
  /\ UNCHANGED <<pc, why, options, call, inq, zray, nchild, kida, readset,
                 target, numbers, queue, solo, to, from, sum, holds>>

KidDies(i) ==
  /\ MayFail /\ Alive(i)
  /\ kid' = [kid EXCEPT ![i] = "dead"]
  /\ UNCHANGED <<pc, why, options, call, inq, zray, nchild, kida, readset,
                 target, numbers, queue, solo, to, from, sum, holds>>

-----------------------------------------------------------------------------
Inputs == UNION {[1..n -> Kinds] : n \in 0..MaxRows}

Request ==
  \/ \E n \in Nprocs, a \in Accumulates : Reinitialize(n, a)
  \/ \E rows \in Inputs : Call(rows)

Parent ==
  \/ Fork \/ SoloRay \/ SoloEnd
  \/ Feed \/ FeedEnd \/ Send \/ SendFails \/ Zero \/ ZeroRestart
  \/ PickFree \/ Wait \/ FlushEnd \/ Poll \/ Block
  \/ QueueResults \/ ReadFails \/ Close

Kid(i) ==
  KidStarts(i) \/ KidReads(i) \/ KidWrites(i) \/ KidBrokenPipe(i) \/ KidEnds(i)

Failure == ForkFails \/ Signalled \/ \E i \in Kids : KidDies(i)

(* No call is left to make, or the process is gone with its children. *)
AtRest ==
  /\ \/ pc = "idle" /\ calls = MaxCalls
     \/ pc = "exit" /\ \A i \in Kids : ~Alive(i)
  /\ UNCHANGED vars

Next == Request \/ Parent \/ (\E i \in Kids : Kid(i)) \/ Failure \/ AtRest

(***************************************************************************)
(* A process that can go on does.  Once the calling process is gone this   *)
(* is assumed of a child only until it has closed what it inherited: the   *)
(* rays it still has may take it any time.                                 *)
(***************************************************************************)
Fairness ==
  /\ WF_vars(Parent)
  /\ \A i \in Kids : WF_vars(Kid(i) /\ pc # "exit") /\ WF_vars(KidStarts(i))

Spec == Init /\ [][Next]_vars

FairSpec == Spec /\ Fairness

-----------------------------------------------------------------------------
(* The state space, and where the process can be. *)
ParentStates ==
  {"idle", "fork", "solo", "feed", "next", "poll", "block", "read", "send",
   "zero", "restart", "close", "exit"}

KidStates == {"none", "start", "run", "write", "done", "dead"}

(* Types of the variables the calling process and its children control. *)
TypeOK ==
  /\ pc \in ParentStates /\ why \in {"pick", "zero", "drain"}
  /\ nproc \in Nat \ {0} /\ accumulate \in Accumulates
  /\ vecs \in Seq(Kinds) /\ calls \in 0..MaxCalls /\ fed \in Nat
  /\ inq \in Seq(RayIds) /\ zray \in BOOLEAN
  /\ nchild \in 0..MAXPROCESS
  /\ kida \in [Kids -> [r1 : Nat, nr : Nat]]
  /\ readset \subseteq Kids /\ target \in Kids
  /\ lastray \in Nat /\ account \in Nat /\ cbin \in Sums(RayIds)
  /\ kid \in [Kids -> KidStates]
  /\ to \in [Kids -> Seq(Items)]
  /\ from \in [Kids -> Seq(Sums(RayIds))]
  /\ sum \in [Kids -> Sums(RayIds)]
  /\ holds \in [Kids -> SUBSET Kids]

(***************************************************************************)
(* What keeps controller and children in step, in parts.                   *)
(* The children forked so far are those numbered below nchild.             *)
(***************************************************************************)
Waiting(i) == to[i] = <<>> /\ from[i] = <<>> /\ sum[i] = BlackSum

ForkInv ==
  /\ pc = "fork" => nproc \in 2..MAXPROCESS /\ nchild < nproc
  /\ pc \in {"idle", "solo"} => nchild = 0
  /\ pc # "idle" => calls > 0
  /\ \A i \in Kids : i >= nchild => kid[i] = "none" /\ Waiting(i)
  /\ \A i \in Kids : i < nchild => kid[i] # "none"
  /\ \A i \in Kids : kid[i] = "done" => pc \in {"close", "exit"}

(* The batch holds rays only, and has room for one more when one is fed. *)
BatchInv ==
  /\ pc # "idle" => \A k \in 1..Len(inq) : Kind(inq[k]) = "ray"
  /\ pc \in {"feed", "fork"} => Len(inq) < QLimit
  /\ pc \in {"next", "poll", "block", "read", "send"} /\ why = "pick" =>
       Len(inq) \in 1..QLimit
  /\ pc \in {"send", "poll"} => why = "pick"
  /\ \/ pc \in {"zero", "restart"}
     \/ pc \in {"next", "poll", "block", "read"} /\ why = "zero"
     => inq = <<>>

(* Children are read while they work, and written to when they are free. *)
ReadInv ==
  /\ pc = "read" => readset \subseteq Busy
  /\ pc = "send" => target \in Free
  /\ pc = "close" => Busy = {}

(* What is left of an assignment in the pipe: its rays, and the terminator. *)
Ending == IF accumulate = 1 THEN 0 ELSE 1

Reading(i) ==
  /\ from[i] = <<>> /\ to[i] # <<>>
  /\ \A k \in 1..(Len(to[i]) - Ending) :
       to[i][k] # Terminator /\ Kind(to[i][k]) = "ray"
  /\ accumulate = 1 => Len(to[i]) = 1
  /\ accumulate > 1 => to[i][Len(to[i])] = Terminator
  /\ sum[i].n + Len(to[i]) - Ending = kida[i].nr

Delivered(i) == Len(from[i]) = 1 /\ from[i][1].n = kida[i].nr

(* A child is free, reads its assignment, writes its record, or wrote it. *)
KidInv(i) ==
  /\ kida[i].nr = 0 =>
       /\ kid[i] \in {"start", "run", "done", "dead"}
       /\ kid[i] # "dead" => Waiting(i)
  /\ kida[i].nr > 0 =>
       /\ kid[i] # "done"
       /\ kid[i] = "start" => Reading(i) /\ sum[i] = BlackSum
       /\ kid[i] = "run" =>
            \/ Reading(i)
            \/ to[i] = <<>> /\ sum[i] = BlackSum /\ Delivered(i)
       /\ kid[i] = "write" =>
            to[i] = <<>> /\ from[i] = <<>> /\ sum[i].n = kida[i].nr
       /\ kid[i] = "dead" => from[i] = <<>> \/ Delivered(i)

(***************************************************************************)
(* The record read from a child sums exactly as many rays as the           *)
(* controller will count for it (kida[i].nr), so that nadded is the number *)
(* of rays in an entry.                                                    *)
(***************************************************************************)
RecordMatchesAssignment ==
  \A i \in Busy : from[i] # <<>> => Delivered(i)

(***************************************************************************)
(* The inductive invariant: every child is in step with what the           *)
(* controller has noted of it, until the process exits.                    *)
(***************************************************************************)
InStep ==
  /\ ForkInv /\ BatchInv /\ ReadInv
  /\ pc # "exit" => \A i \in 0..(nchild - 1) : KidInv(i)
  /\ RecordMatchesAssignment

(***************************************************************************)
(* The child a batch is about to be written to waits for input: its pipes  *)
(* are empty and its sum is black, so the write cannot block and cannot    *)
(* mix with rays of another batch (rc3_mod.c's kida[i].nr is the only      *)
(* record of that).                                                        *)
(***************************************************************************)
SendsToWaitingChild ==
  pc = "send" => /\ kid[target] \in {"start", "run", "dead"}
                 /\ kid[target] # "dead" =>
                      to[target] = <<>> /\ from[target] = <<>>
                        /\ sum[target] = BlackSum

(***************************************************************************)
(* An assignment with its terminator is written atomically (MAXIQ rays are *)
(* PIPE_BUF bytes) and fits the array orgdir.                              *)
(***************************************************************************)
AssignmentFits == pc = "send" => Len(Assignment) \in 1..MAXIQ

(***************************************************************************)
(* Before it blocks for results the controller has output everything that  *)
(* can be output ("clear output before blocking", rc3_mod.c:381).          *)
(***************************************************************************)
ClearedBeforeBlocking ==
  pc = "block" => QueueReady(out_bq, lastdone, accumulate) = 0

(***************************************************************************)
(* Every ray numbered so far was output, waits in the queue, or is with a  *)
(* child; and those in the queue lie in the range of numbers not output.   *)
(***************************************************************************)
QueuedRays == SumFunction([k \in DOMAIN out_bq |-> out_bq[k].nadded])
AssignedRays == SumFunction([i \in Busy |-> kida[i].nr])

RaysAccountedFor ==
  pc \notin {"restart", "exit"} =>
    /\ lastray = lastdone + QueuedRays + AssignedRays
    /\ \A k \in DOMAIN out_bq :
         lastdone < out_bq[k].ndx /\ out_bq[k].ndx + out_bq[k].nadded - 1 <= lastray

(***************************************************************************)
(* The queue is sorted, and has at most one entry of a record.             *)
(***************************************************************************)
QueueSorted ==
  \A j, k \in DOMAIN out_bq : j < k =>
    /\ out_bq[j].ndx < out_bq[k].ndx
    /\ Group(out_bq[j].ndx, accumulate) # Group(out_bq[k].ndx, accumulate)

(***************************************************************************)
(* The answer of a row: the sum of its accumulate rays, each once; black   *)
(* for a row without direction.                                            *)
(***************************************************************************)
RowRays(r) == {<<calls, n>> : n \in ((r - 1) * accumulate + 1)..(r * accumulate)}

Answer(r) ==
  IF vecs[r] = "ray" THEN [rays |-> RowRays(r), n |-> accumulate] ELSE BlackSum

(***************************************************************************)
(* What the result array holds, for the specification of what is promised: *)
(* the row whose answer the k-th record is, 0 when it is not that of k.    *)
(***************************************************************************)
AnswerOf(k) ==
  IF k \in 1..Len(vecs) /\ output_values[k] = Answer(k) THEN k ELSE 0

Promise == INSTANCE RcontribPromise WITH
  status <- IF pc = "idle" THEN "idle" ELSE IF pc = "exit" THEN "exited" ELSE "busy",
  rows <- Len(vecs),
  answers <- [k \in DOMAIN output_values |-> AnswerOf(k)]

(***************************************************************************)
(* A call returns the answers of its rows, in order, each written once, or *)
(* the process exits; a call that has started ends, one way or the other.  *)
(***************************************************************************)
KeepsPromise == Promise!Spec

(***************************************************************************)
(* The returned array is the answers of the rows ("values: shape (N, M)    *)
(* result array", rcontrib.cpp:137).                                       *)
(***************************************************************************)
ReturnsAnswers ==
  pc = "idle" /\ calls > 0 =>
    /\ Len(output_values) = Len(vecs)
    /\ \A r \in 1..Len(vecs) : output_values[r] = Answer(r)

(***************************************************************************)
(* When the calling process has gone, a child ends if it goes on itself,   *)
(* whatever its siblings do: none of them keeps it waiting for input, or   *)
(* writing, because it has ends of its pipes open ("don't share other      *)
(* pipes", rc3_mod.c:531).  A sibling may be stuck in a ray for ever.      *)
(***************************************************************************)
ChildrenEnd ==
  \A i \in Kids : WF_vars(Kid(i)) => (pc = "exit" ~> ~Alive(i))
=============================================================================
