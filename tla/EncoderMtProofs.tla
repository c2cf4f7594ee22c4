--------------------------- MODULE EncoderMtProofs ---------------------------
(***************************************************************************)
(* Proofs about the threaded encoder of the Rust library, for any number   *)
(* of threads, any sizes, any failures and any use: it implements          *)
(* OrderedBlocks (ImplementsOrderedBlocks), even where a job is lost or a  *)
(* worker panics, and a flush ends on a Block boundary (FlushBoundary).    *)
(***************************************************************************)
EXTENDS EncoderMt, SequenceTheorems, TLAPS

AppPlaces    == {"app", "copy", "read", "error", "encode", "assign", "decide", "wait", "sleep",
                 "join", "ended", "aborted"}
ThreadPlaces == {"idle", "run", "full", "publish", "retire", "fail", "reset", "exited"}
Data         == Seq(1 .. Units)
MaybeChain   == Nat \cup {None}
WorkerType   == [command : {"Idle", "Run", "Finish", "Exit"}, input : Data,
                 outbuf : Int, filters : Int]
ThreadType   == [pc : ThreadPlaces, job : Int, filters : Int, content : Data]
BufferType   == [finished : BOOLEAN, size : Nat, content : Data, filters : Int]
RecordType   == [content : Data, filters : Int]

TypeInv ==
  /\ pc \in AppPlaces /\ action \in {"RUN"} \cup Flushes
  /\ pending \in {"RUN", "End", "Error"} \cup Flushes
  /\ sequence \in {"Header", "Block", "Index", "Footer"}
  /\ current_worker \in Worker \cup {None} /\ filters \in Nat
  /\ index \in Seq(RecordType) /\ outq \in Seq(BufferType)
  /\ free_workers \in Seq(Worker)
  /\ ws \in [Worker -> WorkerType] /\ wl \in [Worker -> ThreadType]
  /\ accepted \in Nat /\ avail \in Nat /\ accepted + avail <= Units
  /\ cuts \in Seq(Nat)

(* A call is in progress; the threads have not been told to exit.          *)
Calling == pc \notin {"app", "join", "ended", "aborted"}
Alive   == pc \notin {"join", "ended", "aborted"}

(* How far a call and the Stream have come.                                *)
Protocol ==
  /\ Calling => pending = action
  /\ Calling => (pc = "copy") = (sequence # "Block")
  /\ sequence \in {"Index", "Footer"} =>
       /\ action = "FINISH" /\ pending \in {"FINISH", "End"}
       /\ current_worker = None /\ outq = <<>> /\ Promise!LastCut = accepted /\ Len(index) = Len(cuts)
  /\ pc = "decide" /\ action # "RUN" => current_worker = None

(* The Block being fed, if any, is the only one that is not cut off yet.   *)
OpenBlock == IF current_worker = None THEN 0 ELSE 1
Boundary ==
  /\ Promise!LastCut \in Nat /\ Promise!LastCut <= accepted
  /\ Alive /\ (current_worker = None \/ pc = "assign") => Promise!LastCut = accepted
  /\ Alive /\ current_worker # None =>
       Promise!LastCut < accepted \/ (pc \in {"assign", "encode"} /\ avail > 0)
  /\ Alive /\ current_worker # None /\ pc # "assign" => Len(ws[current_worker].input) < BlockSize
  /\ \A w \in Worker : Len(ws[w].input) <= BlockSize
  /\ pc = "assign" => current_worker # None
  /\ Alive => Len(cuts) + OpenBlock <= Len(index) + Len(outq)
  /\ Alive /\ pending # "Error" => Len(cuts) + OpenBlock = Len(index) + Len(outq)

(* A worker that is offered, or about to be assigned, has nothing to do    *)
(* but perhaps to clear its last job.                                      *)
Rests(w) ==
  /\ ws[w].filters = None
  /\ wl[w].pc = "reset" \/ (wl[w].pc = "idle" /\ ws[w].command = "Idle")

Offered ==
  Alive =>
    /\ \A i, j \in DOMAIN free_workers : free_workers[i] = free_workers[j] => i = j
    /\ \A i \in DOMAIN free_workers :
         free_workers[i] # current_worker /\ Rests(free_workers[i])
    /\ pc = "assign" => Rests(current_worker)

(* A worker holds a job when it has been given one, or works on one.       *)
Busy(w)  == wl[w].pc \in {"run", "full", "publish"}
Holds(w) == Busy(w) \/ ws[w].filters # None

(* The input of the job: that of its Block, as far as it was accepted.     *)
JobEnd(w)  == IF w = current_worker THEN accepted ELSE cuts[ws[w].outbuf]
JobFits(w) ==
  /\ ws[w].outbuf \in Len(index) + 1 .. Len(index) + Len(outq)
  /\ ~outq[Place(ws[w].outbuf)].finished
  /\ ws[w].input = Promise!Interval(Promise!CutBefore(ws[w].outbuf), JobEnd(w))
  /\ w = current_worker  => ws[w].outbuf = Len(cuts) + 1 /\ ws[w].command = "Run"
  /\ w # current_worker => ws[w].outbuf \in 1 .. Len(cuts) /\ ws[w].command = "Finish"

ThreadFits(w) ==
  /\ ws[w].command # "Exit" /\ wl[w].pc # "exited"
  /\ ws[w].filters # None => wl[w].pc \in {"idle", "reset"}
  /\ Busy(w) => wl[w].job = ws[w].outbuf
  /\ wl[w].pc = "run" =>
       /\ Len(wl[w].content) <= Len(ws[w].input)
       /\ wl[w].content = SubSeq(ws[w].input, 1, Len(wl[w].content))
  /\ wl[w].pc = "publish" => wl[w].content = ws[w].input
  /\ wl[w].pc \in {"publish", "retire"} => w # current_worker

Working ==
  Alive =>
    /\ \A w \in Worker : ThreadFits(w) /\ (Holds(w) => JobFits(w))
    /\ \A v, w \in Worker : Holds(v) /\ Holds(w) /\ v # w => ws[v].outbuf # ws[w].outbuf

Exiting == pc \in {"join", "ended"} => \A w \in Worker : ws[w].command = "Exit"
Aborted == pc = "aborted" => \A w \in Worker : wl[w].pc = "exited"

(* What is written, to a buffer or to the output, is the Block of that     *)
(* number.                                                                 *)
Written ==
  /\ \A b \in DOMAIN index : b <= Len(cuts) /\ index[b].content = Promise!BlockData(b)
  /\ Alive => \A i \in DOMAIN outq : outq[i].finished =>
       /\ Len(index) + i <= Len(cuts)
       /\ outq[i].content = Promise!BlockData(Len(index) + i)

EncoderInv ==
  /\ TypeInv /\ Protocol /\ Boundary /\ Offered /\ Working /\ Exiting /\ Aborted /\ Written
  /\ FlushBoundary

-----------------------------------------------------------------------------
USE DEF None

(* Sequences.                                                              *)
LEMMA Updated ==
  ASSUME NEW S, NEW s \in Seq(S), NEW j, NEW e \in S
  PROVE  /\ [s EXCEPT ![j] = e] \in Seq(S) /\ Len([s EXCEPT ![j] = e]) = Len(s)
         /\ \A i \in DOMAIN s : [s EXCEPT ![j] = e][i] = IF i = j THEN e ELSE s[i]
  <1>1. PICK n \in Nat : s \in [1 .. n -> S]
    OBVIOUS
  <1>2. [s EXCEPT ![j] = e] \in [1 .. n -> S]
    BY <1>1
  <1> QED  BY <1>1, <1>2

LEMMA Appended ==
  ASSUME NEW S, NEW s \in Seq(S), NEW e \in S
  PROVE  /\ Append(s, e) \in Seq(S) /\ Len(Append(s, e)) = Len(s) + 1 /\ Append(s, e)[Len(s) + 1] = e
         /\ DOMAIN Append(s, e) = 1 .. Len(s) + 1 /\ DOMAIN s = 1 .. Len(s) /\ Len(s) \in Nat
         /\ \A i \in 1 .. Len(s) : Append(s, e)[i] = s[i]
  BY AppendProperties

LEMMA Popped ==
  ASSUME NEW S, NEW s \in Seq(S), s # <<>>
  PROVE  /\ Front(s) \in Seq(S) /\ Last(s) \in S /\ Last(s) = s[Len(s)] /\ Len(s) \in DOMAIN s
         /\ DOMAIN Front(s) \subseteq DOMAIN s /\ Len(s) \notin DOMAIN Front(s)
         /\ \A i \in DOMAIN Front(s) : Front(s)[i] = s[i]
  <1>1. PICK n \in Nat : n = Len(s) - 1
    OBVIOUS
  <1>2. n + 1 = Len(s) /\ DOMAIN s = 1 .. n + 1 /\ \A i \in 1 .. n : s[i] \in S
    BY <1>1
  <1>3. /\ SubSeq(s, 1, n) \in Seq(S) /\ Len(SubSeq(s, 1, n)) = IF 1 <= n THEN n - 1 + 1 ELSE 0
        /\ \A i \in 1 .. n - 1 + 1 : SubSeq(s, 1, n)[i] = s[1 + i - 1]
    <2>1. 1 \in Int /\ n \in Int /\ \A i \in 1 .. n : s[i] \in S
      BY <1>2
    <2> QED  BY <2>1, SubSeqProperties
  <1>4. Len(SubSeq(s, 1, n)) = n /\ \A i \in 1 .. n : SubSeq(s, 1, n)[i] = s[i]
    BY <1>3
  <1>5. Front(s) = SubSeq(s, 1, n)
    BY <1>1 DEF Front
  <1>6. DOMAIN Front(s) = 1 .. n
    BY <1>3, <1>4, <1>5
  <1>7. Last(s) = s[Len(s)] /\ s[Len(s)] \in S /\ Len(s) \in DOMAIN s
    BY <1>1 DEF Last
  <1> QED  BY <1>2, <1>3, <1>4, <1>5, <1>6, <1>7

LEMMA HeadGone ==
  ASSUME NEW S, NEW s \in Seq(S), s # <<>>
  PROVE  /\ Tail(s) \in Seq(S) /\ Len(Tail(s)) = Len(s) - 1 /\ Head(s) = s[1] /\ s[1] \in S
         /\ 1 \in DOMAIN s /\ DOMAIN Tail(s) = 1 .. Len(s) - 1 /\ DOMAIN s = 1 .. Len(s) /\ Len(s) \in Nat
         /\ \A i \in 1 .. Len(s) - 1 : Tail(s)[i] = s[i + 1]
  BY HeadTailProperties

(* A prefix of a sequence; one that is continued; all of it.               *)
LEMMA Prefix ==
  ASSUME NEW S, NEW s \in Seq(S), NEW n \in 0 .. Len(s)
  PROVE  /\ SubSeq(s, 1, n) \in Seq(S) /\ Len(SubSeq(s, 1, n)) = n
         /\ \A i \in 1 .. n : SubSeq(s, 1, n)[i] = s[i]
  <1>1. \A i \in 1 .. n : s[i] \in S
    OBVIOUS
  <1>2. /\ SubSeq(s, 1, n) \in Seq(S) /\ Len(SubSeq(s, 1, n)) = IF 1 <= n THEN n - 1 + 1 ELSE 0
        /\ \A i \in 1 .. n - 1 + 1 : SubSeq(s, 1, n)[i] = s[1 + i - 1]
    <2>1. 1 \in Int /\ n \in Int
      OBVIOUS
    <2> QED  BY <1>1, <2>1, SubSeqProperties
  <1> QED  BY <1>2

LEMMA Continued ==
  ASSUME NEW S, NEW s \in Seq(S), NEW m \in Nat, NEW n \in Nat, NEW l \in 0 .. Len(s), l = m + n
  PROVE  SubSeq(s, 1, m) \o SubSeq(s, m + 1, l) = SubSeq(s, 1, l)
  <1>1. PICK a : a = SubSeq(s, 1, m)
    OBVIOUS
  <1>2. a \in Seq(S) /\ Len(a) = m /\ \A i \in 1 .. m : a[i] = s[i]
    BY <1>1, Prefix
  <1>3. PICK b : b = SubSeq(s, m + 1, l)
    OBVIOUS
  <1>4. b \in Seq(S) /\ Len(b) = n /\ \A i \in 1 .. n : b[i] = s[m + i]
    <2>1. \A i \in m + 1 .. l : s[i] \in S
      OBVIOUS
    <2>2. m + 1 \in Int /\ l \in Int
      OBVIOUS
    <2>3. /\ b \in Seq(S) /\ Len(b) = IF m + 1 <= l THEN l - (m + 1) + 1 ELSE 0
          /\ \A i \in 1 .. l - (m + 1) + 1 : b[i] = s[m + 1 + i - 1]
      BY <1>3, <2>1, <2>2, SubSeqProperties
    <2> QED  BY <2>3
  <1>5. PICK c : c = SubSeq(s, 1, l)
    OBVIOUS
  <1>6. c \in Seq(S) /\ Len(c) = l /\ \A i \in 1 .. l : c[i] = s[i]
    BY <1>5, Prefix
  <1>7. /\ a \o b \in Seq(S) /\ Len(a \o b) = m + n
        /\ \A i \in 1 .. m + n : (a \o b)[i] = IF i <= m THEN a[i] ELSE b[i - m]
    <2>1. ASSUME NEW x \in Seq(S), NEW y \in Seq(S)
          PROVE  /\ x \o y \in Seq(S) /\ Len(x \o y) = Len(x) + Len(y)
                 /\ \A i \in 1 .. Len(x) + Len(y) : (x \o y)[i] = IF i <= Len(x) THEN x[i] ELSE y[i - Len(x)]
      BY ONLY <2>1, ConcatProperties
    <2> QED  BY ONLY <1>2, <1>4, <2>1
  <1>8. ASSUME NEW i \in 1 .. l PROVE (a \o b)[i] = c[i]
    <2>1. CASE i <= m
      <3>1. i \in 1 .. m /\ i \in 1 .. m + n
        BY <2>1
      <3> QED  BY <1>2, <1>6, <1>7, <2>1, <3>1
    <2>2. CASE i > m
      <3>1. i - m \in 1 .. n /\ m + (i - m) = i
        BY <2>2
      <3>2. b[i - m] = s[m + (i - m)]
        BY <1>4, <3>1
      <3>3. (a \o b)[i] = b[i - m]
        BY <1>7, <2>2
      <3> QED  BY <1>6, <3>1, <3>2, <3>3
    <2>3. i \in Int /\ m \in Int
      OBVIOUS
    <2>4. i <= m \/ i > m
      BY ONLY <2>3
    <2> QED  BY <2>1, <2>2, <2>4
  <1>9. a \o b = c
    BY <1>6, <1>7, <1>8, SeqEqual
  <1> QED  BY <1>1, <1>3, <1>5, <1>9

LEMMA Everything == ASSUME NEW S, NEW s \in Seq(S) PROVE SubSeq(s, 1, Len(s)) = s
  <1>1. PICK n \in Nat : n = Len(s)
    OBVIOUS
  <1>2. PICK c : c = SubSeq(s, 1, n)
    OBVIOUS
  <1>3. c \in Seq(S) /\ Len(c) = n /\ \A i \in 1 .. n : c[i] = s[i]
    BY <1>1, <1>2, Prefix
  <1>4. c = s
    BY <1>1, <1>3, SeqEqual
  <1> QED  BY <1>1, <1>2, <1>4

(* A Block's units: how they are typed, and how more of them are added.    *)
LEMMA IntervalType ==
  ASSUME NEW m \in Nat, NEW n \in 0 .. Units, m <= n
  PROVE  Promise!Interval(m, n) \in Data /\ Len(Promise!Interval(m, n)) = n - m
  <1>1. PICK k \in Nat : k = n - m
    OBVIOUS
  <1>2. PICK s : s = [i \in 1 .. k |-> m + i]
    OBVIOUS
  <1>3. s \in [1 .. k -> 1 .. Units] /\ DOMAIN s = 1 .. k
    BY <1>1, <1>2, EncoderAssumption
  <1>4. s \in Seq(1 .. Units) /\ Len(s) = k
    <2>1. PICK U : U = 1 .. Units
      OBVIOUS
    <2>2. s \in [1 .. k -> U]
      BY <1>3, <2>1
    <2>3. s \in Seq(U) /\ Len(s) = k
      BY <1>3, <2>2
    <2> QED  BY <2>1, <2>3
  <1> QED  BY <1>1, <1>2, <1>4 DEF Promise!Interval, Data

LEMMA IntervalGrows ==
  ASSUME NEW m \in Nat, NEW a \in Nat, NEW n \in Nat, NEW b \in 0 .. Units, m <= a, b = a + n
  PROVE  Promise!Interval(m, a) \o [i \in 1 .. n |-> a + i] = Promise!Interval(m, b)
  <1>1. a \in 0 .. Units /\ m <= b
    BY EncoderAssumption
  <1>2. PICK s : s = Promise!Interval(m, a)
    OBVIOUS
  <1>3. s \in Seq(Nat) /\ Len(s) = a - m /\ \A i \in 1 .. a - m : s[i] = m + i
    <2>1. s = [i \in 1 .. a - m |-> m + i] /\ a - m \in Nat
      BY <1>2 DEF Promise!Interval
    <2>2. s \in [1 .. a - m -> Nat] /\ DOMAIN s = 1 .. a - m
      BY <2>1
    <2> QED  BY <2>1, <2>2
  <1>4. PICK t : t = [i \in 1 .. n |-> a + i]
    OBVIOUS
  <1>5. t \in Seq(Nat) /\ Len(t) = n /\ \A i \in 1 .. n : t[i] = a + i
    <2>1. t \in [1 .. n -> Nat] /\ DOMAIN t = 1 .. n
      BY <1>4
    <2> QED  BY <1>4, <2>1
  <1>6. PICK u : u = Promise!Interval(m, b)
    OBVIOUS
  <1>7. u \in Seq(Nat) /\ Len(u) = b - m /\ \A i \in 1 .. b - m : u[i] = m + i
    <2>1. u = [i \in 1 .. b - m |-> m + i] /\ b - m \in Nat
      BY <1>1, <1>6 DEF Promise!Interval
    <2>2. u \in [1 .. b - m -> Nat] /\ DOMAIN u = 1 .. b - m
      BY <2>1
    <2> QED  BY <2>1, <2>2
  <1>8. /\ s \o t \in Seq(Nat) /\ Len(s \o t) = Len(s) + Len(t)
        /\ \A i \in 1 .. Len(s) + Len(t) : (s \o t)[i] = IF i <= Len(s) THEN s[i] ELSE t[i - Len(s)]
    BY <1>3, <1>5, ConcatProperties
  <1>9. ASSUME NEW i \in 1 .. b - m PROVE (s \o t)[i] = u[i]
    <2>1. CASE i <= a - m
      BY <1>3, <1>5, <1>7, <1>8, <2>1
    <2>2. CASE i > a - m
      <3>1. i - (a - m) \in 1 .. n /\ a + (i - (a - m)) = m + i
        BY <2>2
      <3>2. t[i - (a - m)] = a + (i - (a - m))
        BY <1>5, <3>1
      <3> QED  BY <1>3, <1>5, <1>7, <1>8, <2>2, <3>1, <3>2, SMTT(30)
    <2>3. i <= a - m \/ i > a - m
      OBVIOUS
    <2> QED  BY <2>1, <2>2, <2>3
  <1>10. s \o t = u
    <2>1. PICK v : v = s \o t
      OBVIOUS
    <2>2. v \in Seq(Nat) /\ Len(v) = Len(u) /\ \A i \in 1 .. Len(v) : v[i] = u[i]
      <3>1. Len(s \o t) = b - m
        BY <1>3, <1>5, <1>8
      <3> QED  BY <1>7, <1>8, <1>9, <2>1, <3>1
    <2>3. v = u
      BY <1>7, <2>2, SeqEqual
    <2> QED  BY <2>1, <2>3
  <1> QED  BY <1>2, <1>4, <1>6, <1>10
-----------------------------------------------------------------------------
(* The state's shape and how far the call has come.                        *)

LEMMA IdleTypes == IdleWorker \in WorkerType /\ IdleThread \in ThreadType
  <1>1. <<>> \in Data
    BY DEF Data
  <1> QED  BY <1>1 DEF IdleWorker, IdleThread, WorkerType, ThreadType, ThreadPlaces

LEMMA InitInv == Init => EncoderInv
  <1> SUFFICES ASSUME Init PROVE EncoderInv
    OBVIOUS
  <1>1. TypeInv
    <2>1. free_workers \in Seq(Worker)
      <3>1. free_workers \in [1 .. Threads -> Worker]
        BY EncoderAssumption DEF Init, Worker
      <3>2. Threads \in Nat
        BY EncoderAssumption
      <3> QED  BY <3>1, <3>2
    <2>2. <<>> \in Seq(RecordType) /\ <<>> \in Seq(BufferType) /\ <<>> \in Seq(Nat)
      OBVIOUS
    <2>3. ws \in [Worker -> WorkerType] /\ wl \in [Worker -> ThreadType]
      BY IdleTypes DEF Init
    <2> QED  BY <2>1, <2>2, <2>3, EncoderAssumption DEF Init, TypeInv, AppPlaces
  <1>2. Promise!LastCut = 0 /\ Len(cuts) = 0 /\ Len(index) = 0 /\ Len(outq) = 0
    BY DEF Init, Promise!LastCut, Promise!CutBefore
  <1>3. \A w \in Worker : ws[w] = IdleWorker /\ wl[w] = IdleThread
    BY DEF Init
  <1>4. Protocol
    BY DEF Init, Protocol, Calling
  <1>5. Boundary
    <2>1. \A w \in Worker : Len(ws[w].input) = 0
      BY <1>3 DEF IdleWorker
    <2> QED  BY <1>2, <2>1, EncoderAssumption DEF Init, Boundary, OpenBlock
  <1>6. Offered
    <2>1. DOMAIN free_workers = 1 .. Threads /\ \A i \in 1 .. Threads : free_workers[i] = i - 1 /\ free_workers[i] \in Worker
      BY EncoderAssumption DEF Init, Worker
    <2>2. \A w \in Worker : Rests(w)
      BY <1>3 DEF Rests, IdleWorker, IdleThread
    <2>3. \A i, j \in 1 .. Threads : free_workers[i] = free_workers[j] => i = j
      BY <2>1
    <2>4. \A i \in 1 .. Threads : free_workers[i] # current_worker
      BY <2>1 DEF Init, Worker
    <2> QED  BY <2>1, <2>2, <2>3, <2>4 DEF Init, Offered
  <1>7. Working
    <2>1. \A w \in Worker : ThreadFits(w) /\ ~Holds(w)
      BY <1>3 DEF ThreadFits, Holds, Busy, IdleWorker, IdleThread
    <2> QED  BY <2>1 DEF Working
  <1>8. Written /\ Exiting /\ Aborted /\ FlushBoundary
    BY DEF Init, Written, Exiting, Aborted, FlushBoundary, Flushes
  <1> QED  BY <1>1, <1>4, <1>5, <1>6, <1>7, <1>8 DEF EncoderInv

(* A step of the application's thread that touches no worker, no buffer,   *)
(* no Block: it only moves on, or returns.                                 *)
blocks == <<current_worker, index, outq, free_workers, ws, wl, accepted, cuts>>
Quiet ==
  /\ UNCHANGED blocks /\ Alive /\ Alive' /\ pc # "assign" /\ pc' # "assign"

LEMMA QuietKeeps == EncoderInv /\ Quiet => (Offered /\ Working /\ Exiting /\ Aborted /\ Written)'
  <1> SUFFICES ASSUME EncoderInv, Quiet PROVE (Offered /\ Working /\ Exiting /\ Aborted /\ Written)'
    OBVIOUS
  <1>1. Offered'
    BY DEF Quiet, blocks, EncoderInv, Offered, Rests
  <1>2. Working'
    <2>1. \A w \in Worker : ThreadFits(w)' /\ (Holds(w)' => JobFits(w)')
      BY DEF Quiet, blocks, EncoderInv, Working, ThreadFits, Holds, Busy, JobFits, JobEnd, Place,
             Promise!Interval, Promise!CutBefore
    <2>2. \A v, w \in Worker : Holds(v)' /\ Holds(w)' /\ v # w => ws'[v].outbuf # ws'[w].outbuf
      BY DEF Quiet, blocks, EncoderInv, Working, Holds, Busy
    <2> QED  BY <2>1, <2>2 DEF Working
  <1>3. Written'
    BY DEF Quiet, blocks, EncoderInv, Written, Promise!BlockData, Promise!Interval, Promise!CutBefore
  <1>4. Exiting' /\ Aborted'
    BY DEF Quiet, Alive, Exiting, Aborted
  <1> QED  BY <1>1, <1>2, <1>3, <1>4

LEMMA SameCut == UNCHANGED cuts => Promise!LastCut' = Promise!LastCut
  BY DEF Promise!LastCut, Promise!CutBefore

-----------------------------------------------------------------------------
(* The application's thread, where it is quiet.                            *)

LEMMA CallStep == EncoderInv /\ Call => EncoderInv'
  <1> SUFFICES ASSUME EncoderInv, Call PROVE EncoderInv'
    OBVIOUS
  <1>1. Quiet /\ UNCHANGED <<sequence, blocks, filters>> /\ pc' \in {"read", "copy"}
    BY DEF Call, Quiet, blocks, Alive, coder, shared, hist
  <1>2. TypeInv'
    <2>1. avail' \in Nat /\ accepted + avail' <= Units
      BY EncoderAssumption DEF Call, EncoderInv, TypeInv
    <2>2. action' \in {"RUN"} \cup Flushes /\ pending' = action'
      BY EncoderAssumption DEF Call, EncoderInv, TypeInv, Flushes
    <2> QED  BY <1>1, <2>1, <2>2 DEF blocks, EncoderInv, TypeInv, AppPlaces
  <1>3. Promise!LastCut' = Promise!LastCut
    BY <1>1, SameCut DEF blocks
  <1>4. Protocol'
    BY <1>1, <1>3 DEF Call, blocks, EncoderInv, Protocol, Calling, TypeInv
  <1>5. Boundary'
    BY <1>1, <1>3 DEF Call, blocks, EncoderInv, Boundary, Alive, OpenBlock, TypeInv, Flushes
  <1>6. FlushBoundary'
    BY <1>1 DEF FlushBoundary
  <1> QED  BY <1>1, <1>2, <1>4, <1>5, <1>6, QuietKeeps DEF EncoderInv

LEMMA UpdateStep == EncoderInv /\ UpdateFilters => EncoderInv'
  <1> SUFFICES ASSUME EncoderInv, UpdateFilters PROVE EncoderInv'
    OBVIOUS
  <1>1. Quiet /\ UNCHANGED <<pc, action, pending, ret, avail, sequence, blocks>> /\ filters' = filters + 1
    BY DEF UpdateFilters, Quiet, blocks, Alive, app, shared, hist
  <1>2. TypeInv'
    BY <1>1 DEF blocks, EncoderInv, TypeInv
  <1>3. Promise!LastCut' = Promise!LastCut
    BY <1>1, SameCut DEF blocks
  <1>4. Protocol' /\ Boundary' /\ FlushBoundary'
    BY <1>1, <1>3 DEF blocks, EncoderInv, Protocol, Calling, Boundary, Alive, OpenBlock, FlushBoundary
  <1> QED  BY <1>1, <1>2, <1>4, QuietKeeps DEF EncoderInv

(* Where the thread goes within a call, and what it returns.               *)
LEMMA CopyStep == EncoderInv /\ CopyFixed => EncoderInv'
  <1> SUFFICES ASSUME EncoderInv, CopyFixed PROVE EncoderInv'
    OBVIOUS
  <1>0. pending = action /\ sequence # "Block" /\ sequence \in {"Header", "Index", "Footer"}
    BY DEF CopyFixed, EncoderInv, Protocol, Calling, TypeInv
  <1>1. Quiet /\ UNCHANGED <<action, avail, blocks, filters>> /\ pc = "copy" /\ pc' \in {"read", "copy", "app"}
    BY <1>0 DEF CopyFixed, Quiet, blocks, Alive, shared, hist, Return
  <1>2. TypeInv'
    BY <1>0, <1>1 DEF CopyFixed, Return, blocks, EncoderInv, TypeInv, AppPlaces
  <1>3. Promise!LastCut' = Promise!LastCut
    BY <1>1, SameCut DEF blocks
  <1>4. Protocol'
    <2>1. CASE space = 0
      BY <1>0, <1>1, <1>3, <2>1 DEF CopyFixed, Return, blocks, EncoderInv, Protocol, Calling, TypeInv
    <2>2. CASE space # 0 /\ sequence = "Header"
      BY <1>0, <1>1, <1>3, <2>2 DEF CopyFixed, blocks, EncoderInv, Protocol, Calling, TypeInv
    <2>3. CASE space # 0 /\ sequence = "Index"
      BY <1>0, <1>1, <1>3, <2>3 DEF CopyFixed, blocks, EncoderInv, Protocol, Calling, TypeInv
    <2>4. CASE space # 0 /\ sequence = "Footer"
      BY <1>0, <1>1, <1>3, <2>4 DEF CopyFixed, Return, blocks, EncoderInv, Protocol, Calling, TypeInv
    <2> QED  BY <1>0, <2>1, <2>2, <2>3, <2>4
  <1>5. Boundary'
    <2>1. pending # "Error" /\ pending' # "Error"
      <3>1. pending # "Error"
        BY <1>0 DEF EncoderInv, TypeInv, Flushes
      <3>2. pending' = pending \/ pending' \in {"End", "RUN"}
        BY <1>0 DEF CopyFixed, Return
      <3> QED  BY <3>1, <3>2
    <2> QED  BY <1>1, <1>3, <2>1 DEF blocks, EncoderInv, Boundary, Alive, OpenBlock
  <1>6. FlushBoundary'
    <2>1. ret' = "STREAM_END" /\ pc' = "app" => sequence = "Footer"
      BY <1>0, <1>1 DEF CopyFixed, Return
    <2>2. sequence = "Footer" => current_worker = None /\ Promise!LastCut = accepted /\ Len(index) = Len(cuts)
      BY DEF EncoderInv, Protocol
    <2>3. Promise!LastCut = accepted /\ accepted > 0 => Len(cuts) > 0 /\ Last(cuts) = accepted
      BY DEF EncoderInv, TypeInv, Promise!LastCut, Promise!CutBefore, Last
    <2> QED  BY <1>1, <2>1, <2>2, <2>3 DEF blocks, FlushBoundary
  <1> QED  BY <1>1, <1>2, <1>4, <1>5, <1>6, QuietKeeps DEF EncoderInv

LEMMA ErrorStep == EncoderInv /\ CheckError => EncoderInv'
  <1> SUFFICES ASSUME EncoderInv, CheckError PROVE EncoderInv'
    OBVIOUS
  <1>1. /\ Quiet /\ UNCHANGED <<action, avail, blocks, filters, sequence>> /\ pc = "error"
        /\ (pc' = "encode" /\ UNCHANGED pending) \/ (pc' = "app" /\ pending' = "Error" /\ ret' = "ERROR")
    BY DEF CheckError, Quiet, blocks, Alive, coder, shared, hist, Return
  <1>2. TypeInv'
    BY <1>1 DEF blocks, EncoderInv, TypeInv, AppPlaces
  <1>3. Promise!LastCut' = Promise!LastCut
    BY <1>1, SameCut DEF blocks
  <1>4. Protocol'
    BY <1>1, <1>3 DEF blocks, EncoderInv, Protocol, Calling, TypeInv
  <1>5. Boundary'
    BY <1>1, <1>3 DEF blocks, EncoderInv, Boundary, Alive, OpenBlock
  <1>6. FlushBoundary'
    BY <1>1 DEF FlushBoundary
  <1> QED  BY <1>1, <1>2, <1>4, <1>5, <1>6, QuietKeeps DEF EncoderInv

LEMMA FedStep == EncoderInv /\ FedAll => EncoderInv'
  <1> SUFFICES ASSUME EncoderInv, FedAll PROVE EncoderInv'
    OBVIOUS
  <1>1. Quiet /\ UNCHANGED <<action, avail, pending, blocks, filters, sequence>> /\ pc = "encode" /\ pc' = "decide"
    BY DEF FedAll, Quiet, blocks, Alive, app, coder, shared, hist
  <1>2. avail = 0 /\ (current_worker = None \/ action = "RUN")
    BY DEF FedAll, MoreToFeed, EncoderInv, TypeInv
  <1>3. TypeInv'
    BY <1>1 DEF blocks, EncoderInv, TypeInv, AppPlaces
  <1>4. Promise!LastCut' = Promise!LastCut
    BY <1>1, SameCut DEF blocks
  <1>5. Protocol'
    BY <1>1, <1>2, <1>4 DEF blocks, EncoderInv, Protocol, Calling, TypeInv
  <1>6. Boundary'
    BY <1>1, <1>2, <1>4 DEF blocks, EncoderInv, Boundary, Alive, OpenBlock
  <1>7. FlushBoundary'
    BY <1>1 DEF FlushBoundary
  <1> QED  BY <1>1, <1>3, <1>5, <1>6, <1>7, QuietKeeps DEF EncoderInv

(* With nothing open and nothing queued, every Block is in the Index.      *)
LEMMA DecideStep == EncoderInv /\ Decide => EncoderInv'
  <1> SUFFICES ASSUME EncoderInv, Decide PROVE EncoderInv'
    OBVIOUS
  <1>0. pending = action /\ sequence = "Block" /\ pc = "decide"
    BY DEF Decide, EncoderInv, Protocol, Calling
  <1>1. /\ Quiet /\ UNCHANGED <<action, avail, blocks, filters>>
        /\ \/ pc' = "app" /\ pending' = pending /\ ret' = "OK" /\ UNCHANGED sequence
           \/ /\ pc' = "app" /\ ret' = "STREAM_END" /\ UNCHANGED sequence
              /\ action \in {"FULL_BARRIER", "FULL_FLUSH"} /\ pending' = "RUN"
              /\ action = "FULL_FLUSH" => outq = <<>>
           \/ /\ pc' = "copy" /\ sequence' = "Index" /\ action = "FINISH" /\ outq = <<>> /\ UNCHANGED pending
           \/ pc' = "wait" /\ UNCHANGED <<pending, sequence>>
           \/ pc' = "app" /\ pending' = "Error" /\ ret' = "ERROR" /\ UNCHANGED sequence
    <2>1. UNCHANGED <<action, avail, blocks, filters>>
      BY DEF Decide, blocks, shared, hist
    <2>2. CASE avail = 0 /\ action = "RUN"
      BY <1>0, <2>1, <2>2 DEF Decide, Return, Quiet, Alive
    <2>3. CASE avail = 0 /\ action = "FULL_BARRIER"
      BY <1>0, <2>1, <2>3 DEF Decide, Return, Quiet, Alive
    <2>4. CASE avail = 0 /\ Drained /\ action = "FULL_FLUSH"
      BY <1>0, <2>1, <2>4 DEF Decide, Return, Quiet, Alive, Drained
    <2>5. CASE avail = 0 /\ Drained /\ action = "FINISH"
      BY <1>0, <2>1, <2>5 DEF Decide, Return, Quiet, Alive, Drained
    <2>6. CASE /\ ~(avail = 0 /\ action = "RUN") /\ ~(avail = 0 /\ action = "FULL_BARRIER")
               /\ ~(avail = 0 /\ Drained /\ action = "FULL_FLUSH")
               /\ ~(avail = 0 /\ Drained /\ action = "FINISH")
      BY <1>0, <2>1, <2>6 DEF Decide, Return, Quiet, Alive
    <2> QED  BY <2>2, <2>3, <2>4, <2>5, <2>6
  <1>2. TypeInv'
    BY <1>1 DEF blocks, EncoderInv, TypeInv, AppPlaces
  <1>3. Promise!LastCut' = Promise!LastCut
    BY <1>1, SameCut DEF blocks
  <1>4. action # "RUN" => current_worker = None /\ Promise!LastCut = accepted
    BY <1>0 DEF EncoderInv, Protocol, Boundary, Alive
  <1>5. action # "RUN" /\ outq = <<>> => Len(index) = Len(cuts)
    <2>1. action # "RUN" => Len(cuts) + OpenBlock = Len(index) + Len(outq) /\ OpenBlock = 0
      BY <1>0, <1>4 DEF EncoderInv, Boundary, Alive, OpenBlock, TypeInv, Flushes
    <2>2. outq = <<>> => Len(outq) = 0
      OBVIOUS
    <2>3. Len(index) \in Nat /\ Len(cuts) \in Nat
      BY DEF EncoderInv, TypeInv
    <2> QED  BY <2>1, <2>2, <2>3
  <1>6. Protocol'
    BY <1>0, <1>1, <1>3, <1>4, <1>5 DEF blocks, EncoderInv, Protocol, Calling
  <1>7. Boundary'
    <2>1. pending # "Error"
      BY <1>0 DEF EncoderInv, TypeInv, Flushes
    <2> QED  BY <1>0, <1>1, <1>3, <2>1 DEF blocks, EncoderInv, Boundary, Alive, OpenBlock
  <1>8. FlushBoundary'
    <2>1. Promise!LastCut = accepted /\ accepted > 0 => Len(cuts) > 0 /\ Last(cuts) = accepted
      BY DEF EncoderInv, TypeInv, Promise!LastCut, Promise!CutBefore, Last
    <2> QED  BY <1>1, <1>4, <1>5, <2>1 DEF blocks, FlushBoundary
  <1> QED  BY <1>1, <1>2, <1>6, <1>7, <1>8, QuietKeeps DEF EncoderInv

LEMMA WaitStep == EncoderInv /\ (Wait \/ TimeOut) => EncoderInv'
  <1> SUFFICES ASSUME EncoderInv, Wait \/ TimeOut PROVE EncoderInv'
    OBVIOUS
  <1>0. pc \in {"wait", "sleep"} /\ pending = action /\ sequence = "Block"
    BY DEF Wait, TimeOut, EncoderInv, Protocol, Calling
  <1>1. /\ Quiet /\ UNCHANGED <<action, avail, pending, blocks, filters, sequence>>
        /\ pc' \in {"sleep", "read"} \/ (pc' = "app" /\ ret' = "OK")
    BY <1>0 DEF Wait, TimeOut, Quiet, blocks, Alive, app, coder, shared, hist, Return
  <1>2. TypeInv'
    BY <1>1 DEF blocks, EncoderInv, TypeInv, AppPlaces
  <1>3. Promise!LastCut' = Promise!LastCut
    BY <1>1, SameCut DEF blocks
  <1>4. Protocol'
    BY <1>0, <1>1, <1>3 DEF blocks, EncoderInv, Protocol, Calling
  <1>5. Boundary'
    BY <1>0, <1>1, <1>3 DEF blocks, EncoderInv, Boundary, Alive, OpenBlock
  <1>6. FlushBoundary'
    BY <1>1 DEF FlushBoundary
  <1> QED  BY <1>1, <1>2, <1>4, <1>5, <1>6, QuietKeeps DEF EncoderInv

-----------------------------------------------------------------------------
(* The application's thread, where it reads, starts a Block and feeds it.  *)

(* Reading leaves the buffers alone or moves the first, which is finished, *)
(* to the Index.                                                           *)
HeadWritten ==
  /\ outq # <<>> /\ Head(outq).finished /\ outq' = Tail(outq)
  /\ index' = Append(index, [content |-> Head(outq).content, filters |-> Head(outq).filters])

LEMMA ReadCases ==
  ASSUME EncoderInv, ReadReady
  PROVE  /\ Alive /\ pc = "read" /\ pc' \in {"read", "error"} /\ pending = action /\ sequence = "Block"
         /\ UNCHANGED <<action, avail, pending, ret, sequence, current_worker, filters, free_workers,
                        ws, wl, accepted, cuts>>
         /\ UNCHANGED <<index, outq>> \/ HeadWritten
  <1>1. Alive /\ pc = "read" /\ pending = action /\ sequence = "Block"
    BY DEF ReadReady, Alive, EncoderInv, Protocol, Calling
  <1>2. UNCHANGED <<action, avail, pending, ret, sequence, current_worker, filters, free_workers, ws, wl, accepted, cuts>>
    BY DEF ReadReady, hist
  <1>3. pc' \in {"read", "error"} /\ (UNCHANGED <<index, outq>> \/ HeadWritten)
    BY DEF ReadReady, IsReadable, HeadWritten
  <1> QED  BY <1>1, <1>2, <1>3

LEMMA HeadWrittenKeeps ==
  ASSUME EncoderInv, HeadWritten, Alive, Alive', pc = "read",
         UNCHANGED <<current_worker, free_workers, ws, wl, accepted, cuts>>
  PROVE  /\ index' \in Seq(RecordType) /\ outq' \in Seq(BufferType)
         /\ Len(index') = Len(index) + 1 /\ Len(outq') = Len(outq) - 1
         /\ Len(index) \in Nat /\ Len(outq) \in Nat
         /\ Working' /\ Written'
  <1>0. TypeInv /\ Working /\ Written
    BY DEF EncoderInv
  <1>1. PICK n \in Nat : n = Len(index)
    BY <1>0 DEF TypeInv
  <1>2. PICK m \in Nat : m + 1 = Len(outq)
    <2>1. outq \in Seq(BufferType) /\ outq # <<>>
      BY <1>0 DEF TypeInv, HeadWritten
    <2>2. Len(outq) \in Nat /\ Len(outq) # 0
      BY <2>1
    <2> QED  BY <2>2
  <1>3. /\ outq' \in Seq(BufferType) /\ Len(outq') = m /\ Head(outq) = outq[1] /\ outq[1] \in BufferType
        /\ DOMAIN outq' = 1 .. m /\ DOMAIN outq = 1 .. m + 1 /\ \A i \in 1 .. m : outq'[i] = outq[i + 1]
    <2>1. outq \in Seq(BufferType) /\ outq # <<>> /\ outq' = Tail(outq)
      BY <1>0 DEF TypeInv, HeadWritten
    <2> QED  BY <1>2, <2>1, HeadGone
  <1>4. PICK r : r = [content |-> Head(outq).content, filters |-> Head(outq).filters]
    OBVIOUS
  <1>5. r \in RecordType /\ r.content = outq[1].content
    BY <1>3, <1>4 DEF BufferType, RecordType
  <1>6. /\ index' \in Seq(RecordType) /\ Len(index') = n + 1 /\ DOMAIN index' = 1 .. n + 1
        /\ index'[n + 1] = r /\ DOMAIN index = 1 .. n /\ \A b \in 1 .. n : index'[b] = index[b]
    <2>1. index \in Seq(RecordType) /\ index' = Append(index, r)
      BY <1>0, <1>4 DEF TypeInv, HeadWritten
    <2> QED  BY <1>1, <1>5, <2>1, Appended
  <1>7. outq[1].finished
    BY <1>3 DEF HeadWritten
  <1>8. Working'
    <2>1. ASSUME NEW w \in Worker, Holds(w) PROVE JobFits(w)'
      <3>1. JobFits(w)
        BY <1>0, <2>1 DEF Working
      <3>2. PICK j \in n + 1 .. n + (m + 1) : j = ws[w].outbuf /\ ~outq[j - n].finished
        BY <1>1, <1>2, <3>1 DEF JobFits, Place
      <3>3. j # n + 1
        BY <1>7, <3>2
      <3>4. j \in (n + 1) + 1 .. (n + 1) + m /\ j - (n + 1) \in 1 .. m /\ (j - (n + 1)) + 1 = j - n
        BY <3>2, <3>3
      <3>5. ~outq'[j - (n + 1)].finished
        BY <1>3, <3>2, <3>4
      <3>6. ws'[w].outbuf \in Len(index') + 1 .. Len(index') + Len(outq') /\ ~outq'[Place(ws[w].outbuf)'].finished
        BY <1>3, <1>6, <3>2, <3>4, <3>5 DEF Place
      <3> QED  BY <3>1, <3>6 DEF JobFits, JobEnd, Place, Promise!Interval, Promise!CutBefore
    <2>2. \A w \in Worker : ThreadFits(w)' /\ Holds(w)' = Holds(w)
      BY <1>0 DEF Working, ThreadFits, Holds, Busy
    <2>3. \A v, w \in Worker : Holds(v)' /\ Holds(w)' /\ v # w => ws'[v].outbuf # ws'[w].outbuf
      BY <1>0, <2>2 DEF Working
    <2> QED  BY <2>1, <2>2, <2>3 DEF Working
  <1>9. Written'
    <2>1. \A i \in 1 .. m + 1 : outq[i].finished => n + i <= Len(cuts) /\ outq[i].content = Promise!BlockData(n + i)
      BY <1>0, <1>1, <1>3 DEF Written
    <2>2. \A b \in 1 .. n : b <= Len(cuts) /\ index[b].content = Promise!BlockData(b)
      BY <1>0, <1>6 DEF Written
    <2>3. \A b \in Nat : Promise!BlockData(b)' = Promise!BlockData(b)
      BY DEF Promise!BlockData, Promise!Interval, Promise!CutBefore
    <2>4. ASSUME NEW b \in 1 .. n + 1 PROVE b <= Len(cuts') /\ index'[b].content = Promise!BlockData(b)'
      <3>1. CASE b \in 1 .. n
        BY <1>6, <2>2, <2>3, <3>1
      <3>2. CASE b = n + 1
        <4>1. 1 \in 1 .. m + 1
          OBVIOUS
        <4>2. n + 1 <= Len(cuts) /\ outq[1].content = Promise!BlockData(n + 1)
          BY <1>7, <2>1, <4>1
        <4> QED  BY <1>5, <1>6, <2>3, <3>2, <4>2
      <3> QED  BY <3>1, <3>2
    <2>5. ASSUME NEW i \in 1 .. m, outq'[i].finished
          PROVE  (n + 1) + i <= Len(cuts') /\ outq'[i].content = Promise!BlockData((n + 1) + i)'
      <3>1. i + 1 \in 1 .. m + 1 /\ n + (i + 1) = (n + 1) + i /\ (n + 1) + i \in Nat
        OBVIOUS
      <3> QED  BY <1>3, <2>1, <2>3, <2>5, <3>1
    <2> QED  BY <1>3, <1>6, <2>4, <2>5 DEF Written
  <1> QED  BY <1>1, <1>2, <1>3, <1>6, <1>8, <1>9

LEMMA ReadStep == EncoderInv /\ ReadReady => EncoderInv'
  <1> SUFFICES ASSUME EncoderInv, ReadReady PROVE EncoderInv'
    OBVIOUS
  <1>1. /\ Alive /\ pc = "read" /\ pc' \in {"read", "error"} /\ pending = action /\ sequence = "Block"
        /\ UNCHANGED <<action, avail, pending, ret, sequence, current_worker, filters, free_workers,
                       ws, wl, accepted, cuts>>
        /\ UNCHANGED <<index, outq>> \/ HeadWritten
    BY ReadCases
  <1>2. Alive'
    BY <1>1 DEF Alive
  <1>3. Promise!LastCut' = Promise!LastCut
    BY <1>1, SameCut
  <1>4. CASE UNCHANGED <<index, outq>>
    <2>1. Quiet
      BY <1>1, <1>2, <1>4 DEF Quiet, blocks
    <2>2. TypeInv' /\ Protocol' /\ Boundary' /\ FlushBoundary'
      BY <1>1, <1>3, <1>4 DEF EncoderInv, TypeInv, AppPlaces, Protocol, Calling, Boundary, Alive, OpenBlock, FlushBoundary
    <2> QED  BY <2>1, <2>2, QuietKeeps DEF EncoderInv
  <1>5. CASE HeadWritten
    <2>1. /\ index' \in Seq(RecordType) /\ outq' \in Seq(BufferType)
          /\ Len(index') = Len(index) + 1 /\ Len(outq') = Len(outq) - 1
          /\ Len(index) \in Nat /\ Len(outq) \in Nat
          /\ Working' /\ Written'
      BY <1>1, <1>2, <1>5, HeadWrittenKeeps
    <2>2. TypeInv'
      BY <1>1, <2>1 DEF EncoderInv, TypeInv, AppPlaces
    <2>3. Protocol' /\ FlushBoundary'
      BY <1>1, <1>3 DEF EncoderInv, Protocol, Calling, FlushBoundary
    <2>4. Boundary'
      <3>1. Len(index') + Len(outq') = Len(index) + Len(outq)
        BY <2>1
      <3> QED  BY <1>1, <1>3, <3>1 DEF EncoderInv, Boundary, Alive, OpenBlock
    <2>5. Offered'
      BY <1>1 DEF EncoderInv, Offered, Alive, Rests
    <2>6. Exiting' /\ Aborted'
      BY <1>1 DEF Exiting, Aborted
    <2> QED  BY <2>1, <2>2, <2>3, <2>4, <2>5, <2>6 DEF EncoderInv
  <1> QED  BY <1>1, <1>4, <1>5

(* A buffer is appended; no worker has a job for it yet.                   *)
LEMMA StartStep == EncoderInv /\ StartWorker => EncoderInv'
  <1> SUFFICES ASSUME EncoderInv, StartWorker PROVE EncoderInv'
    OBVIOUS
  <1>0. TypeInv /\ Working /\ Written /\ Offered
    BY DEF EncoderInv
  <1>1. /\ pc = "encode" /\ Alive /\ pending = action /\ sequence = "Block" /\ current_worker = None /\ avail > 0
        /\ UNCHANGED <<action, avail, pending, ret, sequence, filters, index, ws, wl, accepted, cuts>>
    BY DEF StartWorker, MoreToFeed, Alive, EncoderInv, Protocol, Calling, app, hist, TypeInv
  <1>3. Promise!LastCut' = Promise!LastCut
    BY <1>1, SameCut
  <1>4. CASE ~MayStart
    <2>0. pc' = "decide" /\ UNCHANGED <<outq, free_workers, current_worker>>
      BY <1>4 DEF StartWorker
    <2>1. Quiet
      BY <1>1, <2>0 DEF Quiet, blocks, Alive
    <2>2. TypeInv' /\ Protocol' /\ Boundary' /\ FlushBoundary'
      BY <1>1, <1>3, <2>0 DEF EncoderInv, TypeInv, AppPlaces, Protocol, Calling, Boundary, Alive, OpenBlock, FlushBoundary
    <2> QED  BY <2>1, <2>2, QuietKeeps DEF EncoderInv
  <1>5. CASE MayStart
    <2>0. /\ pc' = "assign" /\ free_workers # <<>> /\ current_worker' = Last(free_workers)
          /\ free_workers' = Front(free_workers) /\ outq' = Append(outq, NewBuf)
      BY <1>5 DEF StartWorker, MayStart, FreeAfterPop
    <2>1. PICK n \in Nat, m \in Nat : n = Len(index) /\ m = Len(outq)
      BY <1>0 DEF TypeInv
    <2>2. NewBuf \in BufferType /\ ~NewBuf.finished
      <3>1. <<>> \in Data
        BY DEF Data
      <3> QED  BY <3>1 DEF NewBuf, BufferType
    <2>3. PICK b \in BufferType : b = NewBuf /\ ~b.finished
      BY <2>2
    <2>4. /\ outq' \in Seq(BufferType) /\ Len(outq') = m + 1 /\ outq'[m + 1] = b
          /\ DOMAIN outq' = 1 .. m + 1 /\ DOMAIN outq = 1 .. m /\ \A i \in 1 .. m : outq'[i] = outq[i]
      <3>1. outq \in Seq(BufferType) /\ outq' = Append(outq, b)
        BY <1>0, <2>0, <2>3 DEF TypeInv
      <3> QED  BY <2>1, <3>1, Appended
    <2>5. PICK k \in DOMAIN free_workers :
            /\ k = Len(free_workers) /\ current_worker' = free_workers[k] /\ current_worker' \in Worker
            /\ free_workers' \in Seq(Worker) /\ DOMAIN free_workers' \subseteq DOMAIN free_workers
            /\ k \notin DOMAIN free_workers'
            /\ \A i \in DOMAIN free_workers' : free_workers'[i] = free_workers[i]
      <3>1. free_workers \in Seq(Worker)
        BY <1>0 DEF TypeInv
      <3> QED  BY <2>0, <3>1, Popped
    <2>6. current_worker' # None
      BY <2>5 DEF Worker
    <2>7. TypeInv'
      BY <1>0, <1>1, <2>0, <2>4, <2>5 DEF TypeInv, AppPlaces
    <2>8. Protocol' /\ FlushBoundary' /\ Exiting' /\ Aborted'
      BY <1>1, <1>3, <2>0 DEF EncoderInv, Protocol, Calling, FlushBoundary, Exiting, Aborted
    <2>9. Boundary'
      <3>1. pending # "Error"
        BY <1>1 DEF EncoderInv, TypeInv, Flushes
      <3>2. Len(cuts) = n + m /\ Promise!LastCut = accepted
        <4>1. Len(cuts) \in Nat
          BY <1>0 DEF TypeInv
        <4> QED  BY <1>1, <2>1, <3>1, <4>1 DEF EncoderInv, Boundary, OpenBlock
      <3> QED  BY <1>1, <1>3, <2>0, <2>1, <2>4, <2>6, <3>1, <3>2 DEF EncoderInv, Boundary, Alive, OpenBlock
    <2>10. Offered'
      <3>1. \A i, j \in DOMAIN free_workers : free_workers[i] = free_workers[j] => i = j
        BY <1>0, <1>1 DEF Offered
      <3>2. \A i \in DOMAIN free_workers : Rests(free_workers[i])
        BY <1>0, <1>1 DEF Offered
      <3>3. \A w \in Worker : Rests(w)' = Rests(w)
        BY <1>1 DEF Rests
      <3>4. \A i \in DOMAIN free_workers' : free_workers'[i] # current_worker' /\ free_workers'[i] \in Worker
        BY <2>5, <3>1
      <3>5. Rests(current_worker)' /\ (\A i \in DOMAIN free_workers : Rests(free_workers[i]))'
        <4>1. PICK w \in Worker : w = current_worker'
          BY <2>5
        <4>2. Rests(w)'
          BY <2>5, <3>2, <3>3, <4>1
        <4>3. Rests(current_worker)'
          BY <4>1, <4>2 DEF Rests
        <4>4. ASSUME NEW i \in DOMAIN free_workers'
              PROVE  ws'[free_workers'[i]].filters = None
                     /\ (wl'[free_workers'[i]].pc = "reset"
                         \/ (wl'[free_workers'[i]].pc = "idle" /\ ws'[free_workers'[i]].command = "Idle"))
          <5>1. PICK v \in Worker : v = free_workers[i] /\ v = free_workers'[i]
            BY <2>5, <3>4
          <5>2. Rests(v)
            BY <2>5, <3>2, <5>1
          <5> QED  BY <1>1, <5>1, <5>2 DEF Rests
        <4> QED  BY <4>3, <4>4 DEF Rests
      <3>6. \A i, j \in DOMAIN free_workers' : free_workers'[i] = free_workers'[j] => i = j
        BY <2>5, <3>1
      <3> QED  BY <3>4, <3>5, <3>6 DEF Offered, Rests
    <2>11. \A w \in Worker : Holds(w) => w # current_worker'
      BY <1>0, <1>1, <2>5 DEF Offered, Rests, Holds, Busy
    <2>12. Working'
      <3>1. ASSUME NEW w \in Worker, Holds(w) PROVE JobFits(w)'
        <4>1. JobFits(w) /\ w # current_worker' /\ w # current_worker
          BY <1>0, <1>1, <2>11, <3>1 DEF Working, Worker
        <4>2. PICK j \in n + 1 .. n + m : j = ws[w].outbuf /\ ~outq[j - n].finished
          BY <2>1, <4>1 DEF JobFits, Place
        <4>3. j \in n + 1 .. n + (m + 1) /\ j - n \in 1 .. m
          BY <4>2
        <4>4. ~outq'[j - n].finished
          BY <2>4, <4>2, <4>3
        <4>5. ws'[w].outbuf \in Len(index') + 1 .. Len(index') + Len(outq') /\ ~outq'[Place(ws[w].outbuf)'].finished
          BY <1>1, <2>1, <2>4, <4>2, <4>3, <4>4 DEF Place
        <4>6. UNCHANGED <<ws, cuts, accepted>>
          BY <1>1
        <4> QED  BY <4>1, <4>5, <4>6 DEF JobFits, JobEnd, Place, Promise!Interval, Promise!CutBefore
      <3>2. \A w \in Worker : Holds(w)' = Holds(w)
        BY <1>1 DEF Holds, Busy
      <3>3. ASSUME NEW w \in Worker PROVE ThreadFits(w)'
        <4>1. ThreadFits(w)
          BY <1>0, <1>1 DEF Working
        <4>2. wl[w].pc \in {"publish", "retire"} => w # current_worker'
          BY <1>0, <1>1, <2>5 DEF Offered, Rests
        <4> QED  BY <1>1, <4>1, <4>2 DEF ThreadFits, Busy
      <3>4. \A v, w \in Worker : Holds(v)' /\ Holds(w)' /\ v # w => ws'[v].outbuf # ws'[w].outbuf
        BY <1>0, <1>1, <3>2 DEF Working
      <3> QED  BY <3>1, <3>2, <3>3, <3>4 DEF Working
    <2>13. Written'
      <3>1. \A c \in Nat : Promise!BlockData(c)' = Promise!BlockData(c)
        BY <1>1 DEF Promise!BlockData, Promise!Interval, Promise!CutBefore
      <3>2. \A c \in DOMAIN index : c \in Nat
        BY <1>0 DEF TypeInv
      <3>3. \A c \in DOMAIN index' : c <= Len(cuts') /\ index'[c].content = Promise!BlockData(c)'
        BY <1>0, <1>1, <3>1, <3>2 DEF Written
      <3>4. \A i \in 1 .. m : outq[i].finished => n + i <= Len(cuts) /\ outq[i].content = Promise!BlockData(n + i)
        BY <1>0, <1>1, <2>1, <2>4 DEF Written
      <3>5. ASSUME NEW i \in 1 .. m + 1, outq'[i].finished
            PROVE  n + i <= Len(cuts') /\ outq'[i].content = Promise!BlockData(n + i)'
        <4>1. i # m + 1
          BY <2>3, <2>4, <3>5
        <4>2. i \in 1 .. m /\ n + i \in Nat
          BY <4>1
        <4> QED  BY <1>1, <2>4, <3>1, <3>4, <3>5, <4>2
      <3> QED  BY <1>1, <2>1, <2>4, <3>3, <3>5 DEF Written
    <2> QED  BY <2>7, <2>8, <2>9, <2>10, <2>12, <2>13 DEF EncoderInv
  <1> QED  BY <1>4, <1>5

(* What one more Block leaves as it is.                                    *)
LEMMA CutAdded ==
  ASSUME cuts \in Seq(Nat), NEW c \in Nat, cuts' = Append(cuts, c)
  PROVE  /\ cuts' \in Seq(Nat) /\ Len(cuts') = Len(cuts) + 1 /\ cuts'[Len(cuts) + 1] = c /\ Promise!LastCut' = c
         /\ \A b \in 1 .. Len(cuts) : cuts'[b] = cuts[b] /\ Promise!BlockData(b)' = Promise!BlockData(b)
         /\ \A b \in 1 .. Len(cuts) + 1 : Promise!CutBefore(b)' = Promise!CutBefore(b)
  <1>1. PICK n \in Nat : n = Len(cuts)
    OBVIOUS
  <1>2. /\ cuts' \in Seq(Nat) /\ Len(cuts') = n + 1 /\ cuts'[n + 1] = c
        /\ \A b \in 1 .. n : cuts'[b] = cuts[b]
    BY <1>1, Appended
  <1>3. ASSUME NEW b \in 1 .. n + 1 PROVE Promise!CutBefore(b)' = Promise!CutBefore(b)
    <2>1. b # 1 => b - 1 \in 1 .. n
      OBVIOUS
    <2> QED  BY <1>2, <2>1 DEF Promise!CutBefore
  <1>4. \A b \in 1 .. n : Promise!BlockData(b)' = Promise!BlockData(b)
    <2>1. \A b \in 1 .. n : b \in 1 .. n + 1
      OBVIOUS
    <2> QED  BY <1>2, <1>3, <2>1 DEF Promise!BlockData, Promise!Interval
  <1>5. Promise!LastCut' = c
    <2>1. Promise!LastCut' = IF n + 1 + 1 = 1 THEN 0 ELSE cuts'[n + 1 + 1 - 1]
      BY <1>2 DEF Promise!LastCut, Promise!CutBefore
    <2>2. n + 1 + 1 # 1 /\ n + 1 + 1 - 1 = n + 1
      OBVIOUS
    <2> QED  BY <1>2, <2>1, <2>2
  <1> QED  BY <1>1, <1>2, <1>3, <1>4, <1>5

(* Every Block in the Index has been cut off.                              *)
LEMMA IndexWithinCuts == EncoderInv => Len(index) <= Len(cuts) /\ Len(index) \in Nat /\ Len(cuts) \in Nat
  <1> SUFFICES ASSUME EncoderInv PROVE Len(index) <= Len(cuts) /\ Len(index) \in Nat /\ Len(cuts) \in Nat
    OBVIOUS
  <1>1. PICK n \in Nat, k \in Nat : n = Len(index) /\ DOMAIN index = 1 .. n /\ k = Len(cuts)
    BY DEF EncoderInv, TypeInv
  <1>2. \A b \in 1 .. n : b <= k
    BY <1>1 DEF EncoderInv, Written
  <1>3. n = 0 \/ n \in 1 .. n
    OBVIOUS
  <1> QED  BY <1>1, <1>2, <1>3

LEMMA AssignStep == EncoderInv /\ AssignWorker => EncoderInv'
  <1> SUFFICES ASSUME EncoderInv, AssignWorker PROVE EncoderInv'
    OBVIOUS
  <1>0. TypeInv /\ Working /\ Written /\ Offered /\ Boundary
    BY DEF EncoderInv
  <1>1. /\ pc = "assign" /\ Alive /\ pending = action /\ pending # "Error" /\ sequence = "Block"
        /\ UNCHANGED <<action, avail, sequence, filters, index, outq, free_workers, wl, accepted, cuts>>
    BY DEF AssignWorker, Alive, EncoderInv, Protocol, Calling, shared, hist, TypeInv, Flushes
  <1>2. Promise!LastCut' = Promise!LastCut
    BY <1>1, SameCut
  <1>3. PICK w \in Worker : w = current_worker /\ w # None
    BY <1>1 DEF EncoderInv, Boundary, TypeInv
  <1>4. Rests(w) /\ ~Holds(w)
    BY <1>0, <1>1, <1>3 DEF Offered, Rests, Holds, Busy
  <1>5. PICK n \in Nat, m \in Nat, k \in Nat :
          n = Len(index) /\ m = Len(outq) /\ k = Len(cuts) /\ DOMAIN outq = 1 .. m /\ n <= k
    BY IndexWithinCuts DEF EncoderInv, TypeInv
  <1>6. k + 1 = n + m /\ Promise!LastCut = accepted
    BY <1>0, <1>1, <1>3, <1>5 DEF Boundary, OpenBlock
  <1>7. CASE current_worker' = None /\ Return("ERROR") /\ UNCHANGED ws
    <2>1. pc' = "app" /\ pending' = "Error" /\ ret' = "ERROR" /\ Alive'
      BY <1>7 DEF Return, Alive
    <2>2. TypeInv'
      BY <1>0, <1>1, <1>7, <2>1 DEF TypeInv, AppPlaces
    <2>3. Protocol' /\ FlushBoundary' /\ Exiting' /\ Aborted'
      BY <1>1, <1>2, <2>1 DEF EncoderInv, Protocol, Calling, FlushBoundary, Exiting, Aborted
    <2>4. Boundary'
      BY <1>0, <1>1, <1>2, <1>5, <1>6, <1>7, <2>1 DEF Boundary, Alive, OpenBlock
    <2>5. Offered'
      <3>1. \A i \in DOMAIN free_workers : free_workers[i] # None
        <4>1. \A i \in DOMAIN free_workers : free_workers[i] \in Worker
          BY <1>0 DEF TypeInv
        <4> QED  BY <4>1 DEF Worker
      <3> QED  BY <1>0, <1>1, <1>7, <2>1, <3>1 DEF Offered, Rests
    <2>6. \A v \in Worker : v # current_worker' /\ (Holds(v) => v # current_worker)
      BY <1>3, <1>4, <1>7 DEF Worker
    <2>7. Working'
      <3>1. ASSUME NEW v \in Worker, Holds(v) PROVE JobFits(v)'
        <4>1. JobFits(v) /\ v # current_worker /\ v # current_worker'
          BY <1>0, <1>1, <2>6, <3>1 DEF Working
        <4> QED  BY <1>1, <1>7, <4>1 DEF JobFits, JobEnd, Place, Promise!Interval, Promise!CutBefore
      <3>2. \A v \in Worker : ThreadFits(v)' /\ Holds(v)' = Holds(v)
        BY <1>0, <1>1, <1>7, <2>6 DEF Working, ThreadFits, Holds, Busy
      <3> QED  BY <1>0, <1>1, <1>7, <3>1, <3>2 DEF Working
    <2>8. Written'
      BY <1>0, <1>1 DEF Written, Promise!BlockData, Promise!Interval, Promise!CutBefore
    <2> QED  BY <2>2, <2>3, <2>4, <2>5, <2>7, <2>8 DEF EncoderInv
  <1>8. CASE /\ pc' = "encode" /\ UNCHANGED <<pending, ret, current_worker>>
             /\ ws' = [ws EXCEPT ![current_worker] = [command |-> "Run", input |-> <<>>,
                          outbuf |-> Len(index) + Len(outq), filters |-> filters]]
    <2>1. PICK r : r = [command |-> "Run", input |-> <<>>, outbuf |-> Len(index) + Len(outq), filters |-> filters]
      OBVIOUS
    <2>2. /\ r \in WorkerType /\ r.command = "Run" /\ r.input = <<>> /\ r.outbuf = n + m
      <3>1. <<>> \in Data /\ filters \in Int /\ n + m \in Int
        BY <1>0 DEF Data, TypeInv
      <3> QED  BY <1>5, <2>1, <3>1 DEF WorkerType
    <2>3. ws'[w] = r /\ ws' \in [Worker -> WorkerType] /\ \A v \in Worker \ {w} : ws'[v] = ws[v]
      BY <1>0, <1>3, <1>8, <2>1, <2>2 DEF TypeInv
    <2>4. avail > 0
      BY <1>0, <1>1, <1>3, <1>6 DEF Boundary, TypeInv
    <2>5. Alive'
      BY <1>8 DEF Alive
    <2>6. TypeInv'
      BY <1>0, <1>1, <1>8, <2>3 DEF TypeInv, AppPlaces
    <2>7. Protocol' /\ FlushBoundary' /\ Exiting' /\ Aborted'
      BY <1>1, <1>2, <1>8 DEF EncoderInv, Protocol, Calling, FlushBoundary, Exiting, Aborted
    <2>8. Boundary'
      <3>1. Len(ws'[w].input) = 0
        BY <2>2, <2>3
      <3>2. \A v \in Worker : Len(ws'[v].input) <= BlockSize
        BY <1>0, <2>3, <3>1, EncoderAssumption DEF Boundary
      <3> QED  BY <1>0, <1>1, <1>2, <1>3, <1>6, <1>8, <2>4, <2>5, <3>1, <3>2, EncoderAssumption
               DEF Boundary, OpenBlock
    <2>9. Offered'
      <3>1. \A i \in DOMAIN free_workers : free_workers[i] \in Worker \ {w}
        BY <1>0, <1>1, <1>3 DEF TypeInv, Offered
      <3> QED  BY <1>0, <1>1, <1>8, <2>3, <3>1 DEF Offered, Rests
    <2>10. Working'
      <3>1. ASSUME NEW v \in Worker \ {w} PROVE ThreadFits(v)' /\ Holds(v)' = Holds(v) /\ (Holds(v) => JobFits(v)')
        <4>1. ThreadFits(v) /\ (Holds(v) => JobFits(v))
          BY <1>0, <1>1 DEF Working
        <4>2. UNCHANGED <<ws[v], wl, current_worker, index, outq, cuts, accepted>> /\ v # current_worker
          BY <1>1, <1>3, <1>8, <2>3
        <4> QED  BY <4>1, <4>2 DEF ThreadFits, Holds, Busy, JobFits, JobEnd, Place, Promise!Interval, Promise!CutBefore
      <3>2. JobFits(w)'
        <4>1. n + m \in n + 1 .. n + m /\ m \in 1 .. m /\ n + m - n = m
          BY <1>5, <1>6
        <4>2. ~outq[m].finished
          BY <1>0, <1>1, <1>5, <1>6, <4>1 DEF Written
        <4>3. Promise!Interval(Promise!CutBefore(n + m), accepted) = <<>>
          <5>1. Promise!CutBefore(n + m) = accepted /\ accepted - accepted = 0
            BY <1>0, <1>5, <1>6 DEF Promise!LastCut, TypeInv
          <5>2. \A i \in 1 .. 0 : FALSE
            OBVIOUS
          <5>3. [i \in 1 .. 0 |-> accepted + i] = <<>>
            BY <5>2
          <5> QED  BY <5>1, <5>3 DEF Promise!Interval
        <4>4. Promise!Interval(Promise!CutBefore(ws[w].outbuf), JobEnd(w))' = <<>>
          BY <1>1, <1>3, <1>8, <2>2, <2>3, <4>3 DEF JobEnd, Promise!Interval, Promise!CutBefore
        <4> QED  BY <1>1, <1>3, <1>5, <1>6, <1>8, <2>2, <2>3, <4>1, <4>2, <4>4 DEF JobFits, Place
      <3>3. ThreadFits(w)'
        <4>1. ws'[w].command = "Run" /\ wl' = wl /\ wl[w].pc \in {"idle", "reset"}
          BY <1>1, <1>4, <2>2, <2>3 DEF Rests
        <4> QED  BY <4>1 DEF ThreadFits, Busy
      <3>4. \A v \in Worker : Holds(v) /\ v # w => ws[v].outbuf \in 1 .. k
        BY <1>0, <1>1, <1>3, <1>5 DEF Working, JobFits
      <3>5. ASSUME NEW u \in Worker, NEW v \in Worker, Holds(u)', Holds(v)', u # v
            PROVE  ws'[u].outbuf # ws'[v].outbuf
        <4>1. CASE u = w
          <5>1. v \in Worker \ {w} /\ Holds(v)
            BY <3>1, <3>5, <4>1
          <5> QED  BY <1>6, <2>2, <2>3, <3>4, <4>1, <5>1
        <4>2. CASE v = w
          <5>1. u \in Worker \ {w} /\ Holds(u)
            BY <3>1, <3>5, <4>2
          <5> QED  BY <1>6, <2>2, <2>3, <3>4, <4>2, <5>1
        <4>3. CASE u # w /\ v # w
          <5>1. u \in Worker \ {w} /\ v \in Worker \ {w} /\ Holds(u) /\ Holds(v)
            BY <3>1, <3>5, <4>3
          <5> QED  BY <1>0, <1>1, <2>3, <3>5, <5>1 DEF Working
        <4> QED  BY <4>1, <4>2, <4>3
      <3>6. \A v \in Worker : ThreadFits(v)' /\ (Holds(v)' => JobFits(v)')
        BY <3>1, <3>2, <3>3
      <3> QED  BY <3>5, <3>6 DEF Working
    <2>11. Written'
      BY <1>0, <1>1 DEF Written, Alive, Promise!BlockData, Promise!Interval, Promise!CutBefore
    <2> QED  BY <2>6, <2>7, <2>8, <2>9, <2>10, <2>11 DEF EncoderInv
  <1> QED  BY <1>7, <1>8 DEF AssignWorker

(* What FeedWorker does to the worker it feeds.                            *)
Feeds(w, n, done) ==
  /\ ws' = [ws EXCEPT ![w].input = @ \o [i \in 1 .. n |-> accepted + i],
                      ![w].command = IF done THEN "Finish" ELSE @]
  /\ current_worker' = IF done THEN None ELSE w
  /\ avail' = avail - n /\ accepted' = accepted + n
  /\ cuts' = IF done THEN Append(cuts, accepted + n) ELSE cuts

LEMMA FeedCases ==
  ASSUME EncoderInv, FeedWorker
  PROVE  /\ pc = "encode" /\ Alive /\ pending = action /\ pending # "Error" /\ sequence = "Block"
         /\ UNCHANGED <<pc, action, pending, ret, sequence, filters, index, outq, free_workers, wl>>
         /\ \E w \in Worker, n \in Nat, done \in BOOLEAN :
              /\ w = current_worker /\ w # None /\ Feeds(w, n, done)
              /\ n <= avail /\ Len(ws[w].input) + n <= BlockSize
              /\ ~done => Len(ws[w].input) + n < BlockSize
              /\ Promise!LastCut < accepted + n
  <1>1. /\ pc = "encode" /\ Alive /\ pending = action /\ pending # "Error" /\ sequence = "Block"
        /\ UNCHANGED <<pc, action, pending, ret, sequence, filters, index, outq, free_workers, wl>>
    BY DEF FeedWorker, Alive, EncoderInv, Protocol, Calling, shared, TypeInv, Flushes
  <1>2. PICK w \in Worker : w = current_worker /\ w # None
    BY DEF FeedWorker, EncoderInv, TypeInv
  <1>3. PICK l \in Nat : l = Len(ws[w].input)
    BY DEF EncoderInv, TypeInv, WorkerType, Data
  <1>4. l < BlockSize /\ BlockSize \in Nat /\ avail \in Nat /\ accepted \in Nat /\ Promise!LastCut \in Nat
    BY <1>1, <1>2, <1>3, EncoderAssumption DEF EncoderInv, Boundary, TypeInv
  <1>5. PICK n : n = CopySize(BlockSize - l, avail)
    OBVIOUS
  <1>6. n \in Nat /\ n <= avail /\ l + n <= BlockSize /\ (n = 0 => avail = 0)
    BY <1>4, <1>5 DEF CopySize
  <1>7. PICK done \in BOOLEAN : done = ClosesBlock(l + n, avail - n)
    BY Zenon DEF ClosesBlock
  <1>8. ~done => l + n < BlockSize
    <2>1. ~done => ~ClosesBlock(l + n, avail - n)
      BY <1>7, Zenon
    <2>2. ~ClosesBlock(l + n, avail - n) => l + n # BlockSize
      BY DEF ClosesBlock
    <2>3. l + n <= BlockSize /\ l + n \in Nat /\ BlockSize \in Nat
      BY <1>4, <1>6
    <2> QED  BY ONLY <2>1, <2>2, <2>3
  <1>9. Promise!LastCut < accepted + n
    <2>1. Promise!LastCut <= accepted /\ (Promise!LastCut < accepted \/ avail > 0)
      BY <1>1, <1>2 DEF EncoderInv, Boundary
    <2> QED  BY <1>4, <1>6, <2>1
  <1>10. Feeds(w, n, done)
    BY <1>2, <1>3, <1>5, <1>7 DEF FeedWorker, Feeds
  <1> QED  BY <1>1, <1>2, <1>3, <1>6, <1>8, <1>9, <1>10

(* The worker fed, and all others.                                         *)
LEMMA FedWorker ==
  ASSUME TypeInv, NEW w \in Worker, NEW n \in Nat, NEW done \in BOOLEAN, Feeds(w, n, done), n <= avail
  PROVE  /\ ws' \in [Worker -> WorkerType] /\ \A v \in Worker \ {w} : ws'[v] = ws[v]
         /\ ws'[w].input = ws[w].input \o [i \in 1 .. n |-> accepted + i]
         /\ ws'[w].input \in Data /\ ws[w].input \in Data /\ Len(ws'[w].input) = Len(ws[w].input) + n
         /\ \A i \in 1 .. Len(ws[w].input) : ws'[w].input[i] = ws[w].input[i]
         /\ ws'[w].command = IF done THEN "Finish" ELSE ws[w].command
         /\ ws'[w].outbuf = ws[w].outbuf /\ ws'[w].filters = ws[w].filters
  <1>1. PICK r \in WorkerType : r = ws[w]
    BY DEF TypeInv
  <1>2. r.input \in Data /\ ws \in [Worker -> WorkerType]
    BY DEF TypeInv, WorkerType
  <1>3. PICK more : more = [i \in 1 .. n |-> accepted + i]
    OBVIOUS
  <1>4. more \in Data /\ Len(more) = n
    <2>1. \A i \in 1 .. n : accepted + i \in 1 .. Units
      BY EncoderAssumption DEF TypeInv
    <2>2. PICK U : U = 1 .. Units
      OBVIOUS
    <2>3. more \in [1 .. n -> U] /\ DOMAIN more = 1 .. n
      BY <1>3, <2>1, <2>2
    <2>4. more \in Seq(U) /\ Len(more) = n
      BY <2>3
    <2> QED  BY <2>2, <2>4 DEF Data
  <1>5. PICK s : s = r.input \o more
    OBVIOUS
  <1>6. s \in Data /\ Len(s) = Len(r.input) + n /\ \A i \in 1 .. Len(r.input) : s[i] = r.input[i]
    <2>1. /\ s \in Seq(1 .. Units) /\ Len(s) = Len(r.input) + Len(more)
          /\ \A i \in 1 .. Len(r.input) + Len(more) : s[i] = IF i <= Len(r.input) THEN r.input[i] ELSE more[i - Len(r.input)]
      BY <1>2, <1>4, <1>5, ConcatProperties DEF Data
    <2>2. Len(r.input) \in Nat
      BY <1>2 DEF Data
    <2> QED  BY <1>4, <2>1, <2>2 DEF Data
  <1>7. PICK c : c = IF done THEN "Finish" ELSE r.command
    OBVIOUS
  <1>8. c \in {"Idle", "Run", "Finish", "Exit"}
    BY <1>1, <1>7 DEF WorkerType
  <1>9. PICK k : k = [r EXCEPT !.input = s, !.command = c]
    OBVIOUS
  <1>10. k \in WorkerType /\ k.input = s /\ k.command = c /\ k.outbuf = r.outbuf /\ k.filters = r.filters
    BY <1>1, <1>6, <1>8, <1>9 DEF WorkerType
  <1>11. ws' = [ws EXCEPT ![w] = k]
    BY <1>1, <1>2, <1>3, <1>5, <1>7, <1>9 DEF Feeds
  <1>12. ws' \in [Worker -> WorkerType] /\ ws'[w] = k /\ \A v \in Worker \ {w} : ws'[v] = ws[v]
    BY <1>2, <1>10, <1>11
  <1> QED  BY <1>1, <1>2, <1>3, <1>5, <1>6, <1>7, <1>10, <1>12

(* The units fed continue the open Block, and no other Block changes.      *)
LEMMA FeedKeepsWorking ==
  ASSUME EncoderInv, Alive, Alive', pc # "assign",
         UNCHANGED <<index, outq, free_workers, wl>>,
         NEW w \in Worker, NEW n \in Nat, NEW done \in BOOLEAN, w = current_worker, Feeds(w, n, done),
         n <= avail
  PROVE  Working'
  <1>0. TypeInv /\ Working /\ Boundary
    BY DEF EncoderInv
  <1>1. /\ ws' \in [Worker -> WorkerType] /\ \A v \in Worker \ {w} : ws'[v] = ws[v]
        /\ ws'[w].input = ws[w].input \o [i \in 1 .. n |-> accepted + i]
        /\ ws'[w].input \in Data /\ ws[w].input \in Data /\ Len(ws'[w].input) = Len(ws[w].input) + n
        /\ \A i \in 1 .. Len(ws[w].input) : ws'[w].input[i] = ws[w].input[i]
        /\ ws'[w].command = IF done THEN "Finish" ELSE ws[w].command
        /\ ws'[w].outbuf = ws[w].outbuf /\ ws'[w].filters = ws[w].filters
    BY <1>0, FedWorker
  <1>2. PICK k \in Nat : k = Len(cuts) /\ cuts \in Seq(Nat)
    BY <1>0 DEF TypeInv
  <1>3. PICK c \in 0 .. Units : c = accepted + n
    BY <1>0, EncoderAssumption DEF TypeInv
  <1>4. /\ \A b \in 1 .. k : cuts'[b] = cuts[b]
        /\ \A b \in 1 .. k + 1 : Promise!CutBefore(b)' = Promise!CutBefore(b)
        /\ done => Len(cuts') = k + 1 /\ cuts'[k + 1] = c
        /\ ~done => Len(cuts') = k
    <2>1. CASE done
      <3>1. cuts' = Append(cuts, c) /\ c \in Nat
        BY <1>3, <2>1 DEF Feeds
      <3> QED  BY <1>2, <2>1, <3>1, CutAdded
    <2>2. CASE ~done
      <3>1. cuts' = cuts
        BY <2>2 DEF Feeds
      <3> QED  BY <1>2, <2>2, <3>1 DEF Promise!CutBefore
    <2> QED  BY <2>1, <2>2
  <1>5. /\ \A v \in Worker \ {w} : v # current_worker /\ v # current_worker'
        /\ w = current_worker' <=> ~done
        /\ accepted' = c
    BY <1>3 DEF Feeds, Worker
  <1>6. ASSUME NEW v \in Worker \ {w}, Holds(v) PROVE JobFits(v)'
    <2>1. JobFits(v)
      BY <1>0, <1>6 DEF Working
    <2>2. PICK j \in 1 .. k : j = ws[v].outbuf
      BY <1>2, <1>5, <2>1 DEF JobFits
    <2>3. j \in 1 .. k + 1 /\ j \in 1 .. Len(cuts')
      BY <1>4, <2>2
    <2>4. cuts'[j] = cuts[j] /\ Promise!CutBefore(j)' = Promise!CutBefore(j)
      BY <1>4, <2>2, <2>3
    <2>5. ws'[v] = ws[v] /\ v # current_worker /\ v # current_worker' /\ UNCHANGED <<index, outq>>
      BY <1>1, <1>5
    <2>6. JobEnd(v)' = JobEnd(v)
      BY <2>2, <2>4, <2>5 DEF JobEnd
    <2>7. Promise!CutBefore(ws[v].outbuf)' = Promise!CutBefore(ws[v].outbuf)
      BY <2>2, <2>4, <2>5 DEF Promise!CutBefore
    <2>8. Promise!Interval(Promise!CutBefore(ws[v].outbuf), JobEnd(v))' = ws[v].input
      BY <2>1, <2>6, <2>7 DEF JobFits, Promise!Interval
    <2>9. Place(ws[v].outbuf)' = Place(ws[v].outbuf)
      BY <2>5 DEF Place
    <2>10. ws[v].outbuf \in 1 .. Len(cuts') /\ ws[v].command = "Finish"
      BY <2>1, <2>2, <2>3, <2>5 DEF JobFits
    <2> QED  BY <2>1, <2>5, <2>8, <2>9, <2>10 DEF JobFits
  <1>7. ASSUME Holds(w) PROVE JobFits(w)'
    <2>1. JobFits(w) /\ ws[w].outbuf = k + 1 /\ ws[w].command = "Run"
      BY <1>0, <1>2, <1>7 DEF Working, JobFits
    <2>2. PICK m \in Nat : m = Promise!CutBefore(k + 1) /\ m <= accepted
      BY <1>0, <1>2 DEF Boundary, Promise!LastCut
    <2>3. ws[w].input = Promise!Interval(m, accepted)
      BY <2>1, <2>2 DEF JobFits, JobEnd
    <2>4. ws'[w].input = Promise!Interval(m, c)
      <3>1. PICK a \in Nat : a = accepted
        BY <1>0 DEF TypeInv
      <3>2. m <= a /\ c = a + n
        BY <1>3, <2>2, <3>1
      <3>3. Promise!Interval(m, a) \o [i \in 1 .. n |-> a + i] = Promise!Interval(m, c)
        BY <3>2, IntervalGrows
      <3> QED  BY <1>1, <2>3, <3>1, <3>3
    <2>5. k + 1 \in 1 .. k + 1
      OBVIOUS
    <2>6. Promise!CutBefore(k + 1)' = m
      BY <1>4, <2>2, <2>5
    <2>7. JobEnd(w)' = c
      BY <1>1, <1>4, <1>5, <2>1 DEF JobEnd
    <2>8. Promise!Interval(Promise!CutBefore(ws[w].outbuf), JobEnd(w))' = ws'[w].input
      <3>1. ws'[w].outbuf = k + 1
        BY <1>1, <2>1
      <3>2. Promise!CutBefore(ws[w].outbuf)' = m
        BY <2>6, <3>1 DEF Promise!CutBefore
      <3> QED  BY <2>4, <2>7, <3>2 DEF Promise!Interval
    <2>9. ws'[w].outbuf = k + 1 /\ ws'[w].command = (IF done THEN "Finish" ELSE "Run")
      BY <1>1, <2>1
    <2>10. done => k + 1 \in 1 .. Len(cuts')
      BY <1>4
    <2> QED  BY <1>1, <1>4, <1>5, <2>1, <2>8, <2>9, <2>10 DEF JobFits, Place
  <1>8. \A v \in Worker : Holds(v)' = Holds(v)
    BY <1>1 DEF Holds, Busy
  <1>9. ASSUME NEW v \in Worker PROVE ThreadFits(v)'
    <2>1. ThreadFits(v)
      BY <1>0 DEF Working
    <2>2. CASE v # w
      BY <1>1, <1>5, <2>1, <2>2 DEF ThreadFits, Busy
    <2>3. CASE v = w
      <3>1. wl[w].pc \notin {"publish", "retire"}
        BY <2>1, <2>3 DEF ThreadFits
      <3>2. ASSUME wl[w].pc = "run"
            PROVE  /\ Len(wl[w].content) <= Len(ws'[w].input)
                   /\ wl[w].content = SubSeq(ws'[w].input, 1, Len(wl[w].content))
        <4>1. PICK l \in Nat : l = Len(ws[w].input)
          BY <1>1 DEF Data
        <4>2. PICK p \in 0 .. l : p = Len(wl[w].content)
          <5>1. Len(wl[w].content) \in Nat
            BY <1>0, SMTT(30) DEF TypeInv, ThreadType, Data
          <5> QED  BY <2>1, <2>3, <3>2, <4>1, <5>1 DEF ThreadFits
        <4>3. PICK s, t : s = ws[w].input /\ t = ws'[w].input
          OBVIOUS
        <4>4. PICK U : U = 1 .. Units
          OBVIOUS
        <4>5. s \in Seq(U) /\ t \in Seq(U) /\ p \in 0 .. Len(s) /\ p \in 0 .. Len(t) /\ \A i \in 1 .. p : s[i] = t[i]
          BY <1>1, <4>1, <4>2, <4>3, <4>4 DEF Data
        <4>6. PICK a, b : a = SubSeq(s, 1, p) /\ b = SubSeq(t, 1, p)
          OBVIOUS
        <4>7. /\ a \in Seq(U) /\ b \in Seq(U) /\ Len(a) = p /\ Len(b) = p
              /\ \A i \in 1 .. p : a[i] = b[i]
          BY <4>5, <4>6, Prefix
        <4>8. a = b
          BY <4>7, SeqEqual
        <4> QED  BY <2>1, <2>3, <3>2, <4>2, <4>3, <4>5, <4>6, <4>8 DEF ThreadFits
      <3> QED  BY <1>1, <2>1, <2>3, <3>1, <3>2 DEF ThreadFits, Busy
    <2> QED  BY <2>2, <2>3
  <1>10. \A u, v \in Worker : Holds(u)' /\ Holds(v)' /\ u # v => ws'[u].outbuf # ws'[v].outbuf
    <2>1. \A v \in Worker : ws'[v].outbuf = ws[v].outbuf
      BY <1>1
    <2> QED  BY <1>0, <1>8, <2>1 DEF Working
  <1>11. \A v \in Worker : ThreadFits(v)' /\ (Holds(v)' => JobFits(v)')
    BY <1>6, <1>7, <1>8, <1>9
  <1> QED  BY <1>10, <1>11 DEF Working

LEMMA FeedStep == EncoderInv /\ FeedWorker => EncoderInv'
  <1> SUFFICES ASSUME EncoderInv, FeedWorker PROVE EncoderInv'
    OBVIOUS
  <1>0. TypeInv /\ Working /\ Written /\ Offered /\ Boundary
    BY DEF EncoderInv
  <1>1. /\ pc = "encode" /\ Alive /\ pending = action /\ pending # "Error" /\ sequence = "Block"
        /\ UNCHANGED <<pc, action, pending, ret, sequence, filters, index, outq, free_workers, wl>>
    BY FeedCases
  <1>2. PICK w \in Worker, n \in Nat, done \in BOOLEAN :
          /\ w = current_worker /\ w # None /\ Feeds(w, n, done)
          /\ n <= avail /\ Len(ws[w].input) + n <= BlockSize
          /\ ~done => Len(ws[w].input) + n < BlockSize
          /\ Promise!LastCut < accepted + n
    BY FeedCases
  <1>3. /\ ws' \in [Worker -> WorkerType] /\ \A v \in Worker \ {w} : ws'[v] = ws[v]
        /\ Len(ws'[w].input) = Len(ws[w].input) + n /\ Len(ws[w].input) \in Nat
        /\ ws'[w].command = IF done THEN "Finish" ELSE ws[w].command
        /\ ws'[w].filters = ws[w].filters
    BY <1>0, <1>2, FedWorker DEF Data
  <1>4. Alive'
    BY <1>1 DEF Alive
  <1>5. PICK k \in Nat : k = Len(cuts) /\ cuts \in Seq(Nat)
    BY <1>0 DEF TypeInv
  <1>6. PICK c \in Nat : c = accepted + n /\ accepted' = c /\ c + avail' <= Units /\ avail' \in Nat
    <2>1. accepted \in Nat /\ avail \in Nat /\ accepted + avail <= Units /\ Units \in Nat /\ n <= avail
      BY <1>0, <1>2, EncoderAssumption DEF TypeInv
    <2>2. accepted' = accepted + n /\ avail' = avail - n
      BY <1>2 DEF Feeds
    <2> QED  BY ONLY <2>1, <2>2, n \in Nat
  <1>7. /\ cuts' \in Seq(Nat)
        /\ \A b \in 1 .. k : Promise!BlockData(b)' = Promise!BlockData(b)
        /\ done => Len(cuts') = k + 1 /\ Promise!LastCut' = c /\ current_worker' = None
        /\ ~done => Len(cuts') = k /\ Promise!LastCut' = Promise!LastCut /\ current_worker' = w
    <2>1. CASE done
      <3>1. cuts' = Append(cuts, c) /\ current_worker' = None
        BY <1>2, <1>6, <2>1 DEF Feeds
      <3> QED  BY <1>5, <2>1, <3>1, CutAdded
    <2>2. CASE ~done
      <3>1. cuts' = cuts /\ current_worker' = w
        BY <1>2, <2>2 DEF Feeds
      <3> QED  BY <1>5, <2>2, <3>1, SameCut DEF Promise!BlockData, Promise!Interval, Promise!CutBefore
    <2> QED  BY <2>1, <2>2
  <1>8. TypeInv'
    BY <1>0, <1>1, <1>3, <1>6, <1>7 DEF TypeInv, AppPlaces
  <1>9. Protocol' /\ FlushBoundary' /\ Exiting' /\ Aborted'
    BY <1>1 DEF EncoderInv, Protocol, Calling, FlushBoundary, Exiting, Aborted
  <1>10. Boundary'
    <2>1. \A v \in Worker : Len(ws'[v].input) <= BlockSize
      BY <1>0, <1>2, <1>3 DEF Boundary
    <2>2. k + 1 = Len(index) + Len(outq)
      BY <1>0, <1>1, <1>2, <1>5 DEF Boundary, OpenBlock
    <2>3. Promise!LastCut \in Nat /\ Promise!LastCut < c
      BY <1>0, <1>2, <1>6 DEF Boundary
    <2>4. CASE done
      BY <1>1, <1>4, <1>6, <1>7, <2>1, <2>2, <2>4 DEF Boundary, OpenBlock
    <2>5. CASE ~done
      <3>1. current_worker' = w /\ w # None /\ Len(cuts') = k /\ Promise!LastCut' = Promise!LastCut
        BY <1>2, <1>7, <2>5
      <3>2. Len(ws'[w].input) < BlockSize
        BY <1>2, <1>3, <2>5
      <3>3. Promise!LastCut < c /\ Promise!LastCut \in Nat /\ Promise!LastCut <= c
        BY <2>3
      <3>4. OpenBlock' = 1
        BY <3>1 DEF OpenBlock
      <3>5. UNCHANGED <<pc, index, outq, pending>> /\ pc = "encode" /\ accepted' = c
        BY <1>1, <1>6
      <3> QED  BY <2>1, <2>2, <3>1, <3>2, <3>3, <3>4, <3>5 DEF Boundary
    <2> QED  BY <2>4, <2>5
  <1>11. Offered'
    <2>1. \A i \in DOMAIN free_workers : free_workers[i] \in Worker \ {w} /\ free_workers[i] # None
      <3>1. \A i \in DOMAIN free_workers : free_workers[i] \in Worker /\ free_workers[i] # w
        BY <1>0, <1>1, <1>2 DEF TypeInv, Offered
      <3> QED  BY <3>1 DEF Worker
    <2>2. current_worker' \in {None, w}
      BY <1>7
    <2> QED  BY <1>0, <1>1, <1>3, <2>1, <2>2 DEF Offered, Rests
  <1>12. Working'
    BY <1>1, <1>2, <1>4, FeedKeepsWorking
  <1>13. Written'
    <2>1. Len(cuts') >= k
      BY <1>7
    <2>2. PICK m \in Nat : m = Len(index) /\ DOMAIN index = 1 .. m /\ m <= k
      BY <1>5, IndexWithinCuts DEF EncoderInv, TypeInv
    <2>3. ASSUME NEW b \in 1 .. m PROVE b <= Len(cuts') /\ index'[b].content = Promise!BlockData(b)'
      <3>1. b \in 1 .. k /\ b \in DOMAIN index
        BY <2>2
      <3>2. b <= Len(cuts')
        BY <1>7, <3>1
      <3>3. index[b].content = Promise!BlockData(b)
        BY <1>0, <3>1 DEF Written
      <3>4. Promise!BlockData(b)' = Promise!BlockData(b)
        BY <1>7, <3>1
      <3> QED  BY <1>1, <3>2, <3>3, <3>4
    <2>4. ASSUME NEW i \in DOMAIN outq, outq[i].finished
          PROVE  m + i <= Len(cuts') /\ outq'[i].content = Promise!BlockData(m + i)'
      <3>1. m + i <= k /\ outq[i].content = Promise!BlockData(m + i) /\ i \in Nat \ {0}
        BY <1>0, <1>1, <1>5, <2>2, <2>4 DEF Written, TypeInv
      <3>2. m + i \in 1 .. k
        BY <3>1
      <3> QED  BY <1>1, <1>7, <2>1, <3>1, <3>2
    <2> QED  BY <1>1, <2>2, <2>3, <2>4 DEF Written
  <1> QED  BY <1>8, <1>9, <1>10, <1>11, <1>12, <1>13 DEF EncoderInv

-----------------------------------------------------------------------------
(* Shutting down: the workers are told to exit, and joined.                *)

LEMMA EndStep == EncoderInv /\ End => EncoderInv'
  <1> SUFFICES ASSUME EncoderInv, End PROVE EncoderInv'
    OBVIOUS
  <1>1. /\ pc' = "join" /\ ws' = [w \in Worker |-> [ws[w] EXCEPT !.command = "Exit"]]
        /\ UNCHANGED <<action, avail, pending, ret, sequence, current_worker, filters, index, outq,
                       free_workers, wl, accepted, cuts>>
    BY DEF End, app, coder, shared, hist
  <1>2. ASSUME NEW w \in Worker
        PROVE  ws'[w] \in WorkerType /\ ws'[w].command = "Exit" /\ ws'[w].input = ws[w].input
    <2>1. PICK r \in WorkerType : r = ws[w]
      BY DEF EncoderInv, TypeInv
    <2>2. ws'[w] = [r EXCEPT !.command = "Exit"]
      BY <1>1, <2>1
    <2> QED  BY <2>1, <2>2 DEF WorkerType
  <1>3. ws' \in [Worker -> WorkerType]
    <2>1. DOMAIN ws' = Worker /\ ws' = [w \in Worker |-> ws'[w]]
      BY <1>1
    <2> QED  BY <1>2, <2>1
  <1>4. TypeInv'
    BY <1>1, <1>3 DEF EncoderInv, TypeInv, AppPlaces
  <1>5. ~Alive' /\ ~Calling' /\ Promise!LastCut' = Promise!LastCut
    BY <1>1, SameCut DEF Alive, Calling
  <1>6. Protocol' /\ FlushBoundary' /\ Exiting' /\ Aborted'
    BY <1>1, <1>2, <1>5 DEF EncoderInv, Protocol, FlushBoundary, Exiting, Aborted
  <1>7. Boundary'
    BY <1>1, <1>2, <1>5 DEF EncoderInv, Boundary
  <1>8. Offered' /\ Working'
    BY <1>5 DEF Offered, Working
  <1>9. Written'
    BY <1>1, <1>5 DEF EncoderInv, Written, Promise!BlockData, Promise!Interval, Promise!CutBefore
  <1> QED  BY <1>4, <1>6, <1>7, <1>8, <1>9 DEF EncoderInv

LEMMA JoinStep == EncoderInv /\ Join => EncoderInv'
  <1> SUFFICES ASSUME EncoderInv, Join PROVE EncoderInv'
    OBVIOUS
  <1>1. /\ pc = "join" /\ pc' = "ended" /\ outq' = <<>>
        /\ UNCHANGED <<action, avail, pending, ret, sequence, current_worker, filters, index,
                       free_workers, ws, wl, accepted, cuts>>
    BY DEF Join, app, coder, hist
  <1>2. ~Alive' /\ ~Calling' /\ Promise!LastCut' = Promise!LastCut
    BY <1>1, SameCut DEF Alive, Calling
  <1>3. TypeInv'
    <2>1. <<>> \in Seq(BufferType)
      OBVIOUS
    <2> QED  BY <1>1, <2>1 DEF EncoderInv, TypeInv, AppPlaces
  <1>4. Protocol' /\ FlushBoundary' /\ Exiting' /\ Aborted' /\ Boundary' /\ Offered' /\ Working'
    BY <1>1, <1>2 DEF EncoderInv, Protocol, FlushBoundary, Exiting, Aborted, Boundary, Offered, Working
  <1>5. Written'
    <2>1. UNCHANGED <<index, cuts>> /\ ~Alive' /\ Written
      BY <1>1, <1>2 DEF EncoderInv
    <2>2. ASSUME NEW b PROVE Promise!BlockData(b)' = Promise!BlockData(b)
      BY <2>1 DEF Promise!BlockData, Promise!Interval, Promise!CutBefore
    <2> QED  BY ONLY <2>1, <2>2 DEF Written
  <1> QED  BY <1>3, <1>4, <1>5 DEF EncoderInv
-----------------------------------------------------------------------------
(* A worker's thread. What a step of it leaves alone.                      *)
Frame(w) ==
  /\ \A v \in Worker \ {w} : ws'[v] = ws[v] /\ wl'[v] = wl[v]
  /\ ws' \in [Worker -> WorkerType] /\ wl' \in [Worker -> ThreadType]
  /\ UNCHANGED <<action, avail, pending, ret, sequence, current_worker, filters, index, accepted, cuts>>
  /\ pc' = pc \/ (pc = "sleep" /\ pc' = "wait")
  /\ outq' \in Seq(BufferType) /\ Len(outq') = Len(outq)

(* Its input is kept or cleared, and a command to exit stays.              *)
LEMMA FrameKeeps ==
  ASSUME EncoderInv, NEW w \in Worker, Frame(w), free_workers' \in Seq(Worker), wl[w].pc # "exited",
         ws'[w].input = ws[w].input \/ Len(ws'[w].input) = 0,
         ws[w].command = "Exit" => ws'[w].command = "Exit"
  PROVE  /\ TypeInv' /\ Protocol' /\ Boundary' /\ Exiting' /\ Aborted' /\ FlushBoundary'
         /\ Alive' = Alive /\ (pc' = "assign" <=> pc = "assign")
  <1>0. TypeInv /\ Boundary /\ Protocol
    BY DEF EncoderInv
  <1>1. UNCHANGED <<action, avail, pending, ret, sequence, current_worker, filters, index, accepted, cuts>>
    BY DEF Frame
  <1>2. pc # "aborted" /\ (pc' = pc \/ (pc = "sleep" /\ pc' = "wait"))
    BY DEF Frame, EncoderInv, Aborted
  <1>3. Promise!LastCut' = Promise!LastCut
    BY <1>1, SameCut
  <1>4. Alive' = Alive /\ (pc' = "assign" <=> pc = "assign") /\ (Calling' <=> Calling)
    BY <1>2 DEF Alive, Calling
  <1>5. TypeInv'
    BY <1>0, <1>1, <1>2 DEF Frame, TypeInv, AppPlaces
  <1>6. Protocol'
    <2>1. outq = <<>> => outq' = <<>>
      <3>1. outq = <<>> => Len(outq') = 0
        BY DEF Frame
      <3>2. Len(outq') = 0 => outq' = <<>>
        BY DEF Frame
      <3> QED  BY <3>1, <3>2
    <2> QED  BY <1>0, <1>1, <1>2, <1>3, <1>4, <2>1 DEF Protocol
  <1>7. Boundary'
    <2>1. \A v \in Worker : ws'[v].input = ws[v].input \/ Len(ws'[v].input) = 0
      BY DEF Frame
    <2>2. \A v \in Worker : Len(ws'[v].input) <= BlockSize
      BY <1>0, <2>1, EncoderAssumption DEF Boundary
    <2>3. Alive /\ current_worker # None /\ pc # "assign" => Len(ws'[current_worker].input) < BlockSize
      BY <1>0, <2>1, EncoderAssumption DEF Boundary, TypeInv
    <2>4. Len(outq') = Len(outq) /\ OpenBlock' = OpenBlock
      BY <1>1 DEF Frame, OpenBlock
    <2>5. pc \in {"assign", "encode"} => pc' = pc
      BY <1>2
    <2> QED  BY <1>0, <1>1, <1>3, <1>4, <2>2, <2>3, <2>4, <2>5 DEF Boundary
  <1>8. Exiting' /\ Aborted' /\ FlushBoundary'
    BY <1>1, <1>2 DEF EncoderInv, Exiting, Aborted, FlushBoundary, Frame
  <1> QED  BY <1>4, <1>5, <1>6, <1>7, <1>8

(* If it rested, it still rests.                                           *)
LEMMA FreeKeeps ==
  ASSUME EncoderInv, NEW w \in Worker, Frame(w), UNCHANGED free_workers,
         Alive' = Alive, pc' = "assign" <=> pc = "assign", Alive /\ Rests(w) => Rests(w)'
  PROVE  Offered'
  <1>0. TypeInv /\ Offered /\ UNCHANGED <<free_workers, current_worker>>
    BY DEF EncoderInv, Frame
  <1>1. \A v \in Worker : Alive /\ Rests(v) => Rests(v)'
    BY DEF Frame, Rests
  <1>2. ASSUME Alive PROVE Offered'
    <2>1. \A i \in DOMAIN free_workers : free_workers[i] \in Worker /\ Rests(free_workers[i])
      BY <1>0, <1>2 DEF TypeInv, Offered
    <2>2. \A i \in DOMAIN free_workers : Rests(free_workers[i])'
      <3>1. ASSUME NEW i \in DOMAIN free_workers PROVE Rests(free_workers[i])'
        <4>1. PICK v \in Worker : v = free_workers[i] /\ Rests(v)
          BY <2>1
        <4>2. Rests(v)' /\ free_workers'[i] = v
          BY <1>0, <1>1, <1>2, <4>1
        <4> QED  BY <4>2 DEF Rests
      <3> QED  BY <3>1
    <2>3. pc = "assign" => Rests(current_worker)'
      <3>1. ASSUME pc = "assign" PROVE Rests(current_worker)'
        <4>1. PICK v \in Worker : v = current_worker /\ Rests(v)
          BY <1>0, <1>2, <3>1 DEF EncoderInv, Boundary, Offered, TypeInv
        <4>2. Rests(v)' /\ current_worker' = v
          BY <1>0, <1>1, <1>2, <4>1
        <4> QED  BY <4>2 DEF Rests
      <3> QED  BY <3>1
    <2>4. \A i \in DOMAIN free_workers' : Rests(free_workers[i])'
      BY <1>0, <2>2
    <2> QED  BY <1>0, <1>2, <2>3, <2>4 DEF Offered
  <1> QED  BY <1>2 DEF Offered

(* The jobs of all others stay as they are, if their buffers do.           *)
LEMMA JobsKeep ==
  ASSUME EncoderInv, NEW w \in Worker, Frame(w), Alive' = Alive,
         Alive => \A v \in Worker \ {w} : Holds(v) => ~outq'[Place(ws[v].outbuf)].finished,
         Alive => ThreadFits(w)',
         Alive /\ Holds(w)' => Holds(w) /\ JobFits(w)' /\ ws'[w].outbuf = ws[w].outbuf
  PROVE  Working'
  <1>1. ASSUME Alive PROVE Working'
    <2>0. Working
      BY DEF EncoderInv
    <2>1. ASSUME NEW v \in Worker \ {w} PROVE ThreadFits(v)' /\ (Holds(v)' <=> Holds(v)) /\ ws'[v] = ws[v]
      <3>1. ThreadFits(v)
        BY <1>1, <2>0 DEF Working
      <3>2. ws'[v] = ws[v] /\ wl'[v] = wl[v] /\ UNCHANGED current_worker
        BY DEF Frame
      <3> QED  BY <3>1, <3>2 DEF ThreadFits, Holds, Busy
    <2>2. ASSUME NEW v \in Worker \ {w}, Holds(v) PROVE JobFits(v)'
      <3>1. JobFits(v) /\ ~outq'[Place(ws[v].outbuf)].finished
        BY <1>1, <2>0, <2>2 DEF Working
      <3>2. ws'[v] = ws[v] /\ Len(outq') = Len(outq) /\ UNCHANGED <<current_worker, index, accepted, cuts>>
        BY DEF Frame
      <3>3. JobEnd(v)' = JobEnd(v) /\ Place(ws[v].outbuf)' = Place(ws[v].outbuf)
        BY <3>2 DEF JobEnd, Place
      <3>4. Promise!Interval(Promise!CutBefore(ws[v].outbuf), JobEnd(v))' = ws[v].input
        BY <3>1, <3>2, <3>3 DEF JobFits, Promise!Interval, Promise!CutBefore
      <3> QED  BY <3>1, <3>2, <3>3, <3>4 DEF JobFits
    <2>3. \A v \in Worker : ThreadFits(v)' /\ (Holds(v)' => JobFits(v)')
      BY <1>1, <2>1, <2>2
    <2>4. \A v \in Worker : Holds(v)' => Holds(v) /\ ws'[v].outbuf = ws[v].outbuf
      BY <1>1, <2>1
    <2>5. \A u, v \in Worker : Holds(u)' /\ Holds(v)' /\ u # v => ws'[u].outbuf # ws'[v].outbuf
      BY <1>1, <2>0, <2>4 DEF Working
    <2> QED  BY <2>3, <2>5 DEF Working
  <1> QED  BY <1>1 DEF Working

(* A step that leaves the buffers and the offered workers alone.           *)
LEMMA WorkerKeeps ==
  ASSUME EncoderInv, NEW w \in Worker, Frame(w), UNCHANGED <<outq, free_workers>>, wl[w].pc # "exited",
         ws'[w].input = ws[w].input \/ Len(ws'[w].input) = 0,
         ws[w].command = "Exit" => ws'[w].command = "Exit",
         Alive /\ Rests(w) => Rests(w)',
         Alive => ThreadFits(w)',
         Alive /\ Holds(w)' => Holds(w) /\ ws'[w].outbuf = ws[w].outbuf /\ JobFits(w)'
  PROVE  EncoderInv'
  <1>1. free_workers' \in Seq(Worker)
    BY DEF EncoderInv, TypeInv
  <1>2. /\ TypeInv' /\ Protocol' /\ Boundary' /\ Exiting' /\ Aborted' /\ FlushBoundary'
        /\ Alive' = Alive /\ (pc' = "assign" <=> pc = "assign")
    BY <1>1, FrameKeeps
  <1>3. Offered'
    BY <1>2, FreeKeeps
  <1>4. Working'
    <2>1. Alive => \A v \in Worker \ {w} : Holds(v) => ~outq'[Place(ws[v].outbuf)].finished
      BY DEF EncoderInv, Working, JobFits
    <2> QED  BY <1>2, <2>1, JobsKeep
  <1>5. Written'
    <2>1. UNCHANGED <<index, outq, cuts>> /\ Written
      BY DEF Frame, EncoderInv
    <2>2. Alive' => Alive
      BY <1>2, Zenon
    <2> QED  BY <2>1, <2>2 DEF Written, Promise!BlockData, Promise!Interval, Promise!CutBefore
  <1> QED  BY <1>2, <1>3, <1>4, <1>5 DEF EncoderInv

LEMMA TakeStep == ASSUME EncoderInv, NEW w \in Worker, TakeJob(w) PROVE EncoderInv'
  <1>0. TypeInv /\ ws[w] \in WorkerType /\ wl[w] \in ThreadType /\ wl[w].pc = "idle"
    BY DEF TakeJob, EncoderInv, TypeInv
  <1>1. UNCHANGED <<action, avail, pending, ret, sequence, current_worker, filters, index, outq, free_workers, accepted, cuts>>
    BY DEF TakeJob, app, coder, shared
  <1>2. CASE ws[w].command = "Exit" /\ wl' = [wl EXCEPT ![w].pc = "exited"] /\ UNCHANGED <<pc, ws>>
    <2>0. PICK x \in ThreadType : x = wl[w]
      BY <1>0
    <2>1. PICK t \in ThreadType : t = [x EXCEPT !.pc = "exited"]
      BY <2>0 DEF ThreadType, ThreadPlaces
    <2>2. wl' \in [Worker -> ThreadType] /\ \A v \in Worker \ {w} : wl'[v] = wl[v]
      BY <1>0, <1>2, <2>0, <2>1 DEF TypeInv
    <2>3. Frame(w)
      BY <1>0, <1>1, <1>2, <2>2 DEF Frame, TypeInv
    <2>4. ~Alive
      BY <1>2 DEF EncoderInv, Working, ThreadFits
    <2> QED  BY <1>0, <1>1, <1>2, <2>3, <2>4, WorkerKeeps
  <1>3. CASE Abort /\ UNCHANGED ws
    <2>1. ASSUME NEW v \in Worker PROVE wl'[v] \in ThreadType /\ wl'[v].pc = "exited"
      <3>1. PICK t \in ThreadType : t = wl[v]
        BY <1>0 DEF TypeInv
      <3>2. wl'[v] = [t EXCEPT !.pc = "exited"]
        BY <1>3, <3>1 DEF Abort
      <3> QED  BY <3>1, <3>2 DEF ThreadType, ThreadPlaces
    <2>2. wl' \in [Worker -> ThreadType]
      <3>1. wl' = [v \in Worker |-> wl'[v]]
        BY <1>3 DEF Abort
      <3> QED  BY <2>1, <3>1
    <2>3. pc' = "aborted" /\ ~Alive' /\ ~Calling' /\ Promise!LastCut' = Promise!LastCut
      BY <1>1, <1>3, SameCut DEF Abort, Alive, Calling
    <2>4. TypeInv'
      BY <1>0, <1>1, <1>3, <2>2, <2>3 DEF TypeInv, AppPlaces
    <2>5. Protocol' /\ Boundary' /\ Offered' /\ Working' /\ Exiting' /\ Aborted' /\ FlushBoundary'
      BY <1>1, <1>3, <2>1, <2>3 DEF EncoderInv, Protocol, Boundary, Offered, Working, Exiting, Aborted, FlushBoundary
    <2>6. Written'
      <3>1. UNCHANGED <<index, cuts>> /\ ~Alive' /\ Written
        BY <1>1, <2>3 DEF EncoderInv
      <3>2. ASSUME NEW b PROVE Promise!BlockData(b)' = Promise!BlockData(b)
        BY <3>1 DEF Promise!BlockData, Promise!Interval, Promise!CutBefore
      <3> QED  BY ONLY <3>1, <3>2 DEF Written
    <2> QED  BY <2>4, <2>5, <2>6 DEF EncoderInv
  <1>4. CASE /\ Told(w) /\ ws[w].filters # None
             /\ ws' = [ws EXCEPT ![w].filters = None]
             /\ \E to \in {"run", "fail"} :
                  wl' = [wl EXCEPT ![w] = [pc |-> to, job |-> ws[w].outbuf, filters |-> ws[w].filters,
                                           content |-> <<>>]]
             /\ UNCHANGED pc
    <2>12. PICK to \in {"run", "fail"} :
             wl' = [wl EXCEPT ![w] = [pc |-> to, job |-> ws[w].outbuf, filters |-> ws[w].filters, content |-> <<>>]]
      BY <1>4
    <2>0. PICK x \in WorkerType : x = ws[w]
      BY <1>0
    <2>10. PICK none \in Int : none = None
      OBVIOUS
    <2>1. PICK r : r = [x EXCEPT !.filters = none]
      OBVIOUS
    <2>2. /\ r \in WorkerType /\ r.filters = None
          /\ r.command = ws[w].command /\ r.input = ws[w].input /\ r.outbuf = ws[w].outbuf
      BY <2>0, <2>1, <2>10 DEF WorkerType
    <2>3. ws' \in [Worker -> WorkerType] /\ ws'[w] = r /\ \A v \in Worker \ {w} : ws'[v] = ws[v]
      BY <1>0, <1>4, <2>0, <2>1, <2>2, <2>10 DEF TypeInv
    <2>4. PICK t : t = [pc |-> to, job |-> ws[w].outbuf, filters |-> ws[w].filters, content |-> <<>>]
      OBVIOUS
    <2>5. t \in ThreadType /\ t.pc = to /\ t.job = ws[w].outbuf /\ t.content = <<>>
      <3>1. <<>> \in Data
        BY DEF Data
      <3> QED  BY <1>0, <2>4, <3>1 DEF WorkerType, ThreadType, ThreadPlaces
    <2>6. wl' \in [Worker -> ThreadType] /\ wl'[w] = t /\ \A v \in Worker \ {w} : wl'[v] = wl[v]
      BY <1>0, <2>4, <2>5, <2>12 DEF TypeInv
    <2>7. Frame(w)
      BY <1>0, <1>1, <1>4, <2>3, <2>6 DEF Frame, TypeInv
    <2>8. Holds(w) /\ ~Rests(w) /\ ws[w].command # "Exit"
      BY <1>4 DEF Holds, Rests, Told
    <2>9. Alive => JobFits(w)'
      <3>1. Alive => JobFits(w)
        BY <2>8 DEF EncoderInv, Working
      <3> QED  BY <1>1, <2>2, <2>3, <3>1 DEF JobFits, JobEnd, Place, Promise!Interval, Promise!CutBefore
    <2>11. Alive => ThreadFits(w)'
      <3>1. PICK s : s = ws[w].input /\ s \in Data
        BY <1>0 DEF WorkerType
      <3>2. SubSeq(s, 1, 0) = <<>> /\ Len(<<>>) = 0 /\ 0 <= Len(s)
        <4>1. Len(s) \in Nat
          BY <3>1 DEF Data
        <4>2. Len(SubSeq(s, 1, 0)) = 0 /\ SubSeq(s, 1, 0) \in Data
          BY <3>1, <4>1, Prefix DEF Data
        <4>3. SubSeq(s, 1, 0) = <<>>
          BY <4>2 DEF Data
        <4> QED  BY <4>1, <4>3
      <3> QED  BY <2>2, <2>3, <2>5, <2>6, <2>8, <3>1, <3>2 DEF ThreadFits, Busy
    <2> QED  BY <1>0, <1>1, <2>2, <2>3, <2>7, <2>8, <2>9, <2>11, WorkerKeeps
  <1> QED  BY <1>2, <1>3, <1>4 DEF TakeJob

(* What a worker's thread goes on with, its job and its shared state       *)
(* being as they were.                                                     *)
Goes(w, t) ==
  /\ wl[w].pc \notin {"exited", "idle", "reset"} /\ t \in ThreadType /\ wl' = [wl EXCEPT ![w] = t]
  /\ t.pc \in ThreadPlaces \ {"exited", "idle"} /\ t.job = wl[w].job
  /\ ws' = ws
  /\ UNCHANGED <<action, avail, pending, ret, sequence, current_worker, filters, index, accepted, cuts>>
  /\ pc' = pc \/ (pc = "sleep" /\ pc' = "wait")

LEMMA GoesOn ==
  ASSUME EncoderInv, NEW w \in Worker, NEW t, Goes(w, t), outq' \in Seq(BufferType), Len(outq') = Len(outq)
  PROVE  /\ Frame(w) /\ wl'[w] = t /\ ~Rests(w) /\ wl[w].pc # "exited"
         /\ ws'[w].input = ws[w].input /\ ws'[w].command = ws[w].command /\ ws'[w].outbuf = ws[w].outbuf
         /\ Alive => ThreadFits(w) /\ ws[w].filters = None /\ ws[w].command # "Exit"
         /\ Holds(w)' => t.pc \in {"run", "full", "publish"} \/ ws[w].filters # None
         /\ Holds(w) => Busy(w) \/ ws[w].filters # None
  <1>0. TypeInv
    BY DEF EncoderInv
  <1>1. wl' \in [Worker -> ThreadType] /\ wl'[w] = t /\ \A v \in Worker \ {w} : wl'[v] = wl[v]
    BY <1>0 DEF Goes, TypeInv
  <1>2. Frame(w)
    BY <1>0, <1>1 DEF Frame, Goes, TypeInv
  <1>3. Alive => ThreadFits(w) /\ ws[w].filters = None /\ ws[w].command # "Exit"
    BY DEF EncoderInv, Working, ThreadFits, Goes
  <1> QED  BY <1>1, <1>2, <1>3 DEF Goes, Rests, Holds, Busy

(* It goes on with a job it holds, or gives it up.                         *)
LEMMA GoesOnWithJob ==
  ASSUME EncoderInv, NEW w \in Worker, NEW t, Goes(w, t), UNCHANGED <<outq, free_workers>>,
         Alive /\ t.pc \in {"run", "full", "publish"} => Busy(w),
         Alive /\ t.pc = "run" => Len(t.content) <= Len(ws[w].input) /\ t.content = SubSeq(ws[w].input, 1, Len(t.content)),
         Alive /\ t.pc = "publish" => t.content = ws[w].input,
         Alive /\ t.pc \in {"publish", "retire"} => w # current_worker
  PROVE  EncoderInv'
  <1>0. outq' \in Seq(BufferType) /\ Len(outq') = Len(outq)
    BY DEF EncoderInv, TypeInv
  <1>1. /\ Frame(w) /\ wl'[w] = t /\ ~Rests(w) /\ wl[w].pc # "exited"
        /\ ws'[w].input = ws[w].input /\ ws'[w].command = ws[w].command /\ ws'[w].outbuf = ws[w].outbuf
        /\ Alive => ThreadFits(w) /\ ws[w].filters = None /\ ws[w].command # "Exit"
        /\ Holds(w)' => t.pc \in {"run", "full", "publish"} \/ ws[w].filters # None
    BY <1>0, GoesOn
  <1>2. Alive => ThreadFits(w)'
    <2>1. t.pc # "exited" /\ t.job = wl[w].job /\ ws' = ws /\ UNCHANGED current_worker
      BY DEF Goes
    <2> QED  BY <1>1, <2>1 DEF ThreadFits, Busy
  <1>3. Alive /\ Holds(w)' => Holds(w) /\ JobFits(w)'
    <2>1. Alive /\ Holds(w)' => Holds(w)
      BY <1>1 DEF Holds
    <2>2. Alive /\ Holds(w) => JobFits(w)
      BY DEF EncoderInv, Working
    <2>3. ws' = ws /\ UNCHANGED <<current_worker, index, outq, accepted, cuts>>
      BY DEF Goes
    <2>4. JobFits(w) => JobFits(w)'
      BY <2>3 DEF JobFits, JobEnd, Place, Promise!Interval, Promise!CutBefore
    <2> QED  BY <2>1, <2>2, <2>4
  <1> QED  BY <1>1, <1>2, <1>3, WorkerKeeps
LEMMA ChunkStep == ASSUME EncoderInv, NEW w \in Worker, EncodeChunk(w) PROVE EncoderInv'
  <1>0. TypeInv /\ wl[w] \in ThreadType /\ ws[w] \in WorkerType /\ wl[w].pc = "run"
    BY DEF EncodeChunk, EncoderInv, TypeInv
  <1>1. PICK x \in ThreadType : x = wl[w] /\ x.pc = "run"
    BY <1>0
  <1>2. PICK p \in Nat : p = Len(x.content) /\ x.content \in Data
    BY DEF ThreadType, Data
  <1>3. PICK s \in Data : s = ws[w].input
    BY <1>0 DEF WorkerType
  <1>4. PICK l \in Nat : l = Len(s)
    BY DEF Data
  <1>5. PICK n \in Int : n = IF l - p < ChunkMax THEN l - p ELSE ChunkMax
    BY EncoderAssumption
  <1>6. /\ UNCHANGED <<pc, action, avail, pending, ret, sequence, current_worker, filters, index, outq,
                       free_workers, ws, accepted, cuts>>
        /\ ~(ws[w].command = "Run" /\ l - p = 0)
    BY <1>1, <1>2, <1>3, <1>4 DEF EncodeChunk, app, coder, shared, hist
  <1>7. Alive => /\ p <= l /\ x.content = SubSeq(s, 1, p)
                 /\ Busy(w) /\ Holds(w) /\ ws[w].command # "Exit"
                 /\ (w = current_worker => ws[w].command = "Run")
    <2>1. Alive => ThreadFits(w) /\ Busy(w) /\ Holds(w) /\ (Holds(w) => JobFits(w))
      BY <1>0 DEF EncoderInv, Working, Busy, Holds
    <2> QED  BY <1>1, <1>2, <1>3, <1>4, <2>1 DEF ThreadFits, JobFits
  <1>8. CASE ws[w].command = "Exit" /\ wl' = [wl EXCEPT ![w].pc = "reset"]
    <2>1. PICK t : t = [x EXCEPT !.pc = "reset"]
      OBVIOUS
    <2>2. t \in ThreadType /\ t.pc = "reset" /\ t.job = x.job
      BY <2>1 DEF ThreadType, ThreadPlaces
    <2>3. wl' = [wl EXCEPT ![w] = t]
      BY <1>0, <1>1, <1>8, <2>1 DEF TypeInv
    <2>4. Goes(w, t)
      BY <1>1, <1>6, <2>2, <2>3 DEF Goes, ThreadPlaces
    <2> QED  BY <1>6, <2>2, <2>4, GoesOnWithJob
  <1>9. CASE /\ ws[w].command # "Exit"
             /\ \/ wl' = [wl EXCEPT ![w].pc = "fail"]
                \/ wl' = [wl EXCEPT ![w].pc = "full"]
    <2>1. PICK to \in {"fail", "full"} : wl' = [wl EXCEPT ![w].pc = to]
      BY <1>9
    <2>2. PICK t : t = [x EXCEPT !.pc = to]
      OBVIOUS
    <2>3. t \in ThreadType /\ t.pc = to /\ t.job = x.job
      BY <2>2 DEF ThreadType, ThreadPlaces
    <2>4. wl' = [wl EXCEPT ![w] = t]
      BY <1>0, <1>1, <2>1, <2>2 DEF TypeInv
    <2>5. Goes(w, t)
      BY <1>1, <1>6, <2>3, <2>4 DEF Goes, ThreadPlaces
    <2> QED  BY <1>6, <1>7, <2>3, <2>5, GoesOnWithJob
  <1>10. CASE /\ ws[w].command # "Exit"
              /\ wl' = [wl EXCEPT ![w].pc = IF LastChunk(w, n) THEN "publish" ELSE "run",
                                  ![w].content = @ \o SubSeq(ws[w].input, p + 1, p + n)]
    <2>1. Alive
      BY <1>0, <1>10 DEF Alive, EncoderInv, Exiting, Aborted
    <2>2. p <= l /\ x.content = SubSeq(s, 1, p) /\ n \in Nat /\ p + n \in 0 .. l
      <3>1. p <= l /\ x.content = SubSeq(s, 1, p)
        BY <1>7, <2>1
      <3>2. l - p \in Nat /\ ChunkMax \in Nat
        BY <3>1, EncoderAssumption
      <3> QED  BY <1>5, <3>1, <3>2
    <2>3. PICK q \in 0 .. l : q = p + n
      BY <2>2
    <2>4. PICK c : c = x.content \o SubSeq(s, p + 1, q)
      OBVIOUS
    <2>5. c \in Data /\ c = SubSeq(s, 1, q) /\ Len(c) = q
      <3>1. PICK U : U = 1 .. Units
        OBVIOUS
      <3>2. s \in Seq(U) /\ q \in 0 .. Len(s) /\ q = p + n /\ p \in Nat /\ n \in Nat
        BY <1>4, <2>2, <2>3, <3>1 DEF Data
      <3>3. c = SubSeq(s, 1, q)
        BY <2>2, <2>4, <3>2, Continued
      <3>4. SubSeq(s, 1, q) \in Seq(U) /\ Len(SubSeq(s, 1, q)) = q
        BY <3>2, Prefix
      <3> QED  BY <3>1, <3>3, <3>4 DEF Data
    <2>6. PICK last \in BOOLEAN : last = LastChunk(w, n)
      BY Zenon DEF LastChunk
    <2>7. last => ws[w].command = "Finish" /\ q = l
      <3>1. last => ws[w].command = "Finish" /\ Len(wl[w].content) + n = Len(ws[w].input)
        BY <2>6, Zenon DEF LastChunk
      <3> QED  BY <1>1, <1>2, <1>3, <1>4, <2>3, <3>1
    <2>8. PICK to : to = IF last THEN "publish" ELSE "run"
      OBVIOUS
    <2>9. to \in {"publish", "run"} /\ (to = "publish" => last)
      BY <2>8
    <2>10. PICK t : t = [x EXCEPT !.pc = to, !.content = c]
      OBVIOUS
    <2>11. t \in ThreadType /\ t.pc = to /\ t.job = x.job /\ t.content = c
      BY <2>5, <2>9, <2>10 DEF ThreadType, ThreadPlaces
    <2>12. wl' = [wl EXCEPT ![w] = t]
      <3>1. wl' = [wl EXCEPT ![w].pc = to, ![w].content = @ \o SubSeq(s, p + 1, q)]
        BY <1>3, <1>10, <2>3, <2>6, <2>8
      <3> QED  BY <1>0, <1>1, <2>4, <2>10, <3>1 DEF TypeInv
    <2>13. Goes(w, t)
      BY <1>1, <1>6, <2>9, <2>11, <2>12 DEF Goes, ThreadPlaces
    <2>14. to = "publish" => c = s /\ w # current_worker
      <3>1. SubSeq(s, 1, Len(s)) = s
        <4>1. PICK U : U = 1 .. Units
          OBVIOUS
        <4>2. s \in Seq(U)
          BY <4>1 DEF Data
        <4> QED  BY <4>2, Everything
      <3>2. to = "publish" => q = Len(s) /\ ws[w].command = "Finish"
        BY <1>4, <2>7, <2>9
      <3> QED  BY <1>7, <2>1, <2>5, <3>1, <3>2
    <2>15. Busy(w)
      BY <1>7, <2>1
    <2>16. Len(t.content) <= Len(ws[w].input) /\ t.content = SubSeq(ws[w].input, 1, Len(t.content))
      BY <1>3, <1>4, <2>3, <2>5, <2>11
    <2> QED  BY <1>3, <1>6, <2>9, <2>11, <2>13, <2>14, <2>15, <2>16, GoesOnWithJob
  <1> QED  BY <1>0, <1>1, <1>2, <1>3, <1>4, <1>5, <1>8, <1>9, <1>10 DEF EncodeChunk

LEMMA StoreStep == ASSUME EncoderInv, NEW w \in Worker, StoreBlock(w) PROVE EncoderInv'
  <1>0. TypeInv /\ wl[w] \in ThreadType /\ ws[w] \in WorkerType /\ wl[w].pc = "full"
    BY DEF StoreBlock, EncoderInv, TypeInv
  <1>1. PICK x \in ThreadType : x = wl[w]
    BY <1>0
  <1>2. PICK s \in Data : s = ws[w].input
    BY <1>0 DEF WorkerType
  <1>3. UNCHANGED <<pc, action, avail, pending, ret, sequence, current_worker, filters, index, outq,
                    free_workers, ws, accepted, cuts>>
    BY DEF StoreBlock, app, coder, shared, hist
  <1>4. CASE wl' = [wl EXCEPT ![w].pc = "reset"] \/ wl' = [wl EXCEPT ![w].pc = "fail"]
    <2>1. PICK to \in {"reset", "fail"} : wl' = [wl EXCEPT ![w].pc = to]
      BY <1>4
    <2>2. PICK t : t = [x EXCEPT !.pc = to]
      OBVIOUS
    <2>3. t \in ThreadType /\ t.pc = to /\ t.job = x.job
      BY <2>2 DEF ThreadType, ThreadPlaces
    <2>4. wl' = [wl EXCEPT ![w] = t]
      BY <1>0, <1>1, <2>1, <2>2 DEF TypeInv
    <2>5. Goes(w, t)
      BY <1>0, <1>1, <1>3, <2>3, <2>4 DEF Goes, ThreadPlaces
    <2> QED  BY <1>3, <2>3, <2>5, GoesOnWithJob
  <1>5. CASE ws[w].command # "Exit" /\ wl' = [wl EXCEPT ![w].pc = "publish", ![w].content = ws[w].input]
    <2>1. PICK t : t = [x EXCEPT !.pc = "publish", !.content = s]
      OBVIOUS
    <2>2. t \in ThreadType /\ t.pc = "publish" /\ t.job = x.job /\ t.content = s
      BY <2>1 DEF ThreadType, ThreadPlaces
    <2>3. wl' = [wl EXCEPT ![w] = t]
      BY <1>0, <1>1, <1>2, <1>5, <2>1 DEF TypeInv
    <2>4. Goes(w, t)
      BY <1>0, <1>1, <1>3, <2>2, <2>3 DEF Goes, ThreadPlaces
    <2>5. Alive => Busy(w) /\ w # current_worker
      <3>1. Busy(w) /\ Holds(w)
        BY <1>0 DEF Busy, Holds
      <3>2. ws[w].command # "Run"
        BY DEF StoreBlock, BlockKnown
      <3> QED  BY <3>1, <3>2 DEF EncoderInv, Working, JobFits
    <2> QED  BY <1>2, <1>3, <2>2, <2>4, <2>5, GoesOnWithJob
  <1> QED  BY <1>4, <1>5 DEF StoreBlock

LEMMA FailStep == ASSUME EncoderInv, NEW w \in Worker, Fail(w) PROVE EncoderInv'
  <1>0. TypeInv /\ wl[w] \in ThreadType /\ wl[w].pc = "fail"
    BY DEF Fail, EncoderInv, TypeInv
  <1>1. PICK x \in ThreadType : x = wl[w]
    BY <1>0
  <1>2. /\ UNCHANGED <<action, avail, pending, ret, sequence, current_worker, filters, index, outq,
                       free_workers, ws, accepted, cuts>>
        /\ pc' = pc \/ (pc = "sleep" /\ pc' = "wait")
    BY DEF Fail, Notified, app, coder, hist
  <1>4. PICK t : t = [x EXCEPT !.pc = "reset"]
    OBVIOUS
  <1>5. t \in ThreadType /\ t.pc = "reset" /\ t.job = x.job
    BY <1>4 DEF ThreadType, ThreadPlaces
  <1>6. wl' = [wl EXCEPT ![w] = t]
    BY <1>0, <1>1, <1>4 DEF TypeInv, Fail
  <1>7. Goes(w, t)
    BY <1>0, <1>1, <1>2, <1>5, <1>6 DEF Goes, ThreadPlaces
  <1> QED  BY <1>2, <1>5, <1>7, GoesOnWithJob
(* The finished buffer is that of the Block this worker had the job of; no *)
(* other worker has it, and the Block is cut off.                          *)
LEMMA PublishStep == ASSUME EncoderInv, NEW w \in Worker, Publish(w) PROVE EncoderInv'
  <1>0. TypeInv /\ Working /\ Written /\ wl[w] \in ThreadType /\ wl[w].pc = "publish"
    BY DEF Publish, EncoderInv, TypeInv
  <1>1. PICK x \in ThreadType : x = wl[w]
    BY <1>0
  <1>2. PICK size \in OutSizes :
          outq' = [outq EXCEPT ![Place(wl[w].job)] =
                     [finished |-> TRUE, size |-> size, content |-> wl[w].content, filters |-> wl[w].filters]]
    BY DEF Publish
  <1>3. PICK b : b = [finished |-> TRUE, size |-> size, content |-> wl[w].content, filters |-> wl[w].filters]
    OBVIOUS
  <1>4. b \in BufferType /\ b.finished /\ b.content = wl[w].content
    BY <1>0, <1>3, EncoderAssumption DEF BufferType, ThreadType
  <1>5. PICK j : j = Place(wl[w].job)
    OBVIOUS
  <1>6. /\ outq' \in Seq(BufferType) /\ Len(outq') = Len(outq)
        /\ \A i \in DOMAIN outq : outq'[i] = IF i = j THEN b ELSE outq[i]
    <2>1. outq \in Seq(BufferType) /\ outq' = [outq EXCEPT ![j] = b]
      BY <1>0, <1>2, <1>3, <1>5 DEF TypeInv
    <2> QED  BY <1>4, <2>1, Updated
  <1>7. UNCHANGED <<pc, action, avail, pending, ret, sequence, current_worker, filters, index,
                    free_workers, ws, accepted, cuts>>
    BY DEF Publish, app, coder, hist
  <1>8. PICK t : t = [x EXCEPT !.pc = "retire"]
    OBVIOUS
  <1>9. t \in ThreadType /\ t.pc = "retire" /\ t.job = x.job
    BY <1>8 DEF ThreadType, ThreadPlaces
  <1>10. wl' = [wl EXCEPT ![w] = t]
    BY <1>0, <1>1, <1>8 DEF TypeInv, Publish
  <1>11. Goes(w, t)
    BY <1>0, <1>1, <1>7, <1>9, <1>10 DEF Goes, ThreadPlaces
  <1>12. /\ Frame(w) /\ wl'[w] = t /\ ~Rests(w) /\ wl[w].pc # "exited"
         /\ ws'[w].input = ws[w].input /\ ws'[w].command = ws[w].command
         /\ Alive => ThreadFits(w) /\ ws[w].filters = None /\ ws[w].command # "Exit"
         /\ Holds(w)' => t.pc \in {"run", "full", "publish"} \/ ws[w].filters # None
    BY <1>6, <1>11, GoesOn
  <1>13. free_workers' \in Seq(Worker)
    BY <1>0, <1>7 DEF TypeInv
  <1>14. /\ TypeInv' /\ Protocol' /\ Boundary' /\ Exiting' /\ Aborted' /\ FlushBoundary'
         /\ Alive' = Alive /\ (pc' = "assign" <=> pc = "assign")
    BY <1>12, <1>13, FrameKeeps
  <1>15. Offered'
    BY <1>7, <1>12, <1>14, FreeKeeps
  <1>16. Alive => Holds(w) /\ JobFits(w) /\ wl[w].job = ws[w].outbuf /\ w # current_worker /\ wl[w].content = ws[w].input
    BY <1>0 DEF Working, ThreadFits, Holds, Busy
  <1>17. Working'
    <2>1. ASSUME Alive, NEW v \in Worker \ {w}, Holds(v) PROVE ~outq'[Place(ws[v].outbuf)].finished
      <3>1. JobFits(v) /\ JobFits(w) /\ ws[v].outbuf # ws[w].outbuf
        BY <1>0, <1>16, <2>1 DEF Working
      <3>2. PICK n \in Nat, m \in Nat : n = Len(index) /\ m = Len(outq) /\ DOMAIN outq = 1 .. m
        BY <1>0 DEF TypeInv
      <3>3. PICK y \in n + 1 .. n + m, z \in n + 1 .. n + m : y = ws[v].outbuf /\ z = ws[w].outbuf
        BY <3>1, <3>2 DEF JobFits
      <3>4. y - n # z - n /\ y - n \in 1 .. m
        BY <3>1, <3>3
      <3>5. j = z - n /\ Place(ws[v].outbuf) = y - n
        BY <1>5, <1>16, <2>1, <3>2, <3>3 DEF Place
      <3>6. outq'[y - n] = outq[y - n]
        BY <1>6, <3>2, <3>4, <3>5
      <3> QED  BY <3>1, <3>5, <3>6 DEF JobFits
    <2>2. Alive => ThreadFits(w)'
      <3>1. UNCHANGED <<ws, current_worker>>
        BY <1>7
      <3> QED  BY <1>9, <1>12, <1>16, <3>1 DEF ThreadFits, Busy
    <2>3. Alive => ~Holds(w)'
      BY <1>9, <1>12
    <2>4. Alive => \A v \in Worker \ {w} : Holds(v) => ~outq'[Place(ws[v].outbuf)].finished
      BY <2>1
    <2> QED  BY <1>12, <1>14, <2>2, <2>3, <2>4, JobsKeep
  <1>18. Written'
    <2>1. \A c : Promise!BlockData(c)' = Promise!BlockData(c)
      BY <1>7 DEF Promise!BlockData, Promise!Interval, Promise!CutBefore
    <2>2. \A c \in DOMAIN index' : c <= Len(cuts') /\ index'[c].content = Promise!BlockData(c)'
      BY <1>0, <1>7, <2>1 DEF Written
    <2>3. PICK n \in Nat, m \in Nat, k \in Nat :
            n = Len(index) /\ m = Len(outq) /\ DOMAIN outq = 1 .. m /\ DOMAIN outq' = 1 .. m /\ k = Len(cuts)
      BY <1>0, <1>6 DEF TypeInv
    <2>5. ASSUME Alive, NEW i \in 1 .. m, outq'[i].finished
          PROVE  n + i <= k /\ outq'[i].content = Promise!BlockData(n + i)
      <3>1. CASE i # j
        <4>1. outq'[i] = outq[i] /\ i \in DOMAIN outq
          BY <1>6, <2>3, <3>1
        <4> QED  BY <1>0, <2>3, <2>5, <4>1 DEF Written
      <3>2. CASE i = j
        <4>1. PICK z \in Int : z = ws[w].outbuf /\ z \in 1 .. k
          BY <1>16, <2>3, <2>5 DEF JobFits
        <4>2. i = z - n
          BY <1>5, <1>16, <2>3, <2>5, <3>2, <4>1 DEF Place
        <4>3. n + i = z
          BY ONLY <4>2, n \in Nat, z \in Int
        <4>4. outq'[i].content = ws[w].input
          BY <1>4, <1>6, <1>16, <2>3, <2>5, <3>2
        <4>5. ws[w].input = Promise!BlockData(z)
          BY <1>16, <2>5, <4>1 DEF JobFits, JobEnd, Promise!BlockData
        <4> QED  BY <4>1, <4>3, <4>4, <4>5
      <3> QED  BY <3>1, <3>2
    <2>4. Alive' => Alive
      BY <1>14, Zenon
    <2>6. Len(index') = n /\ Len(cuts') = k
      BY <1>7, <2>3
    <2> QED  BY <2>1, <2>2, <2>3, <2>4, <2>5, <2>6 DEF Written
  <1> QED  BY <1>14, <1>15, <1>17, <1>18 DEF EncoderInv

(* The worker is offered: it was not, and it is not being fed.             *)
LEMMA RetireStep == ASSUME EncoderInv, NEW w \in Worker, Retire(w) PROVE EncoderInv'
  <1>0. TypeInv /\ wl[w] \in ThreadType /\ wl[w].pc = "retire"
    BY DEF Retire, EncoderInv, TypeInv
  <1>1. PICK x \in ThreadType : x = wl[w]
    BY <1>0
  <1>2. /\ UNCHANGED <<action, avail, pending, ret, sequence, current_worker, filters, index, outq, ws, accepted, cuts>>
        /\ pc' = pc \/ (pc = "sleep" /\ pc' = "wait")
        /\ free_workers' = Append(free_workers, w)
    BY DEF Retire, Notified, app, coder, hist
  <1>4. PICK t : t = [x EXCEPT !.pc = "reset"]
    OBVIOUS
  <1>5. t \in ThreadType /\ t.pc = "reset" /\ t.job = x.job
    BY <1>4 DEF ThreadType, ThreadPlaces
  <1>6. wl' = [wl EXCEPT ![w] = t]
    BY <1>0, <1>1, <1>4 DEF TypeInv, Retire
  <1>7. Goes(w, t)
    BY <1>0, <1>1, <1>2, <1>5, <1>6 DEF Goes, ThreadPlaces
  <1>8. outq' \in Seq(BufferType) /\ Len(outq') = Len(outq)
    BY <1>0, <1>2 DEF TypeInv
  <1>9. /\ Frame(w) /\ wl'[w] = t /\ ~Rests(w) /\ wl[w].pc # "exited"
        /\ ws'[w].input = ws[w].input /\ ws'[w].command = ws[w].command
        /\ Alive => ThreadFits(w) /\ ws[w].filters = None /\ ws[w].command # "Exit"
        /\ Holds(w)' => t.pc \in {"run", "full", "publish"} \/ ws[w].filters # None
    BY <1>7, <1>8, GoesOn
  <1>10. PICK n \in Nat : n = Len(free_workers) /\ free_workers \in Seq(Worker)
    BY <1>0 DEF TypeInv
  <1>11. /\ free_workers' \in Seq(Worker) /\ DOMAIN free_workers' = 1 .. n + 1 /\ DOMAIN free_workers = 1 .. n
         /\ free_workers'[n + 1] = w /\ \A i \in 1 .. n : free_workers'[i] = free_workers[i]
    BY <1>2, <1>10, Appended
  <1>12. /\ TypeInv' /\ Protocol' /\ Boundary' /\ Exiting' /\ Aborted' /\ FlushBoundary'
         /\ Alive' = Alive /\ (pc' = "assign" <=> pc = "assign")
    BY <1>9, <1>11, FrameKeeps
  <1>13. Working'
    <2>1. Alive => \A v \in Worker \ {w} : Holds(v) => ~outq'[Place(ws[v].outbuf)].finished
      BY <1>2 DEF EncoderInv, Working, JobFits
    <2>2. Alive => ThreadFits(w)'
      BY <1>2, <1>5, <1>9 DEF ThreadFits, Busy
    <2>3. Alive => ~Holds(w)'
      BY <1>5, <1>9
    <2> QED  BY <1>9, <1>12, <2>1, <2>2, <2>3, JobsKeep
  <1>14. Offered'
    <2>1. ASSUME Alive PROVE Offered'
      <3>1. Offered /\ Working
        BY DEF EncoderInv
      <3>2. \A i \in 1 .. n : free_workers[i] # current_worker /\ Rests(free_workers[i]) /\ free_workers[i] \in Worker
        BY <1>10, <1>11, <2>1, <3>1 DEF Offered
      <3>3. \A i \in 1 .. n : free_workers[i] # w
        BY <1>9, <3>2
      <3>4. Rests(w)' /\ w # current_worker
        BY <1>0, <1>2, <1>5, <1>9, <2>1 DEF Rests, ThreadFits
      <3>5. ASSUME NEW i \in 1 .. n + 1 PROVE free_workers'[i] # current_worker' /\ Rests(free_workers[i])'
        <4>1. CASE i \in 1 .. n
          <5>1. PICK v \in Worker \ {w} : v = free_workers[i] /\ Rests(v) /\ v # current_worker
            BY <3>2, <3>3, <4>1
          <5>2. ws'[v] = ws[v] /\ wl'[v] = wl[v]
            BY <1>9 DEF Frame
          <5>3. free_workers'[i] = v /\ v # current_worker'
            BY <1>2, <1>11, <4>1, <5>1
          <5> QED  BY <5>1, <5>2, <5>3 DEF Rests
        <4>2. CASE i = n + 1
          BY <1>2, <1>11, <3>4, <4>2 DEF Rests
        <4> QED  BY <4>1, <4>2
      <3>6. ASSUME NEW i \in 1 .. n + 1, NEW k \in 1 .. n + 1, free_workers'[i] = free_workers'[k] PROVE i = k
        <4>1. \A a, b \in 1 .. n : free_workers[a] = free_workers[b] => a = b
          BY <1>11, <2>1, <3>1 DEF Offered
        <4>2. i \in 1 .. n \/ i = n + 1
          OBVIOUS
        <4>3. k \in 1 .. n \/ k = n + 1
          OBVIOUS
        <4> QED  BY <1>11, <3>3, <3>6, <4>1, <4>2, <4>3
      <3>7. pc' = "assign" => Rests(current_worker)'
        <4>1. ASSUME pc' = "assign" PROVE Rests(current_worker)'
          <5>1. PICK v \in Worker : v = current_worker /\ Rests(v)
            BY <1>12, <2>1, <3>1, <4>1, <1>0 DEF EncoderInv, Boundary, Offered, TypeInv
          <5>2. v # w
            BY <1>9, <5>1
          <5>3. ws'[v] = ws[v] /\ wl'[v] = wl[v] /\ current_worker' = v
            BY <1>2, <1>9, <5>1, <5>2 DEF Frame
          <5> QED  BY <5>1, <5>3 DEF Rests
        <4> QED  BY <4>1
      <3> QED  BY <1>11, <3>5, <3>6, <3>7 DEF Offered
    <2>2. Alive' => Alive
      BY <1>12, Zenon
    <2> QED  BY <2>1, <2>2 DEF Offered
  <1>15. Written'
    <2>1. UNCHANGED <<index, outq, cuts>> /\ Written
      BY <1>2 DEF EncoderInv
    <2>2. Alive' => Alive
      BY <1>12, Zenon
    <2>3. ASSUME NEW b PROVE Promise!BlockData(b)' = Promise!BlockData(b)
      BY <2>1 DEF Promise!BlockData, Promise!Interval, Promise!CutBefore
    <2> QED  BY ONLY <2>1, <2>2, <2>3 DEF Written
  <1> QED  BY <1>12, <1>13, <1>14, <1>15 DEF EncoderInv

(* Whatever job the shared state holds is wiped: the worker has none.      *)
LEMMA ResetStep == ASSUME EncoderInv, NEW w \in Worker, Reset(w) PROVE EncoderInv'
  <1>0. TypeInv /\ wl[w] \in ThreadType /\ ws[w] \in WorkerType /\ wl[w].pc = "reset"
    BY DEF Reset, EncoderInv, TypeInv
  <1>1. UNCHANGED <<pc, action, avail, pending, ret, sequence, current_worker, filters, index, outq,
                    free_workers, accepted, cuts>>
    BY DEF Reset, app, coder, shared
  <1>2. PICK c : c = CommandAfterReset(ws[w].command)
    OBVIOUS
  <1>3. c \in {"Idle", "Exit"} /\ (c = "Exit" <=> ws[w].command = "Exit")
    BY <1>2 DEF CommandAfterReset
  <1>4. PICK a \in WorkerType : a = IdleWorker /\ a.input = <<>> /\ a.filters = None
    BY IdleTypes DEF IdleWorker
  <1>5. PICK r : r = [a EXCEPT !.command = c]
    OBVIOUS
  <1>6. r \in WorkerType /\ r.command = c /\ r.input = <<>> /\ r.filters = None
    BY <1>3, <1>4, <1>5 DEF WorkerType
  <1>7. ws' \in [Worker -> WorkerType] /\ ws'[w] = r /\ \A v \in Worker \ {w} : ws'[v] = ws[v]
    BY <1>0, <1>2, <1>4, <1>5, <1>6 DEF Reset, TypeInv
  <1>11. PICK t \in ThreadType : t = IdleThread /\ t.pc = "idle"
    BY IdleTypes DEF IdleThread
  <1>12. wl' \in [Worker -> ThreadType] /\ wl'[w] = t /\ \A v \in Worker \ {w} : wl'[v] = wl[v]
    BY <1>0, <1>11 DEF Reset, TypeInv
  <1>13. Frame(w)
    BY <1>0, <1>1, <1>7, <1>12 DEF Frame, TypeInv
  <1>14. Len(ws'[w].input) = 0 /\ (ws[w].command = "Exit" => ws'[w].command = "Exit") /\ ~Holds(w)'
    BY <1>3, <1>6, <1>7, <1>11, <1>12 DEF Holds, Busy
  <1>15. Alive => ws[w].command # "Exit"
    BY DEF EncoderInv, Working, ThreadFits
  <1>16. Alive => Rests(w)' /\ ThreadFits(w)'
    BY <1>3, <1>6, <1>7, <1>11, <1>12, <1>15 DEF Rests, ThreadFits, Busy
  <1> QED  BY <1>0, <1>1, <1>13, <1>14, <1>16, WorkerKeeps
-----------------------------------------------------------------------------
LEMMA NextStep == EncoderInv /\ [Next]_vars => EncoderInv'
  <1> SUFFICES ASSUME EncoderInv, [Next]_vars PROVE EncoderInv'
    OBVIOUS
  <1>1. CASE Call \/ UpdateFilters \/ End
    BY <1>1, CallStep, UpdateStep, EndStep
  <1>2. CASE AppThread \/ TimeOut
    BY <1>2, CopyStep, ReadStep, ErrorStep, StartStep, AssignStep, FeedStep, FedStep, DecideStep, WaitStep, JoinStep
       DEF AppThread
  <1>3. CASE \E w \in Worker : WorkerThread(w)
    BY <1>3, TakeStep, ChunkStep, StoreStep, PublishStep, RetireStep, FailStep, ResetStep DEF WorkerThread
  <1>4. CASE UNCHANGED vars
    <2>1. UNCHANGED <<pc, action, avail, pending, ret, sequence, current_worker, filters, index, outq,
                      free_workers, ws, wl, accepted, cuts>>
      BY <1>4 DEF vars, app, coder, shared, hist
    <2>2. TypeInv' /\ Protocol' /\ Boundary' /\ Offered' /\ Exiting' /\ Aborted' /\ FlushBoundary'
      BY <2>1, SameCut DEF EncoderInv, TypeInv, Protocol, Calling, Boundary, Alive, OpenBlock, Offered, Rests,
                           Exiting, Aborted, FlushBoundary
    <2>3. Working'
      BY <2>1 DEF EncoderInv, Working, Alive, ThreadFits, Holds, Busy, JobFits, JobEnd, Place,
                  Promise!Interval, Promise!CutBefore
    <2>4. Written'
      BY <2>1 DEF EncoderInv, Written, Alive, Promise!BlockData, Promise!Interval, Promise!CutBefore
    <2> QED  BY <2>2, <2>3, <2>4 DEF EncoderInv
  <1> QED  BY <1>1, <1>2, <1>3, <1>4 DEF Next

(* In every reachable state the flush that has just returned STREAM_END    *)
(* left no Block open, ended the last Block at the last unit accepted, and *)
(* (unless it was a barrier) has every Block in the Index: with any number *)
(* of threads, failures and filter changes, and whatever job was lost.     *)
THEOREM EncoderFlushBoundary == Spec => []FlushBoundary
  <1>1. EncoderInv => FlushBoundary
    BY DEF EncoderInv
  <1> QED  BY <1>1, InitInv, NextStep, PTL DEF Spec

-----------------------------------------------------------------------------
(* The refinement, step by step: a unit is accepted or a Block cut where a *)
(* worker is fed, a Block delivered where its buffer leaves the queue, the *)
(* Stream finished where the Footer is out. All else is invisible.         *)
Output == [b \in DOMAIN index |-> index[b].content]

LEMMA OutputType == TypeInv => Output \in Seq(Data) /\ Len(Output) = Len(index)
  <1> SUFFICES ASSUME TypeInv PROVE Output \in Seq(Data) /\ Len(Output) = Len(index)
    OBVIOUS
  <1>0. PICK n \in Nat : n = Len(index) /\ DOMAIN index = 1 .. n /\ \A b \in 1 .. n : index[b] \in RecordType
    BY DEF TypeInv
  <1>1. \A b \in 1 .. n : index[b].content \in Data
    BY <1>0 DEF RecordType
  <1>2. Output \in [1 .. n -> Data] /\ DOMAIN Output = 1 .. n
    BY <1>0, <1>1 DEF Output
  <1> QED  BY <1>0, <1>2

LEMMA Invisible ==
  UNCHANGED <<accepted, cuts, index>> /\ (pending' = "End" <=> pending = "End") => UNCHANGED Promise!vars
  BY DEF Promise!vars

LEMMA FooterFinishes ==
  ASSUME EncoderInv, CopyFixed
  PROVE  [Promise!Next]_(Promise!vars)
  <1>1. UNCHANGED <<accepted, cuts, index>> /\ pending = action /\ pending # "End" /\ TypeInv
    BY DEF CopyFixed, EncoderInv, Protocol, Calling, TypeInv, Flushes, hist
  <1>2. CASE pending' = "End"
    <2>1. space # 0 /\ sequence = "Footer"
      <3>1. sequence \in {"Header", "Index", "Footer"}
        BY DEF CopyFixed, EncoderInv, Protocol, Calling, TypeInv
      <3> QED  BY <1>1, <1>2, <3>1 DEF CopyFixed, Return
    <2>2. Promise!LastCut = accepted /\ Len(index) = Len(cuts)
      BY <2>1 DEF EncoderInv, Protocol
    <2>3. Len(Output) = Len(cuts)
      BY <1>1, <2>2, OutputType
    <2>4. Promise!Finish
      BY <1>1, <1>2, <2>2, <2>3 DEF Promise!Finish, Output
    <2> QED  BY <1>1, <2>4 DEF Promise!Next
  <1>3. CASE pending' # "End"
    BY <1>1, <1>3, Invisible
  <1> QED  BY <1>2, <1>3

LEMMA ReadDelivers ==
  ASSUME EncoderInv, ReadReady
  PROVE  [Promise!Next]_(Promise!vars)
  <1>1. UNCHANGED <<accepted, cuts, pending>> /\ pending # "End" /\ TypeInv /\ Alive
    BY ReadCases DEF EncoderInv, TypeInv, Flushes
  <1>2. CASE UNCHANGED index
    BY <1>1, <1>2, Invisible
  <1>3. CASE HeadWritten
    <2>1. PICK n \in Nat : n = Len(index) /\ DOMAIN index = 1 .. n /\ index \in Seq(RecordType)
      BY <1>1 DEF TypeInv
    <2>2. Head(outq) = outq[1] /\ 1 \in DOMAIN outq /\ outq[1].finished /\ outq[1] \in BufferType
      <3>1. outq \in Seq(BufferType) /\ outq # <<>>
        BY <1>1, <1>3 DEF TypeInv, HeadWritten
      <3>2. Head(outq) = outq[1] /\ 1 \in DOMAIN outq /\ outq[1] \in BufferType
        BY <3>1, HeadGone
      <3> QED  BY <1>3, <3>2 DEF HeadWritten
    <2>3. n + 1 <= Len(cuts) /\ outq[1].content = Promise!BlockData(n + 1)
      BY <1>1, <2>1, <2>2 DEF EncoderInv, Written
    <2>4. PICK r : r = [content |-> Head(outq).content, filters |-> Head(outq).filters]
      OBVIOUS
    <2>5. r \in RecordType /\ r.content = outq[1].content
      BY <2>2, <2>4 DEF BufferType, RecordType
    <2>6. /\ DOMAIN index' = 1 .. n + 1 /\ index'[n + 1] = r /\ \A b \in 1 .. n : index'[b] = index[b]
      <3>1. index' = Append(index, r)
        BY <1>3, <2>4 DEF HeadWritten
      <3> QED  BY <2>1, <2>5, <3>1, Appended
    <2>7. PICK o \in Seq(Data) : o = Output /\ Len(o) = n /\ \A b \in 1 .. n : o[b] = index[b].content
      BY <1>1, <2>1, OutputType DEF Output
    <2>8. PICK d \in Data : d = outq[1].content
      BY <2>2 DEF BufferType
    <2>9. /\ Append(o, d) \in Seq(Data) /\ Len(Append(o, d)) = n + 1 /\ Append(o, d)[n + 1] = d
          /\ \A b \in 1 .. n : Append(o, d)[b] = o[b]
      BY <2>7, Appended
    <2>10. PICK p : p = Output'
      OBVIOUS
    <2>11. /\ DOMAIN p = 1 .. n + 1 /\ p = [b \in 1 .. n + 1 |-> p[b]]
           /\ p[n + 1] = d /\ \A b \in 1 .. n : p[b] = o[b]
      <3>1. p = [b \in 1 .. n + 1 |-> index'[b].content]
        BY <2>6, <2>10 DEF Output
      <3> QED  BY <2>5, <2>6, <2>7, <2>8, <3>1
    <2>12. p = Append(o, d)
      <3>1. ASSUME NEW b \in 1 .. n + 1 PROVE p[b] = Append(o, d)[b] /\ p[b] \in Data
        <4>1. CASE b \in 1 .. n
          <5>1. p[b] = o[b]
            BY <2>11, <4>1
          <5>2. Append(o, d)[b] = o[b]
            BY <2>9, <4>1
          <5>3. o[b] \in Data
            <6>1. b \in 1 .. Len(o)
              BY <2>7, <4>1
            <6> QED  BY ONLY <2>7, <6>1, ElementOfSeq
          <5> QED  BY <5>1, <5>2, <5>3
        <4>2. CASE b = n + 1
          BY <2>9, <2>11, <4>2
        <4>3. b \in 1 .. n \/ b = n + 1
          OBVIOUS
        <4> QED  BY <4>1, <4>2, <4>3
      <3>2. p \in [1 .. n + 1 -> Data]
        BY <2>11, <3>1
      <3>3. p \in Seq(Data) /\ Len(p) = n + 1
        BY <2>11, <3>2
      <3> QED  BY <2>9, <3>1, <3>3, SeqEqual
    <2>13. Len(Output) < Len(cuts) /\ Output' = Append(Output, Promise!BlockData(Len(Output) + 1))
      <3>1. Len(cuts) \in Nat
        BY <1>1 DEF TypeInv
      <3> QED  BY <2>3, <2>7, <2>8, <2>10, <2>12, <3>1
    <2>14. Promise!Deliver
      BY <1>1, <2>13 DEF Promise!Deliver, Output
    <2> QED  BY <1>1, <2>14 DEF Promise!Next
  <1>4. UNCHANGED index \/ HeadWritten
    BY ReadCases
  <1> QED  BY <1>2, <1>3, <1>4

LEMMA FeedAccepts ==
  ASSUME EncoderInv, FeedWorker
  PROVE  [Promise!Next]_(Promise!vars)
  <1>1. UNCHANGED <<index, pending>> /\ pending # "End" /\ accepted \in Nat
    BY FeedCases DEF EncoderInv, TypeInv, Flushes
  <1>2. PICK w \in Worker, n \in Nat, done \in BOOLEAN : Feeds(w, n, done) /\ Promise!LastCut < accepted + n
    BY FeedCases
  <1>3. accepted' \in Nat /\ accepted' >= accepted /\ accepted' > Promise!LastCut
    <2>1. accepted' = accepted + n /\ Promise!LastCut \in Nat
      BY <1>2 DEF Feeds, EncoderInv, Boundary
    <2> QED  BY <1>1, <1>2, <2>1
  <1>4. cuts' = cuts \/ cuts' = Append(cuts, accepted')
    BY <1>2 DEF Feeds
  <1>5. Promise!Accept
    BY <1>1, <1>3, <1>4 DEF Promise!Accept
  <1> QED  BY <1>1, <1>5 DEF Promise!Next

LEMMA StepImplements == EncoderInv /\ [Next]_vars => [Promise!Next]_(Promise!vars)
  <1> SUFFICES ASSUME EncoderInv, [Next]_vars PROVE [Promise!Next]_(Promise!vars)
    OBVIOUS
  <1>1. CASE CopyFixed \/ ReadReady \/ FeedWorker
    BY <1>1, FooterFinishes, ReadDelivers, FeedAccepts
  <1>2. CASE Call
    <2>1. UNCHANGED <<accepted, cuts, index>> /\ pending # "End" /\ pending' = action'
      BY <1>2 DEF Call, coder, hist
    <2>2. action' # "End"
      BY <1>2, EncoderAssumption DEF Call, Flushes
    <2> QED  BY <2>1, <2>2, Invisible
  <1>3. CASE CheckError \/ AssignWorker
    <2>1. UNCHANGED <<accepted, cuts, index>> /\ pending = action /\ pending # "End"
      BY <1>3 DEF CheckError, AssignWorker, coder, hist, EncoderInv, Protocol, Calling, TypeInv, Flushes
    <2>2. pending' = pending \/ pending' = "Error"
      BY <1>3 DEF CheckError, AssignWorker, Return
    <2> QED  BY <2>1, <2>2, Invisible
  <1>4. CASE Decide
    <2>1. UNCHANGED <<accepted, cuts, index>> /\ pending = action /\ pending # "End"
      BY <1>4 DEF Decide, hist, EncoderInv, Protocol, Calling, TypeInv, Flushes
    <2>2. pending' # "End"
      <3>1. CASE avail = 0 /\ (action = "RUN" \/ action = "FULL_BARRIER")
        BY <1>4, <2>1, <3>1 DEF Decide, Return
      <3>2. CASE ~(avail = 0 /\ (action = "RUN" \/ action = "FULL_BARRIER")) /\ avail = 0 /\ Drained /\ action = "FULL_FLUSH"
        BY <1>4, <2>1, <3>2 DEF Decide, Return
      <3>3. CASE avail = 0 /\ Drained /\ action = "FINISH"
        BY <1>4, <2>1, <3>3 DEF Decide, Return
      <3>4. CASE /\ ~(avail = 0 /\ action = "RUN") /\ ~(avail = 0 /\ action = "FULL_BARRIER")
                 /\ ~(avail = 0 /\ Drained /\ action = "FULL_FLUSH")
                 /\ ~(avail = 0 /\ Drained /\ action = "FINISH")
        BY <1>4, <2>1, <3>4 DEF Decide, Return
      <3> QED  BY <3>1, <3>2, <3>3, <3>4
    <2> QED  BY <2>1, <2>2, Invisible
  <1>5. CASE TimeOut
    <2>1. UNCHANGED <<accepted, cuts, index, pending>>
      BY <1>5 DEF TimeOut, Return, coder, hist
    <2> QED  BY <2>1, Invisible
  <1>6. CASE UpdateFilters \/ End \/ StartWorker \/ FedAll \/ Wait \/ Join
    <2>1. UNCHANGED <<accepted, cuts, index, pending>>
      BY <1>6 DEF UpdateFilters, End, StartWorker, FedAll, Wait, Join, app, coder, hist
    <2> QED  BY <2>1, Invisible
  <1>7. CASE \E w \in Worker : WorkerThread(w)
    <2>1. UNCHANGED <<accepted, cuts, index, pending>>
      <3>1. PICK w \in Worker : WorkerThread(w)
        BY <1>7
      <3>2. CASE EncodeChunk(w)
        BY <3>2 DEF EncodeChunk, app, coder, hist
      <3>3. CASE StoreBlock(w)
        BY <3>3 DEF StoreBlock, app, coder, hist
      <3>4. CASE Publish(w)
        BY <3>4 DEF Publish, app, coder, hist
      <3>5. CASE TakeJob(w) \/ Retire(w) \/ Fail(w) \/ Reset(w)
        BY <3>5 DEF TakeJob, Retire, Fail, Reset, app, coder, hist
      <3> QED  BY <3>1, <3>2, <3>3, <3>4, <3>5 DEF WorkerThread
    <2> QED  BY <2>1, Invisible
  <1>8. CASE UNCHANGED vars
    <2>1. UNCHANGED <<accepted, cuts, index, pending>>
      BY <1>8 DEF vars, app, coder, hist
    <2> QED  BY <2>1, Invisible
  <1> QED  BY <1>1, <1>2, <1>3, <1>4, <1>5, <1>6, <1>7, <1>8 DEF Next, AppThread

(* The threaded encoder implements OrderedBlocks: in every behaviour, with *)
(* any number of threads, whatever fails and whatever job is lost, the     *)
(* input accepted is cut into Blocks, only whole Blocks are written, each  *)
(* once and in input order, and the Stream ends only when all are out.     *)
THEOREM EncoderImplementsOrderedBlocks == Spec => ImplementsOrderedBlocks
  <1>1. Init => Promise!Init
    <2>1. Init => [b \in DOMAIN index |-> index[b].content] = <<>>
      BY DEF Init
    <2> QED  BY <2>1 DEF Init, Promise!Init
  <1> QED  BY <1>1, InitInv, NextStep, StepImplements, PTL DEF Spec, ImplementsOrderedBlocks, Promise!Spec
=============================================================================
