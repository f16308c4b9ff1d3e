--------------------------- MODULE ClusterProofs ---------------------------
(***************************************************************************)
(* Who holds a queue file, and when and how often it is sent, for any      *)
(* number of workers, mails, crashes and orders.                           *)
(*                                                                         *)
(* The argument is about custody: an item in the memory of a process is of *)
(* a file with the pid of that process (Owns), and a file changes its pid  *)
(* only on the way from a process that has ended, which every message,     *)
(* request and directory listing on that way is about (EndedOnly).         *)
(***************************************************************************)
EXTENDS Cluster, FiniteSetTheorems, TLAPS

FileT   == [there : BOOLEAN, due : Nat, pid : Nat, fails : Nat]
NameT   == [m : Mails, due : Nat, pid : Nat]
Places  == {"later", "load", "timer", "queued", "sending", "sent"}
ItemT   == [name : NameT, at : Places, fire : Int, ready : {"no", "yes", "never"},
            slot : BOOLEAN, flushed : BOOLEAN]
MemT    == [up : BOOLEAN, stopped : BOOLEAN, cur_time : Nat, asked : SUBSET Nat, grab : SUBSET NameT,
            flush : {"no", "asked", "list"}, names : SUBSET NameT, found : SUBSET NameT,
            items : SUBSET ItemT]
States  == {"none", "starting", "listening", "leaving", "died", "gone"}
WorkerT == [st : States, signal : BOOLEAN, watched : BOOLEAN]
Events  == {"load_pid_queue", "shutdown", "flush"}
EventT  == [event : Events \cup {"flush domain"}, pid : Nat]
BudgetT == [crashes : Nat, kills : Nat, asked : SUBSET {"restart", "shutdown", "flush", "flush domain"}]

ScanTypes    == /\ file \in [Mails -> FileT]
                /\ mem \in [Pids -> MemT]
                /\ now \in Nat
                /\ sent \in [Mails -> Nat]
ClusterTypes == /\ worker \in [Pids -> WorkerT]
                /\ box \in [Pids -> Seq(EventT)]
                /\ master \in [st : {"starting", "up", "dead", "done"}, listener : BOOLEAN, stopping : BOOLEAN]
                /\ budget \in BudgetT
TypeOK == ScanTypes /\ ClusterTypes

Ended(q) == q \in Pids => worker[q].st \in {"died", "gone"}

\* A process has memory from its fork to its end, and none before the first.
Alive == /\ \A p \in Pids : IF mem[p].up THEN worker[p].st \in {"starting", "listening", "leaving"}
                            ELSE mem[p] = NoMemory
         /\ master.st = "starting" =>
               /\ \A p \in Pids : worker[p].st = "none" /\ ~mem[p].up
               /\ \A m \in Mails : file[m].pid = 0
         /\ master.st = "dead" => \A p \in Pids : ~mem[p].up

\* The messages on their way to a process.
Told(p) == {box[p][k] : k \in DOMAIN box[p]}

\* What a process is told to take over, or is taking over, has ended.
EndedOnly ==
    \A p \in Pids :
        /\ \A e \in Told(p) : e.event = "load_pid_queue" => Ended(e.pid)
        /\ \A q \in mem[p].asked : Ended(q)
        /\ \A n \in mem[p].grab : Ended(n.pid)

\* What a process holds, or has found to flush, bears its pid.
Owns == \A p \in Pids : /\ \A i \in mem[p].items : file[i.name.m].pid = p
                        /\ \A n \in mem[p].found : file[n.m].pid = p

Custody == TypeOK /\ Alive /\ EndedOnly /\ Owns

\* No timer fires before the file is due, and what has fired was due.
TimelyItem(i) == IF i.at \in {"timer", "later"} THEN i.name.due =< i.fire
                 ELSE i.flushed \/ i.name.due =< now
Timely == \A p \in Pids : mem[p].cur_time =< now /\ \A i \in mem[p].items : TimelyItem(i)

\* As long as no domain is flushed, a file has one item, which knows its name.
NoDomain == "flush domain" \notin budget.asked
NoList   == \A p \in Pids : /\ mem[p].flush = "no"
                            /\ \A e \in Told(p) : e.event \in Events
Known    == \A p \in Pids : \A i \in mem[p].items : Exists(i.name)
Single   == \A p \in Pids : \A i, j \in mem[p].items : i.name.m = j.name.m => i = j

\* A mail that was sent and is still there has an item on the way to its
\* unlink, or the end of a process is to blame.
Unlinking(m) == \E p \in Pids : \E i \in mem[p].items : i.name.m = m /\ i.at = "sent"
Settled(m)   == file[m].there /\ ~Unlinking(m) /\ master.st # "dead"
Counted ==
    \A m \in Mails : /\ sent[m] =< 1 + budget.crashes + budget.kills
                     /\ Settled(m) => sent[m] =< budget.crashes + budget.kills

Once == NoDomain => NoList /\ Known /\ Single /\ Counted

IInv == Custody /\ Timely /\ Once

\* A step of which the workers, the master and the operator know nothing, and
\* in which no message is sent; one may be received.
NothingTold == /\ UNCHANGED <<worker, master, budget>>
               /\ ClusterTypes'
               /\ \A p \in Pids : \A e \in Told(p)' : e \in Told(p)

------------------------------------------------------------------------------
(* Facts about sequences and sets. *)

LEMMA SeqOfSet ==
    ASSUME NEW S, IsFiniteSet(S)
    PROVE  SetToSeq(S) \in Seq(S)
<1>1. PICK f : f \in Bijection(1 .. Cardinality(S), S)
    BY FS_CardinalityType DEF ExistsBijection
<1>2. f \in [1 .. Cardinality(S) -> S] /\ IsInjective(f)
    BY <1>1 DEF Bijection, Injection, IsInjective
<1>3. SetToSeq(S) \in [1 .. Cardinality(S) -> S]
    BY <1>2 DEF SetToSeq
<1> QED
    BY <1>3, FS_CardinalityType

LEMMA NamePid == \A m \in Mails : Name(m).m = m /\ Name(m).due = file[m].due /\ Name(m).pid = file[m].pid
    BY DEF Name

LEMMA OutsidePids == 0 \notin Pids /\ \A p \in Pids : p \in Nat
    BY ScanAssumption

\* A process that is up has not ended.
LEMMA UpNotEnded == ASSUME Custody, NEW p \in Pids, mem[p].up PROVE ~Ended(p)
    BY DEF Custody, Alive, Ended

LEMMA HoldsUp == ASSUME Custody, NEW p \in Pids, ~mem[p].up PROVE mem[p] = NoMemory
    BY DEF Custody, Alive

\* No process holds two files of a mail for two pids.
LEMMA HolderIs ==
    ASSUME Custody, NEW p \in Pids, NEW i \in mem[p].items
    PROVE  i \in ItemT /\ i.name.m \in Mails /\ file[i.name.m].pid = p /\ mem[p].up
<1>1. mem[p] \in MemT
    BY DEF Custody, TypeOK, ScanTypes
<1>2. i \in ItemT
    BY <1>1 DEF MemT
<1>3. mem[p].up
    BY HoldsUp DEF NoMemory
<1> QED
    BY <1>2, <1>3 DEF ItemT, NameT, Custody, Owns

\* A mail whose name has the pid of an ended process is held by nobody.
LEMMA HeldByNobody ==
    ASSUME Custody, NEW m \in Mails, Ended(file[m].pid)
    PROVE  \A p \in Pids : \A i \in mem[p].items : i.name.m # m
    BY HolderIs, UpNotEnded

\* The same of the files it has found to flush.
LEMMA FoundIs ==
    ASSUME Custody, NEW p \in Pids, NEW n \in mem[p].found
    PROVE  n.m \in Mails /\ file[n.m].pid = p /\ mem[p].up
<1>1. mem[p] \in MemT
    BY DEF Custody, TypeOK, ScanTypes
<1>2. n \in NameT
    BY <1>1 DEF MemT
<1>3. mem[p].up
    BY HoldsUp DEF NoMemory
<1> QED
    BY <1>2, <1>3 DEF NameT, Custody, Owns

LEMMA FoundByNobody ==
    ASSUME Custody, NEW m \in Mails, Ended(file[m].pid)
    PROVE  \A p \in Pids : \A n \in mem[p].found : n.m # m
    BY FoundIs, UpNotEnded

LEMMA FilesOfPid ==
    ASSUME ScanTypes, NEW q \in Nat
    PROVE  \A n \in FilesOf(q) : n \in NameT /\ n.pid = q /\ Exists(n)
    BY DEF FilesOf, Name, NameT, ScanTypes, FileT, Exists

------------------------------------------------------------------------------
(* Custody. *)

LEMMA NoMemoryIn == NoMemory \in MemT
    BY DEF NoMemory, MemT

LEMMA NewWorkers == NotForked \in WorkerT /\ Gone \in WorkerT
<1>1. NotForked \in WorkerT
    BY DEF NotForked, WorkerT, States
<1> QED
    BY <1>1 DEF Gone, WorkerT, States

LEMMA InitCustody == Init => Custody
<1> SUFFICES ASSUME Init PROVE Custody
    OBVIOUS
<1> USE DEF Init, ScanInit
<1>1. ScanTypes
  <2>1. file \in [Mails -> FileT]
    <3>1. PICK due \in [Mails -> Dues] :
              file = [m \in Mails |-> [there |-> TRUE, due |-> due[m], pid |-> 0, fails |-> 0]]
        OBVIOUS
    <3>2. \A m \in Mails : due[m] \in Nat
        BY ScanAssumption
    <3> QED
        BY <3>1, <3>2 DEF FileT
  <2>2. mem \in [Pids -> MemT]
      BY NoMemoryIn
  <2> QED
      BY <2>1, <2>2 DEF ScanTypes
<1>2. ClusterTypes
  <2>1. worker \in [Pids -> WorkerT] /\ box \in [Pids -> Seq(EventT)]
      BY NewWorkers
  <2> QED
      BY <2>1 DEF ClusterTypes, BudgetT
<1>3. Alive
    BY DEF Alive, NotForked, NoMemory
<1>4. EndedOnly /\ Owns
    BY DEF EndedOnly, Told, Owns, NoMemory
<1> QED
    BY <1>1, <1>2, <1>3, <1>4 DEF Custody, TypeOK

\* Items that have moved on, or are flushed.
LEMMA Moved ==
    ASSUME NEW i \in ItemT, NEW a \in Places
    PROVE  /\ [i EXCEPT !.at = a] \in ItemT
           /\ [i EXCEPT !.at = a].name = i.name
           /\ [i EXCEPT !.at = a].at = a
           /\ [i EXCEPT !.at = a].fire = i.fire
           /\ [i EXCEPT !.at = a].flushed = i.flushed
    BY DEF ItemT

LEMMA Timed ==
    ASSUME NEW i \in ItemT, NEW f \in Int
    PROVE  /\ [i EXCEPT !.at = "timer", !.fire = f] \in ItemT
           /\ [i EXCEPT !.at = "timer", !.fire = f].name = i.name
           /\ [i EXCEPT !.at = "timer", !.fire = f].at = "timer"
           /\ [i EXCEPT !.at = "timer", !.fire = f].fire = f
           /\ [i EXCEPT !.at = "timer", !.fire = f].flushed = i.flushed
    BY DEF ItemT, Places

LEMMA Read ==
    ASSUME NEW i \in ItemT, NEW j,
           j \in {[i EXCEPT !.ready = "yes", !.slot = FALSE], [i EXCEPT !.ready = "never"]}
    PROVE  /\ j \in ItemT /\ j.name = i.name /\ j.at = i.at
           /\ j.fire = i.fire /\ j.flushed = i.flushed
<1>1. CASE j = [i EXCEPT !.ready = "yes", !.slot = FALSE]
    BY <1>1 DEF ItemT
<1>2. CASE j = [i EXCEPT !.ready = "never"]
    BY <1>2 DEF ItemT
<1> QED
    BY <1>1, <1>2

LEMMA NewDue ==
    ASSUME NEW n \in NameT, NEW d \in Nat
    PROVE  /\ [n EXCEPT !.due = d] \in NameT
           /\ [n EXCEPT !.due = d] = [m |-> n.m, due |-> d, pid |-> n.pid]
<1> DEFINE s == [n EXCEPT !.due = d]
<1>1. s \in NameT /\ s.m = n.m /\ s.due = d /\ s.pid = n.pid
    BY DEF NameT
<1> HIDE DEF s
<1>2. s = [m |-> s.m, due |-> s.due, pid |-> s.pid]
    BY <1>1 DEF NameT
<1> QED
    BY <1>1, <1>2 DEF s

LEMMA AgainItem ==
    ASSUME NEW i \in ItemT, now + Delay \in Nat
    PROVE  /\ Again(i) \in ItemT /\ Again(i).at = "timer" /\ Again(i).fire = now + Delay
           /\ Again(i).name = [m |-> i.name.m, due |-> now + Delay, pid |-> i.name.pid]
<1> DEFINE d == now + Delay
           s == [i.name EXCEPT !.due = d]
           e == [i EXCEPT !.name = s]
           g == [e EXCEPT !.at = "timer", !.fire = d]
           h == [g EXCEPT !.flushed = FALSE]
<1>1. h = Again(i)
    BY DEF Again
<1>2. s \in NameT /\ s = [m |-> i.name.m, due |-> d, pid |-> i.name.pid]
    BY NewDue DEF ItemT
<1>3. d \in Int
    OBVIOUS
<1> HIDE DEF s, d
<1>4. e \in ItemT /\ e.name = s
    BY <1>2 DEF ItemT
<1> HIDE DEF e
<1>5. g \in ItemT /\ g.name = e.name /\ g.at = "timer" /\ g.fire = d
    BY <1>3, <1>4 DEF ItemT, Places
<1> HIDE DEF g
<1>6. h \in ItemT /\ h.name = g.name /\ h.at = g.at /\ h.fire = g.fire
    BY <1>5 DEF ItemT
<1> HIDE DEF h
<1> QED
    BY <1>1, <1>2, <1>4, <1>5, <1>6 DEF d

LEMMA NewItems ==
    ASSUME NEW r \in MemT, NEW X \in SUBSET ItemT
    PROVE  /\ [r EXCEPT !.items = X] \in MemT
           /\ [r EXCEPT !.items = X].items = X
           /\ [r EXCEPT !.items = X].up = r.up
           /\ [r EXCEPT !.items = X].asked = r.asked
           /\ [r EXCEPT !.items = X].grab = r.grab
           /\ [r EXCEPT !.items = X].found = r.found
           /\ [r EXCEPT !.items = X].flush = r.flush
           /\ [r EXCEPT !.items = X].cur_time = r.cur_time
    BY DEF MemT

LEMMA SameCluster == ASSUME ClusterTypes, UNCHANGED clusterVars PROVE NothingTold
<1>1. ClusterTypes'
    BY DEF ClusterTypes, clusterVars
<1> QED
    BY <1>1 DEF NothingTold, Told, clusterVars

\* A step of process p that only changes its items, of files that are its own.
LEMMA ItemsCustody ==
    ASSUME Custody, NEW p \in Pids, mem[p].up, NEW X \in SUBSET ItemT,
           mem' = [mem EXCEPT ![p].items = X],
           file' \in [Mails -> FileT], \A m \in Mails : file'[m].pid = file[m].pid,
           sent' \in [Mails -> Nat], now' = now, NothingTold,
           \A i \in X : file[i.name.m].pid = p
    PROVE  Custody'
<1> USE DEF Custody, TypeOK
<1>1. mem[p] \in MemT
    BY DEF ScanTypes
<1>2. mem' \in [Pids -> MemT]
    BY <1>1, NewItems DEF ScanTypes
<1> DEFINE r == [mem[p] EXCEPT !.items = X]
<1>3. (\A q \in Pids \ {p} : mem'[q] = mem[q]) /\ mem'[p] = r
    BY DEF ScanTypes
<1>4. /\ mem'[p].items = X /\ mem'[p].up = mem[p].up /\ mem'[p].asked = mem[p].asked
      /\ mem'[p].grab = mem[p].grab /\ mem'[p].found = mem[p].found
  <2>1. /\ r.items = X /\ r.up = mem[p].up /\ r.asked = mem[p].asked
        /\ r.grab = mem[p].grab /\ r.found = mem[p].found
      BY <1>1, NewItems
  <2> HIDE DEF r
  <2> QED
      BY <1>3, <2>1
<1>5. ScanTypes' /\ ClusterTypes'
    BY <1>2 DEF ScanTypes, NothingTold
<1>6. Alive'
    BY <1>3, <1>4 DEF Alive, NothingTold
<1>7. EndedOnly'
    BY <1>3, <1>4 DEF EndedOnly, Ended, NothingTold
<1>8. Owns'
  <2> SUFFICES ASSUME NEW q \in Pids
               PROVE  /\ \A i \in mem'[q].items : file'[i.name.m].pid = q
                      /\ \A n \in mem'[q].found : file'[n.m].pid = q
      BY DEF Owns
  <2>1. CASE q = p
      BY <1>4, <2>1, FoundIs DEF Owns, ItemT, NameT
  <2>2. CASE q # p
      BY <1>3, <2>2, HolderIs, FoundIs DEF Owns
  <2> QED
      BY <2>1, <2>2
<1> QED
    BY <1>5, <1>6, <1>7, <1>8

------------------------------------------------------------------------------
(* Times, and the one item of a file. *)

LEMMA InitTimely == Init => Timely
    BY DEF Init, ScanInit, Timely, NoMemory

LEMMA InitOnce == Init => Once
<1> SUFFICES ASSUME Init PROVE Once
    OBVIOUS
<1>1. NoList /\ Known /\ Single
    BY DEF Init, ScanInit, NoList, Told, Known, Single, NoMemory
<1>2. Counted
  <2>1. budget.crashes = 0 /\ budget.kills = 0 /\ \A m \in Mails : sent[m] = 0
      BY DEF Init, ScanInit
  <2> QED
      BY <2>1 DEF Counted
<1> QED
    BY <1>1, <1>2 DEF Once

\* The memory of the processes after a step of p that only changes its items.
LEMMA ItemsStep ==
    ASSUME ScanTypes, NEW p \in Pids, NEW X \in SUBSET ItemT,
           mem' = [mem EXCEPT ![p].items = X]
    PROVE  /\ \A q \in Pids \ {p} : mem'[q] = mem[q]
           /\ mem'[p].items = X /\ mem'[p].cur_time = mem[p].cur_time
           /\ mem'[p].flush = mem[p].flush /\ mem'[p].up = mem[p].up
<1>1. mem[p] \in MemT
    BY DEF ScanTypes
<1> DEFINE r == [mem[p] EXCEPT !.items = X]
<1>2. (\A q \in Pids \ {p} : mem'[q] = mem[q]) /\ mem'[p] = r
    BY DEF ScanTypes
<1>3. r.items = X /\ r.cur_time = mem[p].cur_time /\ r.flush = mem[p].flush /\ r.up = mem[p].up
    BY <1>1, NewItems
<1> HIDE DEF r
<1> QED
    BY <1>2, <1>3

LEMMA ItemsTimely ==
    ASSUME ScanTypes, Timely, NEW p \in Pids, NEW X \in SUBSET ItemT,
           mem' = [mem EXCEPT ![p].items = X],
           now' = now, \A i \in X : TimelyItem(i)
    PROVE  Timely'
    BY ItemsStep DEF Timely, TimelyItem

\* A step of p that keeps its items known and single, leaves the files of the
\* others alone, and settles no mail that it sends.
LEMMA ItemsOnce ==
    ASSUME ScanTypes, Once, NEW p \in Pids, NEW X \in SUBSET ItemT,
           mem' = [mem EXCEPT ![p].items = X], NothingTold,
           NoDomain => /\ \A i \in X : Exists(i.name)'
                       /\ \A i, j \in X : i.name.m = j.name.m => i = j
                       /\ \A q \in Pids \ {p} : \A i \in mem[q].items : Exists(i.name)'
                       /\ \A m \in Mails :
                             \/ sent'[m] = sent[m] /\ (Settled(m)' => Settled(m))
                             \/ sent'[m] =< 1 + budget.crashes + budget.kills /\ ~Settled(m)'
    PROVE  Once'
<1> SUFFICES ASSUME NoDomain PROVE NoList' /\ Known' /\ Single' /\ Counted'
    BY DEF Once, NoDomain, NothingTold
<1>1. NoList'
    BY ItemsStep DEF Once, NoList, NothingTold
<1>2. Known'
  <2> SUFFICES ASSUME NEW q \in Pids, NEW i \in mem'[q].items PROVE Exists(i.name)'
      BY DEF Known
  <2>1. /\ q = p => i \in X
        /\ q # p => q \in Pids \ {p} /\ i \in mem[q].items
      BY ItemsStep, ZenonT(60)
  <2> QED
      BY <2>1, Zenon
<1>3. Single'
    BY ItemsStep DEF Once, Single
<1>4. Counted'
    BY DEF Once, Counted, NothingTold
<1> QED
    BY <1>1, <1>2, <1>3, <1>4

------------------------------------------------------------------------------
(* Loading and sending. *)

\* An item that moves on within a process.
LEMMA MovesOn ==
    ASSUME Custody, Timely, NEW p \in Pids,
           LoadFile(p) \/ ReadTodo(p) \/ TimerFires(p) \/ Deliver(p)
    PROVE  /\ mem[p].up /\ UNCHANGED <<file, now, sent>>
           /\ \E i \in mem[p].items, j \in ItemT :
                 /\ mem' = [mem EXCEPT ![p].items = (mem[p].items \ {i}) \cup {j}]
                 /\ j.name = i.name /\ (j.at = "sent" <=> i.at = "sent")
                 /\ TimelyItem(j)
<1>1. now \in Nat /\ mem[p] \in MemT /\ mem[p].cur_time \in Nat /\ mem[p].cur_time =< now
    BY DEF Custody, TypeOK, ScanTypes, MemT, Timely
<1>2. \A i \in mem[p].items : i \in ItemT /\ TimelyItem(i) /\ i.name.due \in Nat
    BY HolderIs DEF Timely, ItemT, NameT
<1>3. CASE LoadFile(p)
  <2>1. PICK i \in Items(p, "load") : Change(p, i, [AddFile(p, i) EXCEPT !.slot = TRUE])
      BY <1>3 DEF LoadFile
  <2>2. i \in mem[p].items /\ i.at = "load"
      BY <2>1 DEF Items
  <2> DEFINE k == AddFile(p, i)
             j == [k EXCEPT !.slot = TRUE]
  <2>3. k \in ItemT /\ k.name = i.name /\ k.at \in {"queued", "timer"} /\ TimelyItem(k)
    <3>1. CASE i.name.due < mem[p].cur_time
      <4>1. k = [i EXCEPT !.at = "queued"]
          BY <3>1 DEF AddFile
      <4>2. i.name.due =< now
          BY <1>1, <1>2, <2>2, <3>1
      <4> QED
        <5> DEFINE h == [i EXCEPT !.at = "queued"]
        <5>1. "queued" \in Places
            BY DEF Places
        <5>2. h \in ItemT /\ h.name = i.name /\ h.at = "queued"
            BY <1>2, <2>2, <5>1, Moved
        <5> HIDE DEF h
        <5> QED
            BY <4>1, <4>2, <5>2 DEF TimelyItem, h
    <3>2. CASE ~(i.name.due < mem[p].cur_time)
      <4>1. k = [i EXCEPT !.at = "timer", !.fire = now + i.name.due - mem[p].cur_time]
          BY <3>2 DEF AddFile
      <4>2. now + i.name.due - mem[p].cur_time \in Int /\ i.name.due =< now + i.name.due - mem[p].cur_time
          BY <1>1, <1>2, <2>2
      <4> QED
        <5> DEFINE f == now + i.name.due - mem[p].cur_time
                   h == [i EXCEPT !.at = "timer", !.fire = f]
        <5>1. h \in ItemT /\ h.name = i.name /\ h.at = "timer" /\ h.fire = f
            BY <1>2, <2>2, <4>2, Timed
        <5> HIDE DEF h
        <5> QED
            BY <4>1, <4>2, <5>1 DEF TimelyItem, h
    <3> QED
        BY <3>1, <3>2
  <2> HIDE DEF k
  <2>4. j \in ItemT /\ j.name = k.name /\ j.at = k.at /\ j.fire = k.fire /\ j.flushed = k.flushed
      BY <2>3 DEF ItemT
  <2> HIDE DEF j
  <2>5. TimelyItem(j) /\ j.at # "sent" /\ i.at # "sent"
      BY <2>2, <2>3, <2>4 DEF TimelyItem
  <2>6. mem' = [mem EXCEPT ![p].items = (mem[p].items \ {i}) \cup {j}]
      BY <2>1 DEF Change, j, k
  <2> QED
      BY <1>3, <2>2, <2>3, <2>4, <2>5, <2>6 DEF LoadFile
<1>4. CASE ReadTodo(p)
  <2>1. PICK i \in mem[p].items :
            Change(p, i, IF Exists(i.name) THEN [i EXCEPT !.ready = "yes", !.slot = FALSE]
                         ELSE [i EXCEPT !.ready = "never"])
      BY <1>4 DEF ReadTodo
  <2> DEFINE j == IF Exists(i.name) THEN [i EXCEPT !.ready = "yes", !.slot = FALSE]
                  ELSE [i EXCEPT !.ready = "never"]
  <2>2. j \in ItemT /\ j.name = i.name /\ j.at = i.at /\ j.fire = i.fire /\ j.flushed = i.flushed
      BY <1>2, Read
  <2>3. mem' = [mem EXCEPT ![p].items = (mem[p].items \ {i}) \cup {j}]
      BY <2>1 DEF Change
  <2> HIDE DEF j
  <2>4. TimelyItem(j)
      BY <1>2, <2>2 DEF TimelyItem
  <2> QED
      BY <1>4, <2>2, <2>3, <2>4 DEF ReadTodo
<1>5. CASE TimerFires(p)
  <2>1. PICK i \in Due(p) : Change(p, i, TimerRuns(i))
      BY <1>5 DEF TimerFires
  <2>2. i \in mem[p].items /\ i.at \in {"later", "timer"} /\ i.fire =< now
      BY <2>1 DEF Due, Items
  <2> DEFINE a == IF i.at = "later" THEN "load" ELSE "queued"
             j == [i EXCEPT !.at = a]
  <2>3. a \in Places /\ TimerRuns(i) = j /\ a \notin {"timer", "later", "sent"}
      BY <2>2 DEF Places, TimerRuns
  <2>4. j \in ItemT /\ j.name = i.name /\ j.at = a /\ j.flushed = i.flushed
      BY <1>2, <2>2, <2>3, Moved
  <2>5. mem' = [mem EXCEPT ![p].items = (mem[p].items \ {i}) \cup {j}]
      BY <2>1, <2>3 DEF Change
  <2>6. i.name.due =< now
    <3>1. i.name.due \in Nat /\ i.fire \in Int /\ i.name.due =< i.fire
        BY <1>2, <2>2 DEF TimelyItem, ItemT
    <3> QED
        BY <1>1, <2>2, <3>1
  <2> HIDE DEF j, a
  <2>7. TimelyItem(j)
      BY <2>3, <2>4, <2>6 DEF TimelyItem
  <2> QED
      BY <1>5, <2>2, <2>3, <2>4, <2>5, <2>7 DEF TimerFires
<1>6. CASE Deliver(p)
  <2>1. PICK i \in Items(p, "queued") : Change(p, i, [i EXCEPT !.at = "sending"])
      BY <1>6 DEF Deliver
  <2>2. i \in mem[p].items /\ i.at = "queued"
      BY <2>1 DEF Items
  <2> DEFINE j == [i EXCEPT !.at = "sending"]
  <2>3. "sending" \in Places
      BY DEF Places
  <2>4. j \in ItemT /\ j.name = i.name /\ j.at = "sending" /\ j.flushed = i.flushed
      BY <1>2, <2>2, <2>3, Moved
  <2>5. mem' = [mem EXCEPT ![p].items = (mem[p].items \ {i}) \cup {j}]
      BY <2>1 DEF Change
  <2> HIDE DEF j
  <2>6. TimelyItem(j)
      BY <1>2, <2>2, <2>4 DEF TimelyItem
  <2> QED
      BY <1>6, <2>2, <2>4, <2>5, <2>6 DEF Deliver
<1> QED
    BY <1>3, <1>4, <1>5, <1>6

\* A step of p in which its items move on, and keep their names.
LEMMA ItemsMove ==
    ASSUME IInv, NEW p \in Pids, mem[p].up, NEW X \in SUBSET ItemT,
           mem' = [mem EXCEPT ![p].items = X],
           UNCHANGED <<file, now, sent>>, NothingTold,
           \A k \in X : TimelyItem(k),
           \A k \in X : \E h \in mem[p].items : h.name = k.name /\ (h.at = "sent" <=> k.at = "sent"),
           \A h \in mem[p].items : \E k \in X : h.name = k.name /\ (h.at = "sent" <=> k.at = "sent"),
           Single => \A h, k \in X : h.name.m = k.name.m => h = k
    PROVE  IInv'
<1> USE DEF IInv
<1>1. ScanTypes /\ \A k \in X : file[k.name.m].pid = p
    BY HolderIs DEF Custody, TypeOK
<1>2. Custody'
  <2>1. file' \in [Mails -> FileT] /\ sent' \in [Mails -> Nat]
      BY <1>1 DEF ScanTypes
  <2> QED
      BY <1>1, <2>1, ItemsCustody
<1>3. Timely'
    BY <1>1, ItemsTimely
<1>4. \A m \in Mails : Unlinking(m) => Unlinking(m)'
  <2> SUFFICES ASSUME NEW m \in Mails, NEW q \in Pids, NEW h \in mem[q].items,
                      h.name.m = m, h.at = "sent"
               PROVE  \E k \in mem'[q].items : k.name.m = m /\ k.at = "sent"
      BY DEF Unlinking
  <2>1. mem'[p].items = X /\ (q # p => mem'[q] = mem[q])
      BY <1>1, ItemsStep
  <2> QED
      BY <2>1
<1>5. Once'
  <2>1. ASSUME NoDomain
        PROVE  /\ \A k \in X : Exists(k.name)'
               /\ \A q \in Pids \ {p} : \A k \in mem[q].items : Exists(k.name)'
               /\ \A m \in Mails : sent'[m] = sent[m] /\ (Settled(m)' => Settled(m))
      BY <1>1, <1>4, <2>1, SMTT(30) DEF Once, Known, Exists, Name, Settled, NothingTold
  <2> QED
      BY <1>1, <2>1, ItemsOnce DEF Once
<1> QED
    BY <1>2, <1>3, <1>5

LEMMA MoveKeeps ==
    ASSUME IInv, NEW p \in Pids, UNCHANGED clusterVars,
           LoadFile(p) \/ ReadTodo(p) \/ TimerFires(p) \/ Deliver(p)
    PROVE  IInv'
<1> USE DEF IInv
<1>1. mem[p].up /\ UNCHANGED <<file, now, sent>>
    BY MovesOn
<1>2. PICK i \in mem[p].items, j \in ItemT :
          /\ mem' = [mem EXCEPT ![p].items = (mem[p].items \ {i}) \cup {j}]
          /\ j.name = i.name /\ (j.at = "sent" <=> i.at = "sent")
          /\ TimelyItem(j)
    BY MovesOn
<1> DEFINE X == (mem[p].items \ {i}) \cup {j}
<1>3. ScanTypes /\ X \in SUBSET ItemT /\ mem' = [mem EXCEPT ![p].items = X]
    BY <1>2, HolderIs DEF Custody, TypeOK
<1>4. \A k \in X : TimelyItem(k)
    BY <1>2 DEF Timely
<1>5. \A k \in X : \E h \in mem[p].items : h.name = k.name /\ (h.at = "sent" <=> k.at = "sent")
    BY <1>2
<1>6. \A h \in mem[p].items : \E k \in X : h.name = k.name /\ (h.at = "sent" <=> k.at = "sent")
    BY <1>2
<1>7. Single => \A h, k \in X : h.name.m = k.name.m => h = k
    BY <1>2 DEF Single
<1> HIDE DEF X
<1>8. NothingTold
    BY SameCluster DEF Custody, TypeOK
<1> QED
    BY <1>1, <1>3, <1>4, <1>5, <1>6, <1>7, <1>8, ItemsMove

\* A mail that an accepted item is of is held by no other process.
LEMMA SendKeeps ==
    ASSUME IInv, NEW p \in Pids, UNCHANGED clusterVars, SendMail(p)
    PROVE  IInv'
<1> USE DEF IInv
<1>0. NothingTold
    BY SameCluster DEF Custody, TypeOK
<1>1. PICK i \in Items(p, "sending") :
          /\ sent' = [sent EXCEPT ![i.name.m] = @ + 1]
          /\ Change(p, i, [i EXCEPT !.at = "sent"])
    BY DEF SendMail
<1>2. i \in mem[p].items /\ i.at = "sending" /\ mem[p].up /\ UNCHANGED <<file, now>>
    BY <1>1 DEF Items, SendMail
<1> DEFINE n == i.name.m
           j == [i EXCEPT !.at = "sent"]
           X == (mem[p].items \ {i}) \cup {j}
<1>3. i \in ItemT /\ n \in Mails /\ file[n].pid = p
    BY <1>2, HolderIs
<1>4. j \in ItemT /\ j.name = i.name /\ j.at = "sent" /\ j.flushed = i.flushed
  <2>1. "sent" \in Places
      BY DEF Places
  <2> QED
      BY <1>3, <2>1, Moved
<1>5. ScanTypes /\ X \in SUBSET ItemT /\ mem' = [mem EXCEPT ![p].items = X]
    BY <1>1, <1>4, HolderIs DEF Custody, TypeOK, Change
<1>6. TimelyItem(j)
    BY <1>2, <1>4 DEF Timely, TimelyItem
<1> HIDE DEF j
<1>7. \A k \in X : TimelyItem(k) /\ file[k.name.m].pid = p
    BY <1>2, <1>3, <1>4, <1>6, HolderIs DEF Timely
<1>8. NoDomain => \A h, k \in X : h.name.m = k.name.m => h = k
    BY <1>2, <1>4 DEF Once, Single
<1>9. \A k \in X : \E h \in mem[p].items : h.name = k.name
    BY <1>2, <1>4
<1>10. \A h \in mem[p].items : h.at = "sent" => h \in X
    BY <1>2
<1>11. j \in X
    OBVIOUS
<1> HIDE DEF X
<1>12. /\ sent' \in [Mails -> Nat] /\ file' \in [Mails -> FileT]
       /\ sent'[n] = sent[n] + 1
       /\ \A m \in Mails \ {n} : sent'[m] = sent[m]
    BY <1>1, <1>2, <1>3, <1>5 DEF ScanTypes
<1>13. Custody'
    BY <1>0, <1>2, <1>5, <1>7, <1>12, ItemsCustody
<1>14. Timely'
    BY <1>2, <1>5, <1>7, ItemsTimely
<1>15. mem'[p].items = X /\ \A q \in Pids \ {p} : mem'[q] = mem[q]
    BY <1>5, ItemsStep
<1>16. \A m \in Mails : Unlinking(m) => Unlinking(m)'
  <2> SUFFICES ASSUME NEW m \in Mails, NEW q \in Pids, NEW h \in mem[q].items,
                      h.name.m = m, h.at = "sent"
               PROVE  \E k \in mem'[q].items : k.name.m = m /\ k.at = "sent"
      BY DEF Unlinking
  <2> QED
      BY <1>10, <1>15
<1>17. Unlinking(n)'
    BY <1>4, <1>11, <1>15 DEF Unlinking
<1>18. NoDomain => sent[n] =< budget.crashes + budget.kills
  <2> SUFFICES ASSUME NoDomain PROVE Settled(n)
      BY <1>3 DEF Once, Counted
  <2>1. file[n].there /\ master.st # "dead"
      BY <1>2, <1>3 DEF Once, Known, Exists, Custody, Alive
  <2>2. ASSUME NEW q \in Pids, NEW h \in mem[q].items, h.name.m = n, h.at = "sent"
        PROVE  FALSE
    <3>1. q = p
        BY <1>3, <2>2, HolderIs
    <3> QED
        BY <1>2, <2>2, <3>1 DEF Once, Single
  <2> QED
      BY <2>1, <2>2 DEF Settled, Unlinking
<1>19. Once'
  <2>1. ASSUME NoDomain
        PROVE  /\ \A k \in X : Exists(k.name)'
               /\ \A q \in Pids \ {p} : \A k \in mem[q].items : Exists(k.name)'
      BY <1>2, <1>9, <2>1 DEF Once, Known, Exists, Name
  <2>2. ASSUME NoDomain, NEW m \in Mails
        PROVE  \/ sent'[m] = sent[m] /\ (Settled(m)' => Settled(m))
               \/ sent'[m] =< 1 + budget.crashes + budget.kills /\ ~Settled(m)'
    <3>1. CASE m = n
      <4>1. budget.crashes \in Nat /\ budget.kills \in Nat /\ sent[n] \in Nat
          BY <1>3, <1>5 DEF Custody, TypeOK, ClusterTypes, BudgetT, ScanTypes
      <4>2. sent'[n] =< 1 + budget.crashes + budget.kills
          BY <1>12, <1>18, <2>2, <4>1
      <4> QED
          BY <1>17, <3>1, <4>2 DEF Settled
    <3>2. CASE m # n
        BY <1>2, <1>12, <1>16, <3>2 DEF Settled, clusterVars
    <3> QED
        BY <3>1, <3>2
  <2> QED
      BY <1>0, <1>5, <1>8, <2>1, <2>2, ItemsOnce
<1> QED
    BY <1>13, <1>14, <1>19

\* Of two items, of one process or of two, only one is of a mail.
LEMMA OtherMail ==
    ASSUME Custody, Once, NoDomain, NEW p \in Pids, NEW i \in mem[p].items,
           NEW q \in Pids, NEW k \in mem[q].items, q # p \/ k # i
    PROVE  k.name.m # i.name.m
    BY HolderIs DEF Once, Single

\* An item that leaves the memory of its process.
LEMMA DropKeeps ==
    ASSUME IInv, NEW p \in Pids, UNCHANGED clusterVars, Discard(p) \/ LosesFile(p)
    PROVE  IInv'
<1> USE DEF IInv
<1>0. NothingTold
    BY SameCluster DEF Custody, TypeOK
<1>1. PICK i \in mem[p].items :
          /\ mem[p].up /\ sent' = sent /\ now' = now
          /\ mem' = [mem EXCEPT ![p].items = @ \ {i}]
          /\ \/ file' = file /\ ~Exists(i.name)
             \/ file' = [file EXCEPT ![i.name.m].there = FALSE] /\ Exists(i.name)
    BY DEF Discard, LosesFile, Drop, Items
<1> DEFINE n == i.name.m
           X == mem[p].items \ {i}
<1>2. i \in ItemT /\ n \in Mails
    BY HolderIs
<1>3. ScanTypes /\ X \in SUBSET ItemT /\ mem' = [mem EXCEPT ![p].items = X]
    BY <1>1, HolderIs DEF Custody, TypeOK
<1>10. mem[p].up /\ now' = now
    BY <1>1
<1>4. \A k \in X : TimelyItem(k) /\ file[k.name.m].pid = p
    BY HolderIs DEF Timely
<1>5. /\ file' \in [Mails -> FileT]
      /\ \A m \in Mails : file'[m].pid = file[m].pid /\ file'[m].due = file[m].due
      /\ \A m \in Mails \ {n} : file'[m] = file[m]
      /\ Exists(i.name) => ~file'[n].there
  <2>1. CASE file' = file /\ ~Exists(i.name)
      BY <1>3, <2>1 DEF ScanTypes
  <2>2. CASE file' = [file EXCEPT ![n].there = FALSE]
      BY <1>2, <1>3, <2>2 DEF ScanTypes, FileT
  <2> QED
      BY <1>1, <2>1, <2>2
<1>6. Custody'
  <2>1. sent' \in [Mails -> Nat] /\ \A m \in Mails : file'[m].pid = file[m].pid
      BY <1>1, <1>3, <1>5 DEF ScanTypes
  <2> HIDE DEF X
  <2>2. file' \in [Mails -> FileT]
      BY <1>5
  <2> QED
      BY <1>0, <1>3, <1>4, <1>10, <2>1, <2>2, ItemsCustody
<1>7. Timely'
    BY <1>1, <1>3, <1>4, ItemsTimely
<1>8. mem'[p].items = X /\ \A q \in Pids \ {p} : mem'[q] = mem[q]
    BY <1>3, ItemsStep
<1>9. Once'
  <2>1. NoDomain => \A h, k \in X : h.name.m = k.name.m => h = k
      BY DEF Once, Single
  <2>2. ASSUME NoDomain, NEW q \in Pids, NEW k \in mem[q].items, q # p \/ k # i
        PROVE  Exists(k.name)'
    <3>1. k.name.m \in Mails /\ k.name.m # n /\ Exists(k.name)
        BY <2>2, OtherMail, HolderIs DEF Once, Known
    <3> QED
        BY <1>5, <3>1 DEF Exists, Name
  <2>3. ASSUME NoDomain, NEW m \in Mails
        PROVE  \/ sent'[m] = sent[m] /\ (Settled(m)' => Settled(m))
               \/ sent'[m] =< 1 + budget.crashes + budget.kills /\ ~Settled(m)'
    <3>1. CASE m = n
      <4>1. Exists(i.name)
          BY <2>3 DEF Once, Known
      <4> QED
          BY <1>1, <1>5, <2>3, <3>1, <4>1 DEF Settled, Once, Counted
    <3>2. CASE m # n
      <4>1. Unlinking(m) => Unlinking(m)'
        <5> SUFFICES ASSUME NEW q \in Pids, NEW h \in mem[q].items,
                            h.name.m = m, h.at = "sent"
                     PROVE  \E k \in mem'[q].items : k.name.m = m /\ k.at = "sent"
            BY DEF Unlinking
        <5> QED
            BY <1>8, <3>2
      <4> QED
          BY <1>1, <1>5, <3>2, <4>1 DEF Settled, clusterVars
    <3> QED
        BY <3>1, <3>2
  <2> HIDE DEF X
  <2>4. NoDomain => /\ \A k \in X : Exists(k.name)'
                    /\ \A q \in Pids \ {p} : \A k \in mem[q].items : Exists(k.name)'
    <3>1. \A k \in X : k \in mem[p].items /\ k # i
        BY DEF X
    <3> QED
        BY <2>2, <3>1, Zenon
  <2> QED
      BY <1>0, <1>3, <2>1, <2>3, <2>4, ItemsOnce
<1> QED
    BY <1>6, <1>7, <1>9

\* A deferral: the item and its file get their new due time together.
LEMMA DeferKeeps ==
    ASSUME IInv, NEW p \in Pids, UNCHANGED clusterVars, DeferMail(p)
    PROVE  IInv'
<1> USE DEF IInv
<1>0. NothingTold
    BY SameCluster DEF Custody, TypeOK
<1>1. PICK i \in Items(p, "sending") :
          /\ Exists(i.name)
          /\ file' = [file EXCEPT ![i.name.m].due = now + Delay, ![i.name.m].fails = @ + 1]
          /\ Change(p, i, Again(i))
    BY DEF DeferMail
<1>2. i \in mem[p].items /\ i.at = "sending" /\ mem[p].up /\ UNCHANGED <<now, sent>>
    BY <1>1 DEF Items, DeferMail
<1> DEFINE n == i.name.m
           d == now + Delay
<1>3. i \in ItemT /\ i.name \in NameT /\ n \in Mails /\ file[n].pid = p /\ d \in Nat /\ ScanTypes
    BY <1>2, HolderIs, ScanAssumption DEF Custody, TypeOK, ScanTypes, ItemT
<1>4. PICK j \in ItemT : /\ j = Again(i) /\ j.at = "timer" /\ j.fire = d
                         /\ j.name = [m |-> n, due |-> d, pid |-> i.name.pid]
    BY <1>3, AgainItem
<1>5. j.name.m = n /\ j.name.due = d /\ j.name.pid = i.name.pid
  <2> HIDE DEF d
  <2> QED
      BY <1>4
<1> DEFINE X == (mem[p].items \ {i}) \cup {j}
<1>6. X \in SUBSET ItemT /\ mem' = [mem EXCEPT ![p].items = X]
    BY <1>1, <1>4, HolderIs DEF Change
<1>7. TimelyItem(j)
    BY <1>3, <1>4, <1>5 DEF TimelyItem
<1>8. \A k \in X : TimelyItem(k) /\ file[k.name.m].pid = p
    BY <1>3, <1>5, <1>7, HolderIs DEF Timely
<1>9. /\ file' \in [Mails -> FileT]
      /\ \A m \in Mails : file'[m].pid = file[m].pid /\ file'[m].there = file[m].there
      /\ \A m \in Mails \ {n} : file'[m] = file[m]
      /\ file'[n].due = d
    BY <1>1, <1>3 DEF ScanTypes, FileT
<1>10. Custody'
  <2>1. sent' \in [Mails -> Nat] /\ \A m \in Mails : file'[m].pid = file[m].pid
      BY <1>2, <1>3, <1>9 DEF ScanTypes
  <2> HIDE DEF X
  <2>2. ScanTypes /\ file' \in [Mails -> FileT] /\ mem[p].up /\ now' = now
      BY <1>2, <1>3, <1>9
  <2>3. \A k \in X : file[k.name.m].pid = p
      BY <1>8
  <2> QED
      BY <1>0, <1>6, <2>1, <2>2, <2>3, ItemsCustody
<1>11. Timely'
    BY <1>2, <1>3, <1>6, <1>8, ItemsTimely
<1>12. Exists(j.name)'
  <2>1. i.name.pid = p /\ file[n].there
      BY <1>1, <1>3, NamePid DEF Exists
  <2>2. j.name = [m |-> n, due |-> file'[n].due, pid |-> file'[n].pid] /\ file'[n].there
      BY <1>3, <1>4, <1>9, <2>1
  <2>3. j.name.m = n
      BY <1>5
  <2>4. file'[j.name.m].there
      BY <2>2, <2>3
  <2>5. [m |-> j.name.m, due |-> file'[j.name.m].due, pid |-> file'[j.name.m].pid] = j.name
      BY <2>2, <2>3, Zenon
  <2> QED
      BY <2>4, <2>5, Zenon DEF Exists, Name
<1>13. mem'[p].items = X /\ \A q \in Pids \ {p} : mem'[q] = mem[q]
    BY <1>3, <1>6, ItemsStep
<1>14. Once'
  <2>1. NoDomain => \A h, k \in X : h.name.m = k.name.m => h = k
      BY <1>2, <1>5 DEF Once, Single
  <2>2. ASSUME NoDomain, NEW q \in Pids, NEW k \in mem[q].items, q # p \/ k # i
        PROVE  Exists(k.name)'
    <3>1. k.name.m \in Mails /\ k.name.m # n /\ Exists(k.name)
        BY <1>2, <2>2, OtherMail, HolderIs DEF Once, Known
    <3> QED
        BY <1>9, <3>1 DEF Exists, Name
  <2>3. \A m \in Mails : Unlinking(m) => Unlinking(m)'
    <3> SUFFICES ASSUME NEW m \in Mails, NEW q \in Pids, NEW h \in mem[q].items,
                        h.name.m = m, h.at = "sent"
                 PROVE  \E k \in mem'[q].items : k.name.m = m /\ k.at = "sent"
        BY DEF Unlinking
    <3> QED
        BY <1>2, <1>13
  <2>4. \A m \in Mails : sent'[m] = sent[m] /\ (Settled(m)' => Settled(m))
      BY <1>2, <1>9, <2>3 DEF Settled, clusterVars
  <2>5. \A k \in X : k = j \/ (k \in mem[p].items /\ k # i)
      BY DEF X
  <2> HIDE DEF X
  <2>6. NoDomain => \A k \in X : Exists(k.name)'
      BY <1>12, <2>2, <2>5, Zenon
  <2>7. NoDomain => \A q \in Pids \ {p} : \A k \in mem[q].items : Exists(k.name)'
      BY <2>2, Zenon
  <2> QED
      BY <1>0, <1>3, <1>6, <2>1, <2>4, <2>6, <2>7, ItemsOnce
<1> QED
    BY <1>10, <1>11, <1>14

------------------------------------------------------------------------------
(* Readdir, rename, and the flush of a domain. *)

\* A step of p that leaves the files, its items and the time of its last
\* readdir as they are, or takes this for the time of one.
LEMMA SameItems ==
    ASSUME IInv, NEW p \in Pids, NEW r \in MemT, mem[p].up,
           mem' \in [Pids -> MemT], mem'[p] = r, \A q \in Pids \ {p} : mem'[q] = mem[q],
           r.up = mem[p].up, r.items = mem[p].items,
           r.flush = mem[p].flush \/ ~NoDomain,
           r.cur_time \in {mem[p].cur_time, now},
           \A q \in r.asked : Ended(q), \A n \in r.grab : Ended(n.pid), \A n \in r.found : file'[n.m].pid = p,
           UNCHANGED <<file, now, sent>>, NothingTold
    PROVE  IInv'
<1> USE DEF IInv
<1>1. ScanTypes /\ ClusterTypes
    BY DEF Custody, TypeOK
<1>2. (\A q \in Pids \ {p} : mem'[q] = mem[q]) /\ mem'[p] = r
    OBVIOUS
<1>3. \A q \in Pids : mem'[q].items = mem[q].items /\ mem'[q].up = mem[q].up
    BY <1>2
<1>4. Custody'
  <2>1. ScanTypes' /\ ClusterTypes'
      BY <1>1 DEF ScanTypes, NothingTold
  <2>2. Alive'
      BY <1>2, <1>3 DEF Custody, Alive, NothingTold
  <2>3. EndedOnly'
      BY <1>2 DEF Custody, EndedOnly, Ended, NothingTold
  <2>4. Owns'
      BY <1>2, <1>3 DEF Custody, Owns
  <2> QED
      BY <2>1, <2>2, <2>3, <2>4 DEF Custody, TypeOK
<1>5. Timely'
    BY <1>1, <1>2, <1>3 DEF Timely, TimelyItem, ScanTypes
<1>6. Once'
  <2> SUFFICES ASSUME NoDomain PROVE NoList' /\ Known' /\ Single' /\ Counted'
      BY DEF Once, NoDomain, NothingTold
  <2>1. NoList'
      BY <1>2 DEF Once, NoList, NothingTold
  <2>2. Known' /\ Single'
      BY <1>3 DEF Once, Known, Single, Exists, Name
  <2>3. \A m \in Mails : Settled(m)' <=> Settled(m)
      BY <1>3 DEF Settled, Unlinking, NothingTold
  <2>4. Counted'
      BY <2>3 DEF Once, Counted, NothingTold
  <2> QED
      BY <2>1, <2>2, <2>4
<1> QED
    BY <1>4, <1>5, <1>6

\* A process gets a memory that has the fields of its old one, but for some.
LEMMA NewMemory ==
    ASSUME ScanTypes, NEW p \in Pids, NEW r \in MemT, mem' = [mem EXCEPT ![p] = r]
    PROVE  mem' \in [Pids -> MemT] /\ mem'[p] = r /\ \A q \in Pids \ {p} : mem'[q] = mem[q]
    BY DEF ScanTypes

LEMMA ReadDirKeeps ==
    ASSUME IInv, NEW p \in Pids, ReadDir(p), UNCHANGED clusterVars
    PROVE  IInv'
<1> USE DEF IInv
<1>0. NothingTold
    BY SameCluster DEF Custody, TypeOK
<1>1. PICK q \in mem[p].asked :
          mem' = [mem EXCEPT ![p].asked = @ \ {q}, ![p].cur_time = now, ![p].grab = @ \cup FilesOf(q)]
    BY DEF ReadDir
<1>2. mem[p].up /\ UNCHANGED <<file, now, sent>>
    BY DEF ReadDir
<1>3. ScanTypes /\ mem[p] \in MemT /\ q \in Nat /\ Ended(q) /\ now \in Nat
    BY DEF Custody, TypeOK, ScanTypes, EndedOnly, MemT
<1>4. FilesOf(q) \in SUBSET NameT /\ \A n \in FilesOf(q) : n.pid = q
    BY <1>3, FilesOfPid
<1> DEFINE r == [mem[p] EXCEPT !.asked = @ \ {q}, !.cur_time = now, !.grab = @ \cup FilesOf(q)]
<1>5. /\ r \in MemT /\ r.asked = mem[p].asked \ {q} /\ r.cur_time = now
      /\ r.grab = mem[p].grab \cup FilesOf(q) /\ r.up = mem[p].up /\ r.items = mem[p].items
      /\ r.flush = mem[p].flush /\ r.found = mem[p].found
    BY <1>3, <1>4 DEF MemT
<1>6. mem' = [mem EXCEPT ![p] = r]
    BY <1>1, <1>3 DEF ScanTypes
<1> HIDE DEF r
<1>7. /\ \A h \in r.asked : Ended(h)
      /\ \A n \in r.grab : Ended(n.pid)
      /\ \A n \in r.found : file'[n.m].pid = p
    BY <1>2, <1>3, <1>4, <1>5 DEF Custody, EndedOnly, Owns
<1>8. mem' \in [Pids -> MemT] /\ mem'[p] = r /\ \A h \in Pids \ {p} : mem'[h] = mem[h]
    BY <1>3, <1>5, <1>6, NewMemory
<1> QED
    BY <1>0, <1>2, <1>5, <1>7, <1>8, SameItems

LEMMA NamesOfAll ==
    ASSUME ScanTypes
    PROVE  {Name(m) : m \in {k \in Mails : file[k].there}} \in SUBSET NameT
    BY DEF Name, NameT, ScanTypes, FileT

LEMMA ListDirKeeps ==
    ASSUME IInv, NEW p \in Pids, ListDir(p), UNCHANGED clusterVars
    PROVE  IInv'
<1> USE DEF IInv
<1>0. NothingTold
    BY SameCluster DEF Custody, TypeOK
<1> DEFINE all == {Name(m) : m \in {k \in Mails : file[k].there}}
           r   == [mem[p] EXCEPT !.flush = "list", !.cur_time = now, !.found = {}, !.names = all]
<1>1. /\ mem' = [mem EXCEPT ![p].flush = "list", ![p].cur_time = now, ![p].found = {}, ![p].names = all]
      /\ mem[p].up /\ mem[p].flush = "asked" /\ UNCHANGED <<file, now, sent>>
    BY DEF ListDir
<1>2. ScanTypes /\ mem[p] \in MemT /\ now \in Nat
    BY DEF Custody, TypeOK, ScanTypes
<1>3. all \in SUBSET NameT
    BY <1>2, NamesOfAll
<1> HIDE DEF all
<1>4. /\ r \in MemT /\ r.asked = mem[p].asked /\ r.cur_time = now
      /\ r.grab = mem[p].grab /\ r.up = mem[p].up /\ r.items = mem[p].items
      /\ r.found = {}
    BY <1>2, <1>3 DEF MemT
<1>5. mem' = [mem EXCEPT ![p] = r]
    BY <1>1, <1>2 DEF ScanTypes
<1> HIDE DEF r
<1>6. /\ \A h \in r.asked : Ended(h)
      /\ \A n \in r.grab : Ended(n.pid)
      /\ \A n \in r.found : file'[n.m].pid = p
    BY <1>4 DEF Custody, EndedOnly
<1>7. mem' \in [Pids -> MemT] /\ mem'[p] = r /\ \A h \in Pids \ {p} : mem'[h] = mem[h]
    BY <1>2, <1>4, <1>5, NewMemory
<1>8. ~NoDomain
    BY <1>1 DEF Once, NoList
<1> QED
    BY <1>0, <1>1, <1>4, <1>6, <1>7, <1>8, SameItems, ZenonT(60)

LEMMA ListFileKeeps ==
    ASSUME IInv, NEW p \in Pids, ListFile(p), UNCHANGED clusterVars
    PROVE  IInv'
<1> USE DEF IInv
<1>0. NothingTold
    BY SameCluster DEF Custody, TypeOK
<1>1. PICK n \in mem[p].names :
          mem' = IF Exists(n)
                 THEN [mem EXCEPT ![p].names = @ \ {n},
                                  ![p].found = IF n.pid = p THEN @ \cup {n} ELSE @]
                 ELSE [mem EXCEPT ![p].names = {}, ![p].found = {}, ![p].flush = "no"]
    BY DEF ListFile
<1>2. mem[p].up /\ mem[p].flush = "list" /\ UNCHANGED <<file, now, sent>>
    BY DEF ListFile
<1>3. ScanTypes /\ mem[p] \in MemT /\ n \in NameT /\ n.m \in Mails
    BY DEF Custody, TypeOK, ScanTypes, MemT, NameT
<1>4. ~NoDomain
    BY <1>2 DEF Once, NoList
<1>5. /\ \A h \in mem[p].asked : Ended(h)
      /\ \A k \in mem[p].grab : Ended(k.pid)
      /\ \A k \in mem[p].found : file[k.m].pid = p
    BY DEF Custody, EndedOnly, Owns
<1>6. ASSUME NEW r \in MemT, mem' = [mem EXCEPT ![p] = r],
             r.up = mem[p].up, r.items = mem[p].items, r.cur_time = mem[p].cur_time,
             r.asked = mem[p].asked, r.grab = mem[p].grab, \A k \in r.found : file[k.m].pid = p
      PROVE  IInv'
  <2>1. mem' \in [Pids -> MemT] /\ mem'[p] = r /\ \A h \in Pids \ {p} : mem'[h] = mem[h]
      BY <1>3, <1>6, NewMemory
  <2>2. /\ \A h \in r.asked : Ended(h)
        /\ \A k \in r.grab : Ended(k.pid)
        /\ \A k \in r.found : file'[k.m].pid = p
      BY <1>2, <1>5, <1>6
  <2> QED
      BY <1>0, <1>2, <1>4, <1>6, <2>1, <2>2, SameItems, ZenonT(60)
<1>7. CASE Exists(n)
  <2>1. PICK F : F = IF n.pid = p THEN mem[p].found \cup {n} ELSE mem[p].found
      OBVIOUS
  <2>2. mem' = [mem EXCEPT ![p].names = @ \ {n}, ![p].found = F]
      BY <1>1, <1>7, <2>1
  <2>3. file[n.m].pid = n.pid
      BY <1>3, <1>7, NamePid DEF Exists
  <2>4. F \in SUBSET NameT /\ \A k \in F : file[k.m].pid = p
      BY <1>3, <1>5, <2>1, <2>3 DEF MemT
  <2> DEFINE r == [mem[p] EXCEPT !.names = @ \ {n}, !.found = F]
  <2>5. /\ r \in MemT /\ r.up = mem[p].up /\ r.items = mem[p].items /\ r.cur_time = mem[p].cur_time
        /\ r.asked = mem[p].asked /\ r.grab = mem[p].grab /\ r.found = F
      BY <1>3, <2>4 DEF MemT
  <2>6. mem' = [mem EXCEPT ![p] = r]
      BY <1>3, <2>2 DEF ScanTypes
  <2> HIDE DEF r
  <2> QED
      BY <1>6, <2>4, <2>5, <2>6
<1>8. CASE ~Exists(n)
  <2> DEFINE r == [mem[p] EXCEPT !.names = {}, !.found = {}, !.flush = "no"]
  <2>1. /\ r \in MemT /\ r.up = mem[p].up /\ r.items = mem[p].items /\ r.cur_time = mem[p].cur_time
        /\ r.asked = mem[p].asked /\ r.grab = mem[p].grab /\ r.found = {}
      BY <1>3 DEF MemT
  <2>2. mem' = [mem EXCEPT ![p] = r]
      BY <1>1, <1>3, <1>8 DEF ScanTypes
  <2> HIDE DEF r
  <2> QED
      BY <1>6, <2>1, <2>2
<1> QED
    BY <1>7, <1>8

\* A step of p that gets items, of files that are its own from now on.
LEMMA MemoryCustody ==
    ASSUME Custody, NEW p \in Pids, mem[p].up, NEW r \in MemT, r.up,
           mem' \in [Pids -> MemT], mem'[p] = r, \A q \in Pids \ {p} : mem'[q] = mem[q],
           file' \in [Mails -> FileT], UNCHANGED <<now, sent>>, UNCHANGED clusterVars,
           \A q \in r.asked : Ended(q), \A n \in r.grab : Ended(n.pid), \A n \in r.found : file'[n.m].pid = p,
           \A i \in r.items : file'[i.name.m].pid = p,
           \A q \in Pids \ {p} : /\ \A i \in mem[q].items : file'[i.name.m].pid = q
                                /\ \A n \in mem[q].found : file'[n.m].pid = q
    PROVE  Custody'
<1>1. ScanTypes' /\ ClusterTypes'
    BY DEF Custody, TypeOK, ScanTypes, ClusterTypes, clusterVars
<1>2. Alive'
    BY DEF Custody, Alive, clusterVars
<1>3. EndedOnly'
    BY DEF Custody, EndedOnly, Told, Ended, clusterVars
<1>4. Owns'
    BY DEF Custody, Owns
<1> QED
    BY <1>1, <1>2, <1>3, <1>4 DEF Custody, TypeOK

LEMMA NewItemIs ==
    ASSUME NEW n \in NameT, NEW a \in Places, NEW f \in Int
    PROVE  /\ NewItem(n, a, f) \in ItemT /\ NewItem(n, a, f).name = n
           /\ NewItem(n, a, f).at = a /\ NewItem(n, a, f).fire = f
    BY DEF NewItem, ItemT

LEMMA FlushedItemIs ==
    ASSUME NEW n \in NameT, NEW i, i = [NewItem(n, "queued", 0) EXCEPT !.flushed = TRUE]
    PROVE  i \in ItemT /\ i.name = n /\ i.at = "queued" /\ i.flushed
<1> DEFINE j == NewItem(n, "queued", 0)
<1>1. "queued" \in Places
    BY DEF Places
<1>2. j \in ItemT /\ j.name = n /\ j.at = "queued"
    BY <1>1, NewItemIs
<1> HIDE DEF j
<1>3. i = [j EXCEPT !.flushed = TRUE]
    BY DEF j
<1> QED
    BY <1>2, <1>3 DEF ItemT

LEMMA FlushFoundKeeps ==
    ASSUME IInv, NEW p \in Pids, FlushFound(p), UNCHANGED clusterVars
    PROVE  IInv'
<1> USE DEF IInv
<1> DEFINE more == {[NewItem(n, "queued", 0) EXCEPT !.flushed = TRUE] : n \in mem[p].found}
           X == mem[p].items \cup more
           r == [mem[p] EXCEPT !.flush = "no", !.found = {}, !.items = X]
<1>1. /\ mem' = [mem EXCEPT ![p].flush = "no", ![p].found = {}, ![p].items = @ \cup more]
      /\ mem[p].up /\ mem[p].flush = "list" /\ UNCHANGED <<file, now, sent>>
    BY DEF FlushFound
<1>2. ScanTypes /\ mem[p] \in MemT /\ mem[p].found \in SUBSET NameT /\ mem[p].items \in SUBSET ItemT
    BY DEF Custody, TypeOK, ScanTypes, MemT
<1>3. ASSUME NEW i \in more PROVE i \in ItemT /\ i.flushed /\ i.at = "queued" /\ file[i.name.m].pid = p
  <2>1. PICK n \in mem[p].found : i = [NewItem(n, "queued", 0) EXCEPT !.flushed = TRUE]
      BY <1>3
  <2>2. n \in NameT /\ n.m \in Mails /\ file[n.m].pid = p
      BY <1>2 DEF Custody, Owns, NameT
  <2>3. i \in ItemT /\ i.flushed /\ i.at = "queued" /\ i.name = n
      BY <2>1, <2>2, FlushedItemIs
  <2> QED
      BY <2>2, <2>3
<1> HIDE DEF more
<1>4. X \in SUBSET ItemT
    BY <1>2, <1>3
<1>5. \A i \in X : file[i.name.m].pid = p /\ TimelyItem(i)
    BY <1>3, HolderIs DEF Timely, TimelyItem
<1> HIDE DEF X
<1>6. /\ r \in MemT /\ r.asked = mem[p].asked /\ r.cur_time = mem[p].cur_time
      /\ r.grab = mem[p].grab /\ r.up = mem[p].up /\ r.items = X /\ r.found = {}
    BY <1>2, <1>4 DEF MemT
<1>7. mem' = [mem EXCEPT ![p] = r]
    BY <1>1, <1>2 DEF ScanTypes, X
<1> HIDE DEF r
<1>8. mem' \in [Pids -> MemT] /\ mem'[p] = r /\ \A h \in Pids \ {p} : mem'[h] = mem[h]
    BY <1>2, <1>6, <1>7, NewMemory
<1>9. Custody'
  <2>1. \A q \in r.asked : Ended(q)
      BY <1>6 DEF Custody, EndedOnly
  <2>2. \A n \in r.grab : Ended(n.pid)
      BY <1>6 DEF Custody, EndedOnly
  <2>3. file' \in [Mails -> FileT] /\ r.up /\ mem[p].up /\ UNCHANGED <<now, sent>>
      BY <1>1, <1>2, <1>6 DEF ScanTypes
  <2>4. (\A n \in r.found : file'[n.m].pid = p) /\ \A i \in r.items : file'[i.name.m].pid = p
      BY <1>1, <1>5, <1>6
  <2>5. \A q \in Pids \ {p} : /\ \A i \in mem[q].items : file'[i.name.m].pid = q
                              /\ \A n \in mem[q].found : file'[n.m].pid = q
      BY <1>1 DEF Custody, Owns
  <2> QED
      BY <1>6, <1>8, <2>1, <2>2, <2>3, <2>4, <2>5, MemoryCustody
<1>10. Timely'
    BY <1>1, <1>5, <1>6, <1>8, ZenonT(60) DEF Timely, TimelyItem
<1>11. ~NoDomain
    BY <1>1 DEF Once, NoList
<1> QED
    BY <1>9, <1>10, <1>11 DEF Once, NoDomain, clusterVars

LEMMA GrabbedIs ==
    ASSUME NEW p \in Nat, NEW n \in NameT, now \in Nat, mem[p].cur_time \in Nat, mem[p].cur_time =< now
    PROVE  /\ Grabbed(p, n) \in ItemT /\ Grabbed(p, n).at # "sent" /\ TimelyItem(Grabbed(p, n))
           /\ Grabbed(p, n).name = [m |-> n.m, due |-> n.due, pid |-> p]
<1> DEFINE s == [n EXCEPT !.pid = p]
           f == now + n.due - mem[p].cur_time
<1>1. s \in NameT /\ s.m = n.m /\ s.due = n.due /\ s.pid = p /\ n.due \in Nat
    BY DEF NameT
<1>2. f \in Int /\ n.due =< f
    BY <1>1
<1> HIDE DEF s, f
<1>3. s = [m |-> n.m, due |-> n.due, pid |-> p]
  <2>1. s = [m |-> s.m, due |-> s.due, pid |-> s.pid]
      BY <1>1 DEF NameT
  <2> QED
      BY <1>1, <2>1
<1>4. "load" \in Places /\ "later" \in Places
    BY DEF Places
<1>5. CASE n.due =< mem[p].cur_time
  <2> DEFINE i == NewItem(s, "load", 0)
  <2>1. Grabbed(p, n) = i
      BY <1>5 DEF Grabbed, s
  <2>2. i \in ItemT /\ i.name = s /\ i.at = "load"
      BY <1>1, <1>4, NewItemIs
  <2>3. n.due =< now
      BY <1>1, <1>5
  <2> HIDE DEF i
  <2> QED
      BY <1>1, <1>3, <2>1, <2>2, <2>3 DEF TimelyItem
<1>6. CASE ~(n.due =< mem[p].cur_time)
  <2> DEFINE i == NewItem(s, "later", f)
  <2>1. Grabbed(p, n) = i
      BY <1>6 DEF Grabbed, s, f
  <2>2. i \in ItemT /\ i.name = s /\ i.at = "later" /\ i.fire = f
      BY <1>1, <1>2, <1>4, NewItemIs
  <2> HIDE DEF i
  <2> QED
      BY <1>1, <1>2, <1>3, <2>1, <2>2 DEF TimelyItem
<1> QED
    BY <1>5, <1>6

\* A file that is renamed comes from a process that has ended: no process holds
\* its mail, and from now on this one does.
LEMMA GrabFileKeeps ==
    ASSUME IInv, NEW p \in Pids, GrabFile(p), UNCHANGED clusterVars
    PROVE  IInv'
<1> USE DEF IInv
<1>0. NothingTold
    BY SameCluster DEF Custody, TypeOK
<1>1. PICK n \in mem[p].grab :
          IF Exists(n)
          THEN /\ file' = [file EXCEPT ![n.m].pid = p]
               /\ mem' = [mem EXCEPT ![p].grab = @ \ {n}, ![p].items = @ \cup {Grabbed(p, n)}]
          ELSE mem' = [mem EXCEPT ![p].grab = @ \ {n}] /\ UNCHANGED file
    BY DEF GrabFile
<1>2. mem[p].up /\ UNCHANGED <<now, sent>>
    BY DEF GrabFile
<1>3. /\ ScanTypes /\ mem[p] \in MemT /\ n \in NameT /\ n.m \in Mails /\ n.due \in Nat
      /\ now \in Nat /\ mem[p].cur_time \in Nat /\ mem[p].cur_time =< now
      /\ p \in Nat /\ mem[p].items \in SUBSET ItemT
    BY OutsidePids DEF Custody, TypeOK, ScanTypes, MemT, NameT, Timely
<1>4. CASE ~Exists(n)
  <2> DEFINE r == [mem[p] EXCEPT !.grab = @ \ {n}]
  <2>1. /\ r \in MemT /\ r.asked = mem[p].asked /\ r.cur_time = mem[p].cur_time
        /\ r.grab = mem[p].grab \ {n} /\ r.up = mem[p].up /\ r.items = mem[p].items
        /\ r.flush = mem[p].flush /\ r.found = mem[p].found
      BY <1>3 DEF MemT
  <2>2. mem' = [mem EXCEPT ![p] = r]
      BY <1>1, <1>3, <1>4 DEF ScanTypes
  <2> HIDE DEF r
  <2>3. /\ \A h \in r.asked : Ended(h)
        /\ \A k \in r.grab : Ended(k.pid)
        /\ \A k \in r.found : file'[k.m].pid = p
      BY <1>1, <1>4, <2>1 DEF Custody, EndedOnly, Owns
  <2>4. mem' \in [Pids -> MemT] /\ mem'[p] = r /\ \A h \in Pids \ {p} : mem'[h] = mem[h]
      BY <1>3, <2>1, <2>2, NewMemory
  <2>5. UNCHANGED <<file, now, sent>>
      BY <1>1, <1>2, <1>4
  <2> QED
      BY <1>0, <1>2, <2>1, <2>3, <2>4, <2>5, SameItems
<1>5. CASE Exists(n)
  <2>1. PICK i \in ItemT : /\ i = Grabbed(p, n) /\ i.at # "sent" /\ TimelyItem(i)
                           /\ i.name = [m |-> n.m, due |-> n.due, pid |-> p]
      BY <1>3, GrabbedIs
  <2>2. i.name.m = n.m /\ i.name.due = n.due /\ i.name.pid = p
      BY <2>1
  <2>3. file[n.m].there /\ file[n.m].due = n.due /\ file[n.m].pid = n.pid /\ Ended(n.pid)
      BY <1>3, <1>5, NamePid DEF Exists, Custody, EndedOnly
  <2>4. \A q \in Pids : \A k \in mem[q].items : k.name.m # n.m
      BY <1>3, <2>3, HeldByNobody
  <2> DEFINE X == mem[p].items \cup {i}
             r == [mem[p] EXCEPT !.grab = @ \ {n}, !.items = X]
  <2>5. /\ r \in MemT /\ r.asked = mem[p].asked /\ r.cur_time = mem[p].cur_time
        /\ r.grab = mem[p].grab \ {n} /\ r.up = mem[p].up /\ r.items = X
        /\ r.flush = mem[p].flush /\ r.found = mem[p].found
      BY <1>3 DEF MemT
  <2>6. mem' = [mem EXCEPT ![p] = r]
      BY <1>1, <1>3, <1>5, <2>1 DEF ScanTypes
  <2>7. /\ file' \in [Mails -> FileT] /\ file'[n.m].pid = p
        /\ file'[n.m].there = file[n.m].there /\ file'[n.m].due = file[n.m].due
        /\ \A m \in Mails \ {n.m} : file'[m] = file[m]
        /\ \A m \in Mails : file'[m].there = file[m].there
      BY <1>1, <1>3, <1>5 DEF ScanTypes, FileT
  <2> HIDE DEF r
  <2>8. mem' \in [Pids -> MemT] /\ mem'[p] = r /\ \A h \in Pids \ {p} : mem'[h] = mem[h]
      BY <1>3, <2>5, <2>6, NewMemory
  <2>9. \A q \in Pids : \A k \in mem[q].items : file'[k.name.m] = file[k.name.m] /\ k.name.m \in Mails
      BY <2>4, <2>7, HolderIs
  <2>10. Custody'
    <3>1. \A q \in r.asked : Ended(q)
        BY <2>5 DEF Custody, EndedOnly
    <3>2. \A k \in r.grab : Ended(k.pid)
        BY <2>5 DEF Custody, EndedOnly
    <3>0. \A q \in Pids : \A k \in mem[q].found : file'[k.m] = file[k.m]
        BY <1>3, <2>3, <2>7, FoundIs, FoundByNobody
    <3>3. (\A k \in r.found : file'[k.m].pid = p) /\ \A k \in r.items : file'[k.name.m].pid = p
        BY <2>2, <2>5, <2>7, <2>9, <3>0, HolderIs DEF Custody, Owns
    <3>4. \A q \in Pids \ {p} : /\ \A k \in mem[q].items : file'[k.name.m].pid = q
                                /\ \A k \in mem[q].found : file'[k.m].pid = q
        BY <2>9, <3>0, HolderIs, FoundIs
    <3>5. r.up /\ file' \in [Mails -> FileT]
        BY <1>2, <2>5, <2>7
    <3> QED
        BY <1>2, <2>5, <2>8, <3>1, <3>2, <3>3, <3>4, <3>5, MemoryCustody
  <2>11. Timely'
      BY <1>2, <2>1, <2>5, <2>8 DEF Timely, TimelyItem
  <2>12. Once'
    <3> SUFFICES ASSUME NoDomain PROVE NoList' /\ Known' /\ Single' /\ Counted'
        BY DEF Once, NoDomain, clusterVars
    <3>1. NoList'
        BY <2>5, <2>8 DEF Once, NoList, Told, clusterVars
    <3>2. Single'
        BY <2>2, <2>4, <2>5, <2>8 DEF Once, Single
    <3>3. Exists(i.name)'
      <4>1. [m |-> n.m, due |-> file'[n.m].due, pid |-> file'[n.m].pid] = i.name
          BY <2>1, <2>3, <2>7
      <4> QED
          BY <2>2, <2>3, <2>7, <4>1 DEF Exists, Name
    <3>4. \A q \in Pids : \A k \in mem[q].items : Exists(k.name)'
        BY <2>9 DEF Once, Known, Exists, Name
    <3>5. Known'
      <4> SUFFICES ASSUME NEW q \in Pids, NEW k \in mem'[q].items PROVE Exists(k.name)'
          BY DEF Known
      <4>1. k \in mem[q].items \/ k = i
          BY <2>5, <2>8
      <4> QED
          BY <3>3, <3>4, <4>1, Zenon
    <3>6. \A m \in Mails : Settled(m)' => Settled(m)
        BY <2>5, <2>7, <2>8 DEF Settled, Unlinking, clusterVars
    <3> QED
        BY <1>2, <3>1, <3>2, <3>5, <3>6 DEF Once, Counted, clusterVars
  <2> QED
      BY <2>10, <2>11, <2>12
<1> QED
    BY <1>4, <1>5

LEMMA TickKeeps ==
    ASSUME IInv, Tick, UNCHANGED clusterVars
    PROVE  IInv'
<1> USE DEF IInv, Tick
<1>1. ScanTypes' /\ ClusterTypes'
  <2>1. ScanTypes /\ ClusterTypes /\ now \in Nat /\ now' \in Nat
      BY DEF Custody, TypeOK, ScanTypes
  <2>2. ScanTypes'
      BY <2>1 DEF ScanTypes
  <2>3. ClusterTypes'
      BY <2>1 DEF ClusterTypes, clusterVars
  <2> QED
      BY <2>2, <2>3
<1>2. Alive' /\ EndedOnly' /\ Owns'
    BY DEF Custody, Alive, EndedOnly, Told, Owns, Ended, clusterVars
<1>3. now \in Nat /\ \A p \in Pids : mem[p].cur_time \in Nat
    BY DEF Custody, TypeOK, ScanTypes, MemT
<1>4. \A p \in Pids : \A i \in mem[p].items : i.name.due \in Nat
    BY HolderIs DEF ItemT, NameT
<1>5. Timely'
    BY <1>3, <1>4 DEF Timely, TimelyItem
<1>6. Once'
  <2> SUFFICES ASSUME NoDomain PROVE NoList' /\ Known' /\ Single' /\ Counted'
      BY DEF Once, NoDomain, clusterVars
  <2>1. NoList' /\ Known' /\ Single'
      BY DEF Once, NoList, Told, Known, Single, Exists, Name, clusterVars
  <2>2. \A m \in Mails : Settled(m)' <=> Settled(m)
      BY DEF Settled, Unlinking, clusterVars
  <2> QED
      BY <2>1, <2>2 DEF Once, Counted, clusterVars
<1> QED
    BY <1>1, <1>2, <1>5, <1>6 DEF Custody, TypeOK

------------------------------------------------------------------------------
(* The master and the workers. *)

\* A message the master may send.
Sound(e) == \/ e.event \in {"shutdown", "flush"}
            \/ e.event = "flush domain" /\ ~NoDomain
            \/ e.event = "load_pid_queue" /\ Ended(e.pid)

\* A step that leaves the disk alone and, where it does not take it, memory.
LEMMA Quiet ==
    ASSUME IInv, UNCHANGED <<file, now, sent>>,
           mem' \in [Pids -> MemT], ClusterTypes', Alive',
           \A p \in Pids : \/ mem'[p] = NoMemory
                           \/ /\ mem'[p].items = mem[p].items /\ mem'[p].found = mem[p].found
                              /\ mem'[p].asked = mem[p].asked /\ mem'[p].grab = mem[p].grab
                              /\ mem'[p].flush = mem[p].flush /\ mem'[p].cur_time = mem[p].cur_time,
           \A q : Ended(q) => Ended(q)',
           \A p \in Pids : \A e \in Told(p)' : e \in Told(p) \/ Sound(e)',
           NoDomain' => NoDomain,
           budget'.crashes + budget'.kills >= budget.crashes + budget.kills,
           NoDomain => \A m \in Mails : Settled(m)' =>
              Settled(m) \/ budget'.crashes + budget'.kills >= budget.crashes + budget.kills + 1
    PROVE  IInv'
<1> USE DEF IInv
<1>1. ScanTypes'
    BY DEF Custody, TypeOK, ScanTypes
<1>2. EndedOnly'
  <2> SUFFICES ASSUME NEW p \in Pids
               PROVE  /\ \A e \in Told(p)' : e.event = "load_pid_queue" => Ended(e.pid)'
                      /\ \A q \in mem'[p].asked : Ended(q)'
                      /\ \A n \in mem'[p].grab : Ended(n.pid)'
      BY DEF EndedOnly
  <2>1. ASSUME NEW e \in Told(p)', e.event = "load_pid_queue" PROVE Ended(e.pid)'
    <3>1. CASE e \in Told(p)
        BY <2>1, <3>1 DEF Custody, EndedOnly
    <3>2. CASE Sound(e)'
        BY <2>1, <3>2 DEF Sound
    <3> QED
        BY <3>1, <3>2
  <2>2. /\ mem'[p].asked = {} \/ mem'[p].asked = mem[p].asked
        /\ mem'[p].grab = {} \/ mem'[p].grab = mem[p].grab
      BY DEF NoMemory
  <2>3. (\A q \in mem[p].asked : Ended(q)') /\ \A n \in mem[p].grab : Ended(n.pid)'
      BY DEF Custody, EndedOnly
  <2> QED
      BY <2>1, <2>2, <2>3
<1>3. Owns'
  <2>1. \A p \in Pids : /\ mem'[p].items = {} \/ mem'[p].items = mem[p].items
                        /\ mem'[p].found = {} \/ mem'[p].found = mem[p].found
      BY DEF NoMemory
  <2> QED
      BY <2>1 DEF Custody, Owns
<1>4. Custody'
    BY <1>1, <1>2, <1>3 DEF Custody, TypeOK
<1>5. \A p \in Pids : /\ mem'[p].items = {} \/ mem'[p].items = mem[p].items
                      /\ mem'[p].flush = "no" \/ mem'[p].flush = mem[p].flush
                      /\ mem'[p].cur_time = 0 \/ mem'[p].cur_time = mem[p].cur_time
    BY DEF NoMemory
<1>6. Timely'
  <2>1. now \in Nat
      BY DEF Custody, TypeOK, ScanTypes
  <2> QED
      BY <1>5, <2>1 DEF Timely, TimelyItem
<1>7. Once'
  <2> SUFFICES ASSUME NoDomain' PROVE NoList' /\ Known' /\ Single' /\ Counted'
      BY DEF Once
  <2>1. NoDomain /\ NoList /\ Known /\ Single /\ Counted
      BY DEF Once
  <2>2. NoList'
    <3> SUFFICES ASSUME NEW p \in Pids
                 PROVE  mem'[p].flush = "no" /\ \A e \in Told(p)' : e.event \in Events
        BY DEF NoList
    <3>1. \A e \in Told(p)' : e \in Told(p) \/ e.event \in Events
        BY DEF Sound, Events
    <3> QED
        BY <1>5, <2>1, <3>1 DEF NoList
  <2>3. Known' /\ Single'
      BY <1>5, <2>1 DEF Known, Single, Exists, Name
  <2>4. Counted'
    <3>1. /\ budget.crashes \in Nat /\ budget.kills \in Nat
          /\ budget'.crashes \in Nat /\ budget'.kills \in Nat
          /\ \A m \in Mails : sent[m] \in Nat
        BY DEF Custody, TypeOK, ClusterTypes, BudgetT, ScanTypes
    <3> SUFFICES ASSUME NEW m \in Mails
                 PROVE  /\ sent[m] =< 1 + budget'.crashes + budget'.kills
                        /\ Settled(m)' => sent[m] =< budget'.crashes + budget'.kills
        BY DEF Counted
    <3>2. /\ sent[m] =< 1 + budget.crashes + budget.kills
          /\ Settled(m) => sent[m] =< budget.crashes + budget.kills
        BY <2>1 DEF Counted
    <3> QED
        BY <2>1, <3>1, <3>2
  <2> QED
      BY <2>2, <2>3, <2>4
<1> QED
    BY <1>4, <1>6, <1>7

LEMMA SettledSame ==
    ASSUME file' = file, \A p \in Pids : mem'[p].items = mem[p].items,
           master.st = "dead" => master'.st = "dead"
    PROVE  \A m \in Mails : Settled(m)' => Settled(m)
    BY DEF Settled, Unlinking

LEMMA TypesOf ==
    ASSUME IInv
    PROVE  /\ ScanTypes /\ ClusterTypes
           /\ \A p \in Pids : mem[p] \in MemT /\ worker[p] \in WorkerT /\ box[p] \in Seq(EventT)
    BY DEF IInv, Custody, TypeOK, ScanTypes, ClusterTypes

LEMMA AppendTold ==
    ASSUME NEW s \in Seq(EventT), NEW e \in EventT
    PROVE  /\ Append(s, e) \in Seq(EventT)
           /\ \A k \in DOMAIN Append(s, e) : Append(s, e)[k] = e \/ \E j \in DOMAIN s : Append(s, e)[k] = s[j]
<1>1. Append(s, e) \in Seq(EventT) /\ Len(Append(s, e)) = Len(s) + 1
    OBVIOUS
<1>2. \A k \in 1 .. Len(s) : Append(s, e)[k] = s[k]
    OBVIOUS
<1>3. Append(s, e)[Len(s) + 1] = e
    OBVIOUS
<1> QED
    BY <1>1, <1>2, <1>3

LEMMA TailTold ==
    ASSUME NEW s \in Seq(EventT), s # <<>>
    PROVE  /\ Tail(s) \in Seq(EventT) /\ Head(s) \in EventT
           /\ \E j \in DOMAIN s : Head(s) = s[j]
           /\ \A k \in DOMAIN Tail(s) : \E j \in DOMAIN s : Tail(s)[k] = s[j]
<1>1. Tail(s) \in Seq(EventT) /\ Len(Tail(s)) = Len(s) - 1 /\ Len(s) \in Nat \ {0}
    OBVIOUS
<1>2. Head(s) = s[1] /\ 1 \in DOMAIN s
    BY <1>1
<1>3. \A k \in 1 .. Len(Tail(s)) : Tail(s)[k] = s[k + 1] /\ k + 1 \in 1 .. Len(s)
    BY <1>1
<1> QED
    BY <1>1, <1>2, <1>3

LEMMA EventsIn ==
    /\ \A e \in Events \cup {"flush domain"} :
          Event(e) \in EventT /\ Event(e).event = e
    /\ \A q \in Nat : Load(q) \in EventT /\ Load(q).event = "load_pid_queue" /\ Load(q).pid = q
    BY DEF Event, Load, EventT, Events

LEMMA WorkerIs ==
    ASSUME NEW w \in WorkerT, NEW a \in States
    PROVE  [w EXCEPT !.st = a] \in WorkerT /\ [w EXCEPT !.st = a].st = a
    BY DEF WorkerT

LEMMA BudgetIs == ASSUME ClusterTypes PROVE budget.crashes \in Nat /\ budget.kills \in Nat
    BY DEF ClusterTypes, BudgetT

LEMMA SameBudget ==
    ASSUME ClusterTypes, budget'.crashes = budget.crashes, budget'.kills = budget.kills
    PROVE  budget'.crashes + budget'.kills >= budget.crashes + budget.kills
    BY BudgetIs

LEMMA ListenKeeps ==
    ASSUME IInv, NEW p \in Pids, Listen(p)
    PROVE  IInv'
<1> USE DEF Listen
<1>1. ScanTypes /\ ClusterTypes /\ worker[p] \in WorkerT
    BY TypesOf
<1>2. /\ worker' \in [Pids -> WorkerT] /\ worker'[p].st = "listening"
      /\ \A q \in Pids \ {p} : worker'[q] = worker[q]
    BY <1>1 DEF ClusterTypes, WorkerT, States
<1>3. ClusterTypes'
    BY <1>1, <1>2 DEF ClusterTypes
<1>4. Alive'
    BY <1>2 DEF IInv, Custody, Alive, scanVars
<1>5. \A q : Ended(q) => Ended(q)'
    BY <1>2 DEF Ended
<1>6. \A q \in Pids : Told(q)' = Told(q)
    BY DEF Told
<1>7. \A m \in Mails : Settled(m)' => Settled(m)
    BY SettledSame DEF scanVars
<1>8. mem' \in [Pids -> MemT] /\ UNCHANGED <<file, now, sent>> /\ mem' = mem
    BY <1>1 DEF ScanTypes, scanVars
<1>9. budget'.crashes + budget'.kills >= budget.crashes + budget.kills
    BY <1>1, SameBudget
<1>10. NoDomain' => NoDomain
    BY DEF NoDomain
<1> QED
    BY <1>3, <1>4, <1>5, <1>6, <1>7, <1>8, <1>9, <1>10, Quiet

\* The steps of the master that concern no process.
LEMMA MasterKeeps ==
    ASSUME IInv, AskGraceful \/ Online \/ GracefulEnds
    PROVE  IInv'
<1>1. ScanTypes /\ ClusterTypes
    BY TypesOf
<1>2. /\ master.st = "up" /\ master'.st \in {"up", "done"} /\ UNCHANGED scanVars /\ box' = box
      /\ master' \in [st : {"starting", "up", "dead", "done"}, listener : BOOLEAN, stopping : BOOLEAN]
  <2>1. CASE AskGraceful
      BY <1>1, <2>1 DEF AskGraceful, ClusterTypes
  <2>2. CASE Online
      BY <1>1, <2>2 DEF Online, ClusterTypes
  <2>3. CASE GracefulEnds
      BY <1>1, <2>3 DEF GracefulEnds, ClusterTypes
  <2> QED
      BY <2>1, <2>2, <2>3
<1>3. /\ worker' \in [Pids -> WorkerT] /\ \A p \in Pids : worker'[p].st = worker[p].st
  <2>1. CASE Online
      BY <1>1, <2>1 DEF Online, ClusterTypes, WorkerT
  <2>2. CASE worker' = worker
      BY <1>1, <2>2 DEF ClusterTypes
  <2> QED
      BY <2>1, <2>2 DEF AskGraceful, GracefulEnds
<1>4. /\ budget' \in BudgetT
      /\ budget'.crashes = budget.crashes /\ budget'.kills = budget.kills
      /\ budget.asked \subseteq budget'.asked
  <2>1. CASE AskGraceful
    <3>1. PICK order \in {"restart", "shutdown"} : budget' = [budget EXCEPT !.asked = @ \cup {order}]
        BY <2>1 DEF AskGraceful
    <3> QED
        BY <1>1, <3>1 DEF ClusterTypes, BudgetT
  <2>2. CASE budget' = budget
      BY <1>1, <2>2 DEF ClusterTypes
  <2> QED
      BY <2>1, <2>2 DEF Online, GracefulEnds
<1>5. ClusterTypes'
    BY <1>1, <1>2, <1>3, <1>4 DEF ClusterTypes
<1>6. Alive'
    BY <1>2, <1>3 DEF IInv, Custody, Alive, scanVars
<1>7. \A q : Ended(q) => Ended(q)'
    BY <1>3 DEF Ended
<1>8. \A q \in Pids : Told(q)' = Told(q)
    BY <1>2 DEF Told
<1>9. \A m \in Mails : Settled(m)' => Settled(m)
    BY <1>2, SettledSame DEF scanVars
<1>10. mem' \in [Pids -> MemT] /\ UNCHANGED <<file, now, sent>> /\ mem' = mem
    BY <1>1, <1>2 DEF ScanTypes, scanVars
<1>11. budget'.crashes + budget'.kills >= budget.crashes + budget.kills
    BY <1>1, <1>4, SameBudget, Zenon
<1>12. NoDomain' => NoDomain
    BY <1>4 DEF NoDomain
<1> QED
    BY <1>5, <1>6, <1>7, <1>8, <1>9, <1>10, <1>11, <1>12, Quiet

LEMMA AskFlushKeeps ==
    ASSUME IInv, AskFlush
    PROVE  IInv'
<1>1. ScanTypes /\ ClusterTypes
    BY TypesOf
<1>2. UNCHANGED <<scanVars, worker, master>>
    BY DEF AskFlush
<1>3. PICK order \in {"flush", "flush domain"} :
          /\ budget' = [budget EXCEPT !.asked = @ \cup {order}]
          /\ box' = [p \in Pids |-> IF p \in InCluster /\ mem[p].up THEN Append(box[p], Event(order)) ELSE box[p]]
    BY DEF AskFlush
<1>4. /\ budget' \in BudgetT
      /\ budget'.crashes = budget.crashes /\ budget'.kills = budget.kills
      /\ budget'.asked = budget.asked \cup {order}
    BY <1>1, <1>3 DEF ClusterTypes, BudgetT
<1>5. Event(order) \in EventT /\ Event(order).event = order
    BY EventsIn DEF Events
<1>6. ASSUME NEW p \in Pids
      PROVE  /\ box'[p] \in Seq(EventT)
             /\ \A k \in DOMAIN box'[p] : box'[p][k] = Event(order) \/ \E j \in DOMAIN box[p] : box'[p][k] = box[p][j]
  <2>1. box[p] \in Seq(EventT)
      BY TypesOf
  <2>2. box'[p] = Append(box[p], Event(order)) \/ box'[p] = box[p]
      BY <1>3
  <2> DEFINE b == Append(box[p], Event(order))
  <2>3. /\ b \in Seq(EventT)
        /\ \A k \in DOMAIN b : b[k] = Event(order) \/ \E j \in DOMAIN box[p] : b[k] = box[p][j]
      BY <1>5, <2>1, AppendTold
  <2> HIDE DEF b
  <2>4. CASE box'[p] = b
      BY <2>3, <2>4
  <2>5. CASE box'[p] = box[p]
      BY <2>1, <2>5
  <2> QED
      BY <2>2, <2>4, <2>5 DEF b
<1>7. ASSUME NEW p \in Pids, NEW e \in Told(p)' PROVE e \in Told(p) \/ e = Event(order)
  <2>1. PICK k \in DOMAIN box'[p] : e = box'[p][k]
      BY DEF Told
  <2> QED
      BY <1>6, <2>1 DEF Told
<1>8. ClusterTypes'
  <2>1. box' \in [Pids -> Seq(EventT)]
      BY <1>3, <1>6
  <2> QED
      BY <1>1, <1>2, <1>4, <2>1 DEF ClusterTypes
<1>9. Alive'
    BY <1>2 DEF IInv, Custody, Alive, scanVars
<1>10. \A q : Ended(q) => Ended(q)'
    BY <1>2 DEF Ended
<1>11. \A m \in Mails : Settled(m)' => Settled(m)
    BY <1>2, SettledSame DEF scanVars
<1>12. mem' \in [Pids -> MemT] /\ UNCHANGED <<file, now, sent>> /\ mem' = mem
    BY <1>1, <1>2 DEF ScanTypes, scanVars
<1>13. budget'.crashes + budget'.kills >= budget.crashes + budget.kills
    BY <1>1, <1>4, SameBudget, Zenon
<1>14. NoDomain' => NoDomain
    BY <1>4 DEF NoDomain
<1>15. Sound(Event(order))'
    BY <1>4, <1>5 DEF Sound, NoDomain
<1>16. \A p \in Pids : \A e \in Told(p)' : e \in Told(p) \/ Sound(e)'
    BY <1>7, <1>15, Zenon
<1> QED
    BY <1>8, <1>9, <1>10, <1>11, <1>12, <1>13, <1>14, <1>16, Quiet

\* The memory of the processes when those of S are forked.
LEMMA UpMemory ==
    ASSUME ScanTypes, NEW S \in SUBSET Pids,
           mem' = [q \in Pids |-> IF q \in S THEN [mem[q] EXCEPT !.up = TRUE] ELSE mem[q]]
    PROVE  /\ mem' \in [Pids -> MemT]
           /\ \A q \in Pids \ S : mem'[q] = mem[q]
           /\ \A q \in S : mem'[q].up
           /\ \A q \in Pids : /\ mem'[q].items = mem[q].items /\ mem'[q].found = mem[q].found
                              /\ mem'[q].asked = mem[q].asked /\ mem'[q].grab = mem[q].grab
                              /\ mem'[q].flush = mem[q].flush /\ mem'[q].cur_time = mem[q].cur_time
<1>1. ASSUME NEW q \in Pids
      PROVE  /\ mem'[q] \in MemT
             /\ q \notin S => mem'[q] = mem[q]
             /\ q \in S => mem'[q].up
             /\ mem'[q].items = mem[q].items /\ mem'[q].found = mem[q].found
             /\ mem'[q].asked = mem[q].asked /\ mem'[q].grab = mem[q].grab
             /\ mem'[q].flush = mem[q].flush /\ mem'[q].cur_time = mem[q].cur_time
  <2>1. mem[q] \in MemT
      BY DEF ScanTypes
  <2>2. CASE q \in S
    <3> DEFINE r == [mem[q] EXCEPT !.up = TRUE]
    <3>1. /\ r \in MemT /\ r.up /\ r.items = mem[q].items /\ r.found = mem[q].found
          /\ r.asked = mem[q].asked /\ r.grab = mem[q].grab
          /\ r.flush = mem[q].flush /\ r.cur_time = mem[q].cur_time
        BY <2>1 DEF MemT
    <3>2. mem'[q] = r
        BY <2>2
    <3> HIDE DEF r
    <3> QED
        BY <2>2, <3>1, <3>2
  <2>3. CASE q \notin S
      BY <2>1, <2>3
  <2> QED
      BY <2>2, <2>3
<1> QED
    BY <1>1

LEMMA NextPidsNone == ASSUME NEW n PROVE \A p \in NextPids(n) : p \in Pids /\ worker[p].st = "none"
    BY DEF NextPids

\* A step of the master that forks the processes of S; others may change their
\* state, but none that is up ends, and none comes back.
LEMMA ForkKeeps ==
    ASSUME IInv, NEW S \in SUBSET Pids, \A p \in S : worker[p].st = "none",
           mem' = [q \in Pids |-> IF q \in S THEN [mem[q] EXCEPT !.up = TRUE] ELSE mem[q]],
           UNCHANGED <<file, now, sent, budget>>, ClusterTypes',
           \A p \in S : worker'[p].st = "starting",
           \A p \in Pids \ S : \/ worker'[p].st = worker[p].st
                               \/ worker[p].st = "died" /\ worker'[p].st = "gone"
                               \/ /\ worker[p].st \in {"starting", "listening"}
                                  /\ worker'[p].st = "leaving",
           \A p \in Pids : \A e \in Told(p)' : e \in Told(p) \/ Sound(e)',
           master.st \in {"starting", "up"}, master'.st = "up"
    PROVE  IInv'
<1>1. ScanTypes /\ ClusterTypes
    BY TypesOf
<1>2. /\ mem' \in [Pids -> MemT]
      /\ \A q \in Pids \ S : mem'[q] = mem[q]
      /\ \A q \in S : mem'[q].up
      /\ \A q \in Pids : /\ mem'[q].items = mem[q].items /\ mem'[q].found = mem[q].found
                         /\ mem'[q].asked = mem[q].asked /\ mem'[q].grab = mem[q].grab
                         /\ mem'[q].flush = mem[q].flush /\ mem'[q].cur_time = mem[q].cur_time
    BY <1>1, UpMemory
<1>3. Alive'
  <2> SUFFICES ASSUME NEW p \in Pids
               PROVE  IF mem'[p].up THEN worker'[p].st \in {"starting", "listening", "leaving"}
                      ELSE mem'[p] = NoMemory
      BY DEF Alive
  <2>1. CASE p \in S
      BY <1>2, <2>1
  <2>2. CASE p \notin S
      BY <1>2, <2>2 DEF IInv, Custody, Alive
  <2> QED
      BY <2>1, <2>2
<1>4. \A q : Ended(q) => Ended(q)'
    BY DEF Ended
<1>5. \A m \in Mails : Settled(m)' => Settled(m)
    BY <1>2, SettledSame
<1>6. budget'.crashes + budget'.kills >= budget.crashes + budget.kills
    BY <1>1, SameBudget
<1>7. NoDomain' => NoDomain
    BY DEF NoDomain
<1> QED
    BY <1>2, <1>3, <1>4, <1>5, <1>6, <1>7, Quiet

\* The files of the earlier run are dealt to the first workers.
LEMMA InitMasterKeeps == ASSUME IInv, InitMaster PROVE IInv'
<1> DEFINE ps   == NextPids(Nodes)
           pids == {file[m].pid : m \in {k \in Mails : file[k].there}}
           nth(q)  == Cardinality({r \in pids : r < q})
           Deal(p) == {Load(q) : q \in {r \in pids : nth(r) % Nodes = p - Min(ps)}}
<1>1. /\ worker' = [p \in Pids |-> IF p \in ps THEN [worker[p] EXCEPT !.st = "starting"] ELSE worker[p]]
      /\ mem' = [p \in Pids |-> IF p \in ps THEN [mem[p] EXCEPT !.up = TRUE] ELSE mem[p]]
      /\ box' = [p \in Pids |-> IF p \in ps THEN SetToSeq(Deal(p)) ELSE box[p]]
    BY DEF InitMaster, Fork
<1>2. /\ master.st = "starting" /\ master' = [master EXCEPT !.st = "up", !.listener = TRUE]
      /\ UNCHANGED <<file, now, sent, budget>>
    BY DEF InitMaster
<1>3. ScanTypes /\ ClusterTypes
    BY TypesOf
<1>4. ps \in SUBSET Pids /\ \A p \in ps : worker[p].st = "none"
    BY NextPidsNone
<1>5. /\ worker' \in [Pids -> WorkerT]
      /\ \A p \in ps : worker'[p].st = "starting"
      /\ \A p \in Pids \ ps : worker'[p] = worker[p]
  <2> HIDE DEF ps
  <2>1. "starting" \in States
      BY DEF States
  <2>2. \A p \in Pids : /\ worker[p] \in WorkerT
                        /\ [worker[p] EXCEPT !.st = "starting"] \in WorkerT
                        /\ [worker[p] EXCEPT !.st = "starting"].st = "starting"
      BY <2>1, TypesOf, WorkerIs
  <2> QED
      BY <1>1, <1>4, <2>2
<1>6. \A p \in Pids : Deal(p) \subseteq {Load(0)}
    BY <1>2 DEF IInv, Custody, Alive
<1>7. \A p \in Pids : SetToSeq(Deal(p)) \in Seq({Load(0)})
  <2> TAKE p \in Pids
  <2>1. IsFiniteSet({Load(0)}) /\ Deal(p) \in SUBSET {Load(0)}
      BY <1>6, FS_Singleton
  <2> HIDE DEF Deal
  <2>2. IsFiniteSet(Deal(p))
      BY <2>1, FS_Subset
  <2>3. SetToSeq(Deal(p)) \in Seq(Deal(p))
      BY <2>2, SeqOfSet
  <2> QED
      BY <2>1, <2>3
<1> HIDE DEF Deal, ps
<1>8. Load(0) \in EventT /\ Load(0).event = "load_pid_queue" /\ Load(0).pid = 0
    BY EventsIn
<1>9. box' \in [Pids -> Seq(EventT)]
  <2>1. {Load(0)} \subseteq EventT
      BY <1>8
  <2> DEFINE L == {Load(0)}
  <2> HIDE DEF L
  <2>2. \A s \in Seq(L) : L \subseteq EventT => s \in Seq(EventT)
      OBVIOUS
  <2>3. \A p \in Pids : SetToSeq(Deal(p)) \in Seq(EventT)
      BY <1>7, <2>1, <2>2 DEF L
  <2>4. \A p \in Pids : box[p] \in Seq(EventT)
      BY TypesOf
  <2> QED
      BY <1>1, <2>3, <2>4
<1>10. ClusterTypes' /\ master'.st = "up"
    BY <1>2, <1>3, <1>5, <1>9 DEF ClusterTypes
<1>11. Sound(Load(0))'
    BY <1>8, OutsidePids DEF Sound, Ended
<1>12. ASSUME NEW p \in Pids, NEW e \in Told(p)' PROVE e \in Told(p) \/ e = Load(0)
  <2>1. PICK k \in DOMAIN box'[p] : e = box'[p][k]
      BY DEF Told
  <2>2. CASE p \in ps
      BY <1>1, <1>7, <2>1, <2>2
  <2>3. CASE p \notin ps
      BY <1>1, <2>1, <2>3 DEF Told
  <2> QED
      BY <2>2, <2>3
<1>13. \A p \in Pids : \A e \in Told(p)' : e \in Told(p) \/ Sound(e)'
    BY <1>11, <1>12, Zenon
<1>14. /\ master.st \in {"starting", "up"}
       /\ \A p \in Pids \ ps : worker'[p].st = worker[p].st
    BY <1>2, <1>5
<1> QED
    BY <1>1, <1>2, <1>4, <1>5, <1>10, <1>13, <1>14, ForkKeeps

\* The replacement of a dead worker is told of that worker, which has ended.
LEMMA ExitKeeps == ASSUME IInv, NEW p \in Pids, Exit(p) PROVE IInv'
<1> DEFINE seen == master.listener \/ worker[p].watched
           new  == IF seen /\ worker[p].signal THEN NextPids(1) ELSE {}
<1>1. /\ worker' = [q \in Pids |-> CASE q = p    -> Gone
                                      [] q \in new -> [worker[q] EXCEPT !.st = "starting"]
                                      [] OTHER     -> worker[q]]
      /\ mem' = [q \in Pids |-> IF q \in new THEN [mem[q] EXCEPT !.up = TRUE] ELSE mem[q]]
      /\ box' = [q \in Pids |-> IF q \in new THEN <<Load(p)>> ELSE box[q]]
    BY DEF Exit, Adopts
<1>2. /\ master.st = "up" /\ worker[p].st = "died"
      /\ UNCHANGED <<file, now, sent, master, budget>>
    BY DEF Exit
<1>3. ScanTypes /\ ClusterTypes
    BY TypesOf
<1>4. new \in SUBSET Pids /\ (\A q \in new : worker[q].st = "none") /\ p \notin new
    BY <1>2, NextPidsNone
<1> HIDE DEF new
<1>5. /\ worker' \in [Pids -> WorkerT]
      /\ \A q \in new : worker'[q].st = "starting"
      /\ worker'[p].st = "gone"
      /\ \A q \in Pids \ new : q # p => worker'[q] = worker[q]
  <2>1. "starting" \in States
      BY DEF States
  <2>2. \A q \in Pids : /\ worker[q] \in WorkerT
                        /\ [worker[q] EXCEPT !.st = "starting"] \in WorkerT
                        /\ [worker[q] EXCEPT !.st = "starting"].st = "starting"
      BY <2>1, TypesOf, WorkerIs
  <2>3. Gone \in WorkerT /\ Gone.st = "gone"
    <3>1. NotForked \in WorkerT
        BY NewWorkers
    <3> QED
        BY <3>1, NewWorkers DEF Gone, WorkerT
  <2>4. \A q \in Pids : /\ q = p => worker'[q] = Gone
                        /\ q \in new => worker'[q] = [worker[q] EXCEPT !.st = "starting"]
                        /\ q # p /\ q \notin new => worker'[q] = worker[q]
      BY <1>1, <1>4
  <2>5. worker' = [q \in Pids |-> worker'[q]]
      BY <1>1
  <2>6. \A q \in Pids : worker'[q] \in WorkerT
      BY <2>2, <2>3, <2>4
  <2> QED
      BY <1>4, <2>2, <2>3, <2>4, <2>5, <2>6, ZenonT(60)
<1>6. p \in Nat /\ Load(p) \in EventT /\ Load(p).event = "load_pid_queue" /\ Load(p).pid = p
    BY OutsidePids, EventsIn
<1>7. ASSUME NEW q \in Pids
      PROVE  box'[q] \in Seq(EventT) /\ \A k \in DOMAIN box'[q] : q \in new => box'[q][k] = Load(p)
  <2>1. box[q] \in Seq(EventT)
      BY TypesOf
  <2>2. <<Load(p)>> \in Seq(EventT) /\ \A k \in DOMAIN <<Load(p)>> : <<Load(p)>>[k] = Load(p)
      BY <1>6
  <2> QED
      BY <1>1, <2>1, <2>2
<1>8. ClusterTypes' /\ master'.st = "up"
  <2>1. box' \in [Pids -> Seq(EventT)]
      BY <1>1, <1>7
  <2> QED
      BY <1>2, <1>3, <1>5, <2>1 DEF ClusterTypes
<1>9. Sound(Load(p))'
    BY <1>5, <1>6 DEF Sound, Ended
<1>10. ASSUME NEW q \in Pids, NEW e \in Told(q)' PROVE e \in Told(q) \/ e = Load(p)
  <2>1. PICK k \in DOMAIN box'[q] : e = box'[q][k]
      BY DEF Told
  <2> QED
      BY <1>1, <1>7, <2>1 DEF Told
<1>11. \A q \in Pids : \A e \in Told(q)' : e \in Told(q) \/ Sound(e)'
    BY <1>9, <1>10, Zenon
<1>12. \A q \in Pids \ new : \/ worker'[q].st = worker[q].st
                             \/ worker[q].st = "died" /\ worker'[q].st = "gone"
    BY <1>2, <1>5
<1> QED
    BY <1>1, <1>2, <1>4, <1>5, <1>8, <1>11, <1>12, ForkKeeps

\* In a restart the new worker is told nothing.
LEMMA NextWorkerKeeps == ASSUME IInv, NextWorker PROVE IInv'
<1> DEFINE p     == Head(graceful.todo)
           new   == IF master.stopping THEN {} ELSE NextPids(1)
           leave == worker[p].st \in {"starting", "listening"}
<1>1. /\ worker' = [q \in Pids |-> CASE q = p /\ leave -> [worker[q] EXCEPT !.st = "leaving"]
                                      [] q \in new       -> [worker[q] EXCEPT !.st = "starting"]
                                      [] OTHER           -> worker[q]]
      /\ mem' = [q \in Pids |-> IF q \in new THEN [mem[q] EXCEPT !.up = TRUE] ELSE mem[q]]
      /\ box' = [q \in Pids |-> CASE q = p /\ leave -> Append(box[q], Event("shutdown"))
                                   [] q \in new       -> <<>>
                                   [] OTHER           -> box[q]]
    BY DEF NextWorker, FirstOf
<1>2. /\ master.st = "up" /\ p \in Pids /\ worker[p].st # "none"
      /\ UNCHANGED <<file, now, sent, master, budget>>
    BY DEF NextWorker, InCluster
<1>3. ScanTypes /\ ClusterTypes
    BY TypesOf
<1>4. new \in SUBSET Pids /\ (\A q \in new : worker[q].st = "none") /\ p \notin new
    BY <1>2, NextPidsNone
<1> HIDE DEF new
<1>5. /\ worker' \in [Pids -> WorkerT]
      /\ \A q \in new : worker'[q].st = "starting"
      /\ \A q \in Pids \ new : \/ worker'[q].st = worker[q].st
                               \/ /\ worker[q].st \in {"starting", "listening"}
                                  /\ worker'[q].st = "leaving"
  <2>1. "starting" \in States /\ "leaving" \in States
      BY DEF States
  <2>2. \A q \in Pids : /\ worker[q] \in WorkerT
                        /\ [worker[q] EXCEPT !.st = "starting"] \in WorkerT
                        /\ [worker[q] EXCEPT !.st = "starting"].st = "starting"
                        /\ [worker[q] EXCEPT !.st = "leaving"] \in WorkerT
                        /\ [worker[q] EXCEPT !.st = "leaving"].st = "leaving"
      BY <2>1, TypesOf, WorkerIs
  <2>3. \A q \in Pids : /\ q = p /\ leave => worker'[q] = [worker[q] EXCEPT !.st = "leaving"]
                        /\ q \in new => worker'[q] = [worker[q] EXCEPT !.st = "starting"]
                        /\ ~(q = p /\ leave) /\ q \notin new => worker'[q] = worker[q]
      BY <1>1, <1>4
  <2>4. worker' = [q \in Pids |-> worker'[q]]
      BY <1>1
  <2>5. \A q \in Pids : worker'[q] \in WorkerT
      BY <2>2, <2>3
  <2>6. \A q \in new : worker'[q].st = "starting"
      BY <1>4, <2>2, <2>3
  <2>7. ASSUME NEW q \in Pids \ new
        PROVE  \/ worker'[q].st = worker[q].st
               \/ worker[q].st \in {"starting", "listening"} /\ worker'[q].st = "leaving"
    <3>1. CASE q = p /\ leave
        BY <2>2, <2>3, <3>1
    <3>2. CASE ~(q = p /\ leave)
        BY <2>3, <3>2
    <3> QED
        BY <3>1, <3>2
  <2> QED
      BY <2>4, <2>5, <2>6, <2>7
<1> DEFINE shutdown == Event("shutdown")
<1>6. shutdown \in EventT /\ shutdown.event = "shutdown"
    BY EventsIn DEF Events
<1>7. ASSUME NEW q \in Pids
      PROVE  /\ box'[q] \in Seq(EventT)
             /\ \A k \in DOMAIN box'[q] : box'[q][k] = shutdown \/ \E j \in DOMAIN box[q] : box'[q][k] = box[q][j]
  <2>1. box[q] \in Seq(EventT)
      BY TypesOf
  <2> DEFINE b == Append(box[q], shutdown)
  <2>2. box'[q] = b \/ box'[q] = <<>> \/ box'[q] = box[q]
      BY <1>1
  <2>3. /\ b \in Seq(EventT)
        /\ \A k \in DOMAIN b : b[k] = shutdown \/ \E j \in DOMAIN box[q] : b[k] = box[q][j]
      BY <1>6, <2>1, AppendTold
  <2> HIDE DEF b, shutdown
  <2>4. CASE box'[q] = b
      BY <2>3, <2>4
  <2>5. CASE box'[q] = <<>>
      BY <2>5
  <2>6. CASE box'[q] = box[q]
      BY <2>1, <2>6
  <2> QED
      BY <2>2, <2>4, <2>5, <2>6
<1> HIDE DEF shutdown
<1>8. ClusterTypes' /\ master'.st = "up"
  <2>1. box' \in [Pids -> Seq(EventT)]
      BY <1>1, <1>7
  <2> QED
      BY <1>2, <1>3, <1>5, <2>1 DEF ClusterTypes
<1>9. ASSUME NEW q \in Pids, NEW e \in Told(q)' PROVE e \in Told(q) \/ Sound(e)'
  <2>1. PICK k \in DOMAIN box'[q] : e = box'[q][k]
      BY DEF Told
  <2>2. e = shutdown \/ e \in Told(q)
      BY <1>7, <2>1 DEF Told
  <2> QED
      BY <1>6, <2>2 DEF Sound
<1> QED
    BY <1>1, <1>2, <1>4, <1>5, <1>8, <1>9, ForkKeeps

LEMMA BudgetOf ==
    ASSUME ClusterTypes, NEW c \in Nat,
           budget' = [budget EXCEPT !.crashes = c] \/ budget' = [budget EXCEPT !.kills = c]
    PROVE  /\ budget' \in BudgetT
           /\ budget'.asked = budget.asked
           /\ budget' = [budget EXCEPT !.crashes = c] => budget'.crashes = c /\ budget'.kills = budget.kills
           /\ budget' = [budget EXCEPT !.kills = c] => budget'.crashes = budget.crashes /\ budget'.kills = c
<1>1. budget \in BudgetT
    BY DEF ClusterTypes
<1>2. ASSUME budget' = [budget EXCEPT !.crashes = c]
      PROVE  /\ budget'.crashes = c /\ budget'.kills = budget.kills /\ budget'.asked = budget.asked
             /\ budget' \in BudgetT
    BY <1>1, <1>2 DEF BudgetT
<1>3. ASSUME budget' = [budget EXCEPT !.kills = c]
      PROVE  /\ budget'.crashes = budget.crashes /\ budget'.kills = c /\ budget'.asked = budget.asked
             /\ budget' \in BudgetT
    BY <1>1, <1>3 DEF BudgetT
<1> QED
    BY <1>2, <1>3

\* A death is counted.
LEMMA BudgetGrows ==
    ASSUME ClusterTypes,
           \/ budget' = [budget EXCEPT !.crashes = @ + 1]
           \/ budget' = [budget EXCEPT !.kills = @ + 1]
    PROVE  /\ budget' \in BudgetT
           /\ budget'.asked = budget.asked
           /\ budget'.crashes + budget'.kills = budget.crashes + budget.kills + 1
<1>1. budget.crashes \in Nat /\ budget.kills \in Nat
    BY BudgetIs
<1>2. CASE budget' = [budget EXCEPT !.crashes = @ + 1]
  <2> DEFINE c == budget.crashes + 1
  <2>1. c \in Nat
      BY <1>1
  <2>2. budget' = [budget EXCEPT !.crashes = c]
      BY <1>2
  <2> HIDE DEF c
  <2>3. budget' \in BudgetT /\ budget'.asked = budget.asked
      BY <2>1, <2>2, BudgetOf
  <2>4. budget'.crashes = c /\ budget'.kills = budget.kills
      BY <2>1, <2>2, BudgetOf
  <2>5. c + budget.kills = budget.crashes + budget.kills + 1
      BY <1>1 DEF c
  <2>6. budget'.crashes + budget'.kills = c + budget.kills
      BY <2>4, Zenon
  <2> QED
      BY <2>3, <2>5, <2>6, Zenon
<1>3. CASE budget' = [budget EXCEPT !.kills = @ + 1]
  <2> DEFINE c == budget.kills + 1
  <2>1. c \in Nat
      BY <1>1
  <2>2. budget' = [budget EXCEPT !.kills = c]
      BY <1>3
  <2> HIDE DEF c
  <2>3. budget' \in BudgetT /\ budget'.asked = budget.asked
      BY <2>1, <2>2, BudgetOf
  <2>4. budget'.crashes = budget.crashes /\ budget'.kills = c
      BY <2>1, <2>2, BudgetOf
  <2>5. budget.crashes + c = budget.crashes + budget.kills + 1
      BY <1>1 DEF c
  <2>6. budget'.crashes + budget'.kills = budget.crashes + c
      BY <2>4, Zenon
  <2> QED
      BY <2>3, <2>5, <2>6, Zenon
<1> QED
    BY <1>2, <1>3

\* The end of a process: on its way from the unlink, it may leave a mail that
\* will be sent again, and the end is counted; or it leaves none.
LEMMA EndKeeps ==
    ASSUME IInv, NEW p \in Pids, NEW signal \in BOOLEAN, Ends(p, signal),
           worker[p].st \in {"starting", "listening", "leaving"},
           \/ budget' = [budget EXCEPT !.crashes = @ + 1]
           \/ budget' = [budget EXCEPT !.kills = @ + 1]
           \/ budget' = budget /\ \A i \in mem[p].items : i.at # "sent"
    PROVE  IInv'
<1>1. ScanTypes /\ ClusterTypes /\ worker[p] \in WorkerT
    BY TypesOf
<1>2. /\ worker' = [worker EXCEPT ![p].st = "died", ![p].signal = signal]
      /\ mem' = [mem EXCEPT ![p] = NoMemory] /\ box' = [box EXCEPT ![p] = <<>>]
      /\ UNCHANGED <<file, now, sent, master>>
    BY DEF Ends
<1>3. /\ worker' \in [Pids -> WorkerT] /\ worker'[p].st = "died"
      /\ \A q \in Pids \ {p} : worker'[q] = worker[q]
    BY <1>1, <1>2 DEF ClusterTypes, WorkerT, States
<1>4. /\ mem' \in [Pids -> MemT] /\ mem'[p] = NoMemory
      /\ \A q \in Pids \ {p} : mem'[q] = mem[q]
    BY <1>1, <1>2, NoMemoryIn DEF ScanTypes
<1>5. box' \in [Pids -> Seq(EventT)] /\ \A q \in Pids : box'[q] = <<>> \/ box'[q] = box[q]
  <2>1. <<>> \in Seq(EventT)
      OBVIOUS
  <2> QED
      BY <1>1, <1>2, <2>1 DEF ClusterTypes
<1>6. /\ budget' \in BudgetT
      /\ budget'.asked = budget.asked
      /\ \/ budget'.crashes + budget'.kills = budget.crashes + budget.kills + 1
         \/ budget' = budget /\ \A i \in mem[p].items : i.at # "sent"
  <2>1. CASE budget' = budget /\ \A i \in mem[p].items : i.at # "sent"
      BY <1>1, <2>1 DEF ClusterTypes
  <2> QED
      BY <1>1, <2>1, BudgetGrows
<1>7. ClusterTypes'
    BY <1>1, <1>2, <1>3, <1>5, <1>6 DEF ClusterTypes
<1>8. Alive'
    BY <1>2, <1>3, <1>4 DEF IInv, Custody, Alive, NoMemory
<1>9. \A q : Ended(q) => Ended(q)'
    BY <1>3 DEF Ended
<1>10. \A q \in Pids : \A e \in Told(q)' : e \in Told(q)
    BY <1>5 DEF Told
<1>11. NoDomain' => NoDomain
    BY <1>6 DEF NoDomain
<1>12. budget'.crashes + budget'.kills >= budget.crashes + budget.kills
  <2>1. budget.crashes \in Nat /\ budget.kills \in Nat
      BY <1>1, BudgetIs
  <2>2. CASE budget' = budget
      BY <2>1, <2>2
  <2>3. CASE budget'.crashes + budget'.kills = budget.crashes + budget.kills + 1
      BY <2>1, <2>3
  <2> QED
      BY <1>6, <2>2, <2>3
<1>13. \A m \in Mails : Settled(m)' =>
          Settled(m) \/ budget'.crashes + budget'.kills >= budget.crashes + budget.kills + 1
  <2>1. ASSUME \A i \in mem[p].items : i.at # "sent", NEW m \in Mails, Unlinking(m)
        PROVE  Unlinking(m)'
    <3>0. PICK q \in Pids : \E i \in mem[q].items : i.name.m = m /\ i.at = "sent"
        BY <2>1 DEF Unlinking
    <3>1. PICK i \in mem[q].items : i.name.m = m /\ i.at = "sent"
        BY <3>0
    <3>2. q # p
        BY <2>1, <3>1
    <3> QED
        BY <1>4, <3>1, <3>2 DEF Unlinking
  <2>2. (\A i \in mem[p].items : i.at # "sent") => \A m \in Mails : Settled(m)' => Settled(m)
      BY <1>2, <2>1 DEF Settled
  <2>3. CASE budget'.crashes + budget'.kills = budget.crashes + budget.kills + 1
    <3>1. budget'.crashes + budget'.kills >= budget.crashes + budget.kills + 1
        BY <1>1, <2>3, BudgetIs
    <3> QED
        BY <3>1
  <2> QED
      BY <1>6, <2>2, <2>3
<1> QED
    BY <1>2, <1>4, <1>7, <1>8, <1>9, <1>10, <1>11, <1>12, <1>13, Quiet

LEMMA ProcessEnds ==
    ASSUME IInv, NEW p \in Pids, Crash(p) \/ Leave(p) \/ Kill(p)
    PROVE  IInv'
<1>1. CASE Crash(p)
    BY <1>1, EndKeeps DEF Crash
<1>2. CASE Leave(p)
    BY <1>2, EndKeeps DEF Leave
<1>3. CASE Kill(p)
    BY <1>3, EndKeeps DEF Kill
<1> QED
    BY <1>1, <1>2, <1>3

LEMMA MasterDiesKeeps == ASSUME IInv, MasterDies PROVE IInv'
<1>1. ScanTypes /\ ClusterTypes
    BY TypesOf
<1>2. /\ master.st = "up" /\ master' = [master EXCEPT !.st = "dead"]
      /\ worker' = [p \in Pids |-> IF p \in InCluster THEN Gone ELSE worker[p]]
      /\ mem' = [p \in Pids |-> NoMemory] /\ box' = [p \in Pids |-> <<>>]
      /\ UNCHANGED <<file, now, sent, budget>>
    BY DEF MasterDies
<1>3. Gone \in WorkerT /\ Gone.st = "gone"
  <2>1. NotForked \in WorkerT
      BY NewWorkers
  <2> QED
      BY <2>1, NewWorkers DEF Gone, WorkerT
<1>4. /\ worker' \in [Pids -> WorkerT]
      /\ \A p \in Pids : worker'[p].st = "gone" \/ worker'[p] = worker[p]
  <2>1. \A p \in Pids : worker[p] \in WorkerT
      BY TypesOf
  <2> QED
      BY <1>2, <1>3, <2>1
<1>5. mem' \in [Pids -> MemT] /\ \A p \in Pids : mem'[p] = NoMemory
    BY <1>2, NoMemoryIn
<1>6. ClusterTypes' /\ master'.st = "dead"
  <2>1. <<>> \in Seq(EventT)
      OBVIOUS
  <2>2. master' \in [st : {"starting", "up", "dead", "done"}, listener : BOOLEAN, stopping : BOOLEAN]
      BY <1>1, <1>2 DEF ClusterTypes
  <2>3. master'.st = "dead"
      BY <1>1, <1>2 DEF ClusterTypes
  <2> QED
      BY <1>1, <1>2, <1>4, <2>1, <2>2, <2>3 DEF ClusterTypes
<1>7. Alive'
    BY <1>5, <1>6 DEF Alive, NoMemory
<1>8. \A q : Ended(q) => Ended(q)'
    BY <1>4 DEF Ended
<1>9. \A p \in Pids : \A e \in Told(p)' : e \in Told(p)
    BY <1>2 DEF Told
<1>10. \A m \in Mails : ~Settled(m)'
    BY <1>6 DEF Settled
<1>11. budget'.crashes + budget'.kills >= budget.crashes + budget.kills
    BY <1>1, <1>2, SameBudget
<1>12. NoDomain' => NoDomain
    BY <1>2 DEF NoDomain
<1> QED
    BY <1>2, <1>5, <1>6, <1>7, <1>8, <1>9, <1>10, <1>11, <1>12, Quiet

------------------------------------------------------------------------------
(* Messages. *)

LEMMA Received ==
    ASSUME IInv, NEW p \in Pids, Message(p)
    PROVE  NothingTold /\ Head(box[p]) \in Told(p) /\ Head(box[p]) \in EventT
<1>1. ScanTypes /\ ClusterTypes /\ box[p] \in Seq(EventT) /\ box[p] # <<>>
    BY TypesOf DEF Message
<1>2. box' = [box EXCEPT ![p] = Tail(box[p])] /\ UNCHANGED <<worker, master, budget>>
    BY DEF Message
<1>3. /\ Tail(box[p]) \in Seq(EventT) /\ Head(box[p]) \in EventT
      /\ \E j \in DOMAIN box[p] : Head(box[p]) = box[p][j]
      /\ \A k \in DOMAIN Tail(box[p]) : \E j \in DOMAIN box[p] : Tail(box[p])[k] = box[p][j]
    BY <1>1, TailTold
<1>4. box'[p] = Tail(box[p]) /\ \A q \in Pids \ {p} : box'[q] = box[q]
    BY <1>1, <1>2 DEF ClusterTypes
<1>5. ClusterTypes'
    BY <1>1, <1>2, <1>3 DEF ClusterTypes
<1>6. ASSUME NEW q \in Pids, NEW e \in Told(q)' PROVE e \in Told(q)
  <2>1. PICK k \in DOMAIN box'[q] : e = box'[q][k]
      BY DEF Told
  <2>2. CASE q = p
      BY <1>3, <1>4, <2>1, <2>2 DEF Told
  <2>3. CASE q # p
      BY <1>4, <2>1, <2>3 DEF Told
  <2> QED
      BY <2>2, <2>3
<1> QED
    BY <1>2, <1>3, <1>5, <1>6 DEF NothingTold, Told

\* An item whose timer an operator runs.
LEMMA DrainedItem ==
    ASSUME NEW i \in ItemT, i.at \in {"later", "timer"}
    PROVE  LET j == [TimerRuns(i) EXCEPT !.flushed = TRUE]
           IN  j \in ItemT /\ j.name = i.name /\ j.at \in {"load", "queued"} /\ j.flushed
<1>1. CASE i.at = "later"
  <2> DEFINE h == [i EXCEPT !.at = "load"]
  <2>1. h \in ItemT /\ h.name = i.name /\ h.at = "load" /\ TimerRuns(i) = h
      BY <1>1, Moved DEF Places, TimerRuns
  <2> HIDE DEF h
  <2> QED
      BY <2>1 DEF ItemT
<1>2. CASE i.at # "later"
  <2> DEFINE h == [i EXCEPT !.at = "queued"]
  <2>1. h \in ItemT /\ h.name = i.name /\ h.at = "queued" /\ TimerRuns(i) = h
      BY <1>2, Moved DEF Places, TimerRuns
  <2> HIDE DEF h
  <2> QED
      BY <2>1 DEF ItemT
<1> QED
    BY <1>1, <1>2

LEMMA FlushKeeps ==
    ASSUME IInv, NEW p \in Pids, mem[p].up, NothingTold, UNCHANGED <<file, now, sent>>,
           NEW X, X = Drained(p), mem' = [mem EXCEPT ![p].items = X]
    PROVE  IInv'
<1> DEFINE Run(i) == IF i.at \in {"later", "timer"} THEN [TimerRuns(i) EXCEPT !.flushed = TRUE] ELSE i
<1>1. X = {Run(i) : i \in mem[p].items}
    BY DEF Drained
<1>2. ASSUME NEW i \in mem[p].items
      PROVE  /\ Run(i) \in ItemT /\ Run(i).name = i.name
             /\ Run(i).at = "sent" <=> i.at = "sent"
             /\ TimelyItem(Run(i))
  <2>1. i \in ItemT /\ TimelyItem(i)
      BY HolderIs DEF IInv, Timely
  <2>2. CASE i.at \in {"later", "timer"}
    <3> DEFINE j == [TimerRuns(i) EXCEPT !.flushed = TRUE]
    <3>1. j \in ItemT /\ j.name = i.name /\ j.at \in {"load", "queued"} /\ j.flushed
        BY <2>1, <2>2, DrainedItem
    <3>2. Run(i) = j
        BY <2>2
    <3> HIDE DEF j, Run
    <3> QED
        BY <2>2, <3>1, <3>2 DEF TimelyItem
  <2>3. CASE i.at \notin {"later", "timer"}
      BY <2>1, <2>3
  <2> QED
      BY <2>2, <2>3
<1> HIDE DEF Run
<1>3. X \in SUBSET ItemT
    BY <1>1, <1>2
<1>4. \A k \in X : TimelyItem(k)
    BY <1>1, <1>2
<1>5. \A k \in X : \E h \in mem[p].items : h.name = k.name /\ (h.at = "sent" <=> k.at = "sent")
    BY <1>1, <1>2
<1>6. \A h \in mem[p].items : \E k \in X : h.name = k.name /\ (h.at = "sent" <=> k.at = "sent")
    BY <1>1, <1>2
<1>7. Single => \A h, k \in X : h.name.m = k.name.m => h = k
  <2> SUFFICES ASSUME Single, NEW i \in mem[p].items, NEW j \in mem[p].items,
                      Run(i).name.m = Run(j).name.m
               PROVE  Run(i) = Run(j)
      BY <1>1
  <2>1. i.name.m = j.name.m
      BY <1>2
  <2> QED
      BY <2>1 DEF Single
<1> QED
    BY <1>3, <1>4, <1>5, <1>6, <1>7, ItemsMove, ZenonT(60)

LEMMA MessageKeeps ==
    ASSUME IInv, NEW p \in Pids, Message(p)
    PROVE  IInv'
<1> DEFINE e == Head(box[p])
<1>1. mem[p].up /\ UNCHANGED <<file, now, sent>>
    BY DEF Message
<1>2. NothingTold /\ e \in Told(p) /\ e \in EventT
    BY Received
<1>3. mem' = CASE e.event = "load_pid_queue" -> [mem EXCEPT ![p].asked = @ \cup {e.pid}]
               [] e.event = "shutdown"       -> [mem EXCEPT ![p].stopped = TRUE]
               [] e.event = "flush"          -> [mem EXCEPT ![p].items = Drained(p)]
               [] OTHER                      -> [mem EXCEPT ![p].flush = "asked"]
    BY DEF Message
<1> HIDE DEF e
<1>4. ScanTypes /\ mem[p] \in MemT
    BY TypesOf
<1>5. /\ \A h \in mem[p].asked : Ended(h)
      /\ \A n \in mem[p].grab : Ended(n.pid)
      /\ \A n \in mem[p].found : file[n.m].pid = p
    BY DEF IInv, Custody, EndedOnly, Owns
<1>6. ASSUME NEW r \in MemT, mem' = [mem EXCEPT ![p] = r],
             r.up = mem[p].up, r.items = mem[p].items, r.cur_time = mem[p].cur_time,
             r.grab = mem[p].grab, r.found = mem[p].found,
             r.flush = mem[p].flush \/ ~NoDomain, \A h \in r.asked : Ended(h)
      PROVE  IInv'
  <2>1. mem' \in [Pids -> MemT] /\ mem'[p] = r /\ \A h \in Pids \ {p} : mem'[h] = mem[h]
      BY <1>4, <1>6, NewMemory
  <2>2. /\ \A n \in r.grab : Ended(n.pid)
        /\ \A n \in r.found : file'[n.m].pid = p
        /\ r.cur_time \in {mem[p].cur_time, now}
      BY <1>1, <1>5, <1>6
  <2> QED
      BY <1>1, <1>2, <1>6, <2>1, <2>2, SameItems
<1>7. CASE e.event = "load_pid_queue"
  <2> DEFINE r == [mem[p] EXCEPT !.asked = @ \cup {e.pid}]
  <2>1. Ended(e.pid) /\ e.pid \in Nat
      BY <1>2, <1>7 DEF IInv, Custody, EndedOnly, EventT
  <2>2. /\ r \in MemT /\ r.up = mem[p].up /\ r.items = mem[p].items /\ r.cur_time = mem[p].cur_time
        /\ r.grab = mem[p].grab /\ r.found = mem[p].found /\ r.flush = mem[p].flush
        /\ r.asked = mem[p].asked \cup {e.pid}
      BY <1>4, <2>1 DEF MemT
  <2>3. mem' = [mem EXCEPT ![p] = r]
      BY <1>3, <1>4, <1>7 DEF ScanTypes
  <2> HIDE DEF r
  <2>4. \A h \in r.asked : Ended(h)
      BY <1>5, <2>1, <2>2
  <2> QED
      BY <1>6, <2>2, <2>3, <2>4
<1>8. CASE e.event = "shutdown"
  <2> DEFINE r == [mem[p] EXCEPT !.stopped = TRUE]
  <2>1. /\ r \in MemT /\ r.up = mem[p].up /\ r.items = mem[p].items /\ r.cur_time = mem[p].cur_time
        /\ r.grab = mem[p].grab /\ r.found = mem[p].found /\ r.flush = mem[p].flush
        /\ r.asked = mem[p].asked
      BY <1>4 DEF MemT
  <2>2. mem' = [mem EXCEPT ![p] = r]
      BY <1>3, <1>4, <1>8 DEF ScanTypes
  <2> HIDE DEF r
  <2> QED
      BY <1>5, <1>6, <2>1, <2>2
<1>9. CASE e.event = "flush"
  <2>1. PICK X : X = Drained(p)
      OBVIOUS
  <2>2. mem' = [mem EXCEPT ![p].items = X]
      BY <1>3, <1>9, <2>1
  <2> QED
      BY <1>1, <1>2, <2>1, <2>2, FlushKeeps
<1>10. CASE e.event = "flush domain"
  <2> DEFINE r == [mem[p] EXCEPT !.flush = "asked"]
  <2>1. ~NoDomain
      BY <1>2, <1>10 DEF IInv, Once, NoList, Events
  <2>2. /\ r \in MemT /\ r.up = mem[p].up /\ r.items = mem[p].items /\ r.cur_time = mem[p].cur_time
        /\ r.grab = mem[p].grab /\ r.found = mem[p].found
        /\ r.asked = mem[p].asked
      BY <1>4 DEF MemT
  <2>3. mem' = [mem EXCEPT ![p] = r]
      BY <1>3, <1>4, <1>10 DEF ScanTypes
  <2> HIDE DEF r
  <2> QED
      BY <1>5, <1>6, <2>1, <2>2, <2>3
<1> QED
    BY <1>2, <1>7, <1>8, <1>9, <1>10 DEF EventT, Events

------------------------------------------------------------------------------
(* The steps together. *)

LEMMA ScansKeep == ASSUME IInv, Scans PROVE IInv'
<1>1. PICK p \in Pids : Loads(p)
    BY DEF Scans
<1>2. UNCHANGED clusterVars
    BY DEF Scans
<1>3. CASE ReadDir(p)
    BY <1>2, <1>3, ReadDirKeeps
<1>4. CASE GrabFile(p)
    BY <1>2, <1>4, GrabFileKeeps
<1>5. CASE LoadFile(p) \/ ReadTodo(p) \/ TimerFires(p)
    BY <1>2, <1>5, MoveKeeps
<1>6. CASE ListDir(p)
    BY <1>2, <1>6, ListDirKeeps
<1>7. CASE ListFile(p)
    BY <1>2, <1>7, ListFileKeeps
<1>8. CASE FlushFound(p)
    BY <1>2, <1>8, FlushFoundKeeps
<1> QED
    BY <1>1, <1>3, <1>4, <1>5, <1>6, <1>7, <1>8 DEF Loads

LEMMA MailerKeeps == ASSUME IInv, Mailer PROVE IInv'
<1>1. PICK p \in Pids : Sends(p)
    BY DEF Mailer
<1>2. UNCHANGED clusterVars
    BY DEF Mailer
<1>3. CASE Deliver(p)
    BY <1>2, <1>3, MoveKeeps
<1>4. CASE SendMail(p)
    BY <1>2, <1>4, SendKeeps
<1>5. CASE Discard(p) \/ LosesFile(p)
    BY <1>2, <1>5, DropKeeps
<1>6. CASE DeferMail(p)
    BY <1>2, <1>6, DeferKeeps
<1> QED
    BY <1>1, <1>3, <1>4, <1>5, <1>6 DEF Sends

LEMMA Stutter == ASSUME IInv, UNCHANGED vars PROVE IInv'
<1>1. UNCHANGED <<file, mem, now, sent>> /\ UNCHANGED clusterVars /\ UNCHANGED <<worker, box, master, budget>>
    BY DEF vars, scanVars, clusterVars
<1>2. Custody'
  <2>1. TypeOK'
      BY <1>1 DEF IInv, Custody, TypeOK, ScanTypes, ClusterTypes
  <2>2. Alive'
      BY <1>1 DEF IInv, Custody, Alive
  <2>3. EndedOnly'
      BY <1>1 DEF IInv, Custody, EndedOnly, Told, Ended
  <2>4. Owns'
      BY <1>1 DEF IInv, Custody, Owns
  <2> QED
      BY <2>1, <2>2, <2>3, <2>4 DEF Custody
<1>3. Timely'
    BY <1>1 DEF IInv, Timely, TimelyItem
<1>4. Once'
    BY <1>1 DEF IInv, Once, NoDomain, NoList, Told, Known, Exists, Name, Single, Counted, Settled, Unlinking
<1> QED
    BY <1>2, <1>3, <1>4 DEF IInv

LEMMA InductiveStep == IInv /\ [Next]_vars => IInv'
<1> SUFFICES ASSUME IInv, [Next]_vars PROVE IInv'
    OBVIOUS
<1>1. CASE Scans
    BY <1>1, ScansKeep
<1>2. CASE Mailer
    BY <1>2, MailerKeeps
<1>3. CASE Clock
    BY <1>3, TickKeeps DEF Clock
<1>4. CASE Master
  <2>1. CASE InitMaster
      BY <2>1, InitMasterKeeps
  <2>2. CASE NextWorker
      BY <2>2, NextWorkerKeeps
  <2>3. CASE MasterDies
      BY <2>3, MasterDiesKeeps
  <2>4. CASE Online \/ GracefulEnds
      BY <2>4, MasterKeeps
  <2>5. CASE \E p \in Pids : Exit(p)
      BY <2>5, ExitKeeps
  <2> QED
      BY <1>4, <2>1, <2>2, <2>3, <2>4, <2>5 DEF Master
<1>5. CASE Worker
  <2>1. PICK p \in Pids : Listen(p) \/ Message(p) \/ Leave(p)
      BY <1>5 DEF Worker
  <2>2. CASE Listen(p)
      BY <2>2, ListenKeeps
  <2>3. CASE Message(p)
      BY <2>3, MessageKeeps
  <2>4. CASE Leave(p)
      BY <2>4, ProcessEnds
  <2> QED
      BY <2>1, <2>2, <2>3, <2>4
<1>6. CASE Orders_
    BY <1>6, MasterKeeps, AskFlushKeeps DEF Orders_
<1>7. CASE Faults
    BY <1>7, ProcessEnds DEF Faults
<1>8. CASE UNCHANGED vars
    BY <1>8, Stutter
<1> QED
    BY <1>1, <1>2, <1>3, <1>4, <1>5, <1>6, <1>7, <1>8 DEF Next

LEMMA InvariantHolds == Spec => []IInv
<1>1. Init => IInv
    BY InitCustody, InitTimely, InitOnce DEF IInv
<1> QED
    BY <1>1, InductiveStep, PTL DEF Spec

\* A file has one pid, and so one holder.
LEMMA HolderFollows == IInv => OneHolder
<1> SUFFICES ASSUME IInv, NEW m \in Mails
             PROVE  Cardinality({p \in Pids : \E i \in mem[p].items : i.name.m = m}) =< 1
    BY DEF OneHolder
<1> DEFINE q == file[m].pid
           S == {p \in Pids : \E i \in mem[p].items : i.name.m = m}
<1>1. S \subseteq {q}
    BY DEF IInv, Custody, Owns
<1>2. IsFiniteSet({q}) /\ Cardinality({q}) = 1
    BY FS_Singleton
<1> HIDE DEF q, S
<1>3. Cardinality(S) =< 1
    BY <1>1, <1>2, FS_Subset
<1> QED
    BY <1>3 DEF S

\* No mail is in the memory of two processes, so no two send it: files are
\* renamed by _load_cur_queue (outbound.js) only for a pid that has ended, as
\* init_master_respond and cluster_exit_listener (server.js) see to.
THEOREM OneHolderEver == Spec => []OneHolder
    BY InvariantHolds, HolderFollows, PTL

LEMMA OnTimeFollows == IInv => OnTime
<1> SUFFICES ASSUME IInv PROVE OnTime
    OBVIOUS
<1>1. \A p \in Pids : \A i \in Items(p, "sending") : i.flushed \/ i.name.due =< now
    BY DEF IInv, Timely, TimelyItem, Items
<1>2. NoDomain => \A m \in Mails : sent[m] =< 1 + budget.crashes + budget.kills
    BY DEF IInv, Once, Counted
<1> QED
    BY <1>1, <1>2 DEF OnTime, NoDomain

\* No mail is sent before it is due, unless it is flushed, and none more often
\* than once and once for every process that died between the answer of the
\* remote server and the unlink of discard(), unless a domain is flushed.
THEOREM OnTimeEver == Spec => []OnTime
    BY InvariantHolds, OnTimeFollows, PTL
=============================================================================
