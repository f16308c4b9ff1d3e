------------------------------- MODULE Cluster ------------------------------
(***************************************************************************)
(* server.js under cluster: a master forks the workers, has them take over *)
(* queue files, replaces one that dies, restarts or shuts them down one by *)
(* one, and passes on a flush.  Each worker is a process of QueueScan.     *)
(***************************************************************************)
EXTENDS QueueScan, SequencesExt, FiniteSetsExt

CONSTANTS Nodes,       \* workers: cfg.main.nodes
          MaxCrashes,  \* bounds: workers that die by themselves
          MaxKills,    \* workers that do not leave in time
          Orders,      \* what an operator may ask for
          MaxOrders    \* bound: how many of them

ASSUME ClusterAssumption == Nodes \in Nat \ {0} /\ MaxCrashes \in Nat /\ MaxKills \in Nat

VARIABLES worker,   \* worker[p], see NewWorker
          box,      \* box[p]: messages of the master
          master,   \* is it up, has it the listener of 'exit', is it stopping
          graceful, \* _graceful(): workers to do, the one that leaves, the new one
          budget,   \* crashes, kills and orders so far
          harm      \* what the code does not recover from, see Ends and Exit

clusterVars == <<worker, box, master, graceful, budget, harm>>
vars == <<scanVars, clusterVars>>

\* st "none", "starting", "listening", "leaving", "died": and not yet noticed,
\* "gone".  watched: it has an 'exit' listener of its own.
NotForked == [st |-> "none", signal |-> FALSE, watched |-> FALSE]
Gone      == [NotForked EXCEPT !.st = "gone"]
Idle      == [on |-> FALSE, todo |-> <<>>, old |-> 0, new |-> 0]

Init == /\ ScanInit
        /\ worker = [p \in Pids |-> NotForked]
        /\ box = [p \in Pids |-> <<>>]
        /\ master = [st |-> "starting", listener |-> FALSE, stopping |-> FALSE]
        /\ graceful = Idle
        /\ budget = [crashes |-> 0, kills |-> 0, asked |-> {}]
        /\ harm = {}

Load(pid) == [event |-> "load_pid_queue", pid |-> pid]
Event(e)  == [event |-> e, pid |-> 0]

InCluster == {p \in Pids : worker[p].st \notin {"none", "gone"}}
NextPids(n) == {p \in Pids : worker[p].st = "none" /\ Cardinality({q \in Pids : q < p /\ worker[q].st = "none"}) < n}
Listening == {p \in Pids : worker[p].st = "listening"}

\* cluster.fork() of the processes of ps, each with its first messages.
Fork(ps, first(_)) ==
    /\ worker' = [p \in Pids |-> IF p \in ps THEN [worker[p] EXCEPT !.st = "starting"] ELSE worker[p]]
    /\ mem' = [p \in Pids |-> IF p \in ps THEN [mem[p] EXCEPT !.up = TRUE] ELSE mem[p]]
    /\ box' = [p \in Pids |-> IF p \in ps THEN first(p) ELSE box[p]]

------------------------------------------------------------------------------
(* The master. *)

\* init_master_respond(): the pids of the queue files are dealt to the workers.
InitMaster ==
    /\ master.st = "starting"
    /\ LET ps   == NextPids(Nodes)
           pids == {file[m].pid : m \in {k \in Mails : file[k].there}}
           nth(q)  == Cardinality({r \in pids : r < q})
           mine(p) == SetToSeq({Load(q) : q \in {r \in pids : nth(r) % Nodes = p - Min(ps)}})
       IN  Fork(ps, mine)
    /\ master' = [master EXCEPT !.st = "up", !.listener = TRUE]
    /\ UNCHANGED <<file, now, sent, graceful, budget, harm>>

\* Mistake: the new worker does not take over the queue.
MistakeAdopts(p) == <<>>

\* What the worker that replaces a dead one is told.
Adopts(p) == <<Load(p)>>

\* Mistake: a shutdown does not go on.
MistakeAfterExit(p) == graceful

\* 'exit' of a worker in a shutdown: on to the next.
AfterExit(p) == IF graceful.old = p /\ master.stopping THEN [graceful EXCEPT !.old = 0] ELSE graceful

\* 'exit' of a worker: cluster_exit_listener, by the cluster's listener or by
\* the worker's own, replaces it unless it left by itself.
Exit(p) ==
    /\ master.st = "up" /\ worker[p].st = "died"
    /\ LET seen == master.listener \/ worker[p].watched
           new  == IF seen /\ worker[p].signal THEN NextPids(1) ELSE {}
       IN  /\ seen /\ worker[p].signal => new # {}
           /\ harm' = IF worker[p].signal /\ ~seen THEN harm \cup {"unseen"} ELSE harm
           /\ worker' = [q \in Pids |-> CASE q = p    -> Gone
                                          [] q \in new -> [worker[q] EXCEPT !.st = "starting"]
                                          [] OTHER     -> worker[q]]
           /\ mem' = [q \in Pids |-> IF q \in new THEN [mem[q] EXCEPT !.up = TRUE] ELSE mem[q]]
           /\ box' = [q \in Pids |-> IF q \in new THEN Adopts(p) ELSE box[q]]
    /\ graceful' = AfterExit(p)
    /\ UNCHANGED <<file, now, sent, master, budget>>

\* gracefulRestart() or gracefulShutdown(); ignored while one is in progress.
AskGraceful ==
    /\ master.st = "up" /\ ~graceful.on
    /\ \E order \in (Orders \cap {"restart", "shutdown"}) \ budget.asked :
          /\ Cardinality(budget.asked) < MaxOrders
          /\ budget' = [budget EXCEPT !.asked = @ \cup {order}]
          /\ graceful' = [Idle EXCEPT !.on = TRUE, !.todo = SetToSortSeq(InCluster, <)]
          /\ master' = [master EXCEPT !.listener = FALSE, !.stopping = (order = "shutdown")]
    /\ UNCHANGED <<scanVars, worker, box, harm>>

\* Mistake: the new worker takes over the queue of the one that leaves.
MistakeFirst(old) == <<Load(old)>>

\* What a worker that replaces another in a restart is told.
FirstOf(old) == <<>>

\* The next worker is told to leave, and its replacement forked.
NextWorker ==
    /\ master.st = "up" /\ graceful.on /\ graceful.old = 0 /\ graceful.todo # <<>>
    /\ LET p     == Head(graceful.todo)
           new   == IF master.stopping THEN {} ELSE NextPids(1)
           leave == worker[p].st \in {"starting", "listening"}
       IN  /\ p \in InCluster
           /\ master.stopping \/ new # {}
           /\ graceful' = [graceful EXCEPT !.todo = Tail(@), !.old = p,
                                           !.new = IF new = {} THEN 0 ELSE Min(new)]
           /\ worker' = [q \in Pids |-> CASE q = p /\ leave -> [worker[q] EXCEPT !.st = "leaving"]
                                          [] q \in new       -> [worker[q] EXCEPT !.st = "starting"]
                                          [] OTHER           -> worker[q]]
           /\ mem' = [q \in Pids |-> IF q \in new THEN [mem[q] EXCEPT !.up = TRUE] ELSE mem[q]]
           /\ box' = [q \in Pids |-> CASE q = p /\ leave -> Append(box[q], Event("shutdown"))
                                       [] q \in new       -> FirstOf(p)
                                       [] OTHER           -> box[q]]
    /\ UNCHANGED <<file, now, sent, master, budget, harm>>

\* The next worker is gone: the master dies of a TypeError, and all with it.
MasterDies ==
    /\ master.st = "up" /\ graceful.on /\ graceful.old = 0 /\ graceful.todo # <<>>
    /\ Head(graceful.todo) \notin InCluster
    /\ master' = [master EXCEPT !.st = "dead"]
    /\ worker' = [p \in Pids |-> IF p \in InCluster THEN Gone ELSE worker[p]]
    /\ mem' = [p \in Pids |-> NoMemory] /\ box' = [p \in Pids |-> <<>>]
    /\ UNCHANGED <<file, now, sent, graceful, budget, harm>>

\* "Replacement worker online": it gets a listener, and the next one leaves.
Online ==
    /\ master.st = "up" /\ graceful.new # 0 /\ worker[graceful.new].st = "listening"
    /\ worker' = [worker EXCEPT ![graceful.new].watched = TRUE]
    /\ graceful' = [graceful EXCEPT !.old = 0, !.new = 0]
    /\ UNCHANGED <<scanVars, box, master, budget, harm>>

\* All are done: the restart is over, or the master ends.
GracefulEnds ==
    /\ master.st = "up" /\ graceful.on /\ graceful.old = 0 /\ graceful.todo = <<>>
    /\ graceful' = Idle
    /\ master' = [master EXCEPT !.st = IF master.stopping THEN "done" ELSE "up"]
    /\ UNCHANGED <<scanVars, worker, box, budget, harm>>

\* flushQueue(), of SIGHUP or with a domain.
AskFlush ==
    /\ master.st = "up"
    /\ \E order \in (Orders \cap {"flush", "flush domain"}) \ budget.asked :
          /\ Cardinality(budget.asked) < MaxOrders
          /\ budget' = [budget EXCEPT !.asked = @ \cup {order}]
          /\ box' = [p \in Pids |-> IF p \in InCluster /\ mem[p].up THEN Append(box[p], Event(order)) ELSE box[p]]
    /\ UNCHANGED <<scanVars, worker, master, graceful, harm>>

------------------------------------------------------------------------------
(* A worker. *)

Listen(p) ==
    /\ worker[p].st = "starting"
    /\ worker' = [worker EXCEPT ![p].st = "listening"]
    /\ UNCHANGED <<scanVars, box, master, graceful, budget, harm>>

\* process.on('message') of outbound.js.
Message(p) ==
    /\ mem[p].up /\ box[p] # <<>>
    /\ box' = [box EXCEPT ![p] = Tail(@)]
    /\ LET e == Head(box[p])
       IN  mem' = CASE e.event = "load_pid_queue" -> [mem EXCEPT ![p].asked = @ \cup {e.pid}]
                    [] e.event = "shutdown"       -> [mem EXCEPT ![p].stopped = TRUE]
                    [] e.event = "flush"          -> [mem EXCEPT ![p].items = Drained(p)]
                    [] OTHER                      -> [mem EXCEPT ![p].flush = "asked"]
    /\ UNCHANGED <<file, now, sent, worker, master, graceful, budget, harm>>

\* A process ends, and leaves a queue: one it had to take over, or, when it
\* ends by itself, its own, of which nobody will be told.
Leaves(p, signal) == \/ mem[p].asked # {} \/ mem[p].grab # {}
                     \/ \E i \in DOMAIN box[p] : box[p][i].event = "load_pid_queue"
                     \/ ~signal /\ FilesOf(p) # {}
Ends(p, signal) ==
    /\ worker' = [worker EXCEPT ![p].st = "died", ![p].signal = signal]
    /\ harm' = IF Leaves(p, signal) THEN harm \cup {"left"} ELSE harm
    /\ mem' = [mem EXCEPT ![p] = NoMemory] /\ box' = [box EXCEPT ![p] = <<>>]
    /\ UNCHANGED <<file, now, sent, master, graceful>>

Crash(p) ==
    /\ worker[p].st \in {"starting", "listening"} /\ budget.crashes < MaxCrashes
    /\ budget' = [budget EXCEPT !.crashes = @ + 1]
    /\ Ends(p, TRUE)

\* A worker that was told to leave ends when nothing keeps its event loop,
\* or is killed after half a minute.
Leave(p) ==
    /\ worker[p].st = "leaving" /\ box[p] = <<>> /\ ~Busy(p)
    /\ \A i \in mem[p].items : i.at \in {"timer", "later"}
    /\ Ends(p, FALSE)
    /\ UNCHANGED budget

Kill(p) ==
    /\ worker[p].st = "leaving" /\ budget.kills < MaxKills
    /\ budget' = [budget EXCEPT !.kills = @ + 1]
    /\ Ends(p, TRUE)

------------------------------------------------------------------------------

Scans  == (\E p \in Pids : Loads(p)) /\ UNCHANGED clusterVars
Mailer == (\E p \in Pids : Sends(p)) /\ UNCHANGED clusterVars
Clock  == Tick /\ (\A p \in Pids : mem[p].up => box[p] = <<>>) /\ UNCHANGED clusterVars
Master == InitMaster \/ NextWorker \/ MasterDies \/ Online \/ GracefulEnds \/ \E p \in Pids : Exit(p)
Worker == \E p \in Pids : Listen(p) \/ Message(p) \/ Leave(p)
Orders_ == AskGraceful \/ AskFlush
Faults == \E p \in Pids : Crash(p) \/ Kill(p)

Next == Scans \/ Mailer \/ Clock \/ Master \/ Worker \/ Orders_ \/ Faults

\* Processes, disks, the clock and the remote servers go on.
Fairness == WF_vars(Scans) /\ WF_vars(Mailer) /\ WF_vars(Clock) /\ WF_vars(Master) /\ WF_vars(Worker)

Spec     == Init /\ [][Next]_vars
FairSpec == Spec /\ Fairness

(***************************************************************************)
(* Properties                                                              *)
(***************************************************************************)

\* No mail is in the memory of two processes, so no two send it: a queue is
\* taken over only when the process it belonged to has ended.
OneHolder == \A m \in Mails : Cardinality({p \in Pids : \E i \in mem[p].items : i.name.m = m}) =< 1

\* No mail is sent before its time, though its times are worked out with a
\* cur_time that other scans change, unless an operator flushes.  None is sent
\* twice, though processes hand it on, but for the one time that a process may
\* die between the answer and the unlink, and the flush of a domain.
OnTime == /\ \A p \in Pids : \A i \in Items(p, "sending") : i.flushed \/ i.name.due =< now
          /\ "flush domain" \notin budget.asked =>
                 \A m \in Mails : sent[m] =< 1 + budget.crashes + budget.kills

\* There are again as many workers as configured, after deaths and a restart,
\* and a shutdown ends, unless a worker died that no listener was watching.
Staffed ==
    []("unseen" \notin harm) =>
        /\ <>[](master.st = "up" => Cardinality(Listening) >= Nodes)
        /\ [](master.stopping => <>(master.st # "up"))

\* Every queue file is sent in the end, whoever owned it, as long as there is
\* a master and no queue was left behind.
QueueServed ==
    [](harm = {} /\ master.st \notin {"dead", "done"} /\ ~master.stopping)
        => \A m \in Mails : <>(~file[m].there)
=============================================================================
