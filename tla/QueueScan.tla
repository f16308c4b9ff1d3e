------------------------------ MODULE QueueScan -----------------------------
(***************************************************************************)
(* outbound.js: how a process takes over the queue files of another one,   *)
(* waits until they are due, reads and sends them, and how an operator     *)
(* flushes them.                                                           *)
(*                                                                         *)
(* A queue file is named by its due time, the process it belongs to and    *)
(* its mail.  What happens to a mail while it is sent is in OutboundQueue; *)
(* here it is sent, or deferred under a new name.                          *)
(***************************************************************************)
EXTENDS Integers, FiniteSets, Sequences

CONSTANTS Mails,      \* queue files
          Pids,       \* processes; 0 is one of an earlier run
          Dues,       \* times the files of the earlier run are due
          Delay,      \* of a deferral
          MaxDefers,  \* bound: deferrals of a mail
          MaxTime,    \* bound of the clock
          Slots       \* concurrency_max, of load_queue and of delivery_queue

ASSUME ScanAssumption == /\ Pids \subseteq Nat \ {0} /\ Dues \subseteq Nat
                         /\ Delay \in Nat \ {0} /\ Slots \in Nat \ {0}

VARIABLES file,  \* file[m]: is it there, its due time, pid, and failures
          mem,   \* mem[p]: the memory of process p
          now,   \* the clock
          sent   \* sent[m]: how often the mail was sent

scanVars == <<file, mem, now, sent>>

NoMemory == [up |-> FALSE, stopped |-> FALSE, cur_time |-> 0, asked |-> {}, grab |-> {},
             flush |-> "no", names |-> {}, found |-> {}, items |-> {}]

ScanInit ==
    /\ \E due \in [Mails -> Dues] :
          file = [m \in Mails |-> [there |-> TRUE, due |-> due[m], pid |-> 0, fails |-> 0]]
    /\ mem = [p \in Pids |-> NoMemory]
    /\ now = 1
    /\ sent = [m \in Mails |-> 0]

Name(m) == [m |-> m, due |-> file[m].due, pid |-> file[m].pid]
Exists(n) == file[n.m].there /\ Name(n.m) = n

\* The files whose names have this pid.
FilesOf(pid) == {Name(m) : m \in {k \in Mails : file[k].there /\ file[k].pid = pid}}

\* A file, and then the HMailItem made of it, on its way through a process:
\* "later" and "load" are a file in the timer queue and in load_queue, "timer",
\* "queued" and "sending" an item in the timer queue and in delivery_queue,
\* "sent" one that the remote server has accepted.
NewItem(n, at, fire) == [name |-> n, at |-> at, fire |-> fire, ready |-> "no",
                         slot |-> FALSE, flushed |-> FALSE]

Change(p, i, j) == mem' = [mem EXCEPT ![p].items = (@ \ {i}) \cup {j}]
Drop(p, i)      == mem' = [mem EXCEPT ![p].items = @ \ {i}]
Items(p, at)    == {i \in mem[p].items : i.at = at}

------------------------------------------------------------------------------
(* Loading. *)

\* readdir of _load_cur_queue(pid, "_add_file").
ReadDir(p) ==
    /\ mem[p].up
    /\ \E q \in mem[p].asked :
          mem' = [mem EXCEPT ![p].asked = @ \ {q}, ![p].cur_time = now,
                             ![p].grab = @ \cup FilesOf(q)]
    /\ UNCHANGED <<file, now, sent>>

\* A file that has this process's pid now: loaded at once or when it is due.
Grabbed(p, n) ==
    IF n.due =< mem[p].cur_time THEN NewItem([n EXCEPT !.pid = p], "load", 0)
    ELSE NewItem([n EXCEPT !.pid = p], "later", now + n.due - mem[p].cur_time)

\* The file is renamed to this process's pid; one that was moved is left.
GrabFile(p) ==
    /\ mem[p].up
    /\ \E n \in mem[p].grab :
          IF Exists(n)
          THEN /\ file' = [file EXCEPT ![n.m].pid = p]
               /\ mem' = [mem EXCEPT ![p].grab = @ \ {n}, ![p].items = @ \cup {Grabbed(p, n)}]
          ELSE mem' = [mem EXCEPT ![p].grab = @ \ {n}] /\ UNCHANGED file
    /\ UNCHANGED <<now, sent>>

\* _add_file(), with the time of the last readdir.
AddFile(p, i) ==
    IF i.name.due < mem[p].cur_time THEN [i EXCEPT !.at = "queued"]
    ELSE [i EXCEPT !.at = "timer", !.fire = now + i.name.due - mem[p].cur_time]

\* load_queue's worker: it has the item added before its header is read.
LoadFile(p) ==
    /\ mem[p].up /\ Cardinality({i \in mem[p].items : i.slot}) < Slots
    /\ \E i \in Items(p, "load") : Change(p, i, [AddFile(p, i) EXCEPT !.slot = TRUE])
    /\ UNCHANGED <<file, now, sent>>

\* read_todo(): 'ready', or, when the file is no longer under that name, a
\* temp_fail() whose rename fails, and a bounce() that waits for 'ready'.
ReadTodo(p) ==
    /\ mem[p].up
    /\ \E i \in mem[p].items :
          /\ i.ready = "no" /\ i.at \notin {"later", "load"}
          /\ Change(p, i, IF Exists(i.name) THEN [i EXCEPT !.ready = "yes", !.slot = FALSE]
                          ELSE [i EXCEPT !.ready = "never"])
    /\ UNCHANGED <<file, now, sent>>

\* A timer runs its callback, when the queue was not shut down.
Due(p) == {i \in Items(p, "later") \cup Items(p, "timer") : i.fire =< now /\ ~mem[p].stopped}
TimerRuns(i) == IF i.at = "later" THEN [i EXCEPT !.at = "load"] ELSE [i EXCEPT !.at = "queued"]
TimerFires(p) ==
    /\ mem[p].up
    /\ \E i \in Due(p) : Change(p, i, TimerRuns(i))
    /\ UNCHANGED <<file, now, sent>>

------------------------------------------------------------------------------
(* Sending. *)

Deliver(p) ==
    /\ mem[p].up /\ Cardinality(Items(p, "sending") \cup Items(p, "sent")) < Slots
    /\ \E i \in Items(p, "queued") : Change(p, i, [i EXCEPT !.at = "sending"])
    /\ UNCHANGED <<file, now, sent>>

\* The message is read from the file, and the remote server accepts it ...
SendMail(p) ==
    /\ mem[p].up
    /\ \E i \in Items(p, "sending") :
          /\ i.ready = "yes" /\ Exists(i.name)
          /\ sent' = [sent EXCEPT ![i.name.m] = @ + 1]
          /\ Change(p, i, [i EXCEPT !.at = "sent"])
    /\ UNCHANGED <<file, now>>

\* ... and only then is the file unlinked, if it still has that name.
Discard(p) ==
    /\ mem[p].up
    /\ \E i \in Items(p, "sent") :
          /\ file' = IF Exists(i.name) THEN [file EXCEPT ![i.name.m].there = FALSE] ELSE file
          /\ Drop(p, i)
    /\ UNCHANGED <<now, sent>>

\* Mistake: the timer is set without the delay.
MistakeAgain(i) == [i EXCEPT !.name.due = now + Delay, !.at = "timer", !.fire = now, !.flushed = FALSE]

\* The item, under its new name, in the timer queue.
Again(i) == [i EXCEPT !.name.due = now + Delay, !.at = "timer", !.fire = now + Delay, !.flushed = FALSE]

\* deferred_respond(): the file is renamed and the item waits.
DeferMail(p) ==
    /\ mem[p].up
    /\ \E i \in Items(p, "sending") :
          /\ i.ready = "yes" /\ Exists(i.name) /\ file[i.name.m].fails < MaxDefers
          /\ now + 2 * Delay =< MaxTime   \* it may wait twice, see AddFile
          /\ file' = [file EXCEPT ![i.name.m].due = now + Delay, ![i.name.m].fails = @ + 1]
          /\ Change(p, i, Again(i))
    /\ UNCHANGED <<now, sent>>

\* The file cannot be read for DATA, or renamed: the item is bounced.
LosesFile(p) ==
    /\ mem[p].up
    /\ \E i \in Items(p, "sending") : i.ready = "yes" /\ ~Exists(i.name) /\ Drop(p, i)
    /\ UNCHANGED <<file, now, sent>>

------------------------------------------------------------------------------
(* flush_queue(). *)

\* Without a domain: drain() runs every timer now.
Drained(p) == {IF i.at \in {"later", "timer"} THEN [TimerRuns(i) EXCEPT !.flushed = TRUE] ELSE i :
                  i \in mem[p].items}

\* With one: list_queue() reads the names of all queue files ...
ListDir(p) ==
    /\ mem[p].up /\ mem[p].flush = "asked"
    /\ mem' = [mem EXCEPT ![p].flush = "list", ![p].cur_time = now, ![p].found = {},
                          ![p].names = {Name(m) : m \in {k \in Mails : file[k].there}}]
    /\ UNCHANGED <<file, now, sent>>

\* ... and the files one after the other, of which it keeps its own.  At one
\* that is gone, whoever's it was, the listing stops and nothing is flushed.
ListFile(p) ==
    /\ mem[p].up /\ mem[p].flush = "list"
    /\ \E n \in mem[p].names :
          mem' = IF Exists(n)
                 THEN [mem EXCEPT ![p].names = @ \ {n},
                                  ![p].found = IF n.pid = p THEN @ \cup {n} ELSE @]
                 ELSE [mem EXCEPT ![p].names = {}, ![p].found = {}, ![p].flush = "no"]
    /\ UNCHANGED <<file, now, sent>>

\* Those it has found get a second HMailItem, though they may be gone by now.
FlushFound(p) ==
    /\ mem[p].up /\ mem[p].flush = "list" /\ mem[p].names = {}
    /\ LET more == {[NewItem(n, "queued", 0) EXCEPT !.flushed = TRUE] : n \in mem[p].found}
       IN  mem' = [mem EXCEPT ![p].flush = "no", ![p].found = {}, ![p].items = @ \cup more]
    /\ UNCHANGED <<file, now, sent>>

------------------------------------------------------------------------------

\* What the event loop does at once, in any process.
Busy(p) == /\ mem[p].up
           /\ \/ mem[p].asked # {} \/ mem[p].grab # {} \/ mem[p].flush # "no" \/ Due(p) # {}
              \/ \E i \in mem[p].items : i.at = "load" \/ (i.ready = "no" /\ i.at # "later")

Tick == /\ now < MaxTime /\ \A p \in Pids : ~Busy(p)
        /\ now' = now + 1
        /\ UNCHANGED <<file, mem, sent>>

Loads(p)  == ReadDir(p) \/ GrabFile(p) \/ LoadFile(p) \/ ReadTodo(p) \/ TimerFires(p)
             \/ ListDir(p) \/ ListFile(p) \/ FlushFound(p)
Sends(p)  == Deliver(p) \/ SendMail(p) \/ Discard(p) \/ DeferMail(p) \/ LosesFile(p)
=============================================================================
