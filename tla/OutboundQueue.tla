--------------------------- MODULE OutboundQueue ---------------------------
(***************************************************************************)
(* The life of a queued mail in outbound.js: HMailItem objects, the files  *)
(* of the queue directory, the delivery queue with its slots, deferral,    *)
(* splitting, bouncing, and crash and restart of the process.              *)
(*                                                                         *)
(* A queue file is a small number; the number of a file that is gone is    *)
(* used again.  A file names recipients; a bounce message is a file with a *)
(* null sender that names the recipients it reports on, so the recipients  *)
(* of a mail can be followed until the sender knows their end.             *)
(*                                                                         *)
(* One HMailItem may have several callbacks under way at once.  They are   *)
(* kept apart as strands: "main" is the mail itself, "fail" and "bounce"   *)
(* the two splits of finish_processing_mail, "fail2" and "bounce2" the     *)
(* second bounce a failed split starts, "late" the delivered hook of a     *)
(* mail whose recipients all failed.  at[f][s] says what strand s of f     *)
(* waits for.  Every strand ends in discard(), which counts refs[f] down.  *)
(*                                                                         *)
(* Time is left out: a timer of the temp-fail queue may fire at any moment *)
(* (TimerQueue is about when).  A system call and its callback are one     *)
(* step unless what lies between matters to a crash.                       *)
(***************************************************************************)
EXTENDS Integers, FiniteSets, Sequences, SequencesExt

CONSTANTS Rcpt,        \* the recipients
          Txn,         \* the mails submitted to send_trans_email
          Deliveries,  \* for each of them, the recipients of each domain
          MaxFiles,    \* bound: queue files that exist at once
          MaxTries,    \* cfg.maxTempFailures
          Slots,       \* cfg.concurrency_max
          MaxRestarts, \* bound: crashes in a behaviour
          MaxDelays,   \* bound: answers DELAY of the send_email hook
          Faults       \* the failures that may happen, and "lmtp", "drop"

File   == 1 .. MaxFiles
NoFile == -1
Splits == {"fail", "bounce"}
Strand == {"main", "late", "fail", "bounce", "fail2", "bounce2"}

Second(s) == IF s = "fail" THEN "fail2" ELSE "bounce2"

Waits == {"none",       \* no such callback
          "held",       \* accepted, its mail is not acknowledged yet
          "listed",     \* found by load_queue, not read yet
          "queued",     \* in delivery_queue
          "timed",      \* in temp_fail_queue
          "send",       \* send_email hook, get_mx, DNS and conversation
          "delivered",  \* delivered hook
          "defer",      \* deferred hook
          "rename",     \* fs.rename of a deferral
          "bounce",     \* bounce hook
          "notify",     \* bounce message being built and written
          "noted",      \* bounce message renamed into the queue
          "split",      \* the file for some recipients is being written
          "ready",      \* that file was renamed, its item is being read
          "born"}       \* the item of such a file, before it is ready

Fates == {"delivered", "redelivered",
          "notified",    \* a bounce message was delivered to the sender
          "logged",      \* double_bounce
          "dropped",     \* a plugin decided so
          "unreported",  \* the bounce message could not be queued
          "skipped"}     \* in none of the lists of the conversation

Todo == [rcpts : SUBSET Rcpt, null : BOOLEAN]

ASSUME ConstAssumption ==
    /\ MaxFiles \in Nat /\ Slots \in Nat \ {0} /\ MaxTries \in Nat \ {0}
    /\ MaxRestarts \in Nat /\ MaxDelays \in Nat
    /\ Deliveries \in [Txn -> Seq((SUBSET Rcpt) \ {{}})]

\* A recipient stands for one address of one mail.
ASSUME OneMailAssumption ==
    \A t, u \in Txn : \A i \in DOMAIN Deliveries[t], j \in DOMAIN Deliveries[u] :
        <<t, i>> # <<u, j>> => Deliveries[t][i] \cap Deliveries[u][j] = {}

VARIABLES disk,      \* disk[f]: the failures in the name of queue file f, or NoFile
          todo,      \* todo[f]: the header of file f, and the todo of its item
          at,        \* at[f][s]: what strand s of the item of file f waits for
          piece,     \* piece[f][s]: the recipients split s is for
          child,     \* child[f][s]: the file strand s wrote
          refs,      \* refcount
          tries,     \* num_failures
          cb,        \* next_cb: "dummy", "armed" (it holds a slot) or "used"
          txn,       \* the state of each submission and the files it wrote
          acked,     \* the recipients whose mail was answered OK
          fate,      \* how each recipient ended
          thrown,    \* an exception nobody catches: the process ends
          torn,      \* a stream that could not write its file is still to close
          restarts,  \* crashes so far
          delays     \* DELAY answers so far

item == <<at, piece, child, refs, tries, cb>>
vars == <<disk, todo, item, txn, acked, fate, thrown, torn, restarts, delays>>

Init == /\ disk = [f \in File |-> NoFile]
        /\ todo = [f \in File |-> [rcpts |-> {}, null |-> FALSE]]
        /\ at = [f \in File |-> [s \in Strand |-> "none"]]
        /\ piece = [f \in File |-> [s \in Splits |-> {}]]
        /\ child = [f \in File |-> [s \in Strand |-> NoFile]]
        /\ refs = [f \in File |-> 0]
        /\ tries = [f \in File |-> 0]
        /\ cb = [f \in File |-> "dummy"]
        /\ txn = [t \in Txn |-> [st |-> "open", files |-> <<>>]]
        /\ acked = {}
        /\ fate = [r \in Rcpt |-> {}]
        /\ thrown = FALSE
        /\ torn = FALSE
        /\ restarts = 0
        /\ delays = 0

-----------------------------------------------------------------------------
\* Helpers: what a handler does to the variables.

Live(f) == {s \in Strand : at[f][s] # "none"}

\* A file number that nothing refers to; the lowest, to keep states few.
IsNew(g) == LET unused == {f \in File : disk[f] = NoFile /\ Live(f) = {}}
            IN  g \in unused /\ \A f \in unused : g <= f

\* A new queue file and its HMailItem, as the constructor leaves it.
MakeFile(g, rcpts, null) ==
    /\ disk' = [disk EXCEPT ![g] = 0]
    /\ todo' = [todo EXCEPT ![g] = [rcpts |-> rcpts, null |-> null]]
    /\ refs' = [refs EXCEPT ![g] = 1]
    /\ tries' = [tries EXCEPT ![g] = 0]
    /\ cb' = [cb EXCEPT ![g] = "dummy"]

Goes(f, s, step) == at' = [at EXCEPT ![f][s] = step]

\* Mistake: the slot is never given back.
MistakeKeepsSlot(f) == thrown' = FALSE /\ UNCHANGED cb

\* next_cb(): gives the slot back; async throws when it is called again.
NextCb(f) == /\ thrown' = (cb[f] = "used")
             /\ cb' = [cb EXCEPT ![f] = IF @ = "armed" THEN "used" ELSE @]

\* Mistake: the first one unlinks the file and calls next_cb.
MistakeUncounted(f) == /\ refs' = [refs EXCEPT ![f] = @ - 1]
                       /\ disk' = [disk EXCEPT ![f] = NoFile]
                       /\ NextCb(f)

\* discard(): the last one unlinks the file and calls next_cb.
Discard(f) ==
    /\ refs' = [refs EXCEPT ![f] = @ - 1]
    /\ IF refs[f] = 1
       THEN disk' = [disk EXCEPT ![f] = NoFile] /\ NextCb(f)
       ELSE UNCHANGED <<disk, cb, thrown>>

\* double_bounce(): the same, whatever the reference count.
DoubleBounce(f) == /\ disk' = [disk EXCEPT ![f] = NoFile]
                   /\ NextCb(f)
                   /\ UNCHANGED refs

\* The recipients of S come to the end how.
Ended(S, how) == [r \in Rcpt |-> IF r \in S THEN fate[r] \cup {how} ELSE fate[r]]

\* The remote end took the mail: of a bounce message, for the sender.
Taken(f, S) ==
    IF todo[f].null
    THEN Ended(S, "notified")
    ELSE [r \in Rcpt |-> IF r \notin S THEN fate[r]
                         ELSE fate[r] \cup {IF "delivered" \in fate[r]
                                            THEN "redelivered" ELSE "delivered"}]

\* temp_fail() of the item of file f: it is deferred, or bounced in the end.
TempFails(f) == tries' = [tries EXCEPT ![f] = @ + 1]
\* A mistake the runs must notice, like every "Mistake..." below: the limit
\* is passed once.
MistakeTriesOnce(n) == IF n + 1 > MaxTries THEN "bounce" ELSE "defer"

AfterTempFail(n) == IF n + 1 >= MaxTries THEN "bounce" ELSE "defer"

-----------------------------------------------------------------------------
\* send_trans_email: one file for each domain, one after the other.

Left(t) == Len(Deliveries[t]) - Len(txn[t].files)

\* process_delivery renamed a finished file into the queue.
WriteFile(t) ==
    /\ ~thrown
    /\ txn[t].st = "open" /\ Left(t) > 0
    /\ \E g \in File :
          /\ IsNew(g)
          /\ MakeFile(g, Deliveries[t][Len(txn[t].files) + 1], FALSE)
          /\ Goes(g, "main", "held")
          /\ txn' = [txn EXCEPT ![t].files = Append(@, g)]
    /\ UNCHANGED <<piece, child, acked, fate, thrown, torn, restarts, delays>>

\* The file cannot be opened, synced or renamed, or a write of it fails, after
\* which its stream closes too.  That ends the process: it counts as a crash.
CannotWrite == \/ "accept" \in Faults /\ UNCHANGED torn
               \/ "write" \in Faults /\ restarts < MaxRestarts /\ torn' = TRUE

\* The close of such a stream: process_delivery renames what it has written,
\* which it has unlinked (else it stays, as after a crash), and calls the
\* callback of async a second time.
StreamCloses ==
    /\ ~thrown
    /\ torn
    /\ thrown' = TRUE
    /\ torn' = FALSE
    /\ UNCHANGED <<disk, todo, item, txn, acked, fate, restarts, delays>>

\* process_delivery failed: the files already queued are removed again.
WriteFails(t) ==
    /\ ~thrown
    /\ CannotWrite
    /\ txn[t].st = "open" /\ Left(t) > 0
    /\ LET queued == ToSet(txn[t].files)
       IN  /\ disk' = [f \in File |-> IF f \in queued THEN NoFile ELSE disk[f]]
           /\ at' = [f \in File |-> [s \in Strand |->
                       IF f \in queued THEN "none" ELSE at[f][s]]]
    /\ txn' = [txn EXCEPT ![t] = [st |-> "refused", files |-> <<>>]]
    /\ UNCHANGED <<todo, piece, child, refs, tries, cb, acked, fate, thrown, restarts, delays>>

\* Every file is there: they are pushed on the delivery queue, the mail is OK.
Acknowledge(t) ==
    /\ ~thrown
    /\ txn[t].st = "open" /\ Left(t) = 0
    /\ at' = [f \in File |-> IF f \in ToSet(txn[t].files)
                              THEN [at[f] EXCEPT !["main"] = "queued"] ELSE at[f]]
    /\ txn' = [txn EXCEPT ![t] = [st |-> "acked", files |-> <<>>]]
    /\ acked' = acked \cup UNION ToSet(Deliveries[t])
    /\ UNCHANGED <<disk, todo, piece, child, refs, tries, cb, fate, thrown, torn, restarts, delays>>

-----------------------------------------------------------------------------
\* Waiting and sending.

\* A file found at start: its item goes to one of the two queues.
Load(f) ==
    /\ ~thrown
    /\ at[f]["main"] = "listed"
    /\ \E q \in {"queued", "timed"} : Goes(f, "main", q)
    /\ UNCHANGED <<disk, todo, piece, child, refs, tries, cb, txn, acked, fate, thrown, torn, restarts, delays>>

\* The timer of a deferred mail fires, or the queue is flushed.
TimerFires(f) ==
    /\ ~thrown
    /\ at[f]["main"] = "timed"
    /\ Goes(f, "main", "queued")
    /\ UNCHANGED <<disk, todo, piece, child, refs, tries, cb, txn, acked, fate, thrown, torn, restarts, delays>>

\* The worker of delivery_queue: next_cb will give the slot back.
Dispatch(f) ==
    /\ ~thrown
    /\ at[f]["main"] = "queued"
    /\ Cardinality({g \in File : cb[g] = "armed"}) < Slots
    /\ cb' = [cb EXCEPT ![f] = "armed"]
    /\ Goes(f, "main", "send")
    /\ UNCHANGED <<disk, todo, piece, child, refs, tries, txn, acked, fate, thrown, torn, restarts, delays>>

\* send_email_respond with DELAY.
DelayRespond(f) ==
    /\ ~thrown
    /\ at[f]["main"] = "send"
    /\ delays < MaxDelays
    /\ delays' = delays + 1
    /\ NextCb(f)
    /\ Goes(f, "main", "timed")
    /\ UNCHANGED <<disk, todo, piece, child, refs, tries, txn, acked, fate, torn, restarts>>

\* temp_fail: no host could be reached, or the server answered 4xx or 3xx.
SendTempFails(f) ==
    /\ ~thrown
    /\ at[f]["main"] = "send"
    /\ TempFails(f)
    /\ Goes(f, "main", AfterTempFail(tries[f]))
    /\ UNCHANGED <<disk, todo, piece, child, refs, cb, txn, acked, fate, thrown, torn, restarts, delays>>

\* bounce: no such domain, or the server answered 5xx.
SendBounces(f) ==
    /\ ~thrown
    /\ at[f]["main"] = "send"
    /\ Goes(f, "main", "bounce")
    /\ UNCHANGED <<disk, todo, piece, child, refs, tries, cb, txn, acked, fate, thrown, torn, restarts, delays>>

-----------------------------------------------------------------------------
\* finish_processing_mail: the conversation sorted the recipients in lists.

\* Mistake: the delivered hook has no reference of its own.
MistakeLateUncounted(f, fail, success) ==
    /\ IF fail THEN TempFails(f) ELSE UNCHANGED tries
    /\ at' = [at EXCEPT ![f]["main"] = IF fail THEN AfterTempFail(tries[f]) ELSE "bounce",
                        ![f]["late"] = IF success THEN "delivered" ELSE @]
    /\ UNCHANGED <<refs, disk, piece, cb, fate, thrown>>

\* All of them deferred or all rejected: split_to_new_recipients returns the
\* item itself, so no file is written and temp_fail or bounce follows at once.
\* Over LMTP the delivered hook of the item runs as well.
FinishAll(f, fail, success) ==
    /\ IF fail
       THEN TempFails(f)
       ELSE UNCHANGED tries
    /\ at' = [at EXCEPT ![f]["main"] = IF fail THEN AfterTempFail(tries[f]) ELSE "bounce",
                        ![f]["late"] = IF success THEN "delivered" ELSE @]
    /\ refs' = [refs EXCEPT ![f] = IF success THEN @ + 1 ELSE @]
    /\ UNCHANGED <<disk, piece, cb, fate, thrown>>

\* Mistake: a split has no reference of its own.
MistakeSplitUncounted(f, ok, fail, bounced, skipped) ==
    LET splits == (IF fail # {} THEN {"fail"} ELSE {}) \cup
                  (IF bounced # {} THEN {"bounce"} ELSE {})
    IN  /\ at' = [at EXCEPT ![f] = [s \in Strand |->
                     IF s \in splits THEN "split"
                     ELSE IF s # "main" THEN @[s]
                     ELSE IF ok # {} THEN "delivered" ELSE "none"]]
        /\ piece' = [piece EXCEPT ![f]["fail"] = fail, ![f]["bounce"] = bounced]
        /\ fate' = [r \in Rcpt |-> IF r \in skipped THEN fate[r] \cup {"skipped"}
                                   ELSE Taken(f, ok)[r]]
        /\ UNCHANGED <<refs, disk, cb, tries, thrown>>

\* Two lists or more: a split for each list that is not delivered, each with
\* a reference of its own; then the delivered hook, or discard.
FinishSome(f, ok, fail, bounced, skipped) ==
    LET splits == (IF fail # {} THEN {"fail"} ELSE {}) \cup
                  (IF bounced # {} THEN {"bounce"} ELSE {})
    IN  /\ at' = [at EXCEPT ![f] = [s \in Strand |->
                     IF s \in splits THEN "split"
                     ELSE IF s # "main" THEN @[s]
                     ELSE IF ok # {} THEN "delivered" ELSE "none"]]
        /\ piece' = [piece EXCEPT ![f]["fail"] = fail, ![f]["bounce"] = bounced]
        /\ fate' = [r \in Rcpt |-> IF r \in skipped THEN fate[r] \cup {"skipped"}
                                   ELSE Taken(f, ok)[r]]
        /\ IF ok = {} /\ splits = {}
           THEN Discard(f)
           ELSE /\ refs' = [refs EXCEPT ![f] =
                               @ + Cardinality(splits) - (IF ok = {} THEN 1 ELSE 0)]
                /\ UNCHANGED <<disk, cb, thrown>>
        /\ UNCHANGED tries

\* A recipient answered with a 2xx other than 250 is in no list.
FinishMail(f) ==
    /\ ~thrown
    /\ at[f]["main"] = "send"
    /\ \E ok, fail, bounced \in SUBSET todo[f].rcpts :
          LET R == todo[f].rcpts
              skipped == R \ (ok \cup fail \cup bounced)
          IN  /\ ok \cap fail = {} /\ ok \cap bounced = {} /\ fail \cap bounced = {}
              /\ todo[f].null => R \in {ok, fail, bounced, skipped}
              /\ skipped # {} => "odd" \in Faults
              /\ IF R \in {fail, bounced}
                 THEN \E success \in BOOLEAN :
                         /\ success => "lmtp" \in Faults /\ at[f]["late"] = "none"
                         /\ FinishAll(f, R = fail, success)
                 ELSE FinishSome(f, ok, fail, bounced, skipped)
    /\ UNCHANGED <<todo, child, txn, acked, torn, restarts, delays>>

-----------------------------------------------------------------------------
\* Delivered, deferred.

\* delivered_respond: discard() whatever the hook says.
DeliveredRespond(f, s) ==
    /\ ~thrown
    /\ at[f][s] = "delivered"
    /\ Goes(f, s, "none")
    /\ Discard(f)
    /\ UNCHANGED <<todo, piece, child, tries, txn, acked, fate, torn, restarts, delays>>

\* deferred_respond: a plugin may drop the mail, else its file is renamed.
DeferredRespond(f) ==
    /\ ~thrown
    /\ at[f]["main"] = "defer"
    /\ \/ /\ Goes(f, "main", "rename")
          /\ UNCHANGED <<disk, refs, cb, fate, thrown>>
       \/ /\ "drop" \in Faults
          /\ fate' = Ended(todo[f].rcpts, "dropped")
          /\ Goes(f, "main", "none")
          /\ Discard(f)
    /\ UNCHANGED <<todo, piece, child, tries, txn, acked, torn, restarts, delays>>

\* The file carries the new time and count; the slot goes back.
Renamed(f) ==
    /\ ~thrown
    /\ at[f]["main"] = "rename"
    /\ disk' = [disk EXCEPT ![f] = tries[f]]
    /\ NextCb(f)
    /\ Goes(f, "main", "timed")
    /\ UNCHANGED <<todo, piece, child, refs, tries, txn, acked, fate, torn, restarts, delays>>

\* Mistake: a failed rename is only logged.
MistakeRenameLogged(f) ==
    /\ ~thrown
    /\ "rename" \in Faults
    /\ at[f]["main"] = "rename"
    /\ Goes(f, "main", "none")
    /\ UNCHANGED <<disk, todo, piece, child, refs, tries, cb, txn, acked, fate, thrown, torn, restarts, delays>>

RenameFails(f) ==
    /\ ~thrown
    /\ "rename" \in Faults
    /\ at[f]["main"] = "rename"
    /\ Goes(f, "main", "bounce")
    /\ UNCHANGED <<disk, todo, piece, child, refs, tries, cb, txn, acked, fate, thrown, torn, restarts, delays>>

-----------------------------------------------------------------------------
\* Bounced.  A bounce reports on every recipient of the file.

\* bounce_respond: dropped by a plugin, a double bounce, or a bounce message.
BounceRespond(f, s) ==
    /\ ~thrown
    /\ at[f][s] = "bounce"
    /\ \/ /\ "drop" \in Faults
          /\ fate' = Ended(todo[f].rcpts, "dropped")
          /\ Goes(f, s, "none")
          /\ Discard(f)
       \/ /\ todo[f].null
          /\ fate' = Ended(todo[f].rcpts, "logged")
          /\ Goes(f, s, "none")
          /\ DoubleBounce(f)
       \/ /\ ~todo[f].null
          /\ Goes(f, s, "notify")
          /\ UNCHANGED <<disk, refs, cb, fate, thrown>>
    /\ UNCHANGED <<todo, piece, child, tries, txn, acked, torn, restarts, delays>>

\* The mail cannot be read to build the message: a double bounce.
PopulateFails(f, s) ==
    /\ ~thrown
    /\ at[f][s] = "notify"
    /\ "read" \in Faults \/ disk[f] = NoFile
    /\ fate' = Ended(todo[f].rcpts, "logged")
    /\ Goes(f, s, "none")
    /\ DoubleBounce(f)
    /\ UNCHANGED <<todo, piece, child, tries, txn, acked, torn, restarts, delays>>

\* send_email wrote the bounce message into the queue.
NoticeWritten(f, s) ==
    /\ ~thrown
    /\ at[f][s] = "notify"
    /\ disk[f] # NoFile
    /\ \E g \in File :
          /\ IsNew(g)
          /\ MakeFile(g, todo[f].rcpts, TRUE)
          /\ at' = [at EXCEPT ![f][s] = "noted", ![g]["main"] = "held"]
          /\ child' = [child EXCEPT ![f][s] = g]
    /\ UNCHANGED <<piece, txn, acked, fate, thrown, torn, restarts, delays>>

\* Mistake: the bounce message is not pushed on the delivery queue.
MistakeNoticeUnsent(f, s) ==
    /\ ~thrown
    /\ at[f][s] = "noted"
    /\ Goes(f, s, "none")
    /\ child' = [child EXCEPT ![f][s] = NoFile]
    /\ Discard(f)
    /\ UNCHANGED <<todo, piece, tries, txn, acked, fate, torn, restarts, delays>>

\* Its callback: the message is pushed on the delivery queue, the mail is done.
NoticeQueued(f, s) ==
    /\ ~thrown
    /\ at[f][s] = "noted"
    /\ at' = [at EXCEPT ![f][s] = "none", ![child[f][s]]["main"] = "queued"]
    /\ child' = [child EXCEPT ![f][s] = NoFile]
    /\ Discard(f)
    /\ UNCHANGED <<todo, piece, tries, txn, acked, fate, torn, restarts, delays>>

\* The message cannot be queued: send_email answers denysoft, and only deny
\* would lead to double_bounce.
NoticeFails(f, s) ==
    /\ ~thrown
    /\ CannotWrite
    /\ at[f][s] = "notify"
    /\ disk[f] # NoFile
    /\ fate' = Ended(todo[f].rcpts, "unreported")
    /\ Goes(f, s, "none")
    /\ Discard(f)
    /\ UNCHANGED <<todo, piece, child, tries, txn, acked, restarts, delays>>

-----------------------------------------------------------------------------
\* split_to_new_recipients: some recipients move to a file of their own.

\* Mistake: the new file names all the recipients of the old one.
MistakeSplitsAll(f, s) ==
    /\ ~thrown
    /\ at[f][s] = "split"
    /\ \E g \in File :
          /\ IsNew(g)
          /\ MakeFile(g, todo[f].rcpts, todo[f].null)
          /\ at' = [at EXCEPT ![f][s] = "ready", ![g]["main"] = "born"]
          /\ child' = [child EXCEPT ![f][s] = g]
    /\ piece' = [piece EXCEPT ![f][s] = {}]
    /\ UNCHANGED <<txn, acked, fate, thrown, torn, restarts, delays>>

\* The file was renamed into the queue; its item is being read.
SplitWritten(f, s) ==
    /\ ~thrown
    /\ at[f][s] = "split"
    /\ \E g \in File :
          /\ IsNew(g)
          /\ MakeFile(g, piece[f][s], todo[f].null)
          /\ at' = [at EXCEPT ![f][s] = "ready", ![g]["main"] = "born"]
          /\ child' = [child EXCEPT ![f][s] = g]
    /\ piece' = [piece EXCEPT ![f][s] = {}]
    /\ UNCHANGED <<txn, acked, fate, thrown, torn, restarts, delays>>

\* The new item is ready: the old one is discarded, the new one deferred or
\* bounced.
SplitReady(f, s) ==
    /\ ~thrown
    /\ s \in Splits
    /\ at[f][s] = "ready"
    /\ LET g == child[f][s]
       IN  IF s = "fail"
           THEN /\ TempFails(g)
                /\ at' = [at EXCEPT ![f][s] = "none", ![g]["main"] = AfterTempFail(tries[g])]
           ELSE /\ at' = [at EXCEPT ![f][s] = "none", ![g]["main"] = "bounce"]
                /\ UNCHANGED tries
    /\ child' = [child EXCEPT ![f][s] = NoFile]
    /\ Discard(f)
    /\ UNCHANGED <<todo, piece, txn, acked, fate, torn, restarts, delays>>

\* The mail cannot be read or the new file not renamed: the whole mail bounces.
SplitFails(f, s) ==
    /\ ~thrown
    /\ "split" \in Faults
    /\ at[f][s] = "split"
    /\ Goes(f, s, "bounce")
    /\ piece' = [piece EXCEPT ![f][s] = {}]
    /\ UNCHANGED <<disk, todo, child, refs, tries, cb, txn, acked, fate, thrown, torn, restarts, delays>>

\* Mistake: the mail is discarded when the new file cannot be written.
MistakeSplitDrops(f, s) ==
    /\ ~thrown
    /\ "write" \in Faults
    /\ at[f][s] = "split"
    /\ Goes(f, s, "none")
    /\ piece' = [piece EXCEPT ![f][s] = {}]
    /\ Discard(f)
    /\ UNCHANGED <<todo, child, tries, txn, acked, fate, torn, restarts, delays>>

\* The new file cannot be written: both error listeners bounce the mail.
SplitWriteFails(f, s) ==
    /\ ~thrown
    /\ "write" \in Faults
    /\ at[f][s] = "split"
    /\ at' = [at EXCEPT ![f][s] = "bounce", ![f][Second(s)] = "bounce"]
    /\ piece' = [piece EXCEPT ![f][s] = {}]
    /\ UNCHANGED <<disk, todo, child, refs, tries, cb, txn, acked, fate, thrown, torn, restarts, delays>>

-----------------------------------------------------------------------------
\* The hooks of one mail share its hooks_to_run.  With one plugin on each of
\* them they do not meet; run_hooks throws when it starts one while another
\* still has plugins to run, which a failed split and LMTP may lead to.
HooksClash(f) ==
    /\ ~thrown
    /\ "plugins" \in Faults
    /\ \/ \E s, u \in Strand : /\ at[f][s] \in {"delivered", "defer", "bounce"}
                              /\ u # s /\ at[f][u] \in {"queued", "send", "rename", "split"}
       \/ at[f]["main"] = "send" /\ "lmtp" \in Faults
       \/ "write" \in Faults /\ \E s \in Splits : at[f][s] = "split"
    /\ thrown' = TRUE
    /\ UNCHANGED <<disk, todo, item, txn, acked, fate, torn, restarts, delays>>

-----------------------------------------------------------------------------
\* The process dies, at any moment or on an exception nobody catches, and a
\* new one loads the queue directory.  Submissions under way are cut off.
Restart ==
    /\ restarts < MaxRestarts
    /\ restarts' = restarts + 1
    /\ at' = [f \in File |-> [s \in Strand |->
                 IF s = "main" /\ disk[f] # NoFile THEN "listed" ELSE "none"]]
    /\ piece' = [f \in File |-> [s \in Splits |-> {}]]
    /\ child' = [f \in File |-> [s \in Strand |-> NoFile]]
    /\ refs' = [f \in File |-> 1]
    /\ tries' = [f \in File |-> IF disk[f] = NoFile THEN 0 ELSE disk[f]]
    /\ cb' = [f \in File |-> "dummy"]
    /\ txn' = [t \in Txn |-> IF txn[t].st = "open" THEN [st |-> "cut", files |-> <<>>]
                             ELSE txn[t]]
    /\ thrown' = FALSE
    /\ torn' = FALSE
    /\ UNCHANGED <<disk, todo, acked, fate, delays>>

\* The steps the process takes by itself.
Internal ==
    \/ \E t \in Txn : Acknowledge(t)
    \/ StreamCloses
    \/ \E f \in File :
          \/ Load(f) \/ TimerFires(f) \/ Dispatch(f)
          \/ DelayRespond(f) \/ SendTempFails(f) \/ SendBounces(f) \/ FinishMail(f)
          \/ DeferredRespond(f) \/ Renamed(f) \/ RenameFails(f) \/ HooksClash(f)
          \/ \E s \in {"main", "late"} : DeliveredRespond(f, s)
          \/ \E s \in Strand : \/ BounceRespond(f, s) \/ PopulateFails(f, s)
                               \/ NoticeWritten(f, s) \/ NoticeQueued(f, s)
                               \/ NoticeFails(f, s)
          \/ \E s \in Splits : \/ SplitWritten(f, s) \/ SplitReady(f, s)
                               \/ SplitFails(f, s) \/ SplitWriteFails(f, s)

Next == \/ \E t \in Txn : WriteFile(t) \/ WriteFails(t)
        \/ Internal
        \/ Restart

Spec == Init /\ [][Next]_vars

\* node's event loop runs every callback that is due, the disk and the plugins
\* answer and conversations end; crashes and submissions need not happen.
Fairness == WF_vars(Internal)

FairSpec == Spec /\ Fairness

-----------------------------------------------------------------------------
TypeOK ==
    /\ disk \in [File -> 0 .. MaxTries \cup {NoFile}]
    /\ todo \in [File -> Todo]
    /\ at \in [File -> [Strand -> Waits]]
    /\ piece \in [File -> [Splits -> SUBSET Rcpt]]
    /\ child \in [File -> [Strand -> File \cup {NoFile}]]
    /\ refs \in [File -> Int]
    /\ tries \in [File -> 0 .. MaxTries]
    /\ cb \in [File -> {"dummy", "armed", "used"}]
    /\ txn \in [Txn -> [st : {"open", "acked", "refused", "cut"}, files : Seq(File)]]
    /\ acked \subseteq Rcpt
    /\ fate \in [Rcpt -> SUBSET Fates]
    /\ thrown \in BOOLEAN /\ torn \in BOOLEAN
    /\ restarts \in 0 .. MaxRestarts
    /\ delays \in 0 .. MaxDelays

OnDisk(r) == \E f \in File : disk[f] # NoFile /\ r \in todo[f].rcpts

\* A mail that was answered OK is never lost: each of its recipients has come
\* to an end or is named by a file in the queue directory, so that a restart
\* finds it, whatever fails and whenever the process dies.
NoLoss == \A r \in acked : fate[r] # {} \/ OnDisk(r)

\* The queue directory with its files, references, splits and bounce messages
\* implements the spool: no step of any handler takes a recipient of a mail
\* that was answered OK from the directory before that recipient ended.
Spool == INSTANCE MailSpool WITH stored <- {r \in Rcpt : OnDisk(r)},
                                 ended  <- {r \in Rcpt : fate[r] # {}}
ImplementsSpool == Spool!Spec

\* Without crashes and failed splits a recipient ends once: delivered once, or
\* reported once, and never both.
OneEnd == \A r \in Rcpt : Cardinality(fate[r]) <= 1

\* The reference count of a mail in the queue is the number of callbacks that
\* will discard it: the file goes with the last of them, not before or never.
RefcountExact == \A f \in File :
    disk[f] # NoFile => refs[f] = Cardinality(Live(f))

\* A slot of the delivery queue is held only for a mail that some callback
\* will still settle; a slot nobody gives back is lost until a restart.
NoSlotLeak == \A f \in File : cb[f] = "armed" =>
    \E s \in Strand : at[f][s] \notin {"none", "held", "listed", "queued", "timed", "born"}

\* next_cb is called once for each time the mail takes a slot, as long as no
\* write fails and no two hooks of a mail meet: async throws on a second call
\* and the process exits.
NextCbOnce == ~thrown

\* Every recipient of a mail that was answered OK comes to an end, and then
\* no queue file names it any more.
AckedEnds == \A r \in Rcpt : (r \in acked) ~> (fate[r] # {} /\ ~OnDisk(r))
=============================================================================
