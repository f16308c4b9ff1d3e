------------------------ MODULE OutboundQueueProofs ------------------------
(***************************************************************************)
(* Proofs that the outbound queue loses no mail, for any number of mails,  *)
(* recipients, files, retries and crashes and with every fault allowed.    *)
(*                                                                         *)
(* NoLoss is not inductive: that a file names a recipient says nothing of  *)
(* what its callbacks will do.  The invariant follows the duty to settle a *)
(* recipient: it lies with a strand of a file, and passes to the strand of *)
(* a split file or of a bounce message, or the recipient ends.  A file is  *)
(* unlinked when its reference count reaches 0, so the invariant also says *)
(* what the count is worth (Counted): it counts the strands, except after  *)
(* a failed split started two bounces on one reference, and then nothing   *)
(* depends on the file any more once one of the two has ended.             *)
(***************************************************************************)
EXTENDS OutboundQueue, FiniteSetTheorems, TLAPS

\* A strand that waits for one of these settles every recipient of its file.
Whole == {"held", "listed", "queued", "timed", "send", "defer", "rename",
          "born", "bounce", "notify"}

\* A main strand that waits for one of these may still be deferred.
Young == {"held", "listed", "queued", "timed", "send", "defer", "rename", "born"}

\* It is up to strand s of f that r comes to an end.
Owns(f, s, r) ==
    /\ disk[f] # NoFile
    /\ r \in todo[f].rcpts
    /\ \/ at[f][s] \in Whole
       \/ s \in Splits /\ at[f][s] = "split" /\ r \in piece[f][s]

\* r ended, or a bounce message names it and is still on its way.
Reported(r) ==
    \/ fate[r] # {}
    \/ \E g \in File : /\ disk[g] # NoFile
                       /\ todo[g].null /\ r \in todo[g].rcpts
                       /\ at[g]["main"] \in Whole

\* Nothing depends on file f any more.
SettledElsewhere(f) ==
    /\ ~todo[f].null
    /\ at[f]["main"] \in {"none", "delivered"}
    /\ \A r \in todo[f].rcpts : Reported(r)

One(p) == IF p THEN 1 ELSE 0

\* Strands started with a reference of their own.
Primary(f) == One(at[f]["main"] # "none") + One(at[f]["late"] # "none") +
              One(at[f]["fail"] # "none") + One(at[f]["bounce"] # "none")

Bouncing == {"bounce", "notify", "noted"}

Exact(f) ==
    /\ refs[f] = Primary(f)
    /\ \A s \in Splits : at[f][Second(s)] # "none" => at[f][s] \in Bouncing

-----------------------------------------------------------------------------
\* The parts of the invariant.

\* Which strand of f waits for what.
Form(f) ==
    /\ at[f]["main"] \notin {"split", "ready"}
    /\ at[f]["late"] \in {"none", "delivered"}
    /\ \A s \in Splits : /\ at[f][s] \in Bouncing \cup {"none", "split", "ready"}
                         /\ at[f][Second(s)] \in Bouncing \cup {"none"}
    /\ at[f]["main"] \notin {"none", "delivered"} =>
          \A s \in Splits : at[f][s] = "none" /\ at[f][Second(s)] = "none"
    /\ todo[f].null => /\ at[f]["main"] \notin {"notify", "noted"}
                       /\ \A s \in Splits : at[f][s] = "none" /\ at[f][Second(s)] = "none"

\* A mail that may be tried again is on disk, and under the limit.
Fresh(f) == /\ at[f]["main"] \in Young => disk[f] # NoFile /\ tries[f] < MaxTries
            /\ disk[f] < MaxTries

Shape == \A f \in File : Form(f) /\ Fresh(f)

\* Strand s of f wrote a file and waits for it.
Parent(f, s) == at[f][s] \in {"noted", "ready"}

\* What that file is like as long as the strand lives; it is of no other.
ChildOf(f, s, g) ==
    /\ g \in File
    /\ disk[g] # NoFile
    /\ at[f][s] = "noted" => /\ at[g]["main"] = "held"
                             /\ todo[g].null
                             /\ todo[g].rcpts = todo[f].rcpts
    /\ at[f][s] = "ready" => at[g]["main"] = "born"

Children ==
    /\ \A f \in File, s \in Strand : Parent(f, s) => ChildOf(f, s, child[f][s])
    /\ \A e, f \in File, u, s \in Strand :
          Parent(e, u) /\ Parent(f, s) /\ child[e][u] = child[f][s] => e = f /\ u = s

\* File g is the i-th one that submission t wrote.
Wrote(t, i, g) == /\ g \in File
                  /\ disk[g] # NoFile
                  /\ at[g]["main"] = "held"
                  /\ todo[g] = [rcpts |-> Deliveries[t][i], null |-> FALSE]

\* The files of a submission that is not answered yet; no two share one.
Submitted ==
    /\ \A t \in Txn : txn[t].st = "open" =>
          /\ Len(txn[t].files) <= Len(Deliveries[t])
          /\ \A i \in DOMAIN Deliveries[t] : Deliveries[t][i] \cap acked = {}
    /\ \A t \in Txn : txn[t].st # "open" => txn[t].files = <<>>
    /\ \A t \in Txn : \A i \in DOMAIN txn[t].files : Wrote(t, i, txn[t].files[i])
    /\ \A t, u \in Txn : \A i \in DOMAIN txn[t].files, j \in DOMAIN txn[u].files :
          txn[t].files[i] = txn[u].files[j] => t = u /\ i = j

Counted == \A f \in File : disk[f] # NoFile => Exact(f) \/ SettledElsewhere(f)

Owed == \A r \in acked : fate[r] # {} \/ \E f \in File, s \in Strand : Owns(f, s, r)

\* A callback may outlive its file: it has nothing new to report then.
Gone == \A f \in File, s \in Strand : disk[f] = NoFile /\ at[f][s] # "none" =>
            \A r \in todo[f].rcpts : Reported(r)

IInv == TypeOK /\ Shape /\ Children /\ Submitted /\ Counted /\ Owed /\ Gone

-----------------------------------------------------------------------------
\* The parts of the invariant other than TypeOK.
Rest == Shape /\ Children /\ Submitted /\ Counted /\ Owed /\ Gone

\* The main strand of f goes on from one wait to another.
Moves(f) ==
    /\ at[f]["main"] \in Young \ {"held", "born"}
    /\ at'[f]["main"] \in (Young \ {"held", "born"}) \cup {"bounce"}
    /\ \A g \in File, u \in Strand : g # f \/ u # "main" => at'[g][u] = at[g][u]
    /\ \A g \in File : disk'[g] = NoFile <=> disk[g] = NoFile
    /\ \A g \in File : disk'[g] < MaxTries
    /\ at'[f]["main"] \in Young => tries'[f] < MaxTries
    /\ \A g \in File \ {f} : tries'[g] = tries[g]
    /\ UNCHANGED <<todo, piece, child, refs, txn, acked, fate>>

LEMMA MainMoves ==
    ASSUME IInv, NEW f \in File, Moves(f)
    PROVE  Rest'
<1> USE DEF IInv, Moves, Rest
<1>1. Shape'
  BY DEF Shape, Form, Fresh, Young, Strand, Splits, Second, Bouncing
<1>2. Children'
  <2> SUFFICES ASSUME NEW g \in File, NEW s \in Strand, Parent(g, s)'
               PROVE  ChildOf(g, s, child[g][s])'
    BY DEF Children, Parent, Young
  <2>1. Parent(g, s) /\ at'[g][s] = at[g][s]
    BY DEF Parent, Young
  <2>2. ChildOf(g, s, child[g][s])
    BY <2>1 DEF Children
  <2>3. child[g][s] # f
    BY <2>1, <2>2 DEF ChildOf, Parent, Young
  <2> QED BY <2>1, <2>2, <2>3 DEF ChildOf, Strand
<1>3. Submitted'
  <2> SUFFICES ASSUME NEW t \in Txn, NEW i \in DOMAIN txn[t].files
               PROVE  Wrote(t, i, txn[t].files[i])'
    BY DEF Submitted
  <2>1. Wrote(t, i, txn[t].files[i])
    BY DEF Submitted
  <2> QED BY <2>1 DEF Wrote, Young, Strand
<1>4. \A r : Reported(r) => Reported(r)'
  BY DEF Reported, Young, Whole, Strand
<1>5. Counted'
  <2> SUFFICES ASSUME NEW g \in File, disk'[g] # NoFile
               PROVE  Exact(g)' \/ SettledElsewhere(g)'
    BY DEF Counted
  <2>1. CASE Exact(g)
    BY <2>1 DEF Exact, Primary, One, Young, Strand, Splits, Second, Bouncing
  <2>2. CASE SettledElsewhere(g)
    BY <2>2, <1>4 DEF SettledElsewhere, Young, Strand
  <2> QED BY <2>1, <2>2 DEF Counted
<1>6. Owed'
  <2>1. \A g \in File, s \in Strand : \A r : Owns(g, s, r) => Owns(g, s, r)'
    BY DEF Owns, Young, Whole, Strand, Splits
  <2> QED BY <2>1 DEF Owed
<1>7. Gone'
  BY <1>4 DEF Gone, Young, Strand
<1> QED BY <1>1, <1>2, <1>3, <1>5, <1>6, <1>7

-----------------------------------------------------------------------------
\* A file whose main strand lives and is not bounced yet counts exactly.
LEMMA YoungExact ==
    ASSUME IInv, NEW f \in File, at[f]["main"] \notin {"none", "delivered"}, disk[f] # NoFile
    PROVE  Exact(f)
  BY DEF IInv, Counted, SettledElsewhere

\* Strand s of f ends, with discard() or double_bounce().  If it wrote a file
\* the main strand of that file goes on.
Ends(f, s) ==
    /\ at[f][s] \notin {"none", "held", "born"}
    /\ at'[f][s] = "none"
    /\ \A g \in File, u \in Strand :
          /\ g # f \/ u # s
          /\ ~(Parent(f, s) /\ g = child[f][s] /\ u = "main")
          => at'[g][u] = at[g][u]
    /\ Parent(f, s) => LET g == child[f][s]
                       IN  /\ at'[g]["main"] \in {"queued", "defer", "bounce"}
                           /\ at'[g]["main"] \in Young => tries'[g] < MaxTries
    /\ \A g \in File : tries'[g] = tries[g] \/ (Parent(f, s) /\ g = child[f][s])
    /\ at[f][s] \in Whole \cup {"split"} => \A r \in todo[f].rcpts : fate'[r] # {}
    /\ \A r \in Rcpt : fate[r] # {} => fate'[r] # {}
    /\ \/ /\ refs' = [refs EXCEPT ![f] = @ - 1]
          /\ \A g \in File : disk'[g] = IF g = f /\ refs[f] = 1 THEN NoFile ELSE disk[g]
       \/ /\ refs' = refs
          /\ \A g \in File : disk'[g] = IF g = f THEN NoFile ELSE disk[g]
          /\ at[f][s] \in {"bounce", "notify"}
    /\ \A g \in File, u \in Strand :
          Parent(g, u) /\ (g # f \/ u # s) => child'[g][u] = child[g][u]
    /\ \A g \in File, u \in Splits : at[g][u] = "split" => piece'[g][u] = piece[g][u]
    /\ UNCHANGED <<todo, txn, acked>>

LEMMA StrandEnds ==
    ASSUME IInv, NEW f \in File, NEW s \in Strand, Ends(f, s)
    PROVE  Rest'
<1> USE DEF IInv, Ends, Rest
<1>0. Parent(f, s) => ChildOf(f, s, child[f][s]) /\ child[f][s] # f
  <2> SUFFICES ASSUME Parent(f, s) PROVE ChildOf(f, s, child[f][s]) /\ child[f][s] # f
    OBVIOUS
  <2>1. ChildOf(f, s, child[f][s])
    BY DEF Children
  <2> QED BY <2>1 DEF ChildOf, Parent, Shape, Form, Strand, Splits, Second
<1>1. ASSUME at[f]["main"] \notin {"none", "delivered"}, s # "main", disk[f] # NoFile
      PROVE  disk'[f] = disk[f]
  <2>1. Exact(f)
    BY <1>1, YoungExact
  <2>2. s = "late" /\ at[f][s] = "delivered"
    BY <1>1 DEF Shape, Form, Strand, Splits, Second
  <2>3. refs[f] # 1
    BY <1>1, <2>1, <2>2 DEF Exact, Primary, One
  <2> QED BY <2>2, <2>3
<1>2. ASSUME NEW r \in Rcpt, Reported(r) PROVE Reported(r)'
  <2>1. CASE fate[r] # {}
    BY <2>1 DEF Reported
  <2>2. ASSUME NEW g \in File, disk[g] # NoFile, todo[g].null, r \in todo[g].rcpts,
               at[g]["main"] \in Whole
        PROVE  Reported(r)'
    <3>1. CASE g # f
      BY <2>2, <3>1, <1>0 DEF Reported, Whole, Strand
    <3>2. CASE g = f /\ s = "main"
      BY <2>2, <3>2 DEF Reported
    <3>3. CASE g = f /\ s # "main"
      BY <2>2, <3>3, <1>0, <1>1 DEF Reported, Whole, Strand
    <3> QED BY <3>1, <3>2, <3>3
  <2> QED BY <1>2, <2>1, <2>2 DEF Reported
<1>3. ASSUME at[f][s] \in Bouncing, NEW r \in todo[f].rcpts PROVE Reported(r)'
  <2>1. CASE at[f][s] = "noted"
    BY <2>1, <1>0 DEF Parent, ChildOf, Reported, Whole, Strand
  <2>2. CASE at[f][s] # "noted"
    BY <1>3, <2>2 DEF Bouncing, Whole, Reported
  <2> QED BY <2>1, <2>2
<1>4. Shape'
  <2>1. ASSUME NEW g \in File PROVE Form(g)'
    <3>1. Form(g)
      BY DEF Shape
    <3>2. CASE Parent(f, s) /\ g = child[f][s]
      BY <3>1, <3>2, <1>0 DEF Form, ChildOf, Parent, Strand, Splits, Second, Bouncing
    <3>3. CASE ~(Parent(f, s) /\ g = child[f][s])
      BY <3>1, <3>3 DEF Form, Strand, Splits, Second
    <3> QED BY <3>2, <3>3
  <2>2. ASSUME NEW g \in File PROVE Fresh(g)'
    <3>1. Fresh(g) /\ MaxTries \in Nat /\ MaxTries > 0
      BY ConstAssumption DEF Shape
    <3>2. CASE Parent(f, s) /\ g = child[f][s]
      BY <3>1, <3>2, <1>0 DEF Fresh, ChildOf, Parent, Young
    <3>3. CASE ~(Parent(f, s) /\ g = child[f][s]) /\ g # f
      BY <3>1, <3>3 DEF Fresh, Strand
    <3>4. CASE g = f
      <4>1. disk'[f] < MaxTries
        BY <3>1, <3>4 DEF Fresh, NoFile
      <4>2. tries'[f] = tries[f]
        BY <1>0
      <4>3. CASE s = "main"
        BY <3>4, <4>1, <4>3 DEF Fresh, Young
      <4>4. CASE s # "main"
        BY <3>1, <3>4, <4>1, <4>2, <4>4, <1>0, <1>1 DEF Fresh, Young, Strand
      <4> QED BY <4>3, <4>4
    <3> QED BY <3>2, <3>3, <3>4
  <2> QED BY <2>1, <2>2 DEF Shape
<1>5. Children'
  <2>1. ASSUME NEW g \in File, NEW u \in Strand, Parent(g, u)'
        PROVE  /\ Parent(g, u) /\ (g # f \/ u # s)
               /\ child'[g][u] = child[g][u] /\ at'[g][u] = at[g][u]
    <3>1. (g # f \/ u # s) /\ ~(Parent(f, s) /\ g = child[f][s] /\ u = "main")
      BY <2>1 DEF Parent
    <3>2. at'[g][u] = at[g][u]
      BY <3>1
    <3> QED BY <2>1, <3>1, <3>2 DEF Parent
  <2>2. ASSUME NEW g \in File, NEW u \in Strand, Parent(g, u)'
        PROVE  ChildOf(g, u, child[g][u])'
    <3>1. ChildOf(g, u, child[g][u]) /\ at'[g][u] = at[g][u] /\ child'[g][u] = child[g][u]
      BY <2>1, <2>2 DEF Children
    <3>2. ~(Parent(f, s) /\ child[g][u] = child[f][s])
      BY <2>1, <2>2 DEF Children
    <3>3. at[child[g][u]]["main"] \in {"held", "born"}
      BY <2>1, <2>2, <3>1 DEF ChildOf, Parent
    <3>4. disk'[child[g][u]] # NoFile /\ at'[child[g][u]]["main"] = at[child[g][u]]["main"]
      BY <3>1, <3>2, <3>3, <1>1 DEF ChildOf, Strand
    <3> QED BY <3>1, <3>4 DEF ChildOf
  <2> QED BY <2>1, <2>2 DEF Children
<1>6. Submitted'
  <2> SUFFICES ASSUME NEW t \in Txn, NEW i \in DOMAIN txn[t].files
               PROVE  Wrote(t, i, txn[t].files[i])'
    BY DEF Submitted
  <2> DEFINE g == txn[t].files[i]
  <2>1. Wrote(t, i, g)
    BY DEF Submitted
  <2>2. ~(Parent(f, s) /\ g = child[f][s])
    BY <2>1, <1>0 DEF Wrote, ChildOf, Parent
  <2>3. at'[g]["main"] = "held" /\ disk'[g] # NoFile
    BY <2>1, <2>2, <1>1 DEF Wrote, Strand
  <2> QED BY <2>1, <2>3 DEF Wrote
<1>7. Counted'
  <2> SUFFICES ASSUME NEW g \in File, disk'[g] # NoFile
               PROVE  Exact(g)' \/ SettledElsewhere(g)'
    BY DEF Counted
  <2>1. disk[g] # NoFile
    OBVIOUS
  <2>2. ASSUME SettledElsewhere(g) PROVE SettledElsewhere(g)'
    <3>1. ~(Parent(f, s) /\ g = child[f][s])
      BY <2>2, <1>0 DEF SettledElsewhere, ChildOf, Parent
    <3>2. at'[g]["main"] \in {"none", "delivered"}
      BY <2>2, <3>1 DEF SettledElsewhere, Strand
    <3>3. todo[g].rcpts \subseteq Rcpt
      BY DEF TypeOK, Todo
    <3> QED BY <2>2, <3>2, <3>3, <1>2 DEF SettledElsewhere
  <2>3. ASSUME g # f, Exact(g) PROVE Exact(g)'
    <3>1. refs'[g] = refs[g]
      BY <2>3 DEF TypeOK
    <3>2. \A u \in Strand : at[g][u] # "none" <=> at'[g][u] # "none"
      BY <2>3, <1>0 DEF ChildOf, Parent
    <3>3. \A u \in Splits : at'[g][u] = at[g][u]
      BY <2>3 DEF Splits, Strand
    <3> QED BY <2>3, <3>1, <3>2, <3>3 DEF Exact, Primary, One, Strand, Splits, Second
  <2>4. ASSUME g = f, Exact(f), s \in {"main", "late"} \cup Splits,
               s \in Splits => at[f][Second(s)] = "none"
        PROVE  Exact(f)'
    <3>1. refs'[f] = refs[f] - 1
      BY <2>4 DEF TypeOK
    <3>2. \A u \in Strand \ {s} : at'[f][u] = at[f][u]
      BY <1>0
    <3>3. Primary(f)' = Primary(f) - 1
      BY <2>4, <3>2 DEF Primary, One, Strand, Splits
    <3> QED BY <2>4, <3>1, <3>2, <3>3 DEF Exact, Strand, Splits, Second
  <2>5. ASSUME g = f, \E u \in Splits : at[f][Second(u)] # "none" /\ s \in {u, Second(u)},
               Exact(f)
        PROVE  SettledElsewhere(f)'
    <3>1. at[f][s] \in Bouncing
      BY <2>5 DEF Exact, Shape, Form
    <3>2. ~todo[f].null /\ at[f]["main"] \in {"none", "delivered"}
      BY <2>5 DEF Shape, Form
    <3>3. at'[f]["main"] \in {"none", "delivered"}
      BY <3>2, <1>0 DEF Strand
    <3> QED BY <3>1, <3>2, <3>3, <1>3 DEF SettledElsewhere
  <2>6. s \in {"main", "late"} \cup Splits \/ \E u \in Splits : s = Second(u)
    BY DEF Strand, Splits, Second
  <2> QED BY <2>1, <2>2, <2>3, <2>4, <2>5, <2>6 DEF Counted
<1>8. Owed'
  <2>0. acked \subseteq Rcpt
    BY DEF TypeOK
  <2> SUFFICES ASSUME NEW r \in acked, fate'[r] = {}, NEW g \in File, NEW u \in Strand,
                      Owns(g, u, r)
               PROVE  \E h \in File, v \in Strand : Owns(h, v, r)'
    BY <2>0 DEF Owed
  <2>1. g # f \/ u # s
    BY DEF Owns
  <2>2. CASE disk'[g] = disk[g]
    <3>1. CASE Parent(f, s) /\ g = child[f][s] /\ u = "main"
      BY <2>2, <3>1 DEF Owns, Whole
    <3>2. CASE ~(Parent(f, s) /\ g = child[f][s] /\ u = "main")
      BY <2>1, <2>2, <3>2 DEF Owns
    <3> QED BY <3>1, <3>2
  <2>3. CASE disk'[g] # disk[g]
    <3>1. g = f /\ at[f][u] \notin {"none", "delivered"}
      BY <2>3 DEF Owns, Whole
    <3>3. refs[f] = 1 \/ Reported(r)'
      BY <2>3, <3>1 DEF Owns, Whole, Reported
    <3>2. Reported(r)'
      <4>1. CASE SettledElsewhere(f)
        BY <3>1, <4>1, <2>0, <1>2 DEF SettledElsewhere, Owns
      <4>2. CASE Exact(f)
        <5> DEFINE primary == {"main", "late"} \cup Splits
        <5>1. Form(f) /\ at[f][s] # "none" /\ u # s
          BY <2>1, <3>1 DEF Shape
        <5>2. \A p, q \in primary : at[f][p] # "none" /\ at[f][q] # "none" /\ p # q => refs[f] # 1
          BY <4>2 DEF Exact, Primary, One, Splits
        <5>3. CASE s \in primary /\ refs[f] = 1
          <6>1. PICK p \in Splits : u = Second(p)
            BY <3>1, <5>1, <5>2, <5>3 DEF Strand, Splits, Second
          <6>2. at[f][p] \in Bouncing
            BY <3>1, <4>2, <6>1 DEF Exact
          <6>3. p = s
            BY <5>1, <5>2, <5>3, <6>2 DEF Bouncing
          <6> QED BY <3>1, <6>2, <6>3, <1>3 DEF Owns
        <5>4. CASE s \notin primary
          <6>1. at[f][s] \in Bouncing
            BY <5>1, <5>4 DEF Form, Strand, Splits, Second
          <6> QED BY <3>1, <6>1, <1>3 DEF Owns
        <5> QED BY <3>3, <5>3, <5>4
      <4> QED BY <3>1, <4>1, <4>2 DEF Counted, Owns
    <3> QED BY <3>2 DEF Reported, Owns, Strand
  <2> QED BY <2>2, <2>3
<1>9. Gone'
  <2> SUFFICES ASSUME NEW g \in File, NEW u \in Strand, disk'[g] = NoFile, at'[g][u] # "none",
                      NEW r \in todo[g].rcpts
               PROVE  Reported(r)'
    BY DEF Gone
  <2>0. r \in Rcpt
    BY DEF TypeOK, Todo
  <2>1. ~(Parent(f, s) /\ g = child[f][s])
    BY <1>0 DEF ChildOf
  <2>2. at[g][u] # "none" /\ (g # f \/ u # s)
    BY <2>1
  <2>3. CASE disk[g] = NoFile
    BY <2>0, <2>2, <2>3, <1>2 DEF Gone
  <2>4. CASE g = f /\ SettledElsewhere(f)
    BY <2>0, <2>4, <1>2 DEF SettledElsewhere
  <2>5. CASE at[f][s] \in Bouncing /\ g = f
    BY <2>5, <1>3
  <2>6. ASSUME g = f, Exact(f), disk[f] # NoFile, at[f][s] \notin Bouncing PROVE FALSE
    <3> DEFINE primary == {"main", "late"} \cup Splits
    <3>1. refs[f] = 1
      BY <2>6 DEF Bouncing
    <3>2. Form(f) /\ at[f][s] # "none" /\ u # s
      BY <2>2, <2>6 DEF Shape
    <3>3. \A p, q \in primary : at[f][p] # "none" /\ at[f][q] # "none" => p = q
      BY <2>6, <3>1 DEF Exact, Primary, One, Splits
    <3>4. s \in primary
      BY <2>6, <3>2 DEF Form, Strand, Splits, Second
    <3>5. PICK p \in Splits : u = Second(p)
      BY <2>2, <2>6, <3>2, <3>3, <3>4 DEF Strand, Splits, Second
    <3>6. at[f][p] \in Bouncing
      BY <2>2, <2>6, <3>5 DEF Exact
    <3> QED BY <2>6, <3>2, <3>3, <3>4, <3>6 DEF Bouncing
  <2> QED BY <2>3, <2>4, <2>5, <2>6 DEF Counted
<1> QED BY <1>4, <1>5, <1>6, <1>7, <1>8, <1>9
-----------------------------------------------------------------------------
\* Strand s of f turns to bouncing; a failed split may start a second bounce.
Bounces(f, s) ==
    /\ at[f][s] \in {"bounce", "split"}
    /\ at'[f][s] \in {"bounce", "notify"}
    /\ todo[f].null => at[f][s] # "bounce"
    /\ \A g \in File, u \in Strand :
          \/ at'[g][u] = at[g][u]
          \/ g = f /\ u = s
          \/ g = f /\ at[f][s] = "split" /\ u = Second(s) /\ at'[g][u] = "bounce"
    /\ \A g \in File, u \in Splits : g # f \/ u # s => piece'[g][u] = piece[g][u]
    /\ UNCHANGED <<disk, todo, child, refs, tries, txn, acked, fate>>

LEMMA StrandBounces ==
    ASSUME IInv, NEW f \in File, NEW s \in Strand, Bounces(f, s)
    PROVE  Rest'
<1> USE DEF IInv, Bounces, Rest
<1>0. at[f][s] = "split" => s \in Splits /\ at[f]["main"] \in {"none", "delivered"} /\ ~todo[f].null
  BY DEF Shape, Form, Strand, Splits, Second, Bouncing
<1>1. \A g \in File : at'[g]["main"] = at[g]["main"] \/ (g = f /\ s = "main")
  BY <1>0 DEF Splits, Second, Strand
<1>2. Shape'
  <2> SUFFICES ASSUME NEW g \in File PROVE Form(g)' /\ Fresh(g)'
    BY DEF Shape
  <2>1. Form(g) /\ Fresh(g)
    BY DEF Shape
  <2>2. Fresh(g)'
    BY <2>1, <1>1 DEF Fresh, Young
  <2>3. CASE g # f
    BY <2>1, <2>2, <2>3 DEF Form, Strand, Splits, Second
  <2>4. CASE g = f
    <3>1. \A u \in Strand \ {s} : at'[f][u] = at[f][u] \/ (at[f][s] = "split" /\ u = Second(s) /\ at'[f][u] = "bounce")
      OBVIOUS
    <3>2. Form(f)'
      BY <2>1, <2>4, <3>1, <1>0 DEF Form, Strand, Splits, Second, Bouncing
    <3> QED BY <2>2, <2>4, <3>2
  <2> QED BY <2>3, <2>4
<1>3. Children'
  <2> SUFFICES ASSUME NEW g \in File, NEW u \in Strand, Parent(g, u)'
               PROVE  Parent(g, u) /\ ChildOf(g, u, child[g][u])'
    BY DEF Children
  <2>1. at'[g][u] = at[g][u] /\ Parent(g, u)
    BY DEF Parent
  <2>2. ChildOf(g, u, child[g][u])
    BY <2>1 DEF Children
  <2> QED BY <2>1, <2>2, <1>1 DEF ChildOf, Parent
<1>4. Submitted'
  <2> SUFFICES ASSUME NEW t \in Txn, NEW i \in DOMAIN txn[t].files
               PROVE  Wrote(t, i, txn[t].files[i])'
    BY DEF Submitted
  <2>1. Wrote(t, i, txn[t].files[i])
    BY DEF Submitted
  <2> QED BY <2>1, <1>1 DEF Wrote
<1>5. \A r : Reported(r) => Reported(r)'
  BY <1>1 DEF Reported, Whole
<1>6. Counted'
  <2> SUFFICES ASSUME NEW g \in File, disk'[g] # NoFile
               PROVE  Exact(g)' \/ SettledElsewhere(g)'
    BY DEF Counted
  <2>1. ASSUME Exact(g) PROVE Exact(g)'
    <3>1. CASE g # f
      BY <2>1, <3>1 DEF Exact, Primary, One, Strand, Splits, Second
    <3>2. CASE g = f
      <4>1. \A u \in {"main", "late", "fail", "bounce"} : at'[f][u] # "none" <=> at[f][u] # "none"
        BY <1>0 DEF Strand, Splits, Second
      <4>2. \A u \in Splits : at[f][u] \in Bouncing => at'[f][u] \in Bouncing
        BY DEF Strand, Splits, Second, Bouncing
      <4>3. \A u \in Splits : \/ at[f][Second(u)] # "none"
                              \/ at'[f][Second(u)] = "none"
                              \/ at[f][s] = "split" /\ u = s
        BY <1>0 DEF Strand, Splits, Second
      <4> QED BY <2>1, <3>2, <4>1, <4>2, <4>3 DEF Exact, Primary, Bouncing
    <3> QED BY <3>1, <3>2
  <2>2. ASSUME SettledElsewhere(g) PROVE SettledElsewhere(g)'
    <3>1. at'[g]["main"] \in {"none", "delivered"}
      BY <2>2, <1>1 DEF SettledElsewhere
    <3> QED BY <2>2, <3>1, <1>5 DEF SettledElsewhere
  <2> QED BY <2>1, <2>2 DEF Counted
<1>7. Owed'
  <2>1. \A g \in File, u \in Strand : \A r : Owns(g, u, r) => Owns(g, u, r)'
    BY DEF Owns, Whole, Strand, Splits
  <2> QED BY <2>1 DEF Owed
<1>8. Gone'
  <2> SUFFICES ASSUME NEW g \in File, NEW u \in Strand, disk[g] = NoFile, at'[g][u] # "none"
               PROVE  \A r \in todo[g].rcpts : Reported(r)
    BY <1>5 DEF Gone
  <2>1. \E v \in Strand : at[g][v] # "none"
    OBVIOUS
  <2> QED BY <2>1 DEF Gone
<1> QED BY <1>2, <1>3, <1>4, <1>6, <1>7, <1>8

-----------------------------------------------------------------------------
\* A new file g is written, for a submission or by strand s of f.
Makes(g, byStrand, f, s) ==
    /\ IsNew(g)
    /\ disk'[g] = 0 /\ refs'[g] = 1 /\ tries'[g] = 0
    /\ \A h \in File \ {g} : /\ disk'[h] = disk[h] /\ refs'[h] = refs[h]
                            /\ tries'[h] = tries[h] /\ todo'[h] = todo[h]
    /\ at'[g]["main"] \in {"held", "born"}
    /\ \A u \in Strand \ {"main"} : at'[g][u] = "none"
    /\ byStrand =>
          /\ child'[f][s] = g
          /\ \/ /\ at[f][s] = "notify" /\ at'[f][s] = "noted"
                /\ at'[g]["main"] = "held" /\ todo'[g] = [rcpts |-> todo[f].rcpts, null |-> TRUE]
             \/ /\ at[f][s] = "split" /\ at'[f][s] = "ready"
                /\ at'[g]["main"] = "born" /\ todo'[g].rcpts = piece[f][s]
    /\ \A h \in File, u \in Strand :
          h # g /\ ~(byStrand /\ h = f /\ u = s) =>
             at'[h][u] = at[h][u] /\ child'[h][u] = child[h][u]
    /\ \A h \in File, u \in Splits :
          ~(byStrand /\ h = f /\ u = s) => piece'[h][u] = piece[h][u]
    /\ UNCHANGED <<acked, fate>>

LEMMA FileMade ==
    ASSUME IInv, NEW g \in File, NEW byStrand \in BOOLEAN, NEW f \in File, NEW s \in Strand,
           Makes(g, byStrand, f, s)
    PROVE  Shape' /\ Children' /\ Counted' /\ Owed' /\ Gone' /\ (txn' = txn => Submitted')
<1> USE DEF IInv, Makes
<1>1. disk[g] = NoFile /\ \A u \in Strand : at[g][u] = "none"
  BY DEF IsNew, Live
<1>2. /\ disk'[g] = 0 /\ refs'[g] = 1 /\ tries'[g] = 0
      /\ \A h \in File \ {g} : /\ disk'[h] = disk[h] /\ refs'[h] = refs[h]
                               /\ tries'[h] = tries[h] /\ todo'[h] = todo[h]
  OBVIOUS
<1>3. NoFile # 0
  BY DEF NoFile
<1>4. byStrand => f # g
  BY <1>1
<1>5. \A h \in File \ {g} : \/ at'[h]["main"] = at[h]["main"]
                            \/ /\ byStrand /\ h = f /\ s = "main" /\ ~todo[h].null
                               /\ at[h]["main"] = "notify" /\ at'[h]["main"] = "noted"
  BY DEF Shape, Form, Strand
<1>6. \A r : Reported(r) => Reported(r)'
  BY <1>1, <1>2, <1>5 DEF Reported
<1>7. Shape'
  <2> SUFFICES ASSUME NEW h \in File PROVE Form(h)' /\ Fresh(h)'
    BY DEF Shape
  <2>1. Form(h) /\ Fresh(h)
    BY DEF Shape
  <2>2. CASE h = g
    <3>1. Form(g)'
      BY DEF Form, Strand, Splits, Second
    <3>2. Fresh(g)'
      BY <1>2, <1>3, ConstAssumption DEF Fresh
    <3> QED BY <2>2, <3>1, <3>2
  <2>3. CASE h # g
    <3>1. Fresh(h)'
      BY <2>1, <2>3, <1>2, <1>5 DEF Fresh, Young
    <3>2. CASE byStrand /\ h = f
      BY <2>1, <2>3, <3>1, <3>2, <1>2 DEF Form, Strand, Splits, Second, Bouncing
    <3>3. CASE ~(byStrand /\ h = f)
      BY <2>1, <2>3, <3>1, <3>3, <1>2 DEF Form, Strand, Splits, Second
    <3> QED BY <3>2, <3>3
  <2> QED BY <2>2, <2>3
<1>8. Children'
  <2>1. ASSUME NEW h \in File, NEW u \in Strand, Parent(h, u)', ~(byStrand /\ h = f /\ u = s)
        PROVE  /\ Parent(h, u) /\ child'[h][u] = child[h][u] /\ child[h][u] # g
               /\ ChildOf(h, u, child[h][u])'
    <3>1. h # g
      BY <2>1 DEF Parent
    <3>2. Parent(h, u) /\ child'[h][u] = child[h][u] /\ at'[h][u] = at[h][u]
      BY <2>1, <3>1 DEF Parent
    <3>3. ChildOf(h, u, child[h][u])
      BY <3>2 DEF Children
    <3>4. child[h][u] # g
      BY <3>3, <1>1 DEF ChildOf
    <3>5. at'[child[h][u]]["main"] = at[child[h][u]]["main"]
      BY <3>2, <3>3, <3>4, <1>5 DEF ChildOf, Parent
    <3> QED BY <3>1, <3>2, <3>3, <3>4, <3>5, <1>2 DEF ChildOf
  <2>2. ASSUME byStrand PROVE ChildOf(f, s, child[f][s])'
    BY <2>2, <1>2, <1>3, <1>4 DEF ChildOf
  <2> QED BY <2>1, <2>2 DEF Children
<1>9. Counted'
  <2> SUFFICES ASSUME NEW h \in File, disk'[h] # NoFile
               PROVE  Exact(h)' \/ SettledElsewhere(h)'
    BY DEF Counted
  <2>1. CASE h = g
    BY <2>1, <1>2 DEF Exact, Primary, One, Strand, Splits, Second
  <2>2. ASSUME h # g, Exact(h) PROVE Exact(h)'
    <3>1. refs'[h] = refs[h]
      BY <2>2, <1>2
    <3>2. CASE ~(byStrand /\ h = f)
      BY <2>2, <3>1, <3>2 DEF Exact, Primary, Strand, Splits, Second
    <3>3. CASE byStrand /\ h = f
      <4>1. \A u \in Strand : at[f][u] = "none" <=> at'[f][u] = "none"
        BY <2>2, <3>3
      <4>2. \A u \in Splits : at[f][Second(u)] # "none" /\ at[f][u] \in Bouncing => at'[f][u] \in Bouncing
        BY <2>2, <3>3 DEF Bouncing, Strand, Splits
      <4> QED BY <2>2, <3>1, <3>3, <4>1, <4>2 DEF Exact, Primary, Strand, Splits, Second
    <3> QED BY <3>2, <3>3
  <2>3. ASSUME h # g, SettledElsewhere(h) PROVE SettledElsewhere(h)'
    BY <2>3, <1>2, <1>5, <1>6 DEF SettledElsewhere
  <2> QED BY <2>1, <2>2, <2>3, <1>2 DEF Counted
<1>10. Owed'
  <2> SUFFICES ASSUME NEW r \in acked, NEW h \in File, NEW u \in Strand, Owns(h, u, r)
               PROVE  \E k \in File, v \in Strand : Owns(k, v, r)'
    BY DEF Owed
  <2>1. h # g
    BY <1>1 DEF Owns
  <2>2. CASE byStrand /\ h = f /\ u = s
    <3>1. Owns(g, "main", r)'
      BY <2>2, <1>2, <1>3 DEF Owns, Whole, Splits
    <3> QED BY <3>1 DEF Strand
  <2>3. CASE ~(byStrand /\ h = f /\ u = s)
    <3>1. Owns(h, u, r)'
      BY <2>1, <2>3, <1>2 DEF Owns
    <3> QED BY <3>1
  <2> QED BY <2>2, <2>3
<1>11. ASSUME txn' = txn PROVE Submitted'
  <2> SUFFICES ASSUME NEW t \in Txn, NEW i \in DOMAIN txn[t].files
               PROVE  Wrote(t, i, txn[t].files[i])'
    BY <1>11 DEF Submitted
  <2>1. Wrote(t, i, txn[t].files[i])
    BY DEF Submitted
  <2>2. txn[t].files[i] # g
    BY <2>1, <1>1 DEF Wrote
  <2> QED BY <2>1, <2>2, <1>2, <1>5, <1>11 DEF Wrote
<1>12. Gone'
  <2> SUFFICES ASSUME NEW h \in File, NEW u \in Strand, disk'[h] = NoFile, at'[h][u] # "none"
               PROVE  \A r \in todo'[h].rcpts : Reported(r)
    BY <1>6 DEF Gone
  <2>1. h # g
    BY <1>2, <1>3
  <2>2. at[h][u] # "none"
    BY <2>1
  <2> QED BY <2>1, <2>2, <1>2 DEF Gone
<1> QED BY <1>7, <1>8, <1>9, <1>10, <1>11, <1>12

-----------------------------------------------------------------------------
\* The submissions.

LEMMA WriteFileRest ==
    ASSUME IInv, NEW t \in Txn, WriteFile(t)
    PROVE  Rest'
<1>1. PICK g \in File : /\ IsNew(g)
                       /\ MakeFile(g, Deliveries[t][Len(txn[t].files) + 1], FALSE)
                       /\ Goes(g, "main", "held")
                       /\ txn' = [txn EXCEPT ![t].files = Append(@, g)]
  BY DEF WriteFile
<1>2. disk[g] = NoFile /\ \A u \in Strand : at[g][u] = "none"
  BY <1>1 DEF IsNew, Live
<1>3. TypeOK /\ UNCHANGED <<piece, child, acked, fate>>
  BY DEF IInv, WriteFile
<1>4. /\ at'[g]["main"] = "held"
      /\ \A h \in File, u \in Strand : h # g \/ u # "main" => at'[h][u] = at[h][u]
  BY <1>1, <1>3 DEF Goes, TypeOK, Strand
<1>5. todo'[g] = [rcpts |-> Deliveries[t][Len(txn[t].files) + 1], null |-> FALSE]
  BY <1>1, <1>3 DEF MakeFile, TypeOK
<1>6. Makes(g, FALSE, g, "main")
  BY <1>1, <1>2, <1>3, <1>4 DEF Makes, MakeFile, TypeOK
<1>7. "main" \in Strand /\ FALSE \in BOOLEAN
  BY DEF Strand
<1>8. Shape' /\ Children' /\ Counted' /\ Owed' /\ Gone'
  BY <1>6, <1>7, FileMade
<1>9. Submitted'
  <2>0. PICK n : n = Len(txn[t].files) + 1
    OBVIOUS
  <2>1. txn[t].files \in Seq(File) /\ n <= Len(Deliveries[t])
    <3>1. txn[t].files \in Seq(File) /\ Deliveries[t] \in Seq((SUBSET Rcpt) \ {{}})
      BY <1>3, ConstAssumption DEF TypeOK
    <3>2. Len(txn[t].files) \in Nat /\ Len(Deliveries[t]) \in Nat
      BY <3>1
    <3>3. Len(Deliveries[t]) - Len(txn[t].files) > 0
      BY DEF WriteFile, Left
    <3>4. n <= Len(Deliveries[t])
      <4>1. \A a, b \in Nat : a - b > 0 => b + 1 <= a
        OBVIOUS
      <4> QED BY <2>0, <3>2, <3>3, <4>1
    <3> QED BY <3>1, <3>4
  <2>2. /\ txn'[t].st = txn[t].st /\ txn'[t].files = Append(txn[t].files, g)
        /\ \A u \in Txn \ {t} : txn'[u] = txn[u]
    BY <1>1, <1>3 DEF TypeOK
  <2>3. /\ DOMAIN txn'[t].files = 1 .. n /\ txn'[t].files[n] = g
        /\ \A i \in 1 .. n - 1 : txn'[t].files[i] = txn[t].files[i]
        /\ DOMAIN txn[t].files = 1 .. n - 1
    BY <2>0, <2>1, <2>2
  <2>4. ASSUME NEW u \in Txn, NEW i \in DOMAIN txn[u].files
        PROVE  Wrote(u, i, txn[u].files[i])' /\ txn[u].files[i] # g
    <3>1. Wrote(u, i, txn[u].files[i])
      BY DEF IInv, Submitted
    <3>2. PICK h : h = txn[u].files[i]
      OBVIOUS
    <3>3. h \in File /\ h # g
      BY <3>1, <3>2, <1>2 DEF Wrote
    <3>4. disk'[h] = disk[h] /\ todo'[h] = todo[h] /\ at'[h]["main"] = at[h]["main"]
      BY <3>3, <1>4, <1>6, <1>7 DEF Makes
    <3>5. txn'[u].files[i] = h
      BY <3>2, <2>2, <2>3
    <3> QED BY <3>1, <3>2, <3>3, <3>4, <3>5 DEF Wrote
  <2>5. Wrote(t, n, g)'
    BY <1>4, <1>5, <1>6, <2>0 DEF Wrote, Makes, NoFile
  <2>6. ASSUME NEW u \in Txn, NEW i \in DOMAIN txn'[u].files
        PROVE  \/ u = t /\ i = n /\ txn'[u].files[i] = g
               \/ i \in DOMAIN txn[u].files /\ txn'[u].files[i] = txn[u].files[i]
    <3>1. CASE u # t
      BY <2>2, <2>6, <3>1
    <3>2. CASE u = t
      <4>1. i \in 1 .. n /\ n = Len(txn[t].files) + 1 /\ Len(txn[t].files) \in Nat
        BY <2>0, <2>1, <2>3, <2>6, <3>2
      <4>2. i = n \/ i \in 1 .. n - 1
        BY <4>1
      <4> QED BY <2>3, <3>2, <4>2
    <3> QED BY <3>1, <3>2
  <2>7. \A u \in Txn : txn'[u].st = "open" =>
           /\ Len(txn'[u].files) <= Len(Deliveries[u])
           /\ \A i \in DOMAIN Deliveries[u] : Deliveries[u][i] \cap acked' = {}
    <3> SUFFICES ASSUME NEW u \in Txn, txn'[u].st = "open"
                 PROVE  /\ Len(txn'[u].files) <= Len(Deliveries[u])
                        /\ \A i \in DOMAIN Deliveries[u] : Deliveries[u][i] \cap acked' = {}
      OBVIOUS
    <3>1. txn[u].st = "open"
      BY <2>2
    <3>2. /\ Len(txn[u].files) <= Len(Deliveries[u])
          /\ \A i \in DOMAIN Deliveries[u] : Deliveries[u][i] \cap acked' = {}
      BY <1>3, <3>1 DEF IInv, Submitted
    <3>3. Len(txn'[t].files) = n
      BY <2>0, <2>1, <2>2
    <3>4. CASE u = t
      BY <2>1, <3>2, <3>3, <3>4
    <3>5. CASE u # t
      BY <2>2, <3>2, <3>5
    <3> QED BY <3>4, <3>5
  <2>8. \A u \in Txn : \A i \in DOMAIN txn'[u].files : Wrote(u, i, txn[u].files[i])'
    <3> SUFFICES ASSUME NEW u \in Txn, NEW i \in DOMAIN txn'[u].files
                 PROVE  Wrote(u, i, txn[u].files[i])'
      OBVIOUS
    <3>1. CASE u = t /\ i = n /\ txn'[u].files[i] = g
      BY <2>5, <3>1 DEF Wrote
    <3>2. CASE i \in DOMAIN txn[u].files
      BY <2>4, <3>2
    <3> QED BY <2>6, <3>1, <3>2
  <2>9. ASSUME NEW u \in Txn, NEW v \in Txn, NEW i \in DOMAIN txn'[u].files,
               NEW j \in DOMAIN txn'[v].files, txn'[u].files[i] = txn'[v].files[j]
        PROVE  u = v /\ i = j
    <3>1. CASE i \in DOMAIN txn[u].files /\ txn'[u].files[i] = txn[u].files[i]
      <4>1. txn[u].files[i] # g
        BY <2>4, <3>1
      <4>2. j \in DOMAIN txn[v].files /\ txn'[v].files[j] = txn[v].files[j]
        BY <2>6, <2>9, <3>1, <4>1
      <4>3. \A a, b \in Txn : \A k \in DOMAIN txn[a].files, l \in DOMAIN txn[b].files :
               txn[a].files[k] = txn[b].files[l] => a = b /\ k = l
        BY DEF IInv, Submitted
      <4>4. txn[u].files[i] = txn[v].files[j]
        BY <2>9, <3>1, <4>2
      <4> QED BY <3>1, <4>2, <4>3, <4>4
    <3>2. CASE u = t /\ i = n /\ txn'[u].files[i] = g
      <4>1. ~(j \in DOMAIN txn[v].files /\ txn'[v].files[j] = txn[v].files[j])
        BY <2>4, <2>9, <3>2
      <4> QED BY <2>6, <3>2, <4>1
    <3> QED BY <2>6, <3>1, <3>2
  <2>10. \A u \in Txn : txn'[u].st # "open" => txn'[u].files = <<>>
    BY <2>2 DEF IInv, Submitted, WriteFile
  <2> QED BY <2>7, <2>8, <2>9, <2>10 DEF Submitted
<1> QED BY <1>8, <1>9 DEF Rest

\* The files of a failed submission are removed; nobody depends on them.
LEMMA WriteFailsRest ==
    ASSUME IInv, NEW t \in Txn, WriteFails(t)
    PROVE  Rest'
<1> DEFINE queued == ToSet(txn[t].files)
<1>1. TypeOK /\ UNCHANGED <<todo, piece, child, refs, tries, acked, fate>>
  BY DEF IInv, WriteFails
<1>2. \A f \in File : /\ f \in queued => disk'[f] = NoFile /\ \A s \in Strand : at'[f][s] = "none"
                      /\ f \notin queued => disk'[f] = disk[f] /\ \A s \in Strand : at'[f][s] = at[f][s]
  BY DEF WriteFails
<1>3. /\ txn[t].st = "open" /\ txn'[t].st = "refused" /\ txn'[t].files = <<>>
      /\ \A u \in Txn \ {t} : txn'[u] = txn[u]
  BY <1>1 DEF WriteFails, TypeOK
<1>4. ASSUME NEW g \in queued
      PROVE  /\ g \in File /\ at[g]["main"] = "held" /\ ~todo[g].null
             /\ \E i \in DOMAIN txn[t].files : todo[g].rcpts = Deliveries[t][i]
  <2>1. PICK i \in DOMAIN txn[t].files : g = txn[t].files[i]
    BY DEF ToSet
  <2>2. Wrote(t, i, g)
    BY <2>1 DEF IInv, Submitted
  <2> QED BY <2>2 DEF Wrote
<1> HIDE DEF queued
<1>5. ASSUME NEW f \in File, NEW s \in Strand, Parent(f, s)
      PROVE  f \notin queued /\ child[f][s] \notin queued
  <2>1. ChildOf(f, s, child[f][s])
    BY <1>5 DEF IInv, Children
  <2>2. child[f][s] \notin queued
    BY <1>4, <1>5, <2>1 DEF ChildOf, Parent
  <2>3. Form(f)
    BY DEF IInv, Shape
  <2>4. f \notin queued
    BY <1>4, <1>5, <2>3 DEF Form, Parent, Strand, Splits, Second
  <2> QED BY <2>2, <2>4
<1>6. Shape'
  <2> SUFFICES ASSUME NEW f \in File PROVE Form(f)' /\ Fresh(f)'
    BY DEF Shape
  <2>1. Form(f) /\ Fresh(f)
    BY DEF IInv, Shape
  <2>2. CASE f \in queued
    <3>1. Fresh(f)'
      BY <1>2, <2>2, ConstAssumption DEF Fresh, NoFile, Young, Strand
    <3> QED BY <1>2, <2>2, <3>1 DEF Form, Strand, Splits, Second
  <2>3. CASE f \notin queued
    BY <1>1, <1>2, <2>1, <2>3 DEF Form, Fresh, Strand, Splits, Second
  <2> QED BY <2>2, <2>3
<1>7. Children'
  <2> SUFFICES ASSUME NEW f \in File, NEW s \in Strand, Parent(f, s)'
               PROVE  Parent(f, s) /\ ChildOf(f, s, child[f][s])'
    BY <1>1 DEF IInv, Children
  <2>1. Parent(f, s) /\ at'[f][s] = at[f][s]
    BY <1>2 DEF Parent
  <2>2. ChildOf(f, s, child[f][s])
    BY <2>1 DEF IInv, Children
  <2>3. child[f][s] \notin queued
    BY <2>1, <1>5
  <2> QED BY <2>1, <2>2, <2>3, <1>1, <1>2 DEF ChildOf, Strand
<1>8. Submitted'
  <2>1. \A u \in Txn : \A i \in DOMAIN txn'[u].files : u # t /\ txn'[u] = txn[u]
    BY <1>3
  <2>2. ASSUME NEW u \in Txn, NEW i \in DOMAIN txn'[u].files PROVE Wrote(u, i, txn[u].files[i])'
    <3>1. u # t /\ txn'[u] = txn[u]
      BY <2>1, <2>2
    <3>2. Wrote(u, i, txn[u].files[i])
      BY <2>2, <3>1 DEF IInv, Submitted
    <3>3. txn[u].files[i] \notin queued
      BY <2>2, <3>1 DEF IInv, Submitted, ToSet, queued
    <3> QED BY <3>1, <3>2, <3>3, <1>1, <1>2 DEF Wrote, Strand
  <2>3. \A u \in Txn : txn'[u].st = "open" => txn'[u] = txn[u]
    BY <1>3
  <2>4. \A u \in Txn : txn'[u].st # "open" => txn'[u].files = <<>>
    BY <1>3 DEF IInv, Submitted
  <2> QED BY <1>1, <2>1, <2>2, <2>3, <2>4 DEF IInv, Submitted
<1>9. ASSUME NEW r, Reported(r) PROVE Reported(r)'
  <2>1. \A g \in queued : ~todo[g].null
    BY <1>4
  <2> QED BY <1>1, <1>2, <1>9, <2>1 DEF Reported, Strand
<1>10. Counted'
  <2> SUFFICES ASSUME NEW f \in File, disk'[f] # NoFile
               PROVE  Exact(f)' \/ SettledElsewhere(f)'
    BY DEF Counted
  <2>1. disk[f] # NoFile /\ \A s \in Strand : at'[f][s] = at[f][s]
    BY <1>2
  <2>2. CASE Exact(f)
    BY <1>1, <2>1, <2>2 DEF Exact, Primary, Strand, Splits, Second
  <2>3. CASE SettledElsewhere(f)
    BY <1>1, <1>9, <2>1, <2>3 DEF SettledElsewhere, Strand
  <2> QED BY <2>1, <2>2, <2>3 DEF IInv, Counted
<1>11. Owed'
  <2> SUFFICES ASSUME NEW r \in acked, NEW g \in File, NEW u \in Strand, Owns(g, u, r)
               PROVE  Owns(g, u, r)'
    BY <1>1 DEF IInv, Owed
  <2>1. g \notin queued
    <3>1. \A i \in DOMAIN Deliveries[t] : r \notin Deliveries[t][i]
      BY <1>3 DEF IInv, Submitted
    <3>2. \A i \in DOMAIN txn[t].files : i \in DOMAIN Deliveries[t]
      <4>1. txn[t].files \in Seq(File) /\ Deliveries[t] \in Seq((SUBSET Rcpt) \ {{}})
        BY <1>1, ConstAssumption DEF TypeOK
      <4>2. Len(txn[t].files) <= Len(Deliveries[t])
        BY <1>3 DEF IInv, Submitted
      <4> QED BY <4>1, <4>2
    <3> QED BY <3>1, <3>2, <1>4 DEF Owns
  <2> QED BY <1>1, <1>2, <2>1 DEF Owns
<1>12. Gone'
  BY <1>1, <1>2, <1>9 DEF IInv, Gone
<1> QED BY <1>6, <1>7, <1>8, <1>10, <1>11, <1>12 DEF Rest

\* The mail is answered OK: its recipients are owed by the files just queued.
LEMMA AcknowledgeRest ==
    ASSUME IInv, NEW t \in Txn, Acknowledge(t)
    PROVE  Rest'
<1> DEFINE queued == ToSet(txn[t].files)
<1>1. TypeOK /\ UNCHANGED <<disk, todo, piece, child, refs, tries, fate>>
  BY DEF IInv, Acknowledge
<1>2. \A f \in File : /\ f \in queued => at'[f]["main"] = "queued"
                      /\ f \notin queued => at'[f]["main"] = at[f]["main"]
                      /\ \A s \in Strand \ {"main"} : at'[f][s] = at[f][s]
  BY <1>1 DEF Acknowledge, TypeOK, Strand
<1>3. /\ txn[t].st = "open" /\ txn'[t].st = "acked" /\ txn'[t].files = <<>>
      /\ \A u \in Txn \ {t} : txn'[u] = txn[u]
  BY <1>1 DEF Acknowledge, TypeOK
<1>4. ASSUME NEW g \in queued
      PROVE  /\ g \in File /\ at[g]["main"] = "held" /\ ~todo[g].null
             /\ \E i \in DOMAIN txn[t].files : todo[g].rcpts = Deliveries[t][i]
  <2>1. PICK i \in DOMAIN txn[t].files : g = txn[t].files[i]
    BY DEF ToSet
  <2>2. Wrote(t, i, g)
    BY <2>1 DEF IInv, Submitted
  <2> QED BY <2>2 DEF Wrote
<1> HIDE DEF queued
<1>5. \A f \in queued : at[f]["main"] = "held"
  BY <1>4
<1>6. ASSUME NEW f \in File, NEW s \in Strand, Parent(f, s)
      PROVE  child[f][s] \notin queued
  <2>1. ChildOf(f, s, child[f][s])
    BY <1>6 DEF IInv, Children
  <2> QED BY <1>4, <1>6, <2>1 DEF ChildOf, Parent
<1>7. Shape'
  <2> SUFFICES ASSUME NEW f \in File PROVE Form(f)' /\ Fresh(f)'
    BY DEF Shape
  <2>1. Form(f) /\ Fresh(f)
    BY DEF IInv, Shape
  <2>2. Form(f)'
    BY <1>1, <1>2, <1>5, <2>1 DEF Form, Strand, Splits, Second
  <2>3. Fresh(f)'
    BY <1>1, <1>2, <1>5, <2>1 DEF Fresh, Young
  <2> QED BY <2>2, <2>3
<1>8. Children'
  <2> SUFFICES ASSUME NEW f \in File, NEW s \in Strand, Parent(f, s)'
               PROVE  Parent(f, s) /\ ChildOf(f, s, child[f][s])'
    BY <1>1 DEF IInv, Children
  <2>1. Parent(f, s) /\ at'[f][s] = at[f][s]
    BY <1>2 DEF Parent
  <2>2. ChildOf(f, s, child[f][s])
    BY <2>1 DEF IInv, Children
  <2>3. child[f][s] \notin queued
    BY <2>1, <1>6
  <2> QED BY <2>1, <2>2, <2>3, <1>1, <1>2 DEF ChildOf
<1>9. acked' = acked \cup UNION ToSet(Deliveries[t])
  BY DEF Acknowledge
<1>10. Submitted'
  <2>1. ASSUME NEW u \in Txn, NEW i \in DOMAIN txn'[u].files PROVE Wrote(u, i, txn[u].files[i])'
    <3>1. u # t /\ txn'[u] = txn[u]
      BY <1>3, <2>1
    <3>2. Wrote(u, i, txn[u].files[i])
      BY <2>1, <3>1 DEF IInv, Submitted
    <3>3. txn[u].files[i] \notin queued
      BY <2>1, <3>1 DEF IInv, Submitted, ToSet, queued
    <3> QED BY <3>1, <3>2, <3>3, <1>1, <1>2 DEF Wrote
  <2>2. ASSUME NEW u \in Txn, txn'[u].st = "open"
        PROVE  /\ Len(txn'[u].files) <= Len(Deliveries[u])
               /\ \A i \in DOMAIN Deliveries[u] : Deliveries[u][i] \cap acked' = {}
    <3>1. u # t /\ txn'[u] = txn[u]
      BY <1>3, <2>2
    <3>2. ASSUME NEW i \in DOMAIN Deliveries[u], NEW j \in DOMAIN Deliveries[t]
          PROVE  Deliveries[u][i] \cap Deliveries[t][j] = {}
      BY <3>1, OneMailAssumption
    <3> QED BY <2>2, <3>1, <3>2, <1>9 DEF IInv, Submitted, ToSet
  <2>3. \A u \in Txn : DOMAIN txn'[u].files # {} => txn'[u] = txn[u]
    BY <1>3
  <2>4. \A u \in Txn : txn'[u].st # "open" => txn'[u].files = <<>>
    BY <1>3 DEF IInv, Submitted
  <2> QED BY <2>1, <2>2, <2>3, <2>4 DEF IInv, Submitted
<1>11. \A r : Reported(r) => Reported(r)'
  BY <1>1, <1>2 DEF Reported, Whole
<1>12. Counted'
  <2> SUFFICES ASSUME NEW f \in File, disk'[f] # NoFile
               PROVE  Exact(f)' \/ SettledElsewhere(f)'
    BY DEF Counted
  <2>1. CASE Exact(f)
    <3>1. \A s \in Strand : at[f][s] # "none" <=> at'[f][s] # "none"
      BY <1>2, <1>5
    <3> QED BY <1>1, <1>2, <2>1, <3>1 DEF Exact, Primary, Strand, Splits, Second
  <2>2. CASE SettledElsewhere(f)
    BY <1>1, <1>2, <1>5, <1>11, <2>2 DEF SettledElsewhere
  <2> QED BY <1>1, <2>1, <2>2 DEF IInv, Counted
<1>13. Owed'
  <2>1. \A g \in File, u \in Strand : \A r : Owns(g, u, r) => Owns(g, u, r)'
    BY <1>1, <1>2 DEF Owns, Whole, Splits, Strand
  <2>2. ASSUME NEW r \in UNION ToSet(Deliveries[t])
        PROVE  \E g \in File, u \in Strand : Owns(g, u, r)'
    <3>1. PICK i \in DOMAIN Deliveries[t] : r \in Deliveries[t][i]
      BY DEF ToSet
    <3>2. i \in DOMAIN txn[t].files
      <4>1. txn[t].files \in Seq(File) /\ Deliveries[t] \in Seq((SUBSET Rcpt) \ {{}})
        BY <1>1, ConstAssumption DEF TypeOK
      <4>2. Len(Deliveries[t]) - Len(txn[t].files) = 0
        BY DEF Acknowledge, Left
      <4> QED BY <4>1, <4>2
    <3>3. Wrote(t, i, txn[t].files[i]) /\ txn[t].files[i] \in queued
      BY <3>2 DEF IInv, Submitted, ToSet, queued
    <3>4. Owns(txn[t].files[i], "main", r)
      BY <3>1, <3>3 DEF Wrote, Owns, Whole
    <3> QED BY <3>3, <3>4, <2>1 DEF Wrote, Strand
  <2>3. ASSUME NEW r \in acked
        PROVE  fate'[r] # {} \/ \E g \in File, u \in Strand : Owns(g, u, r)'
    BY <1>1, <2>1 DEF IInv, Owed
  <2> QED BY <1>9, <2>2, <2>3 DEF Owed
<1>14. Gone'
  <2>1. \A f \in File, s \in Strand : at[f][s] # "none" <=> at'[f][s] # "none"
    BY <1>2, <1>5
  <2> QED BY <1>1, <1>11, <2>1 DEF IInv, Gone
<1> QED BY <1>7, <1>8, <1>10, <1>12, <1>13, <1>14 DEF Rest

-----------------------------------------------------------------------------
\* The end of a conversation.

LEMMA SplitsCount ==
    ASSUME NEW p \in BOOLEAN, NEW q \in BOOLEAN
    PROVE  Cardinality((IF p THEN {"fail"} ELSE {}) \cup (IF q THEN {"bounce"} ELSE {}))
              = One(p) + One(q)
<1>1. Cardinality({"fail"}) = 1 /\ Cardinality({"bounce"}) = 1 /\ Cardinality({}) = 0
  BY FS_Singleton, FS_EmptySet
<1>2. Cardinality({"fail"} \cup {"bounce"}) = 2
  <2>1. IsFiniteSet({"fail"}) /\ "bounce" \notin {"fail"}
    BY FS_Singleton
  <2>2. Cardinality({"fail"} \cup {"bounce"}) = Cardinality({"fail"}) + 1
    BY <2>1, FS_AddElement
  <2> QED BY <2>2, <1>1
<1>3. CASE p /\ q
  BY <1>2, <1>3 DEF One
<1>4. CASE p /\ ~q
  <2>1. {"fail"} \cup {} = {"fail"}
    OBVIOUS
  <2> QED BY <1>1, <1>4, <2>1 DEF One
<1>5. CASE ~p /\ q
  <2>1. {} \cup {"bounce"} = {"bounce"}
    OBVIOUS
  <2> QED BY <1>1, <1>5, <2>1 DEF One
<1>6. CASE ~p /\ ~q
  <2>1. {} \cup {} = {}
    OBVIOUS
  <2> QED BY <1>1, <1>6, <2>1 DEF One
<1> QED BY <1>3, <1>4, <1>5, <1>6

LEMMA FinishAllRest ==
    ASSUME IInv, NEW f \in File, NEW fail \in BOOLEAN, NEW success \in BOOLEAN,
           at[f]["main"] = "send", success => at[f]["late"] = "none",
           FinishAll(f, fail, success), UNCHANGED <<todo, child, txn, acked>>
    PROVE  Rest'
<1>1. TypeOK /\ UNCHANGED <<disk, todo, piece, child, txn, acked, fate>>
  BY DEF IInv, FinishAll
<1>2. /\ at'[f]["main"] \in {"bounce", "defer"}
      /\ at'[f]["late"] = IF success THEN "delivered" ELSE at[f]["late"]
      /\ \A g \in File, u \in Strand : g # f \/ u \notin {"main", "late"} => at'[g][u] = at[g][u]
  BY <1>1 DEF FinishAll, TypeOK, Strand, AfterTempFail
<1>3. /\ at'[f]["main"] = "defer" => tries'[f] < MaxTries
      /\ \A g \in File \ {f} : tries'[g] = tries[g]
  <2>1. CASE fail
    <3>1. tries'[f] = tries[f] + 1 /\ \A g \in File \ {f} : tries'[g] = tries[g]
      BY <1>1, <2>1 DEF FinishAll, TempFails, TypeOK
    <3>2. at'[f]["main"] = AfterTempFail(tries[f])
      BY <1>1, <2>1 DEF FinishAll, TypeOK, Strand
    <3>3. tries[f] \in Int /\ MaxTries \in Int
      BY <1>1, ConstAssumption DEF TypeOK
    <3> QED BY <3>1, <3>2, <3>3 DEF AfterTempFail
  <2>2. CASE ~fail
    BY <1>1, <2>2 DEF FinishAll, TypeOK, Strand
  <2> QED BY <2>1, <2>2
<1>4. refs'[f] = refs[f] + One(success) /\ \A g \in File \ {f} : refs'[g] = refs[g]
  BY <1>1 DEF FinishAll, One, TypeOK
<1>5. Form(f) /\ Fresh(f) /\ Exact(f) /\ disk[f] # NoFile
  <2>1. Form(f) /\ Fresh(f)
    BY DEF IInv, Shape
  <2>2. disk[f] # NoFile
    BY <2>1 DEF Fresh, Young
  <2> QED BY <2>1, <2>2, YoungExact
<1>6. Shape'
  <2> SUFFICES ASSUME NEW g \in File PROVE Form(g)' /\ Fresh(g)'
    BY DEF Shape
  <2>1. CASE g # f
    BY <1>1, <1>2, <1>3, <2>1 DEF IInv, Shape, Form, Fresh, Strand, Splits, Second
  <2>2. CASE g = f
    <3>1. Form(f)'
      BY <1>1, <1>2, <1>5 DEF Form, Strand, Splits, Second
    <3>2. Fresh(f)'
      BY <1>1, <1>2, <1>3, <1>5 DEF Fresh, Young
    <3> QED BY <2>2, <3>1, <3>2
  <2> QED BY <2>1, <2>2
<1>7. Children'
  <2> SUFFICES ASSUME NEW g \in File, NEW u \in Strand, Parent(g, u)'
               PROVE  Parent(g, u) /\ ChildOf(g, u, child[g][u])'
    BY <1>1 DEF IInv, Children
  <2>1. g # f /\ at'[g][u] = at[g][u] /\ Parent(g, u)
    BY <1>2, <1>5 DEF Parent, Form, Strand, Splits, Second
  <2>2. ChildOf(g, u, child[g][u])
    BY <2>1 DEF IInv, Children
  <2>3. child[g][u] # f
    BY <2>1, <2>2 DEF ChildOf, Parent
  <2> QED BY <2>1, <2>2, <2>3, <1>1, <1>2 DEF ChildOf, Strand
<1>8. Submitted'
  <2> SUFFICES ASSUME NEW t \in Txn, NEW i \in DOMAIN txn[t].files
               PROVE  Wrote(t, i, txn[t].files[i])'
    BY <1>1 DEF IInv, Submitted
  <2>1. Wrote(t, i, txn[t].files[i])
    BY DEF IInv, Submitted
  <2> QED BY <2>1, <1>1, <1>2 DEF Wrote, Strand
<1>9. \A r : Reported(r) => Reported(r)'
  BY <1>1, <1>2 DEF Reported, Whole, Strand
<1>10. Counted'
  <2>1. Exact(f)'
    BY <1>2, <1>4, <1>5 DEF Exact, Primary, One, Form, Strand, Splits, Second
  <2> SUFFICES ASSUME NEW g \in File \ {f}, disk'[g] # NoFile
               PROVE  Exact(g)' \/ SettledElsewhere(g)'
    BY <2>1 DEF Counted
  <2>2. \A u \in Strand : at'[g][u] = at[g][u]
    BY <1>2
  <2>3. ASSUME Exact(g) PROVE Exact(g)'
    BY <1>4, <2>2, <2>3 DEF Exact, Primary, Strand, Splits, Second
  <2>4. ASSUME SettledElsewhere(g) PROVE SettledElsewhere(g)'
    BY <1>1, <1>9, <2>2, <2>4 DEF SettledElsewhere, Strand
  <2> QED BY <1>1, <2>3, <2>4 DEF IInv, Counted
<1>11. Owed'
  <2>1. \A g \in File, u \in Strand : \A r : Owns(g, u, r) => Owns(g, u, r)'
    BY <1>1, <1>2, <1>5 DEF Owns, Whole, Form, Splits, Strand
  <2> QED BY <1>1, <2>1 DEF IInv, Owed
<1>12. Gone'
  <2>1. \A g \in File : disk[g] = NoFile => g # f
    BY <1>5
  <2> QED BY <1>1, <1>2, <1>9, <2>1 DEF IInv, Gone
<1> QED BY <1>6, <1>7, <1>8, <1>10, <1>11, <1>12 DEF Rest

\* What FinishMail says of the four lists.
Lists(f, ok, fail, bounced, skipped) ==
    /\ ok \in SUBSET todo[f].rcpts /\ fail \in SUBSET todo[f].rcpts
    /\ bounced \in SUBSET todo[f].rcpts
    /\ skipped = todo[f].rcpts \ (ok \cup fail \cup bounced)
    /\ todo[f].null => todo[f].rcpts \in {ok, skipped}

LEMMA FinishSomeRest ==
    ASSUME IInv, NEW f \in File, NEW ok, NEW fail, NEW bounced, NEW skipped,
           at[f]["main"] = "send", Lists(f, ok, fail, bounced, skipped),
           todo[f].rcpts \notin {fail, bounced},
           ok \cap fail = {} /\ ok \cap bounced = {},
           FinishSome(f, ok, fail, bounced, skipped), UNCHANGED <<todo, child, txn, acked>>
    PROVE  Rest'
<1>1. TypeOK /\ UNCHANGED <<todo, child, tries, txn, acked>>
  BY DEF IInv, FinishSome
<1>2. PICK splits : splits = (IF fail # {} THEN {"fail"} ELSE {}) \cup
                             (IF bounced # {} THEN {"bounce"} ELSE {})
  OBVIOUS
<1>3. /\ at'[f]["main"] = IF ok # {} THEN "delivered" ELSE "none"
      /\ \A u \in Strand \ {"main"} : at'[f][u] = IF u \in splits THEN "split" ELSE at[f][u]
      /\ \A g \in File, u \in Strand : g # f => at'[g][u] = at[g][u]
  BY <1>1, <1>2 DEF FinishSome, TypeOK, Strand
<1>4. /\ piece'[f]["fail"] = fail /\ piece'[f]["bounce"] = bounced
      /\ \A g \in File, u \in Splits : g # f => piece'[g][u] = piece[g][u]
  BY <1>1 DEF FinishSome, TypeOK, Splits
<1>5. Form(f) /\ Fresh(f) /\ Exact(f) /\ disk[f] # NoFile
  <2>1. Form(f) /\ Fresh(f)
    BY DEF IInv, Shape
  <2>2. disk[f] # NoFile
    BY <2>1 DEF Fresh, Young
  <2> QED BY <2>1, <2>2, YoungExact
<1>6. /\ \A r \in ok \cup skipped : fate'[r] # {}
      /\ \A r \in Rcpt : fate[r] # {} => fate'[r] # {}
  <2>1. todo[f].rcpts \subseteq Rcpt
    BY <1>1 DEF TypeOK, Todo
  <2>2. \A r \in Rcpt : fate'[r] = IF r \in skipped THEN fate[r] \cup {"skipped"}
                                   ELSE Taken(f, ok)[r]
    BY DEF FinishSome
  <2>3. ASSUME NEW r \in Rcpt
        PROVE  /\ r \in ok => Taken(f, ok)[r] # {}
               /\ r \notin ok => Taken(f, ok)[r] = fate[r]
               /\ fate[r] \subseteq Taken(f, ok)[r]
    BY DEF Taken, Ended
  <2> QED BY <2>1, <2>2, <2>3 DEF Lists
<1>7. CASE ok = {} /\ splits = {}
  <2>1. fail = {} /\ bounced = {} /\ skipped = todo[f].rcpts
    BY <1>2, <1>7 DEF Lists
  <2>2. Discard(f)
    BY <1>2, <1>7 DEF FinishSome
  <2>3. /\ refs' = [refs EXCEPT ![f] = @ - 1]
        /\ \A g \in File : disk'[g] = IF g = f /\ refs[f] = 1 THEN NoFile ELSE disk[g]
    BY <1>1, <2>2 DEF Discard, TypeOK
  <2>4. \A g \in File, u \in Splits : at[g][u] = "split" => piece'[g][u] = piece[g][u]
    BY <1>4, <1>5 DEF Form, Splits, Second
  <2>5. \A g \in File, u \in Strand : g # f \/ u # "main" => at'[g][u] = at[g][u]
    BY <1>3, <1>7
  <2>6. ~Parent(f, "main") /\ "main" \in Strand /\ at'[f]["main"] = "none"
    BY <1>3, <1>7 DEF Parent, Strand
  <2>7. Ends(f, "main")
    BY <1>1, <1>6, <2>1, <2>3, <2>4, <2>5, <2>6 DEF Ends
  <2> QED BY <2>6, <2>7, StrandEnds
<1>8. CASE ~(ok = {} /\ splits = {})
  <2>1. disk' = disk /\ refs' = [refs EXCEPT ![f] =
                               @ + Cardinality(splits) - (IF ok = {} THEN 1 ELSE 0)]
    BY <1>2, <1>8 DEF FinishSome
  <2>2. Cardinality(splits) = One(fail # {}) + One(bounced # {})
    <3>1. (fail # {}) \in BOOLEAN /\ (bounced # {}) \in BOOLEAN
      OBVIOUS
    <3> QED BY <1>2, <3>1, SplitsCount
  <2>3. /\ refs'[f] = refs[f] + One(fail # {}) + One(bounced # {}) - One(ok = {})
        /\ \A g \in File \ {f} : refs'[g] = refs[g]
    BY <1>1, <2>1, <2>2 DEF One, TypeOK
  <2>4. /\ "fail" \in splits <=> fail # {}
        /\ "bounce" \in splits <=> bounced # {}
        /\ splits \subseteq Splits
    BY <1>2 DEF Splits
  <2>5. todo[f].null => fail = {} /\ bounced = {}
    BY DEF Lists
  <2>6. Shape'
    <3> SUFFICES ASSUME NEW g \in File PROVE Form(g)' /\ Fresh(g)'
      BY DEF Shape
    <3>1. CASE g # f
      BY <1>1, <1>3, <2>1, <3>1 DEF IInv, Shape, Form, Fresh, Strand, Splits, Second
    <3>2. CASE g = f
      <4>1. Form(f)'
        BY <1>1, <1>3, <1>5, <2>4, <2>5 DEF Form, Strand, Splits, Second
      <4>2. Fresh(f)'
        BY <1>1, <1>3, <1>5, <2>1 DEF Fresh, Young
      <4> QED BY <3>2, <4>1, <4>2
    <3> QED BY <3>1, <3>2
  <2>7. Children'
    <3> SUFFICES ASSUME NEW g \in File, NEW u \in Strand, Parent(g, u)'
                 PROVE  Parent(g, u) /\ ChildOf(g, u, child[g][u])'
      BY <1>1 DEF IInv, Children
    <3>1. g # f /\ at'[g][u] = at[g][u] /\ Parent(g, u)
      BY <1>3, <1>5, <2>4 DEF Parent, Form, Strand, Splits, Second
    <3>2. ChildOf(g, u, child[g][u])
      BY <3>1 DEF IInv, Children
    <3>3. child[g][u] # f
      BY <3>1, <3>2 DEF ChildOf, Parent
    <3> QED BY <3>1, <3>2, <3>3, <1>1, <1>3, <2>1 DEF ChildOf, Strand
  <2>8. Submitted'
    <3> SUFFICES ASSUME NEW t \in Txn, NEW i \in DOMAIN txn[t].files
                 PROVE  Wrote(t, i, txn[t].files[i])'
      BY <1>1 DEF IInv, Submitted
    <3>1. Wrote(t, i, txn[t].files[i])
      BY DEF IInv, Submitted
    <3> QED BY <3>1, <1>1, <1>3, <2>1 DEF Wrote, Strand
  <2>9. ASSUME NEW r \in Rcpt, Reported(r) PROVE Reported(r)'
    <3>1. CASE fate[r] # {}
      BY <1>6, <3>1 DEF Reported
    <3>2. CASE todo[f].null /\ r \in todo[f].rcpts
      BY <1>6, <3>2 DEF Reported, Lists
    <3>3. CASE fate[r] = {} /\ ~(todo[f].null /\ r \in todo[f].rcpts)
      BY <1>1, <1>3, <2>1, <2>9, <3>3 DEF Reported, Strand
    <3> QED BY <3>1, <3>2, <3>3
  <2>10. Counted'
    <3>1. Exact(f)'
      <4>1. /\ at'[f]["fail"] # "none" <=> fail # {}
            /\ at'[f]["bounce"] # "none" <=> bounced # {}
            /\ at'[f]["late"] = at[f]["late"]
            /\ \A u \in Splits : at'[f][Second(u)] = "none" /\ at[f][u] = "none"
        BY <1>3, <1>5, <2>4 DEF Form, Strand, Splits, Second
      <4>2. Primary(f) = 1 + One(at[f]["late"] # "none")
        BY <4>1 DEF Primary, One, Splits
      <4>3. Primary(f)' = One(ok # {}) + One(at[f]["late"] # "none") + One(fail # {}) + One(bounced # {})
        BY <1>3, <4>1 DEF Primary, One
      <4>4. refs'[f] = Primary(f)'
        BY <1>5, <2>3, <4>2, <4>3 DEF Exact, One
      <4> QED BY <4>1, <4>4 DEF Exact
    <3> SUFFICES ASSUME NEW g \in File \ {f}, disk'[g] # NoFile
                 PROVE  Exact(g)' \/ SettledElsewhere(g)'
      BY <3>1 DEF Counted
    <3>2. \A u \in Strand : at'[g][u] = at[g][u]
      BY <1>3
    <3>3. ASSUME Exact(g) PROVE Exact(g)'
      BY <2>3, <3>2, <3>3 DEF Exact, Primary, Strand, Splits, Second
    <3>4. ASSUME SettledElsewhere(g) PROVE SettledElsewhere(g)'
      <4>1. todo[g].rcpts \subseteq Rcpt
        BY <1>1 DEF TypeOK, Todo
      <4> QED BY <1>1, <2>9, <3>2, <3>4, <4>1 DEF SettledElsewhere, Strand
    <3> QED BY <2>1, <3>3, <3>4 DEF IInv, Counted
  <2>11. Owed'
    <3> SUFFICES ASSUME NEW r \in acked, fate'[r] = {}, NEW g \in File, NEW u \in Strand,
                        Owns(g, u, r)
                 PROVE  \E h \in File, v \in Strand : Owns(h, v, r)'
      BY <1>1, <1>6 DEF IInv, Owed, TypeOK
    <3>1. CASE g # f
      BY <1>1, <1>3, <1>4, <2>1, <3>1 DEF Owns
    <3>2. CASE g = f
      <4>1. r \in fail \cup bounced
        BY <1>6, <3>2 DEF Lists, Owns
      <4>2. PICK v \in splits : r \in piece'[f][v]
        BY <1>4, <2>4, <4>1
      <4>3. at'[f][v] = "split" /\ v \in Splits /\ v \in Strand
        BY <1>3, <2>4 DEF Splits, Strand
      <4> QED BY <1>1, <1>5, <2>1, <3>2, <4>2, <4>3 DEF Owns
    <3> QED BY <3>1, <3>2
  <2>12. Gone'
    <3> SUFFICES ASSUME NEW g \in File, NEW u \in Strand, disk'[g] = NoFile, at'[g][u] # "none",
                        NEW r \in todo[g].rcpts
                 PROVE  Reported(r)'
      BY <1>1 DEF Gone
    <3>1. g # f /\ disk[g] = NoFile
      BY <1>5, <2>1
    <3>2. at[g][u] # "none"
      BY <1>3, <3>1
    <3>3. r \in Rcpt
      BY <1>1 DEF TypeOK, Todo
    <3> QED BY <2>9, <3>1, <3>2, <3>3 DEF IInv, Gone
  <2> QED BY <2>6, <2>7, <2>8, <2>10, <2>11, <2>12 DEF Rest
<1> QED BY <1>7, <1>8

-----------------------------------------------------------------------------
\* A restart: whatever a file was waiting for, it is listed now.
LEMMA RestartRest ==
    ASSUME IInv, Restart
    PROVE  Rest'
<1>1. TypeOK /\ UNCHANGED <<disk, todo, acked, fate>>
  BY DEF IInv, Restart
<1>2. \A f \in File : /\ at'[f]["main"] = IF disk[f] # NoFile THEN "listed" ELSE "none"
                      /\ \A s \in Strand \ {"main"} : at'[f][s] = "none"
                      /\ refs'[f] = 1
                      /\ tries'[f] = IF disk[f] = NoFile THEN 0 ELSE disk[f]
  BY DEF Restart, Strand
<1>3. \A t \in Txn : txn'[t].st # "open" /\ txn'[t].files = <<>>
  BY <1>1 DEF Restart, IInv, Submitted
<1>4. Shape'
  <2> SUFFICES ASSUME NEW f \in File PROVE Form(f)' /\ Fresh(f)'
    BY DEF Shape
  <2>1. Form(f)'
    BY <1>2 DEF Form, Strand, Splits, Second
  <2>2. disk[f] < MaxTries
    BY DEF IInv, Shape, Fresh
  <2>3. Fresh(f)'
    BY <1>1, <1>2, <2>2 DEF Fresh, Young
  <2> QED BY <2>1, <2>3
<1>5. Children'
  BY <1>2 DEF Children, Parent
<1>6. Submitted'
  BY <1>3 DEF Submitted
<1>7. Counted'
  BY <1>1, <1>2 DEF Counted, Exact, Primary, One, Strand, Splits, Second
<1>8. Owed'
  <2>1. \A f \in File, s \in Strand : \A r : Owns(f, s, r) => Owns(f, "main", r)'
    BY <1>1, <1>2 DEF Owns, Whole
  <2>2. "main" \in Strand
    BY DEF Strand
  <2> QED BY <1>1, <2>1, <2>2 DEF IInv, Owed
<1>9. Gone'
  BY <1>1, <1>2 DEF Gone
<1> QED BY <1>4, <1>5, <1>6, <1>7, <1>8, <1>9 DEF Rest

-----------------------------------------------------------------------------
\* Type correctness: first what the helpers do, then action by action.

LEMMA NextCbType ==
    ASSUME TypeOK, NEW f \in File, NextCb(f)
    PROVE  cb' \in [File -> {"dummy", "armed", "used"}] /\ thrown' \in BOOLEAN
  BY DEF TypeOK, NextCb

LEMMA DiscardType ==
    ASSUME TypeOK, NEW f \in File, Discard(f) \/ DoubleBounce(f)
    PROVE  /\ cb' \in [File -> {"dummy", "armed", "used"}] /\ thrown' \in BOOLEAN
           /\ disk' \in [File -> 0 .. MaxTries \cup {NoFile}]
           /\ refs' \in [File -> Int]
<1>1. cb' \in [File -> {"dummy", "armed", "used"}] /\ thrown' \in BOOLEAN
  <2>1. CASE NextCb(f)
    BY <2>1, NextCbType
  <2>2. CASE UNCHANGED <<cb, thrown>>
    BY <2>2 DEF TypeOK
  <2> QED BY <2>1, <2>2 DEF Discard, DoubleBounce
<1>2. disk' \in [File -> 0 .. MaxTries \cup {NoFile}]
  BY DEF TypeOK, Discard, DoubleBounce
<1>3. refs' \in [File -> Int]
  BY DEF TypeOK, Discard, DoubleBounce
<1> QED BY <1>1, <1>2, <1>3

LEMMA EndedType ==
    ASSUME TypeOK, NEW S, NEW how \in Fates
    PROVE  Ended(S, how) \in [Rcpt -> SUBSET Fates]
  BY DEF TypeOK, Ended

LEMMA GoesType ==
    ASSUME TypeOK, NEW f \in File, NEW s \in Strand, NEW w \in Waits, Goes(f, s, w)
    PROVE  at' \in [File -> [Strand -> Waits]]
  BY DEF TypeOK, Goes

LEMMA TempFailsType ==
    ASSUME TypeOK, NEW f \in File, tries[f] < MaxTries, TempFails(f)
    PROVE  tries' \in [File -> 0 .. MaxTries]
<1>1. tries[f] + 1 \in 0 .. MaxTries
  BY ConstAssumption DEF TypeOK
<1> QED BY <1>1 DEF TypeOK, TempFails

LEMMA MakeFileType ==
    ASSUME TypeOK, NEW g \in File, NEW rcpts \in SUBSET Rcpt, NEW null \in BOOLEAN,
           MakeFile(g, rcpts, null)
    PROVE  /\ disk' \in [File -> 0 .. MaxTries \cup {NoFile}]
           /\ todo' \in [File -> Todo]
           /\ refs' \in [File -> Int]
           /\ tries' \in [File -> 0 .. MaxTries]
           /\ cb' \in [File -> {"dummy", "armed", "used"}]
<1>1. 0 \in 0 .. MaxTries /\ [rcpts |-> rcpts, null |-> null] \in Todo
  BY ConstAssumption DEF Todo
<1> QED BY <1>1 DEF TypeOK, MakeFile

LEMMA SubmissionType ==
    ASSUME IInv, NEW t \in Txn, WriteFile(t) \/ WriteFails(t) \/ Acknowledge(t)
    PROVE  TypeOK'
<1>0. TypeOK /\ Deliveries[t] \in Seq((SUBSET Rcpt) \ {{}})
  BY ConstAssumption DEF IInv
<1>1. CASE WriteFile(t)
  <2>1. PICK n : n = Len(txn[t].files) + 1
    OBVIOUS
  <2>2. PICK g \in File : /\ MakeFile(g, Deliveries[t][n], FALSE)
                         /\ Goes(g, "main", "held")
                         /\ txn' = [txn EXCEPT ![t].files = Append(@, g)]
    BY <1>1, <2>1 DEF WriteFile
  <2>3. Deliveries[t][n] \in SUBSET Rcpt
    <3>1. txn[t].files \in Seq(File)
      BY <1>0 DEF TypeOK
    <3>2. Len(Deliveries[t]) - Len(txn[t].files) > 0
      BY <1>1 DEF WriteFile, Left
    <3>3. Len(txn[t].files) \in Nat /\ Len(Deliveries[t]) \in Nat
      BY <1>0, <3>1
    <3>4. \A a, b \in Nat : a - b > 0 => b + 1 \in 1 .. a
      OBVIOUS
    <3>5. n \in 1 .. Len(Deliveries[t])
      BY <2>1, <3>2, <3>3, <3>4
    <3>6. Deliveries[t][n] \in (SUBSET Rcpt) \ {{}}
      BY <1>0, <3>5
    <3> QED BY <3>6
  <2>4. at' \in [File -> [Strand -> Waits]]
    <3>1. "main" \in Strand /\ "held" \in Waits
      BY DEF Strand, Waits
    <3> QED BY <1>0, <2>2, <3>1, GoesType
  <2>5. txn' \in [Txn -> [st : {"open", "acked", "refused", "cut"}, files : Seq(File)]]
    <3>1. txn[t].files \in Seq(File) /\ txn[t].st \in {"open", "acked", "refused", "cut"}
      BY <1>0 DEF TypeOK
    <3>2. Append(txn[t].files, g) \in Seq(File)
      BY <3>1
    <3> QED BY <1>0, <2>2, <3>2 DEF TypeOK
  <2>6. /\ disk' \in [File -> 0 .. MaxTries \cup {NoFile}]
        /\ todo' \in [File -> Todo]
        /\ refs' \in [File -> Int]
        /\ tries' \in [File -> 0 .. MaxTries]
        /\ cb' \in [File -> {"dummy", "armed", "used"}]
    BY <1>0, <2>2, <2>3, MakeFileType
  <2> QED BY <1>0, <1>1, <2>4, <2>5, <2>6 DEF WriteFile, TypeOK
<1>2. CASE WriteFails(t)
  <2>1. "none" \in Waits
    BY DEF Waits
  <2>2. at' \in [File -> [Strand -> Waits]]
    BY <1>0, <1>2, <2>1 DEF WriteFails, TypeOK
  <2>3. disk' \in [File -> 0 .. MaxTries \cup {NoFile}]
    BY <1>0, <1>2 DEF WriteFails, TypeOK
  <2>4. txn' \in [Txn -> [st : {"open", "acked", "refused", "cut"}, files : Seq(File)]]
    BY <1>0, <1>2 DEF WriteFails, TypeOK
  <2>5. torn' \in BOOLEAN
    BY <1>0, <1>2 DEF WriteFails, CannotWrite, TypeOK
  <2> QED BY <1>0, <1>2, <2>2, <2>3, <2>4, <2>5 DEF WriteFails, TypeOK
<1>3. CASE Acknowledge(t)
  <2>1. "queued" \in Waits
    BY DEF Waits
  <2>2. at' \in [File -> [Strand -> Waits]]
    BY <1>0, <1>3, <2>1 DEF Acknowledge, TypeOK
  <2>3. txn' \in [Txn -> [st : {"open", "acked", "refused", "cut"}, files : Seq(File)]]
    BY <1>0, <1>3 DEF Acknowledge, TypeOK
  <2>4. acked' \subseteq Rcpt
    <3>1. \A S \in ToSet(Deliveries[t]) : S \subseteq Rcpt
      BY <1>0 DEF ToSet
    <3> QED BY <1>0, <1>3, <3>1 DEF Acknowledge, TypeOK
  <2> QED BY <1>0, <1>3, <2>2, <2>3, <2>4 DEF Acknowledge, TypeOK
<1> QED BY <1>1, <1>2, <1>3

LEMMA AfterTempFailWaits ==
    ASSUME NEW n PROVE AfterTempFail(n) \in Waits
  BY DEF AfterTempFail, Waits

LEMMA SendingType ==
    ASSUME IInv, NEW f \in File,
           \/ Load(f) \/ TimerFires(f) \/ Dispatch(f) \/ DelayRespond(f)
           \/ SendTempFails(f) \/ SendBounces(f)
           \/ DeferredRespond(f) \/ Renamed(f) \/ RenameFails(f)
    PROVE  TypeOK'
<1>0. /\ TypeOK /\ "main" \in Strand
      /\ {"queued", "timed", "send", "bounce", "rename", "none"} \subseteq Waits
      /\ at[f]["main"] \in Young => tries[f] < MaxTries
  BY DEF IInv, Strand, Waits, Shape, Fresh
<1>1. CASE Load(f) \/ TimerFires(f)
  <2>1. at' \in [File -> [Strand -> Waits]]
    BY <1>0, <1>1, GoesType DEF Load, TimerFires
  <2> QED BY <1>0, <1>1, <2>1 DEF Load, TimerFires, TypeOK
<1>2. CASE Dispatch(f)
  <2>1. at' \in [File -> [Strand -> Waits]]
    BY <1>0, <1>2, GoesType DEF Dispatch
  <2>2. cb' \in [File -> {"dummy", "armed", "used"}]
    BY <1>0, <1>2 DEF Dispatch, TypeOK
  <2> QED BY <1>0, <1>2, <2>1, <2>2 DEF Dispatch, TypeOK
<1>3. CASE DelayRespond(f)
  <2>1. at' \in [File -> [Strand -> Waits]]
    BY <1>0, <1>3, GoesType DEF DelayRespond
  <2>2. cb' \in [File -> {"dummy", "armed", "used"}] /\ thrown' \in BOOLEAN
    BY <1>0, <1>3, NextCbType DEF DelayRespond
  <2>3. delays' \in 0 .. MaxDelays
    BY <1>0, <1>3, ConstAssumption DEF DelayRespond, TypeOK
  <2> QED BY <1>0, <1>3, <2>1, <2>2, <2>3 DEF DelayRespond, TypeOK
<1>4. CASE SendTempFails(f)
  <2>1. at' \in [File -> [Strand -> Waits]]
    BY <1>0, <1>4, GoesType, AfterTempFailWaits DEF SendTempFails
  <2>2. tries' \in [File -> 0 .. MaxTries]
    BY <1>0, <1>4, TempFailsType DEF SendTempFails, Young
  <2> QED BY <1>0, <1>4, <2>1, <2>2 DEF SendTempFails, TypeOK
<1>5. CASE SendBounces(f) \/ RenameFails(f)
  <2>1. at' \in [File -> [Strand -> Waits]]
    BY <1>0, <1>5, GoesType DEF SendBounces, RenameFails
  <2> QED BY <1>0, <1>5, <2>1 DEF SendBounces, RenameFails, TypeOK
<1>6. CASE DeferredRespond(f)
  <2>1. at' \in [File -> [Strand -> Waits]]
    BY <1>0, <1>6, GoesType DEF DeferredRespond
  <2>2. CASE Discard(f) /\ fate' = Ended(todo[f].rcpts, "dropped")
    <3>1. fate' \in [Rcpt -> SUBSET Fates]
      BY <1>0, <2>2, EndedType DEF Fates
    <3>2. /\ cb' \in [File -> {"dummy", "armed", "used"}] /\ thrown' \in BOOLEAN
          /\ disk' \in [File -> 0 .. MaxTries \cup {NoFile}]
          /\ refs' \in [File -> Int]
      BY <1>0, <2>2, DiscardType
    <3> QED BY <1>0, <1>6, <2>1, <3>1, <3>2 DEF DeferredRespond, TypeOK
  <2>3. CASE UNCHANGED <<disk, refs, cb, fate, thrown>>
    BY <1>0, <1>6, <2>1, <2>3 DEF DeferredRespond, TypeOK
  <2> QED BY <1>6, <2>2, <2>3 DEF DeferredRespond
<1>7. CASE Renamed(f)
  <2>1. at' \in [File -> [Strand -> Waits]]
    BY <1>0, <1>7, GoesType DEF Renamed
  <2>2. cb' \in [File -> {"dummy", "armed", "used"}] /\ thrown' \in BOOLEAN
    BY <1>0, <1>7, NextCbType DEF Renamed
  <2>3. disk' \in [File -> 0 .. MaxTries \cup {NoFile}]
    BY <1>0, <1>7 DEF Renamed, TypeOK
  <2> QED BY <1>0, <1>7, <2>1, <2>2, <2>3 DEF Renamed, TypeOK
<1> QED BY <1>1, <1>2, <1>3, <1>4, <1>5, <1>6, <1>7

LEMMA EndingType ==
    ASSUME IInv, NEW f \in File, NEW s \in Strand,
           \/ DeliveredRespond(f, s) \/ BounceRespond(f, s) \/ PopulateFails(f, s)
           \/ NoticeWritten(f, s) \/ NoticeQueued(f, s) \/ NoticeFails(f, s)
    PROVE  TypeOK'
<1>0. /\ TypeOK /\ "main" \in Strand
      /\ {"queued", "notify", "noted", "held", "none"} \subseteq Waits
      /\ {"dropped", "logged", "unreported"} \subseteq Fates
  BY DEF IInv, Strand, Waits, Fates
<1>1. CASE (Discard(f) \/ DoubleBounce(f)) /\ ~NoticeWritten(f, s)
  <2>1. /\ cb' \in [File -> {"dummy", "armed", "used"}] /\ thrown' \in BOOLEAN
        /\ disk' \in [File -> 0 .. MaxTries \cup {NoFile}]
        /\ refs' \in [File -> Int]
    BY <1>0, <1>1, DiscardType
  <2>2. CASE NoticeQueued(f, s)
    <3>1. at' \in [File -> [Strand -> Waits]]
      BY <1>0, <2>2 DEF NoticeQueued, TypeOK
    <3>2. child' \in [File -> [Strand -> File \cup {NoFile}]]
      BY <1>0, <2>2 DEF NoticeQueued, TypeOK
    <3> QED BY <1>0, <2>1, <2>2, <3>1, <3>2 DEF NoticeQueued, TypeOK
  <2>3. CASE \/ DeliveredRespond(f, s) \/ PopulateFails(f, s) \/ NoticeFails(f, s)
    <3>1. at' \in [File -> [Strand -> Waits]]
      BY <1>0, <2>3, GoesType DEF DeliveredRespond, PopulateFails, NoticeFails
    <3>2. fate' \in [Rcpt -> SUBSET Fates]
      <4>1. CASE DeliveredRespond(f, s)
        BY <1>0, <4>1 DEF DeliveredRespond, TypeOK
      <4>2. CASE PopulateFails(f, s) \/ NoticeFails(f, s)
        BY <1>0, <4>2, EndedType DEF PopulateFails, NoticeFails
      <4> QED BY <2>3, <4>1, <4>2
    <3>3. torn' \in BOOLEAN
      BY <1>0, <2>3 DEF DeliveredRespond, PopulateFails, NoticeFails, CannotWrite, TypeOK
    <3> QED BY <1>0, <2>1, <2>3, <3>1, <3>2, <3>3 DEF DeliveredRespond, PopulateFails, NoticeFails, TypeOK
  <2>4. CASE BounceRespond(f, s)
    <3>1. at' \in [File -> [Strand -> Waits]]
      BY <1>0, <2>4, GoesType DEF BounceRespond
    <3>2. fate' \in [Rcpt -> SUBSET Fates]
      BY <1>0, <2>4, EndedType DEF BounceRespond, TypeOK
    <3> QED BY <1>0, <2>1, <2>4, <3>1, <3>2 DEF BounceRespond, TypeOK
  <2> QED BY <1>1, <2>2, <2>3, <2>4
<1>2. CASE BounceRespond(f, s) /\ ~(Discard(f) \/ DoubleBounce(f))
  <2>1. at' \in [File -> [Strand -> Waits]]
    BY <1>0, <1>2, GoesType DEF BounceRespond
  <2> QED BY <1>0, <1>2, <2>1 DEF BounceRespond, TypeOK
<1>3. CASE NoticeWritten(f, s)
  <2>1. PICK g \in File : /\ MakeFile(g, todo[f].rcpts, TRUE)
                         /\ at' = [at EXCEPT ![f][s] = "noted", ![g]["main"] = "held"]
                         /\ child' = [child EXCEPT ![f][s] = g]
    BY <1>3 DEF NoticeWritten
  <2>2. todo[f].rcpts \in SUBSET Rcpt
    BY <1>0 DEF TypeOK, Todo
  <2>3. /\ disk' \in [File -> 0 .. MaxTries \cup {NoFile}]
        /\ todo' \in [File -> Todo] /\ refs' \in [File -> Int]
        /\ tries' \in [File -> 0 .. MaxTries]
        /\ cb' \in [File -> {"dummy", "armed", "used"}]
    BY <1>0, <2>1, <2>2, MakeFileType
  <2>4. at' \in [File -> [Strand -> Waits]]
    BY <1>0, <2>1 DEF TypeOK
  <2>5. child' \in [File -> [Strand -> File \cup {NoFile}]]
    BY <1>0, <2>1 DEF TypeOK
  <2> QED BY <1>0, <1>3, <2>3, <2>4, <2>5 DEF NoticeWritten, TypeOK
<1> QED BY <1>1, <1>2, <1>3 DEF DeliveredRespond, PopulateFails, NoticeQueued, NoticeFails

LEMMA SplittingType ==
    ASSUME IInv, NEW f \in File, NEW s \in Splits,
           SplitWritten(f, s) \/ SplitReady(f, s) \/ SplitFails(f, s) \/ SplitWriteFails(f, s)
    PROVE  TypeOK'
<1>0. /\ TypeOK /\ s \in Strand /\ Second(s) \in Strand /\ "main" \in Strand
      /\ {"ready", "born", "bounce", "none"} \subseteq Waits
  BY DEF IInv, Splits, Strand, Second, Waits
<1>1. CASE SplitWritten(f, s)
  <2>1. PICK g \in File : /\ MakeFile(g, piece[f][s], todo[f].null)
                         /\ at' = [at EXCEPT ![f][s] = "ready", ![g]["main"] = "born"]
                         /\ child' = [child EXCEPT ![f][s] = g]
    BY <1>1 DEF SplitWritten
  <2>2. piece[f][s] \in SUBSET Rcpt /\ todo[f].null \in BOOLEAN
    BY <1>0 DEF TypeOK, Todo
  <2>3. /\ disk' \in [File -> 0 .. MaxTries \cup {NoFile}]
        /\ todo' \in [File -> Todo] /\ refs' \in [File -> Int]
        /\ tries' \in [File -> 0 .. MaxTries]
        /\ cb' \in [File -> {"dummy", "armed", "used"}]
    BY <1>0, <2>1, <2>2, MakeFileType
  <2>4. at' \in [File -> [Strand -> Waits]]
    BY <1>0, <2>1 DEF TypeOK
  <2>5. child' \in [File -> [Strand -> File \cup {NoFile}]]
    BY <1>0, <2>1 DEF TypeOK
  <2>6. piece' \in [File -> [Splits -> SUBSET Rcpt]]
    BY <1>0, <1>1 DEF SplitWritten, TypeOK
  <2> QED BY <1>0, <1>1, <2>3, <2>4, <2>5, <2>6 DEF SplitWritten, TypeOK
<1>2. CASE SplitReady(f, s)
  <2>1. PICK g : g = child[f][s]
    OBVIOUS
  <2>2. g \in File /\ tries[g] < MaxTries
    <3>1. ChildOf(f, s, g) /\ at[f][s] = "ready"
      BY <1>0, <1>2, <2>1 DEF IInv, Children, Parent, SplitReady
    <3> QED BY <3>1 DEF ChildOf, IInv, Shape, Fresh, Young
  <2>3. /\ cb' \in [File -> {"dummy", "armed", "used"}] /\ thrown' \in BOOLEAN
        /\ disk' \in [File -> 0 .. MaxTries \cup {NoFile}]
        /\ refs' \in [File -> Int]
    BY <1>0, <1>2, DiscardType DEF SplitReady
  <2>4. tries' \in [File -> 0 .. MaxTries]
    <3>1. CASE TempFails(g)
      BY <1>0, <2>2, <3>1, TempFailsType
    <3>2. CASE UNCHANGED tries
      BY <1>0, <3>2 DEF TypeOK
    <3> QED BY <1>2, <2>1, <3>1, <3>2 DEF SplitReady
  <2>5. at' \in [File -> [Strand -> Waits]]
    <3>1. AfterTempFail(tries[g]) \in Waits
      BY AfterTempFailWaits
    <3>2. PICK w \in Waits : at' = [at EXCEPT ![f][s] = "none", ![g]["main"] = w]
      BY <1>0, <1>2, <2>1, <3>1 DEF SplitReady
    <3> QED BY <1>0, <2>2, <3>2 DEF TypeOK
  <2>6. child' \in [File -> [Strand -> File \cup {NoFile}]]
    BY <1>0, <1>2 DEF SplitReady, TypeOK
  <2> QED BY <1>0, <1>2, <2>3, <2>4, <2>5, <2>6 DEF SplitReady, TypeOK
<1>3. CASE SplitFails(f, s) \/ SplitWriteFails(f, s)
  <2>1. piece' = [piece EXCEPT ![f][s] = {}]
    BY <1>3 DEF SplitFails, SplitWriteFails
  <2>2. piece' \in [File -> [Splits -> SUBSET Rcpt]]
    BY <1>0, <2>1 DEF TypeOK
  <2>3. \/ at' = [at EXCEPT ![f][s] = "bounce"]
        \/ at' = [at EXCEPT ![f][s] = "bounce", ![f][Second(s)] = "bounce"]
    BY <1>3 DEF SplitFails, SplitWriteFails, Goes
  <2>4. at' \in [File -> [Strand -> Waits]]
    <3>1. CASE at' = [at EXCEPT ![f][s] = "bounce"]
      BY <1>0, <3>1 DEF TypeOK
    <3>2. CASE at' = [at EXCEPT ![f][s] = "bounce", ![f][Second(s)] = "bounce"]
      BY <1>0, <3>2 DEF TypeOK
    <3> QED BY <2>3, <3>1, <3>2
  <2> QED BY <1>0, <1>3, <2>2, <2>4 DEF SplitFails, SplitWriteFails, TypeOK
<1> QED BY <1>1, <1>2, <1>3

LEMMA RestartType ==
    ASSUME IInv, Restart
    PROVE  TypeOK'
<1>0. /\ TypeOK /\ {"listed", "none"} \subseteq Waits
      /\ MaxTries \in Nat /\ MaxRestarts \in Nat
  BY ConstAssumption DEF IInv, Waits
<1>1. at' \in [File -> [Strand -> Waits]]
  BY <1>0 DEF Restart
<1>2. piece' \in [File -> [Splits -> SUBSET Rcpt]] /\ child' \in [File -> [Strand -> File \cup {NoFile}]]
  BY DEF Restart
<1>3. /\ refs' \in [File -> Int]
      /\ cb' \in [File -> {"dummy", "armed", "used"}]
      /\ thrown' \in BOOLEAN
  <2>1. refs' = [f \in File |-> 1] /\ 1 \in Int
    BY DEF Restart
  <2>2. cb' = [f \in File |-> "dummy"] /\ thrown' = FALSE
    BY DEF Restart
  <2>3. refs' \in [File -> Int]
    BY <2>1
  <2> QED BY <2>2, <2>3
<1>4. tries' \in [File -> 0 .. MaxTries]
  BY <1>0 DEF Restart, TypeOK
<1>5. txn' \in [Txn -> [st : {"open", "acked", "refused", "cut"}, files : Seq(File)]]
  BY <1>0 DEF Restart, TypeOK
<1>6. restarts' \in 0 .. MaxRestarts
  BY <1>0 DEF Restart, TypeOK
<1> QED BY <1>0, <1>1, <1>2, <1>3, <1>4, <1>5, <1>6 DEF Restart, TypeOK

LEMMA FinishType ==
    ASSUME IInv, NEW f \in File, FinishMail(f)
    PROVE  TypeOK'
<1>0. /\ TypeOK /\ "main" \in Strand /\ "late" \in Strand
      /\ {"split", "bounce", "delivered", "none"} \subseteq Waits
      /\ {"skipped", "notified", "redelivered", "delivered"} \subseteq Fates
      /\ tries[f] < MaxTries
  BY DEF IInv, Strand, Waits, Fates, Shape, Fresh, FinishMail, Young
<1>1. PICK ok \in SUBSET todo[f].rcpts, fail \in SUBSET todo[f].rcpts,
           bounced \in SUBSET todo[f].rcpts, skipped \in SUBSET todo[f].rcpts :
         \/ \E success \in BOOLEAN : FinishAll(f, todo[f].rcpts = fail, success)
         \/ FinishSome(f, ok, fail, bounced, skipped)
  BY SMTT(30) DEF FinishMail
<1>2. UNCHANGED <<todo, child, txn, acked, torn, restarts, delays>>
  BY DEF FinishMail
<1>3. todo[f].rcpts \subseteq Rcpt
  BY <1>0 DEF TypeOK, Todo
<1>4. ASSUME NEW all \in BOOLEAN, NEW success \in BOOLEAN, FinishAll(f, all, success)
      PROVE  TypeOK'
  <2>1. tries' \in [File -> 0 .. MaxTries]
    <3>1. CASE all
      BY <1>0, <1>4, <3>1, TempFailsType DEF FinishAll
    <3>2. CASE ~all
      BY <1>0, <1>4, <3>2 DEF FinishAll, TypeOK
    <3> QED BY <3>1, <3>2
  <2>2. at' \in [File -> [Strand -> Waits]]
    <3>1. AfterTempFail(tries[f]) \in Waits /\ at[f]["late"] \in Waits
      BY <1>0, AfterTempFailWaits DEF TypeOK
    <3>2. PICK v \in Waits, w \in Waits : at' = [at EXCEPT ![f]["main"] = v, ![f]["late"] = w]
      BY <1>0, <1>4, <3>1 DEF FinishAll, TypeOK
    <3> QED BY <1>0, <3>2 DEF TypeOK
  <2>3. refs' \in [File -> Int]
    BY <1>0, <1>4 DEF FinishAll, TypeOK
  <2> QED BY <1>0, <1>2, <1>4, <2>1, <2>2, <2>3 DEF FinishAll, TypeOK
<1>5. ASSUME FinishSome(f, ok, fail, bounced, skipped)
      PROVE  TypeOK'
  <2>1. at' \in [File -> [Strand -> Waits]]
    BY <1>0, <1>5 DEF FinishSome, TypeOK
  <2>2. piece' \in [File -> [Splits -> SUBSET Rcpt]]
    BY <1>0, <1>3, <1>5 DEF FinishSome, TypeOK
  <2>3. fate' \in [Rcpt -> SUBSET Fates]
    <3>1. Taken(f, ok) \in [Rcpt -> SUBSET Fates]
      BY <1>0, EndedType DEF Taken, TypeOK
    <3> QED BY <1>0, <1>5, <3>1 DEF FinishSome, TypeOK
  <2>4. /\ disk' \in [File -> 0 .. MaxTries \cup {NoFile}]
        /\ refs' \in [File -> Int]
        /\ cb' \in [File -> {"dummy", "armed", "used"}] /\ thrown' \in BOOLEAN
    <3>1. CASE Discard(f)
      BY <1>0, <3>1, DiscardType
    <3>2. PICK splits : splits = (IF fail # {} THEN {"fail"} ELSE {}) \cup
                                 (IF bounced # {} THEN {"bounce"} ELSE {})
      OBVIOUS
    <3>3. CASE /\ UNCHANGED <<disk, cb, thrown>>
               /\ refs' = [refs EXCEPT ![f] =
                             @ + Cardinality(splits) - (IF ok = {} THEN 1 ELSE 0)]
      <4>1. Cardinality(splits) \in Int
        <5>1. (fail # {}) \in BOOLEAN /\ (bounced # {}) \in BOOLEAN
          OBVIOUS
        <5>2. Cardinality(splits) = One(fail # {}) + One(bounced # {})
          BY <3>2, <5>1, SplitsCount
        <5> QED BY <5>2 DEF One
      <4> QED BY <1>0, <3>3, <4>1 DEF TypeOK
    <3> QED BY <1>5, <3>1, <3>2, <3>3 DEF FinishSome
  <2> QED BY <1>0, <1>2, <1>5, <2>1, <2>2, <2>3, <2>4 DEF FinishSome, TypeOK
<1> QED BY <1>1, <1>4, <1>5

-----------------------------------------------------------------------------
\* The other parts for the remaining actions: each is an instance of Moves,
\* Ends, Bounces or Makes.

LEMMA GoesPoints ==
    ASSUME TypeOK, NEW f \in File, NEW s \in Strand, NEW w, Goes(f, s, w)
    PROVE  /\ at'[f][s] = w
           /\ \A g \in File, u \in Strand : g # f \/ u # s => at'[g][u] = at[g][u]
  BY DEF TypeOK, Goes

LEMMA DiscardPoints ==
    ASSUME TypeOK, NEW f \in File, Discard(f)
    PROVE  /\ refs' = [refs EXCEPT ![f] = @ - 1]
           /\ \A g \in File : disk'[g] = IF g = f /\ refs[f] = 1 THEN NoFile ELSE disk[g]
  BY DEF TypeOK, Discard

LEMMA DoubleBouncePoints ==
    ASSUME TypeOK, NEW f \in File, DoubleBounce(f)
    PROVE  /\ refs' = refs
           /\ \A g \in File : disk'[g] = IF g = f THEN NoFile ELSE disk[g]
  BY DEF TypeOK, DoubleBounce

LEMMA EndedPoints ==
    ASSUME TypeOK, NEW f \in File, NEW how, fate' = Ended(todo[f].rcpts, how)
    PROVE  /\ \A r \in todo[f].rcpts : fate'[r] # {}
           /\ \A r \in Rcpt : fate[r] # {} => fate'[r] # {}
  BY DEF TypeOK, Ended, Todo

LEMMA SendingRest ==
    ASSUME IInv, NEW f \in File,
           \/ Load(f) \/ TimerFires(f) \/ Dispatch(f) \/ DelayRespond(f)
           \/ SendTempFails(f) \/ SendBounces(f)
           \/ DeferredRespond(f) \/ Renamed(f) \/ RenameFails(f)
    PROVE  Rest'
<1>0. /\ TypeOK /\ "main" \in Strand /\ MaxTries \in Nat
      /\ \A g \in File : disk[g] < MaxTries
      /\ at[f]["main"] \in Young => disk[f] # NoFile /\ tries[f] < MaxTries
      /\ tries[f] \in Nat /\ NoFile \notin Nat
  <2>1. TypeOK /\ Shape
    BY DEF IInv
  <2>2. /\ \A g \in File : disk[g] < MaxTries
        /\ at[f]["main"] \in Young => disk[f] # NoFile /\ tries[f] < MaxTries
    BY <2>1 DEF Shape, Fresh
  <2>3. "main" \in Strand /\ MaxTries \in Nat /\ NoFile \notin Nat
    BY ConstAssumption DEF Strand, NoFile
  <2>4. tries[f] \in 0 .. MaxTries
    BY <2>1 DEF TypeOK
  <2> QED BY <2>1, <2>2, <2>3, <2>4
<1>1. CASE Load(f) \/ TimerFires(f) \/ Dispatch(f) \/ DelayRespond(f) \/ SendBounces(f) \/ RenameFails(f)
  <2>1. PICK w \in {"queued", "timed", "send", "bounce"} : Goes(f, "main", w)
    BY <1>1 DEF Load, TimerFires, Dispatch, DelayRespond, SendBounces, RenameFails
  <2>2. /\ at'[f]["main"] = w
        /\ \A g \in File, u \in Strand : g # f \/ u # "main" => at'[g][u] = at[g][u]
    BY <1>0, <2>1, GoesPoints
  <2>3. /\ at[f]["main"] \in {"listed", "timed", "queued", "send", "rename"}
        /\ UNCHANGED <<disk, todo, piece, child, refs, tries, txn, acked, fate>>
    BY <1>1 DEF Load, TimerFires, Dispatch, DelayRespond, SendBounces, RenameFails
  <2>4. Moves(f)
    BY <1>0, <2>2, <2>3 DEF Moves, Young
  <2> QED BY <2>4, MainMoves
<1>2. CASE SendTempFails(f)
  <2>1. /\ at'[f]["main"] = AfterTempFail(tries[f])
        /\ \A g \in File, u \in Strand : g # f \/ u # "main" => at'[g][u] = at[g][u]
    BY <1>0, <1>2, GoesPoints DEF SendTempFails
  <2>2. tries'[f] = tries[f] + 1 /\ \A g \in File \ {f} : tries'[g] = tries[g]
    BY <1>0, <1>2 DEF SendTempFails, TempFails, TypeOK
  <2>3. /\ at'[f]["main"] \in {"bounce", "defer"}
        /\ at'[f]["main"] \in Young => tries'[f] < MaxTries
    BY <1>0, <2>1, <2>2 DEF AfterTempFail, Young
  <2>4. /\ at[f]["main"] = "send"
        /\ UNCHANGED <<disk, todo, piece, child, refs, txn, acked, fate>>
    BY <1>2 DEF SendTempFails
  <2>5. Moves(f)
    BY <1>0, <2>1, <2>2, <2>3, <2>4 DEF Moves, Young
  <2> QED BY <2>5, MainMoves
<1>3. CASE Renamed(f)
  <2>1. /\ at'[f]["main"] = "timed"
        /\ \A g \in File, u \in Strand : g # f \/ u # "main" => at'[g][u] = at[g][u]
    BY <1>0, <1>3, GoesPoints DEF Renamed
  <2>2. /\ at[f]["main"] = "rename"
        /\ UNCHANGED <<todo, piece, child, refs, tries, txn, acked, fate>>
    BY <1>3 DEF Renamed
  <2>3. disk'[f] = tries[f] /\ \A g \in File \ {f} : disk'[g] = disk[g]
    BY <1>0, <1>3 DEF Renamed, TypeOK
  <2>4. Moves(f)
    BY <1>0, <2>1, <2>2, <2>3 DEF Moves, Young
  <2> QED BY <2>4, MainMoves
<1>4. CASE DeferredRespond(f)
  <2>1. /\ at[f]["main"] = "defer"
        /\ UNCHANGED <<todo, piece, child, tries, txn, acked>>
    BY <1>4 DEF DeferredRespond
  <2>2. CASE Goes(f, "main", "rename") /\ UNCHANGED <<disk, refs, cb, fate, thrown>>
    <3>1. /\ at'[f]["main"] = "rename"
          /\ \A g \in File, u \in Strand : g # f \/ u # "main" => at'[g][u] = at[g][u]
      BY <1>0, <2>2, GoesPoints
    <3>2. Moves(f)
      BY <1>0, <2>1, <2>2, <3>1 DEF Moves, Young
    <3> QED BY <3>2, MainMoves
  <2>3. CASE /\ fate' = Ended(todo[f].rcpts, "dropped")
             /\ Goes(f, "main", "none") /\ Discard(f)
    <3>1. /\ at'[f]["main"] = "none"
          /\ \A g \in File, u \in Strand : g # f \/ u # "main" => at'[g][u] = at[g][u]
      BY <1>0, <2>3, GoesPoints
    <3>2. /\ refs' = [refs EXCEPT ![f] = @ - 1]
          /\ \A g \in File : disk'[g] = IF g = f /\ refs[f] = 1 THEN NoFile ELSE disk[g]
      BY <1>0, <2>3, DiscardPoints
    <3>3. /\ \A r \in todo[f].rcpts : fate'[r] # {}
          /\ \A r \in Rcpt : fate[r] # {} => fate'[r] # {}
      BY <1>0, <2>3, EndedPoints
    <3>4. ~Parent(f, "main")
      BY <2>1 DEF Parent
    <3>5. Ends(f, "main")
      BY <2>1, <3>1, <3>2, <3>3, <3>4 DEF Ends
    <3> QED BY <1>0, <3>5, StrandEnds
  <2> QED BY <1>4, <2>2, <2>3 DEF DeferredRespond
<1> QED BY <1>1, <1>2, <1>3, <1>4

LEMMA EndingRest ==
    ASSUME IInv, NEW f \in File, NEW s \in Strand,
           \/ DeliveredRespond(f, s) \/ BounceRespond(f, s) \/ PopulateFails(f, s)
           \/ NoticeWritten(f, s) \/ NoticeQueued(f, s) \/ NoticeFails(f, s)
    PROVE  Rest'
<1>0. TypeOK /\ "main" \in Strand
  BY DEF IInv, Strand
<1>1. CASE DeliveredRespond(f, s)
  <2>1. /\ at'[f][s] = "none"
        /\ \A g \in File, u \in Strand : g # f \/ u # s => at'[g][u] = at[g][u]
    BY <1>0, <1>1, GoesPoints DEF DeliveredRespond
  <2>2. /\ refs' = [refs EXCEPT ![f] = @ - 1]
        /\ \A g \in File : disk'[g] = IF g = f /\ refs[f] = 1 THEN NoFile ELSE disk[g]
    BY <1>0, <1>1, DiscardPoints DEF DeliveredRespond
  <2>3. /\ at[f][s] = "delivered" /\ ~Parent(f, s)
        /\ UNCHANGED <<todo, piece, child, tries, txn, acked, fate>>
    BY <1>1 DEF DeliveredRespond, Parent
  <2>4. Ends(f, s)
    BY <2>1, <2>2, <2>3 DEF Ends, Whole
  <2> QED BY <2>4, StrandEnds
<1>2. ASSUME at[f][s] \in {"bounce", "notify"}, Goes(f, s, "none"), Discard(f) \/ DoubleBounce(f),
             NEW how, fate' = Ended(todo[f].rcpts, how),
             UNCHANGED <<todo, piece, child, tries, txn, acked>>
      PROVE  Rest'
  <2>1. /\ at'[f][s] = "none"
        /\ \A g \in File, u \in Strand : g # f \/ u # s => at'[g][u] = at[g][u]
    BY <1>0, <1>2, GoesPoints
  <2>2. \/ /\ refs' = [refs EXCEPT ![f] = @ - 1]
           /\ \A g \in File : disk'[g] = IF g = f /\ refs[f] = 1 THEN NoFile ELSE disk[g]
        \/ /\ refs' = refs
           /\ \A g \in File : disk'[g] = IF g = f THEN NoFile ELSE disk[g]
    BY <1>0, <1>2, DiscardPoints, DoubleBouncePoints
  <2>3. /\ \A r \in todo[f].rcpts : fate'[r] # {}
        /\ \A r \in Rcpt : fate[r] # {} => fate'[r] # {}
    BY <1>0, <1>2, EndedPoints
  <2>4. ~Parent(f, s)
    BY <1>2 DEF Parent
  <2>5. Ends(f, s)
    BY <1>2, <2>1, <2>2, <2>3, <2>4 DEF Ends
  <2> QED BY <2>5, StrandEnds
<1>3. CASE PopulateFails(f, s)
  BY <1>2, <1>3 DEF PopulateFails
<1>4. CASE NoticeFails(f, s)
  BY <1>2, <1>4 DEF NoticeFails
<1>5. CASE BounceRespond(f, s)
  <2>1. at[f][s] = "bounce" /\ UNCHANGED <<todo, piece, child, tries, txn, acked>>
    BY <1>5 DEF BounceRespond
  <2>2. CASE /\ ~todo[f].null /\ Goes(f, s, "notify")
             /\ UNCHANGED <<disk, refs, cb, fate, thrown>>
    <3>1. /\ at'[f][s] = "notify"
          /\ \A g \in File, u \in Strand : g # f \/ u # s => at'[g][u] = at[g][u]
      BY <1>0, <2>2, GoesPoints
    <3>2. Bounces(f, s)
      BY <2>1, <2>2, <3>1 DEF Bounces
    <3> QED BY <3>2, StrandBounces
  <2>3. CASE /\ fate' = Ended(todo[f].rcpts, "dropped")
             /\ Goes(f, s, "none") /\ Discard(f)
    BY <1>2, <2>1, <2>3
  <2>4. CASE /\ fate' = Ended(todo[f].rcpts, "logged")
             /\ Goes(f, s, "none") /\ DoubleBounce(f)
    BY <1>2, <2>1, <2>4
  <2> QED BY <1>5, <2>2, <2>3, <2>4 DEF BounceRespond
<1>6. CASE NoticeWritten(f, s)
  <2>1. PICK g \in File : /\ IsNew(g) /\ MakeFile(g, todo[f].rcpts, TRUE)
                         /\ at' = [at EXCEPT ![f][s] = "noted", ![g]["main"] = "held"]
                         /\ child' = [child EXCEPT ![f][s] = g]
    BY <1>6 DEF NoticeWritten
  <2>2. /\ at[f][s] = "notify" /\ txn' = txn
        /\ UNCHANGED <<piece, acked, fate>>
    BY <1>6 DEF NoticeWritten
  <2>3. g # f /\ \A u \in Strand : at[g][u] = "none"
    BY <2>1, <2>2 DEF IsNew, Live
  <2>4. /\ at'[f][s] = "noted" /\ at'[g]["main"] = "held"
        /\ \A u \in Strand \ {"main"} : at'[g][u] = "none"
        /\ \A h \in File, u \in Strand : h # g /\ (h # f \/ u # s) => at'[h][u] = at[h][u]
    BY <1>0, <2>1, <2>3 DEF TypeOK
  <2>5. /\ child'[f][s] = g
        /\ \A h \in File, u \in Strand : h # f \/ u # s => child'[h][u] = child[h][u]
    BY <1>0, <2>1 DEF TypeOK
  <2>6. /\ disk'[g] = 0 /\ refs'[g] = 1 /\ tries'[g] = 0
        /\ todo'[g] = [rcpts |-> todo[f].rcpts, null |-> TRUE]
        /\ \A h \in File \ {g} : /\ disk'[h] = disk[h] /\ refs'[h] = refs[h]
                                /\ tries'[h] = tries[h] /\ todo'[h] = todo[h]
    BY <1>0, <2>1 DEF MakeFile, TypeOK
  <2>7. Makes(g, TRUE, f, s)
    BY <2>1, <2>2, <2>4, <2>5, <2>6 DEF Makes
  <2>8. TRUE \in BOOLEAN
    OBVIOUS
  <2> QED BY <2>2, <2>7, <2>8, FileMade DEF Rest
<1>7. CASE NoticeQueued(f, s)
  <2>1. PICK g : g = child[f][s]
    OBVIOUS
  <2>2. /\ at[f][s] = "noted" /\ Parent(f, s) /\ Discard(f)
        /\ at' = [at EXCEPT ![f][s] = "none", ![g]["main"] = "queued"]
        /\ child' = [child EXCEPT ![f][s] = NoFile]
        /\ UNCHANGED <<todo, piece, tries, txn, acked, fate>>
    BY <1>7, <2>1 DEF NoticeQueued, Parent
  <2>3. ChildOf(f, s, g)
    BY <2>1, <2>2 DEF IInv, Children
  <2>4. g \in File /\ at[g]["main"] = "held" /\ tries[g] < MaxTries
    BY <2>2, <2>3 DEF ChildOf, IInv, Shape, Fresh, Young
  <2>5. g # f \/ s # "main"
    BY <2>2, <2>4
  <2>6. /\ at'[f][s] = "none" /\ at'[g]["main"] = "queued"
        /\ \A h \in File, u \in Strand :
              (h # f \/ u # s) /\ (h # g \/ u # "main") => at'[h][u] = at[h][u]
    BY <1>0, <2>2, <2>4, <2>5 DEF TypeOK
  <2>7. \A h \in File, u \in Strand : h # f \/ u # s => child'[h][u] = child[h][u]
    BY <1>0, <2>2 DEF TypeOK
  <2>8. /\ refs' = [refs EXCEPT ![f] = @ - 1]
        /\ \A h \in File : disk'[h] = IF h = f /\ refs[f] = 1 THEN NoFile ELSE disk[h]
    BY <1>0, <2>2, DiscardPoints
  <2>9. Ends(f, s)
    BY <2>1, <2>2, <2>4, <2>6, <2>7, <2>8 DEF Ends, Whole
  <2> QED BY <2>9, StrandEnds
<1> QED BY <1>1, <1>3, <1>4, <1>5, <1>6, <1>7

LEMMA SplittingRest ==
    ASSUME IInv, NEW f \in File, NEW s \in Splits,
           SplitWritten(f, s) \/ SplitReady(f, s) \/ SplitFails(f, s) \/ SplitWriteFails(f, s)
    PROVE  Rest'
<1>0. TypeOK /\ "main" \in Strand /\ s \in Strand /\ Second(s) \in Strand /\ s # "main"
  BY DEF IInv, Strand, Splits, Second
<1>1. CASE SplitWritten(f, s)
  <2>1. PICK g \in File : /\ IsNew(g) /\ MakeFile(g, piece[f][s], todo[f].null)
                         /\ at' = [at EXCEPT ![f][s] = "ready", ![g]["main"] = "born"]
                         /\ child' = [child EXCEPT ![f][s] = g]
    BY <1>1 DEF SplitWritten
  <2>2. /\ at[f][s] = "split" /\ txn' = txn
        /\ piece' = [piece EXCEPT ![f][s] = {}]
        /\ UNCHANGED <<acked, fate>>
    BY <1>1 DEF SplitWritten
  <2>3. g # f /\ \A u \in Strand : at[g][u] = "none"
    BY <1>0, <2>1, <2>2 DEF IsNew, Live
  <2>4. /\ at'[f][s] = "ready" /\ at'[g]["main"] = "born"
        /\ \A u \in Strand \ {"main"} : at'[g][u] = "none"
        /\ \A h \in File, u \in Strand : h # g /\ (h # f \/ u # s) => at'[h][u] = at[h][u]
    BY <1>0, <2>1, <2>3 DEF TypeOK
  <2>5. /\ child'[f][s] = g
        /\ \A h \in File, u \in Strand : h # f \/ u # s => child'[h][u] = child[h][u]
    BY <1>0, <2>1 DEF TypeOK
  <2>6. /\ disk'[g] = 0 /\ refs'[g] = 1 /\ tries'[g] = 0
        /\ todo'[g].rcpts = piece[f][s]
        /\ \A h \in File \ {g} : /\ disk'[h] = disk[h] /\ refs'[h] = refs[h]
                                /\ tries'[h] = tries[h] /\ todo'[h] = todo[h]
    BY <1>0, <2>1 DEF MakeFile, TypeOK
  <2>7. \A h \in File, u \in Splits : h # f \/ u # s => piece'[h][u] = piece[h][u]
    BY <1>0, <2>2 DEF TypeOK
  <2>8. Makes(g, TRUE, f, s)
    BY <2>1, <2>2, <2>4, <2>5, <2>6, <2>7, ZenonT(60) DEF Makes
  <2>9. TRUE \in BOOLEAN
    OBVIOUS
  <2> QED BY <1>0, <2>2, <2>8, <2>9, FileMade DEF Rest
<1>2. CASE SplitReady(f, s)
  <2>1. PICK g : g = child[f][s]
    OBVIOUS
  <2>2. /\ at[f][s] = "ready" /\ Parent(f, s) /\ Discard(f)
        /\ child' = [child EXCEPT ![f][s] = NoFile]
        /\ UNCHANGED <<todo, piece, txn, acked, fate>>
    BY <1>2 DEF SplitReady, Parent
  <2>3. ChildOf(f, s, g)
    BY <1>0, <2>1, <2>2 DEF IInv, Children
  <2>4. g \in File /\ at[g]["main"] = "born" /\ tries[g] < MaxTries
    BY <2>2, <2>3 DEF ChildOf, IInv, Shape, Fresh, Young
  <2>5. PICK w : /\ at' = [at EXCEPT ![f][s] = "none", ![g]["main"] = w]
                 /\ \/ w = AfterTempFail(tries[g]) /\ TempFails(g)
                    \/ w = "bounce" /\ UNCHANGED tries
    BY <1>2, <2>1 DEF SplitReady
  <2>6. /\ at'[f][s] = "none" /\ at'[g]["main"] = w
        /\ \A h \in File, u \in Strand :
              (h # f \/ u # s) /\ (h # g \/ u # "main") => at'[h][u] = at[h][u]
    BY <1>0, <2>4, <2>5 DEF TypeOK
  <2>7. /\ \A h \in File \ {g} : tries'[h] = tries[h]
        /\ w \in {"defer", "bounce"}
        /\ w \in Young => tries'[g] < MaxTries
    <3>1. tries[g] \in Nat /\ MaxTries \in Nat
      BY <1>0, <2>4, ConstAssumption DEF TypeOK
    <3>2. CASE w = AfterTempFail(tries[g]) /\ TempFails(g)
      <4>1. tries'[g] = tries[g] + 1 /\ \A h \in File \ {g} : tries'[h] = tries[h]
        BY <1>0, <2>4, <3>2 DEF TempFails, TypeOK
      <4> QED BY <3>1, <3>2, <4>1 DEF AfterTempFail, Young
    <3>3. CASE w = "bounce" /\ UNCHANGED tries
      BY <3>3 DEF Young
    <3> QED BY <2>5, <3>2, <3>3
  <2>8. \A h \in File, u \in Strand : h # f \/ u # s => child'[h][u] = child[h][u]
    BY <1>0, <2>2 DEF TypeOK
  <2>9. /\ refs' = [refs EXCEPT ![f] = @ - 1]
        /\ \A h \in File : disk'[h] = IF h = f /\ refs[f] = 1 THEN NoFile ELSE disk[h]
    BY <1>0, <2>2, DiscardPoints
  <2>10. Ends(f, s)
    BY <2>1, <2>2, <2>4, <2>6, <2>7, <2>8, <2>9 DEF Ends, Whole
  <2> QED BY <1>0, <2>10, StrandEnds
<1>3. CASE SplitFails(f, s) \/ SplitWriteFails(f, s)
  <2>1. /\ at[f][s] = "split"
        /\ UNCHANGED <<disk, todo, child, refs, tries, txn, acked, fate>>
    BY <1>3 DEF SplitFails, SplitWriteFails
  <2>2. \A g \in File, u \in Splits : g # f \/ u # s => piece'[g][u] = piece[g][u]
    BY <1>0, <1>3 DEF SplitFails, SplitWriteFails, TypeOK
  <2>3. /\ at'[f][s] = "bounce"
        /\ \A g \in File, u \in Strand :
              \/ at'[g][u] = at[g][u]
              \/ g = f /\ u = s
              \/ g = f /\ u = Second(s) /\ at'[g][u] = "bounce"
    <3>1. CASE SplitFails(f, s)
      BY <1>0, <3>1, GoesPoints DEF SplitFails
    <3>2. CASE SplitWriteFails(f, s)
      BY <1>0, <3>2 DEF SplitWriteFails, TypeOK
    <3> QED BY <1>3, <3>1, <3>2
  <2>4. Bounces(f, s)
    BY <2>1, <2>2, <2>3 DEF Bounces
  <2> QED BY <1>0, <2>4, StrandBounces
<1> QED BY <1>1, <1>2, <1>3

LEMMA FinishRest ==
    ASSUME IInv, NEW f \in File, FinishMail(f)
    PROVE  Rest'
<1>1. at[f]["main"] = "send" /\ UNCHANGED <<todo, child, txn, acked>>
  BY DEF FinishMail
<1>2. PICK ok \in SUBSET todo[f].rcpts, fail \in SUBSET todo[f].rcpts,
           bounced \in SUBSET todo[f].rcpts, skipped \in SUBSET todo[f].rcpts :
         /\ skipped = todo[f].rcpts \ (ok \cup fail \cup bounced)
         /\ ok \cap fail = {} /\ ok \cap bounced = {} /\ fail \cap bounced = {}
         /\ todo[f].null => todo[f].rcpts \in {ok, fail, bounced, skipped}
         /\ IF todo[f].rcpts \in {fail, bounced}
            THEN \E success \in BOOLEAN :
                    /\ success => "lmtp" \in Faults /\ at[f]["late"] = "none"
                    /\ FinishAll(f, todo[f].rcpts = fail, success)
            ELSE FinishSome(f, ok, fail, bounced, skipped)
  BY ZenonT(60) DEF FinishMail
<1>3. CASE todo[f].rcpts \in {fail, bounced}
  <2>1. PICK all \in BOOLEAN, success \in BOOLEAN :
           (success => at[f]["late"] = "none") /\ FinishAll(f, all, success)
    BY <1>2, <1>3
  <2> QED BY <1>1, <2>1, FinishAllRest
<1>4. CASE todo[f].rcpts \notin {fail, bounced}
  <2>1. Lists(f, ok, fail, bounced, skipped)
    BY <1>2, <1>4 DEF Lists
  <2> QED BY <1>1, <1>2, <1>4, <2>1, FinishSomeRest
<1> QED BY <1>3, <1>4

-----------------------------------------------------------------------------
\* Nothing is on disk, submitted or promised at first.
LEMMA InitIInv == Init => IInv
<1> SUFFICES ASSUME Init PROVE IInv
  OBVIOUS
<1>0. MaxTries \in Nat /\ MaxTries > 0 /\ MaxRestarts \in Nat /\ MaxDelays \in Nat
  BY ConstAssumption
<1>1. TypeOK
  <2>1. /\ disk \in [File -> 0 .. MaxTries \cup {NoFile}]
        /\ refs \in [File -> Int]
        /\ tries \in [File -> 0 .. MaxTries]
        /\ restarts \in 0 .. MaxRestarts /\ delays \in 0 .. MaxDelays
    BY <1>0 DEF Init
  <2>2. /\ todo \in [File -> Todo]
        /\ at \in [File -> [Strand -> Waits]]
        /\ piece \in [File -> [Splits -> SUBSET Rcpt]]
        /\ child \in [File -> [Strand -> File \cup {NoFile}]]
        /\ cb \in [File -> {"dummy", "armed", "used"}]
    BY DEF Init, Todo, Waits
  <2>3. txn \in [Txn -> [st : {"open", "acked", "refused", "cut"}, files : Seq(File)]]
    <3>1. <<>> \in Seq(File)
      OBVIOUS
    <3> QED BY <3>1 DEF Init
  <2>4. acked \subseteq Rcpt /\ fate \in [Rcpt -> SUBSET Fates] /\ thrown \in BOOLEAN /\ torn \in BOOLEAN
    BY DEF Init
  <2> QED BY <2>1, <2>2, <2>3, <2>4 DEF TypeOK
<1>2. /\ \A f \in File, s \in Strand : at[f][s] = "none"
      /\ \A f \in File : disk[f] = NoFile
      /\ \A t \in Txn : txn[t].files = <<>> /\ txn[t].st = "open"
      /\ acked = {}
  BY DEF Init
<1>3. Shape
  BY <1>0, <1>2 DEF Shape, Form, Fresh, Strand, Splits, Second, Young, NoFile
<1>4. Children
  BY <1>2 DEF Children, Parent
<1>5. Submitted
  <2>1. \A t \in Txn : Len(txn[t].files) = 0 /\ DOMAIN txn[t].files = {}
    BY <1>2
  <2>2. \A t \in Txn : Len(Deliveries[t]) \in Nat
    BY ConstAssumption
  <2>3. \A n \in Nat : 0 <= n
    OBVIOUS
  <2> QED BY <1>2, <2>1, <2>2, <2>3 DEF Submitted
<1>6. Counted /\ Owed /\ Gone
  BY <1>2 DEF Counted, Owed, Gone
<1> QED BY <1>1, <1>3, <1>4, <1>5, <1>6 DEF IInv

\* Every step keeps the invariant: the steps of a submission, of sending, of
\* an end, of a split, and a crash.
LEMMA NextIInv == IInv /\ [Next]_vars => IInv'
<1> SUFFICES ASSUME IInv, [Next]_vars PROVE IInv'
  OBVIOUS
<1> USE DEF Rest
<1>1. ASSUME NEW t \in Txn, WriteFile(t) \/ WriteFails(t) \/ Acknowledge(t)
      PROVE  IInv'
  <2>1. Rest'
    BY <1>1, WriteFileRest, WriteFailsRest, AcknowledgeRest
  <2> QED BY <1>1, <2>1, SubmissionType DEF IInv
<1>2. ASSUME NEW f \in File,
             \/ Load(f) \/ TimerFires(f) \/ Dispatch(f) \/ DelayRespond(f)
             \/ SendTempFails(f) \/ SendBounces(f)
             \/ DeferredRespond(f) \/ Renamed(f) \/ RenameFails(f)
      PROVE  IInv'
  <2>1. Rest'
    BY <1>2, SendingRest
  <2>2. TypeOK'
    BY <1>2, SendingType
  <2> QED BY <2>1, <2>2 DEF IInv
<1>3. ASSUME NEW f \in File, FinishMail(f)
      PROVE  IInv'
  BY <1>3, FinishType, FinishRest DEF IInv
<1>4. ASSUME NEW f \in File, NEW s \in Strand,
             \/ DeliveredRespond(f, s) \/ BounceRespond(f, s) \/ PopulateFails(f, s)
             \/ NoticeWritten(f, s) \/ NoticeQueued(f, s) \/ NoticeFails(f, s)
      PROVE  IInv'
  <2>1. Rest'
    BY <1>4, EndingRest
  <2>2. TypeOK'
    BY <1>4, EndingType
  <2> QED BY <2>1, <2>2 DEF IInv
<1>5. ASSUME NEW f \in File, NEW s \in Splits,
             SplitWritten(f, s) \/ SplitReady(f, s) \/ SplitFails(f, s) \/ SplitWriteFails(f, s)
      PROVE  IInv'
  <2>1. Rest'
    BY <1>5, SplittingRest
  <2>2. TypeOK'
    BY <1>5, SplittingType
  <2> QED BY <2>1, <2>2 DEF IInv
<1>6. CASE Restart
  BY <1>6, RestartType, RestartRest DEF IInv
<1>7. CASE UNCHANGED vars
  <2> USE <1>7 DEF vars, item
  <2>1. TypeOK'
    BY DEF IInv, TypeOK
  <2>2. Shape' /\ Children'
    BY DEF IInv, Shape, Form, Fresh, Children, Parent, ChildOf
  <2>3. Submitted'
    BY DEF IInv, Submitted, Wrote
  <2>4. Counted'
    BY DEF IInv, Counted, Exact, Primary, SettledElsewhere, Reported
  <2>5. Owed'
    BY DEF IInv, Owed, Owns
  <2>6. Gone'
    BY DEF IInv, Gone, Reported
  <2> QED BY <2>1, <2>2, <2>3, <2>4, <2>5, <2>6 DEF IInv
<1>9. CASE StreamCloses \/ \E f \in File : HooksClash(f)
  <2>1. /\ UNCHANGED <<disk, todo, at, piece, child, refs, tries, cb, txn, acked, fate, restarts, delays>>
        /\ thrown' = TRUE /\ torn' \in {torn, FALSE}
    BY <1>9 DEF StreamCloses, HooksClash, item
  <2>2. TypeOK'
    BY <2>1 DEF IInv, TypeOK
  <2>3. Shape' /\ Children'
    BY <2>1 DEF IInv, Shape, Form, Fresh, Children, Parent, ChildOf
  <2>4. Submitted'
    BY <2>1 DEF IInv, Submitted, Wrote
  <2>5. Counted'
    BY <2>1 DEF IInv, Counted, Exact, Primary, SettledElsewhere, Reported
  <2>6. Owed'
    BY <2>1 DEF IInv, Owed, Owns
  <2>7. Gone'
    BY <2>1 DEF IInv, Gone, Reported
  <2> QED BY <2>2, <2>3, <2>4, <2>5, <2>6, <2>7 DEF IInv
<1>8. {"main", "late"} \subseteq Strand
  BY DEF Strand
<1> QED BY <1>1, <1>2, <1>3, <1>4, <1>5, <1>6, <1>7, <1>8, <1>9 DEF Next, Internal

-----------------------------------------------------------------------------
\* The invariant holds in every reachable state.
THEOREM Invariance == Spec => []IInv
  BY InitIInv, NextIInv, PTL DEF Spec

\* Every variable keeps its type; no failure count passes the limit.
THEOREM TypeCorrect == Spec => []TypeOK
<1>1. IInv => TypeOK
  BY DEF IInv
<1> QED BY <1>1, Invariance, PTL

\* A recipient of a mail that was answered OK has come to an end or is named
\* by a queue file (outbound.js, every handler of HMailItem), for any number
\* of mails, files, retries and crashes and whatever step fails.
THEOREM NothingLost == Spec => []NoLoss
<1>1. IInv => NoLoss
  BY DEF IInv, Owed, Owns, NoLoss, OnDisk
<1> QED BY <1>1, Invariance, PTL

-----------------------------------------------------------------------------
\* The queue implements the spool.

stored == {r \in Rcpt : OnDisk(r)}
ended  == {r \in Rcpt : fate[r] # {}}

\* Files may go, and recipients that were on disk may come to an end.
Shrinks ==
    /\ UNCHANGED <<todo, acked>>
    /\ \A f \in File : disk[f] = NoFile => disk'[f] = NoFile
    /\ \A r \in Rcpt : fate[r] # {} => fate'[r] # {}
    /\ \A r \in Rcpt : fate[r] = {} /\ fate'[r] # {} => OnDisk(r)

\* Such a step settles the recipients that ended: NoLoss says of the others
\* that they are still named by a file.
LEMMA ShrinkSettles ==
    ASSUME Shrinks, NoLoss', acked \subseteq Rcpt
    PROVE  Spool!Next
<1>0. PICK S, T : S = ended' \ ended /\ T = stored \ stored'
  OBVIOUS
<1>1. stored' \subseteq stored
  BY DEF Shrinks, stored, OnDisk
<1>2. ended \subseteq ended' /\ S \subseteq stored
  BY <1>0 DEF Shrinks, ended, stored
<1>3. T \cap acked \subseteq ended \cup S
  <2>1. \A r \in acked : r \in ended' \/ r \in stored'
    BY DEF NoLoss, Shrinks, ended, stored
  <2> QED BY <1>0, <2>1
<1>4. ended' = ended \cup S /\ stored' = stored \ T /\ acked' = acked
  BY <1>0, <1>1, <1>2 DEF Shrinks
<1>5. S \in SUBSET Rcpt /\ T \in SUBSET Rcpt
  BY <1>0 DEF ended, stored
<1>6. Spool!Settle(S, T)
  BY <1>2, <1>3, <1>4 DEF Spool!Settle, stored, ended
<1> QED BY <1>5, <1>6 DEF Spool!Next

\* A step that only writes a file stores its recipients.
LEMMA GrowthStores ==
    ASSUME NEW g \in File, disk[g] = NoFile, UNCHANGED <<acked, fate>>,
           \A f \in File \ {g} : disk'[f] = disk[f] /\ todo'[f] = todo[f]
    PROVE  Spool!Next
<1> DEFINE S == stored' \ stored
<1>1. stored \subseteq stored'
  BY DEF stored, OnDisk
<1>2. stored' = stored \cup S /\ S \in SUBSET Rcpt
  BY <1>1 DEF stored
<1>3. Spool!Store(S)
  BY <1>2 DEF Spool!Store, stored
<1> QED BY <1>2, <1>3 DEF Spool!Next

\* The recipients of a callback that is under way ended, or are on disk.
LEMMA LiveStored ==
    ASSUME IInv, NEW f \in File, NEW s \in Strand, at[f][s] # "none",
           NEW r \in todo[f].rcpts
    PROVE  r \in Rcpt /\ (fate[r] # {} \/ OnDisk(r))
<1>1. r \in Rcpt
  BY DEF IInv, TypeOK, Todo
<1>2. CASE disk[f] # NoFile
  BY <1>1, <1>2 DEF OnDisk
<1>3. CASE disk[f] = NoFile
  <2>1. Reported(r)
    BY <1>3 DEF IInv, Gone
  <2> QED BY <1>1, <2>1 DEF Reported, OnDisk
<1> QED BY <1>1, <1>2, <1>3

\* A strand of f ends the recipients of f, or none.
LEMMA EndShrinks ==
    ASSUME IInv, NEW f \in File, NEW s \in Strand, at[f][s] # "none",
           UNCHANGED <<todo, acked>>,
           UNCHANGED fate \/ \E how : fate' = Ended(todo[f].rcpts, how),
           UNCHANGED disk \/ Discard(f) \/ DoubleBounce(f)
    PROVE  Shrinks
<1>1. \A g \in File : disk[g] = NoFile => disk'[g] = NoFile
  BY DiscardPoints, DoubleBouncePoints DEF IInv
<1>2. /\ \A r \in Rcpt : fate[r] # {} => fate'[r] # {}
      /\ \A r \in Rcpt : fate[r] = {} /\ fate'[r] # {} => r \in todo[f].rcpts
  BY DEF Ended
<1>3. \A r \in todo[f].rcpts : fate[r] = {} => OnDisk(r)
  BY LiveStored
<1> QED BY <1>1, <1>2, <1>3 DEF Shrinks

LEMMA FinishShrinks ==
    ASSUME IInv, NEW f \in File, FinishMail(f)
    PROVE  Shrinks
<1>1. /\ at[f]["main"] = "send" /\ UNCHANGED <<todo, acked>>
      /\ "main" \in Strand
  BY DEF FinishMail, Strand
<1>2. PICK ok \in SUBSET todo[f].rcpts, fail \in SUBSET todo[f].rcpts,
           bounced \in SUBSET todo[f].rcpts, skipped \in SUBSET todo[f].rcpts :
         \/ \E all, success \in BOOLEAN : FinishAll(f, all, success)
         \/ FinishSome(f, ok, fail, bounced, skipped)
  BY ZenonT(60) DEF FinishMail
<1>3. CASE \E all, success \in BOOLEAN : FinishAll(f, all, success)
  <2>1. UNCHANGED <<disk, fate>>
    BY <1>3 DEF FinishAll
  <2> QED BY <1>1, <2>1 DEF Shrinks
<1>4. CASE FinishSome(f, ok, fail, bounced, skipped)
  <2>1. \A g \in File : disk[g] = NoFile => disk'[g] = NoFile
    BY <1>4, DiscardPoints DEF FinishSome, IInv
  <2>2. \A r \in Rcpt : fate'[r] = IF r \in skipped THEN fate[r] \cup {"skipped"}
                                   ELSE Taken(f, ok)[r]
    BY <1>4 DEF FinishSome
  <2>3. ASSUME NEW r \in Rcpt
        PROVE  /\ fate[r] \subseteq Taken(f, ok)[r]
               /\ r \notin ok => Taken(f, ok)[r] = fate[r]
    BY DEF Taken, Ended
  <2>4. /\ \A r \in Rcpt : fate[r] # {} => fate'[r] # {}
        /\ \A r \in Rcpt : fate[r] = {} /\ fate'[r] # {} => r \in todo[f].rcpts
    BY <2>2, <2>3
  <2>5. \A r \in todo[f].rcpts : fate[r] = {} => OnDisk(r)
    BY <1>1, LiveStored
  <2> QED BY <1>1, <2>1, <2>4, <2>5 DEF Shrinks
<1> QED BY <1>2, <1>3, <1>4

\* Every step of the queue is a step of the spool, or none.
LEMMA SpoolStep ==
    ASSUME IInv, NoLoss', [Next]_vars
    PROVE  Spool!Next
<1>0. TypeOK /\ "main" \in Strand /\ {"main", "late"} \subseteq Strand /\ Splits \subseteq Strand
      /\ acked \subseteq Rcpt
  BY DEF IInv, TypeOK, Strand, Splits
<1>1. ASSUME NEW t \in Txn, WriteFile(t) PROVE Spool!Next
  <2>1. PICK g \in File : IsNew(g) /\ MakeFile(g, Deliveries[t][Len(txn[t].files) + 1], FALSE)
    BY <1>1 DEF WriteFile
  <2>2. UNCHANGED <<acked, fate>>
    BY <1>1 DEF WriteFile
  <2>3. \A f \in File \ {g} : disk'[f] = disk[f] /\ todo'[f] = todo[f]
    BY <1>0, <2>1 DEF MakeFile, TypeOK
  <2> QED BY <2>1, <2>2, <2>3, GrowthStores DEF IsNew
<1>2. ASSUME NEW t \in Txn, WriteFails(t) PROVE Shrinks
  BY <1>2 DEF WriteFails, Shrinks
<1>3. ASSUME NEW t \in Txn, Acknowledge(t) PROVE Spool!Next
  <2> DEFINE S == UNION ToSet(Deliveries[t])
  <2>1. ASSUME NEW i \in DOMAIN Deliveries[t], NEW r \in Deliveries[t][i]
        PROVE  r \in Rcpt /\ OnDisk(r)
    <3>1. txn[t].files \in Seq(File) /\ Deliveries[t] \in Seq((SUBSET Rcpt) \ {{}})
      BY <1>0, ConstAssumption DEF TypeOK
    <3>2. Len(Deliveries[t]) - Len(txn[t].files) = 0
      BY <1>3 DEF Acknowledge, Left
    <3>3. i \in DOMAIN txn[t].files
      BY <3>1, <3>2
    <3>4. Wrote(t, i, txn[t].files[i])
      BY <3>3 DEF IInv, Submitted
    <3>5. r \in Rcpt
      BY <3>1
    <3> QED BY <3>4, <3>5 DEF Wrote, OnDisk
  <2>2. S \subseteq stored /\ S \in SUBSET Rcpt
    BY <2>1 DEF ToSet, stored
  <2>3. UNCHANGED <<disk, todo, fate>> /\ acked' = acked \cup S
    BY <1>3 DEF Acknowledge
  <2>4. stored' = stored /\ ended' = ended
    BY <2>3 DEF stored, ended, OnDisk
  <2>5. Spool!Accept(S)
    BY <2>2, <2>3, <2>4 DEF Spool!Accept, stored, ended
  <2> QED BY <2>2, <2>5 DEF Spool!Next
<1>4. ASSUME NEW f \in File,
             \/ Load(f) \/ TimerFires(f) \/ Dispatch(f) \/ DelayRespond(f)
             \/ SendTempFails(f) \/ SendBounces(f)
             \/ DeferredRespond(f) \/ RenameFails(f)
      PROVE  Shrinks
  <2>1. at[f]["main"] # "none" /\ UNCHANGED <<todo, acked>>
    BY <1>4 DEF Load, TimerFires, Dispatch, DelayRespond, SendTempFails, SendBounces,
                DeferredRespond, RenameFails
  <2>2. \/ UNCHANGED <<disk, fate>>
        \/ Discard(f) /\ fate' = Ended(todo[f].rcpts, "dropped")
    BY <1>4 DEF Load, TimerFires, Dispatch, DelayRespond, SendTempFails, SendBounces,
                DeferredRespond, RenameFails
  <2> QED BY <1>0, <2>1, <2>2, EndShrinks
<1>5. ASSUME NEW f \in File, Renamed(f) PROVE Shrinks
  <2>1. disk[f] # NoFile
    BY <1>5 DEF IInv, Shape, Fresh, Young, Renamed
  <2> QED BY <1>0, <1>5, <2>1 DEF Renamed, Shrinks, TypeOK
<1>6. ASSUME NEW f \in File, NEW s \in Strand,
             \/ DeliveredRespond(f, s) \/ BounceRespond(f, s) \/ PopulateFails(f, s)
             \/ NoticeQueued(f, s) \/ NoticeFails(f, s)
      PROVE  Shrinks
  <2>1. at[f][s] # "none" /\ UNCHANGED <<todo, acked>>
    BY <1>6 DEF DeliveredRespond, BounceRespond, PopulateFails, NoticeQueued, NoticeFails
  <2>2. /\ UNCHANGED fate \/ \E how : fate' = Ended(todo[f].rcpts, how)
        /\ UNCHANGED disk \/ Discard(f) \/ DoubleBounce(f)
    BY <1>6 DEF DeliveredRespond, BounceRespond, PopulateFails, NoticeQueued, NoticeFails
  <2> QED BY <2>1, <2>2, EndShrinks
<1>7. ASSUME NEW f \in File, NEW s \in Strand, NoticeWritten(f, s) PROVE Spool!Next
  <2>1. PICK g \in File : IsNew(g) /\ MakeFile(g, todo[f].rcpts, TRUE)
    BY <1>7 DEF NoticeWritten
  <2>2. UNCHANGED <<acked, fate>>
    BY <1>7 DEF NoticeWritten
  <2>3. \A h \in File \ {g} : disk'[h] = disk[h] /\ todo'[h] = todo[h]
    BY <1>0, <2>1 DEF MakeFile, TypeOK
  <2> QED BY <2>1, <2>2, <2>3, GrowthStores DEF IsNew
<1>8. ASSUME NEW f \in File, NEW s \in Splits, SplitWritten(f, s) PROVE Spool!Next
  <2>1. PICK g \in File : IsNew(g) /\ MakeFile(g, piece[f][s], todo[f].null)
    BY <1>8 DEF SplitWritten
  <2>2. UNCHANGED <<acked, fate>>
    BY <1>8 DEF SplitWritten
  <2>3. \A h \in File \ {g} : disk'[h] = disk[h] /\ todo'[h] = todo[h]
    BY <1>0, <2>1 DEF MakeFile, TypeOK
  <2> QED BY <2>1, <2>2, <2>3, GrowthStores DEF IsNew
<1>9. ASSUME NEW f \in File, NEW s \in Splits,
             SplitReady(f, s) \/ SplitFails(f, s) \/ SplitWriteFails(f, s)
      PROVE  Shrinks
  <2>1. at[f][s] # "none" /\ UNCHANGED <<todo, acked, fate>>
    BY <1>9 DEF SplitReady, SplitFails, SplitWriteFails
  <2>2. UNCHANGED disk \/ Discard(f)
    BY <1>9 DEF SplitReady, SplitFails, SplitWriteFails
  <2> QED BY <1>0, <2>1, <2>2, EndShrinks
<1>10. ASSUME Restart \/ StreamCloses \/ UNCHANGED vars \/ \E f \in File : HooksClash(f) PROVE Shrinks
  BY <1>10 DEF Restart, StreamCloses, HooksClash, vars, Shrinks
<1>11. ASSUME NEW f \in File, FinishMail(f) PROVE Shrinks
  BY <1>11, FinishShrinks
<1>12. Spool!Next \/ Shrinks
  BY <1>0, <1>1, <1>2, <1>3, <1>4, <1>5, <1>6, <1>7, <1>8, <1>9, <1>10, <1>11
     DEF Next, Internal
<1> QED BY <1>0, <1>12, ShrinkSettles

\* The files, references, splits and bounce messages of outbound.js implement
\* the spool: no step of any handler takes a recipient of a mail answered OK
\* from the queue directory before that recipient came to an end.
THEOREM QueueImplementsSpool == Spec => ImplementsSpool
<1>1. Init => Spool!Init
  BY DEF Init, Spool!Init, OnDisk
<1>2. IInv => NoLoss
  BY DEF IInv, Owed, Owns, NoLoss, OnDisk
<1>3. IInv /\ NoLoss' /\ [Next]_vars => [Spool!Next]_(Spool!vars)
  BY SpoolStep
<1> QED BY <1>1, <1>2, <1>3, Invariance, PTL DEF Spec, ImplementsSpool, Spool!Spec

-----------------------------------------------------------------------------
(***************************************************************************)
(* Proofs that the outbound queue counts its references, gives its slots   *)
(* back and ends each recipient once, when no split fails.  A split that   *)
(* fails starts two bounces on one reference (split_to_new_recipients has  *)
(* two error listeners), and then none of the four properties holds; every *)
(* other failure is allowed, and crashes too except for OneEnd, since a    *)
(* crash may send a mail again.                                            *)
(*                                                                         *)
(* RefcountExact is not inductive: whether discard() was right depends on  *)
(* what a strand does after the file has gone (the delivered hook outlives *)
(* a double bounce), and on next_cb, which only the last strand may call.  *)
(* Steady says both of one file.  For OneEnd the invariant follows, as for *)
(* NoLoss, the strand whose duty a recipient is: there is one at most, and *)
(* none once the recipient ended.                                          *)
(***************************************************************************)

\* No split fails, no write does, and no two hooks of a mail meet.
SplitsWork == Faults \cap {"split", "write", "plugins"} = {}

\* A mail that waits for its turn has no slot.
Waiting == {"held", "listed", "queued", "timed", "born"}

\* The references, the slot and the strands of one file.
Steady(f) ==
    /\ \A s \in Splits : at[f][s] \in {"none", "split", "ready"} /\ at[f][Second(s)] = "none"
    /\ disk[f] # NoFile => refs[f] = Primary(f)
    /\ disk[f] = NoFile => /\ at[f]["main"] = "none"
                           /\ \A s \in Splits : at[f][s] = "none"
                           /\ at[f]["late"] # "none" => refs[f] = 2
                           /\ cb[f] # "armed"
    /\ cb[f] = "used" => disk[f] = NoFile \/ at[f]["main"] \in {"listed", "queued", "timed"}
    /\ cb[f] = "armed" => Primary(f) # 0 /\ at[f]["main"] \notin Waiting

AllSteady == ~thrown /\ \A f \in File : Steady(f)

-----------------------------------------------------------------------------
\* What happens to one file.

\* Nothing that matters here.
Same(f) == /\ at'[f] = at[f] /\ refs'[f] = refs[f] /\ cb'[f] = cb[f]
           /\ disk'[f] = NoFile <=> disk[f] = NoFile

LEMMA SameSteady ==
    ASSUME NEW f \in File, Steady(f), Same(f)
    PROVE  Steady(f)'
  BY DEF Steady, Same, Primary, One

\* Strand s goes on to another wait.
GoesOn(f, s) ==
    /\ at[f][s] # "none" /\ at'[f][s] # "none"
    /\ \A u \in Strand \ {s} : at'[f][u] = at[f][u]
    /\ refs'[f] = refs[f]
    /\ disk'[f] = NoFile <=> disk[f] = NoFile
    /\ s \in Splits => at'[f][s] = "ready"
    /\ s # "main" => cb'[f] = cb[f]
    /\ s = "main" => /\ cb'[f] = "used" => at'[f]["main"] \in {"listed", "queued", "timed"}
                     /\ cb'[f] = "armed" => at'[f]["main"] \notin Waiting

LEMMA GoesOnSteady ==
    ASSUME NEW f \in File, NEW s \in Strand, Steady(f), GoesOn(f, s)
    PROVE  Steady(f)'
<1> USE DEF Strand, Splits, Second
<1>1. s \in {"main", "late", "fail", "bounce"}
  BY DEF Steady, GoesOn
<1>2. Primary(f)' = Primary(f) /\ Primary(f) # 0
  BY <1>1 DEF Primary, One, GoesOn
<1>3. CASE s = "main"
  BY <1>2, <1>3 DEF Steady, GoesOn
<1>4. CASE s # "main"
  BY <1>1, <1>2, <1>4 DEF Steady, GoesOn
<1> QED BY <1>3, <1>4

\* Strand s ends with discard().
Drops(f, s) ==
    /\ at[f][s] \notin {"none", "held", "listed", "queued", "timed", "born"}
    /\ at'[f][s] = "none"
    /\ \A u \in Strand \ {s} : at'[f][u] = at[f][u]
    /\ Discard(f)

LEMMA DropsSteady ==
    ASSUME TypeOK, ~thrown, NEW f \in File, NEW s \in Strand, Steady(f), Drops(f, s)
    PROVE  Steady(f)' /\ ~thrown'
<1> USE DEF Strand, Splits, Second
<1>1. s \in {"main", "late", "fail", "bounce"}
  BY DEF Steady, Drops
<1>2. Primary(f)' = Primary(f) - 1 /\ Primary(f)' \in Nat
  BY <1>1 DEF Primary, One, Drops
<1>3. refs'[f] = refs[f] - 1 /\ refs[f] \in Int
  BY DEF Drops, Discard, TypeOK
<1>4. CASE refs[f] = 1
  <2>1. disk'[f] = NoFile /\ thrown' = (cb[f] = "used")
        /\ cb'[f] = IF cb[f] = "armed" THEN "used" ELSE cb[f]
    BY <1>4 DEF Drops, Discard, NextCb, TypeOK
  <2>2. disk[f] # NoFile
    BY <1>1, <1>4 DEF Steady, Drops
  <2>3. Primary(f)' = 0
    BY <1>2, <1>4, <2>2 DEF Steady
  <2>4. \A u \in {"main", "late", "fail", "bounce"} : at'[f][u] = "none"
    BY <2>3 DEF Primary, One
  <2>5. cb[f] # "used"
    BY <2>2, <2>4 DEF Steady, Drops
  <2> QED BY <2>1, <2>4, <2>5 DEF Steady, Drops
<1>5. CASE refs[f] # 1
  <2>1. disk'[f] = disk[f] /\ cb'[f] = cb[f] /\ thrown' = thrown
    BY <1>5 DEF Drops, Discard
  <2>2. CASE disk[f] # NoFile
    <3>1. Primary(f)' # 0
      BY <1>2, <1>5, <2>2 DEF Steady
    <3>2. at'[f]["main"] \in {at[f]["main"], "none"} /\ (at[f]["main"] # at'[f]["main"] => s = "main")
      BY DEF Drops
    <3> QED BY <1>1, <1>2, <1>3, <2>1, <2>2, <3>1, <3>2 DEF Steady, Drops, Waiting
  <2>3. CASE disk[f] = NoFile
    BY <1>1, <2>1, <2>3 DEF Steady, Drops
  <2> QED BY <2>1, <2>2, <2>3
<1> QED BY <1>4, <1>5

\* A new file, and its item.
LEMMA MadeSteady ==
    ASSUME NEW g \in File, at'[g]["main"] \in {"held", "born"},
           \A u \in Strand \ {"main"} : at'[g][u] = "none",
           refs'[g] = 1, disk'[g] = 0, cb'[g] = "dummy"
    PROVE  Steady(g)'
<1>1. Primary(g)' = 1
  BY DEF Primary, One, Strand
<1> QED BY <1>1 DEF Steady, Strand, Splits, Second, NoFile

-----------------------------------------------------------------------------
\* What the handlers do to their files.

LEMMA GoesSame ==
    ASSUME TypeOK, NEW f \in File, NEW s \in Strand, NEW w, Goes(f, s, w)
    PROVE  /\ at'[f][s] = w
           /\ \A u \in Strand \ {s} : at'[f][u] = at[f][u]
           /\ \A g \in File \ {f} : at'[g] = at[g]
  BY DEF TypeOK, Goes

LEMMA NextCbSame ==
    ASSUME TypeOK, NEW f \in File, NextCb(f)
    PROVE  /\ thrown' = (cb[f] = "used")
           /\ cb'[f] = IF cb[f] = "armed" THEN "used" ELSE cb[f]
           /\ \A g \in File \ {f} : cb'[g] = cb[g]
  BY DEF TypeOK, NextCb

LEMMA DiscardSame ==
    ASSUME TypeOK, NEW f \in File, Discard(f)
    PROVE  \A g \in File \ {f} : refs'[g] = refs[g] /\ disk'[g] = disk[g] /\ cb'[g] = cb[g]
  BY DEF TypeOK, Discard, NextCb

\* When the other files are as they were, one file matters.
LEMMA OneChanges ==
    ASSUME AllSteady, NEW f \in File, Steady(f)', ~thrown', \A g \in File \ {f} : Same(g)
    PROVE  AllSteady'
  BY SameSteady DEF AllSteady

\* A strand that ends, in a handler that calls discard().
LEMMA DropSteps ==
    ASSUME TypeOK, AllSteady, NEW f \in File, NEW s \in Strand, Goes(f, s, "none"), Discard(f),
           at[f][s] \notin {"none", "held", "listed", "queued", "timed", "born"}
    PROVE  AllSteady'
<1>1. Drops(f, s) /\ \A g \in File \ {f} : Same(g)
  BY GoesSame, DiscardSame DEF Drops, Same
<1>2. Steady(f)' /\ ~thrown'
  BY <1>1, DropsSteady DEF AllSteady
<1> QED BY <1>1, <1>2, OneChanges

\* The main strand on its way to the conversation and back.
LEMMA SendingSteady ==
    ASSUME IInv, AllSteady, NEW f \in File,
           \/ Load(f) \/ TimerFires(f) \/ Dispatch(f) \/ DelayRespond(f)
           \/ SendTempFails(f) \/ SendBounces(f)
           \/ DeferredRespond(f) \/ Renamed(f) \/ RenameFails(f)
    PROVE  AllSteady'
<1>0. TypeOK /\ "main" \in Strand /\ "main" \notin Splits /\ Steady(f) /\ ~thrown
  BY DEF IInv, AllSteady, Strand, Splits
<1>1. ASSUME NEW w \in Waits \ {"none"}, Goes(f, "main", w), at[f]["main"] # "none", UNCHANGED refs,
             \A g \in File : disk'[g] = NoFile <=> disk[g] = NoFile,
             \A g \in File \ {f} : cb'[g] = cb[g], ~thrown',
             cb'[f] = "used" => w \in {"listed", "queued", "timed"},
             cb'[f] = "armed" => w \notin Waiting
      PROVE  AllSteady'
  <2>1. GoesOn(f, "main") /\ \A g \in File \ {f} : Same(g)
    BY <1>0, <1>1, GoesSame DEF GoesOn, Same
  <2> QED BY <1>0, <1>1, <2>1, GoesOnSteady, OneChanges
<1>2. CASE Load(f) \/ TimerFires(f)
  <2>1. PICK w \in {"queued", "timed"} : Goes(f, "main", w)
    BY <1>2 DEF Load, TimerFires
  <2>2. at[f]["main"] \in {"listed", "timed"} /\ UNCHANGED <<disk, refs, cb, thrown>>
    BY <1>2 DEF Load, TimerFires
  <2>3. cb[f] # "armed"
    BY <1>0, <2>2 DEF Steady, Waiting
  <2> QED BY <1>0, <1>1, <2>1, <2>2, <2>3 DEF Waits
<1>3. CASE Dispatch(f)
  <2>1. cb'[f] = "armed" /\ \A g \in File \ {f} : cb'[g] = cb[g]
    BY <1>0, <1>3 DEF Dispatch, TypeOK
  <2> QED BY <1>0, <1>1, <1>3, <2>1 DEF Dispatch, Waits, Waiting
<1>4. CASE SendTempFails(f) \/ SendBounces(f) \/ RenameFails(f)
  <2>1. PICK w \in {"bounce", "defer"} : Goes(f, "main", w)
    BY <1>4 DEF SendTempFails, SendBounces, RenameFails, AfterTempFail
  <2>2. at[f]["main"] \in {"send", "rename"} /\ UNCHANGED <<disk, refs, cb, thrown>>
    BY <1>4 DEF SendTempFails, SendBounces, RenameFails
  <2>3. cb[f] # "used"
    BY <1>0, <2>2 DEF Steady
  <2> QED BY <1>0, <1>1, <2>1, <2>2, <2>3 DEF Waits, Waiting
<1>5. CASE DelayRespond(f) \/ Renamed(f)
  <2>1. /\ at[f]["main"] \in {"send", "rename"}
        /\ Goes(f, "main", "timed") /\ NextCb(f) /\ UNCHANGED refs
    BY <1>5 DEF DelayRespond, Renamed
  <2>2. cb[f] # "used" /\ disk[f] # NoFile
    BY <1>0, <2>1 DEF Steady
  <2>3. \A g \in File : disk'[g] = NoFile <=> disk[g] = NoFile
    <3>1. CASE DelayRespond(f)
      BY <3>1 DEF DelayRespond
    <3>2. CASE Renamed(f)
      <4>1. disk' = [disk EXCEPT ![f] = tries[f]] /\ tries[f] # NoFile
        BY <1>0, <3>2, ConstAssumption DEF Renamed, TypeOK, NoFile
      <4> QED BY <1>0, <2>2, <4>1 DEF TypeOK
    <3> QED BY <1>5, <3>1, <3>2
  <2>4. ~thrown' /\ cb'[f] # "armed" /\ \A g \in File \ {f} : cb'[g] = cb[g]
    BY <1>0, <2>1, <2>2, NextCbSame
  <2> QED BY <1>1, <2>1, <2>3, <2>4 DEF Waits
<1>6. CASE DeferredRespond(f)
  <2>1. at[f]["main"] = "defer"
    BY <1>6 DEF DeferredRespond
  <2>2. CASE Goes(f, "main", "rename") /\ UNCHANGED <<disk, refs, cb, thrown>>
    <3>1. cb[f] # "used"
      BY <1>0, <2>1 DEF Steady
    <3> QED BY <1>0, <1>1, <2>1, <2>2, <3>1 DEF Waits, Waiting
  <2>3. CASE Goes(f, "main", "none") /\ Discard(f)
    BY <1>0, <2>1, <2>3, DropSteps
  <2> QED BY <1>6, <2>2, <2>3 DEF DeferredRespond
<1> QED BY <1>2, <1>3, <1>4, <1>5, <1>6

\* double_bounce(): the strand is the main one, and only the delivered hook
\* may outlive it.
LEMMA DoubleBounceSteps ==
    ASSUME IInv, AllSteady, NEW f \in File, NEW s \in Strand, Goes(f, s, "none"), DoubleBounce(f),
           at[f][s] \in {"bounce", "notify"}
    PROVE  AllSteady'
<1>0. TypeOK /\ Steady(f) /\ Form(f) /\ ~thrown
  BY DEF IInv, AllSteady, Shape
<1>1. s = "main"
  BY <1>0 DEF Steady, Form, Strand, Splits, Second
<1>2. /\ at'[f]["main"] = "none"
      /\ \A u \in Strand \ {"main"} : at'[f][u] = at[f][u]
      /\ \A g \in File \ {f} : at'[g] = at[g]
  BY <1>0, <1>1, GoesSame
<1>3. NextCb(f) /\ refs' = refs /\ disk'[f] = NoFile /\ \A g \in File \ {f} : disk'[g] = disk[g]
  BY <1>0 DEF DoubleBounce, TypeOK
<1>4. cb[f] # "used" /\ disk[f] # NoFile
  BY <1>0, <1>1 DEF Steady
<1>5. ~thrown' /\ cb'[f] # "armed" /\ \A g \in File \ {f} : cb'[g] = cb[g]
  BY <1>0, <1>3, <1>4, NextCbSame
<1>6. \A u \in Splits : at[f][u] = "none"
  BY <1>0, <1>1 DEF Form
<1>7. at[f]["late"] # "none" => refs[f] = 2
  BY <1>0, <1>1, <1>4, <1>6 DEF Steady, Primary, One, Splits
<1>8. Steady(f)'
  BY <1>0, <1>2, <1>3, <1>5, <1>6, <1>7 DEF Steady, Strand, Splits, Second
<1> QED BY <1>2, <1>3, <1>5, <1>8, OneChanges DEF Same

\* Strand s of f writes file g, a split or a bounce message, and waits for it.
LEMMA WriteSteps ==
    ASSUME IInv, AllSteady, NEW f \in File, NEW s \in Strand, NEW g \in File,
           NEW w \in {"noted", "ready"}, NEW v \in {"held", "born"}, NEW rcpts, NEW null,
           IsNew(g), MakeFile(g, rcpts, null),
           at' = [at EXCEPT ![f][s] = w, ![g]["main"] = v],
           at[f][s] # "none", s = "main" => at[f][s] = "notify", s \in Splits => w = "ready",
           thrown' = thrown
    PROVE  AllSteady'
<1>0. TypeOK /\ Steady(f) /\ ~thrown /\ "main" \in Strand /\ "main" \notin Splits
  BY DEF IInv, AllSteady, Strand, Splits
<1>1. disk[g] = NoFile /\ (\A u \in Strand : at[g][u] = "none") /\ g # f
  BY DEF IsNew, Live
<1>2. /\ at'[f][s] = w /\ \A u \in Strand \ {s} : at'[f][u] = at[f][u]
      /\ at'[g]["main"] = v /\ \A u \in Strand \ {"main"} : at'[g][u] = "none"
      /\ \A h \in File \ {f, g} : at'[h] = at[h]
  BY <1>0, <1>1 DEF TypeOK
<1>3. /\ refs'[g] = 1 /\ disk'[g] = 0 /\ cb'[g] = "dummy"
      /\ \A h \in File \ {g} : refs'[h] = refs[h] /\ disk'[h] = disk[h] /\ cb'[h] = cb[h]
  BY <1>0 DEF TypeOK, MakeFile
<1>4. Steady(g)'
  BY <1>2, <1>3, MadeSteady
<1>5. s = "main" => cb[f] # "used"
  BY <1>0, <1>1 DEF Steady
<1>6. GoesOn(f, s)
  BY <1>0, <1>1, <1>2, <1>3, <1>5 DEF GoesOn, Waiting
<1>7. Steady(f)'
  BY <1>0, <1>6, GoesOnSteady
<1>8. \A h \in File \ {f, g} : Same(h)
  BY <1>2, <1>3 DEF Same
<1> QED BY <1>0, <1>4, <1>7, <1>8, SameSteady DEF AllSteady

\* Strand s of f is told that its file g is there, and ends; the mail of g
\* goes on.
LEMMA HandOver ==
    ASSUME IInv, AllSteady, NEW f \in File, NEW s \in Strand, NEW g \in File,
           NEW w \in {"queued", "defer", "bounce"},
           at' = [at EXCEPT ![f][s] = "none", ![g]["main"] = w],
           at[f][s] \in {"noted", "ready"}, at[g]["main"] \in {"held", "born"}, Discard(f)
    PROVE  AllSteady'
<1>0. TypeOK /\ Steady(f) /\ Steady(g) /\ ~thrown /\ "main" \in Strand /\ "main" \notin Splits
  BY DEF IInv, AllSteady, Strand, Splits
<1>1. g # f
  BY <1>0 DEF IInv, Shape, Form, Steady, Strand, Splits, Second
<1>2. /\ at'[f][s] = "none" /\ \A u \in Strand \ {s} : at'[f][u] = at[f][u]
      /\ at'[g]["main"] = w /\ \A u \in Strand \ {"main"} : at'[g][u] = at[g][u]
      /\ \A h \in File \ {f, g} : at'[h] = at[h]
  BY <1>0, <1>1 DEF TypeOK
<1>3. \A h \in File \ {f} : refs'[h] = refs[h] /\ disk'[h] = disk[h] /\ cb'[h] = cb[h]
  BY <1>0, DiscardSame
<1>4. Steady(f)' /\ ~thrown'
  BY <1>0, <1>2, DropsSteady DEF Drops
<1>5. cb[g] = "dummy"
  <2>1. cb[g] \in {"dummy", "armed", "used"} /\ disk[g] # NoFile
    BY <1>0 DEF TypeOK, Steady
  <2> QED BY <1>0, <2>1 DEF Steady, Waiting
<1>6. GoesOn(g, "main")
  BY <1>0, <1>1, <1>2, <1>3, <1>5 DEF GoesOn
<1>7. Steady(g)'
  BY <1>0, <1>6, GoesOnSteady
<1> QED BY <1>2, <1>3, <1>4, <1>7, SameSteady DEF AllSteady, Same

\* The ends of a strand, and the bounce message.
LEMMA EndingSteady ==
    ASSUME IInv, AllSteady, NEW f \in File, NEW s \in Strand,
           \/ DeliveredRespond(f, s) \/ BounceRespond(f, s) \/ PopulateFails(f, s)
           \/ NoticeWritten(f, s) \/ NoticeQueued(f, s) \/ NoticeFails(f, s)
    PROVE  AllSteady'
<1>0. TypeOK /\ Steady(f) /\ Form(f) /\ ~thrown
  BY DEF IInv, AllSteady, Shape
<1>1. at[f][s] \in {"bounce", "notify", "noted"} => s = "main"
  BY <1>0 DEF Steady, Form, Strand, Splits, Second
<1>2. CASE DeliveredRespond(f, s) \/ NoticeFails(f, s)
  BY <1>0, <1>2, DropSteps DEF DeliveredRespond, NoticeFails
<1>3. CASE PopulateFails(f, s)
  BY <1>3, DoubleBounceSteps DEF PopulateFails
<1>4. CASE BounceRespond(f, s)
  <2>1. at[f][s] = "bounce"
    BY <1>4 DEF BounceRespond
  <2>2. CASE Goes(f, s, "none") /\ Discard(f)
    BY <1>0, <2>1, <2>2, DropSteps
  <2>3. CASE Goes(f, s, "none") /\ DoubleBounce(f)
    BY <2>1, <2>3, DoubleBounceSteps
  <2>4. CASE Goes(f, s, "notify") /\ UNCHANGED <<disk, refs, cb, fate, thrown>>
    <3>1. s = "main" /\ cb[f] # "used"
      BY <1>0, <1>1, <2>1 DEF Steady
    <3>2. GoesOn(f, s) /\ \A g \in File \ {f} : Same(g)
      BY <1>0, <2>1, <2>4, <3>1, GoesSame DEF GoesOn, Same, Waiting, Splits
    <3> QED BY <1>0, <2>4, <3>2, GoesOnSteady, OneChanges
  <2> QED BY <1>4, <2>2, <2>3, <2>4 DEF BounceRespond
<1>5. CASE NoticeWritten(f, s)
  <2>1. PICK g \in File : /\ IsNew(g) /\ MakeFile(g, todo[f].rcpts, TRUE)
                         /\ at' = [at EXCEPT ![f][s] = "noted", ![g]["main"] = "held"]
    BY <1>5 DEF NoticeWritten
  <2>2. at[f][s] = "notify" /\ thrown' = thrown
    BY <1>5 DEF NoticeWritten
  <2> QED BY <1>1, <2>1, <2>2, WriteSteps DEF Splits
<1>6. CASE NoticeQueued(f, s)
  <2>1. PICK g : g = child[f][s]
    OBVIOUS
  <2>2. /\ at[f][s] = "noted" /\ Discard(f)
        /\ at' = [at EXCEPT ![f][s] = "none", ![g]["main"] = "queued"]
    BY <1>6, <2>1 DEF NoticeQueued
  <2>3. g \in File /\ at[g]["main"] = "held"
    BY <2>1, <2>2 DEF IInv, Children, Parent, ChildOf
  <2> QED BY <2>2, <2>3, HandOver
<1> QED BY <1>2, <1>3, <1>4, <1>5, <1>6

\* The splits, which do not fail.
LEMMA SplittingSteady ==
    ASSUME IInv, AllSteady, SplitsWork, NEW f \in File, NEW s \in Splits,
           SplitWritten(f, s) \/ SplitReady(f, s) \/ SplitFails(f, s) \/ SplitWriteFails(f, s)
    PROVE  AllSteady'
<1>0. TypeOK /\ s \in Strand /\ s # "main"
  BY DEF IInv, Strand, Splits
<1>1. CASE SplitWritten(f, s)
  <2>1. PICK g \in File : /\ IsNew(g) /\ MakeFile(g, piece[f][s], todo[f].null)
                         /\ at' = [at EXCEPT ![f][s] = "ready", ![g]["main"] = "born"]
    BY <1>1 DEF SplitWritten
  <2>2. at[f][s] = "split" /\ thrown' = thrown
    BY <1>1 DEF SplitWritten
  <2> QED BY <1>0, <2>1, <2>2, WriteSteps, ZenonT(60)
<1>2. CASE SplitReady(f, s)
  <2>1. PICK g : g = child[f][s]
    OBVIOUS
  <2>2. at[f][s] = "ready" /\ Discard(f)
    BY <1>2 DEF SplitReady
  <2>3. g \in File /\ at[g]["main"] = "born"
    BY <1>0, <2>1, <2>2 DEF IInv, Children, Parent, ChildOf
  <2>4. PICK w \in {"defer", "bounce"} : at' = [at EXCEPT ![f][s] = "none", ![g]["main"] = w]
    BY <1>2, <2>1 DEF SplitReady, AfterTempFail
  <2> QED BY <1>0, <2>2, <2>3, <2>4, HandOver
<1>3. ~SplitFails(f, s) /\ ~SplitWriteFails(f, s)
  BY DEF SplitsWork, SplitFails, SplitWriteFails
<1> QED BY <1>1, <1>2, <1>3

\* The conversation is over.  Over LMTP the delivered hook runs beside a mail
\* that is deferred or bounced; a split has a reference of its own.
LEMMA FinishAllSteady ==
    ASSUME IInv, AllSteady, NEW f \in File, NEW fail \in BOOLEAN, NEW success \in BOOLEAN,
           at[f]["main"] = "send", success => at[f]["late"] = "none", FinishAll(f, fail, success)
    PROVE  AllSteady'
<1>0. TypeOK /\ Steady(f) /\ Form(f) /\ ~thrown
  BY DEF IInv, AllSteady, Shape
<1>1. UNCHANGED <<disk, cb, thrown>>
  BY DEF FinishAll
<1>2. /\ at'[f]["main"] \in {"bounce", "defer"}
      /\ at'[f]["late"] = IF success THEN "delivered" ELSE at[f]["late"]
      /\ \A u \in Strand \ {"main", "late"} : at'[f][u] = at[f][u]
      /\ \A g \in File \ {f} : at'[g] = at[g]
  BY <1>0 DEF FinishAll, TypeOK, Strand, AfterTempFail
<1>3. /\ refs'[f] = IF success THEN refs[f] + 1 ELSE refs[f]
      /\ \A g \in File \ {f} : refs'[g] = refs[g]
      /\ refs[f] \in Int
  BY <1>0 DEF FinishAll, TypeOK
<1>4. disk[f] # NoFile /\ cb[f] # "used" /\ refs[f] = Primary(f)
  BY <1>0 DEF Steady
<1>5. refs'[f] = Primary(f)' /\ Primary(f)' # 0
  BY <1>2, <1>3, <1>4 DEF Primary, One, Strand
<1>6. Steady(f)'
  BY <1>0, <1>1, <1>2, <1>4, <1>5 DEF Steady, Strand, Splits, Second, Waiting
<1>7. \A g \in File \ {f} : Same(g)
  BY <1>1, <1>2, <1>3 DEF Same
<1> QED BY <1>0, <1>1, <1>6, <1>7, OneChanges

LEMMA FinishSomeSteady ==
    ASSUME IInv, AllSteady, NEW f \in File, NEW ok, NEW fail, NEW bounced, NEW skipped,
           at[f]["main"] = "send", FinishSome(f, ok, fail, bounced, skipped)
    PROVE  AllSteady'
<1>0. TypeOK /\ Steady(f) /\ Form(f) /\ ~thrown /\ "main" \in Strand
  BY DEF IInv, AllSteady, Shape, Strand
<1> DEFINE splits == (IF fail # {} THEN {"fail"} ELSE {}) \cup (IF bounced # {} THEN {"bounce"} ELSE {})
<1>1. /\ \A u \in Strand : at'[f][u] = IF u \in splits THEN "split"
                                       ELSE IF u # "main" THEN at[f][u]
                                       ELSE IF ok # {} THEN "delivered" ELSE "none"
      /\ \A g \in File \ {f} : at'[g] = at[g]
  BY <1>0 DEF FinishSome, TypeOK
<1>2. /\ at'[f]["main"] = IF ok # {} THEN "delivered" ELSE "none"
      /\ at'[f]["late"] = at[f]["late"]
      /\ at'[f]["fail"] = IF fail # {} THEN "split" ELSE "none"
      /\ at'[f]["bounce"] = IF bounced # {} THEN "split" ELSE "none"
      /\ \A u \in {"fail2", "bounce2"} : at'[f][u] = "none"
  BY <1>0, <1>1 DEF Form, Strand, Splits, Second, Steady
<1>3. disk[f] # NoFile /\ cb[f] # "used" /\ refs[f] = Primary(f) /\ refs[f] \in Int
  BY <1>0 DEF Steady, TypeOK
<1>4. CASE ok = {} /\ splits = {}
  <2>1. \A u \in Strand \ {"main"} : at'[f][u] = at[f][u]
    BY <1>1, <1>4
  <2>2. Discard(f)
    BY <1>4 DEF FinishSome
  <2>3. Drops(f, "main")
    BY <1>2, <1>4, <2>1, <2>2 DEF Drops
  <2>4. \A g \in File \ {f} : Same(g)
    BY <1>0, <1>1, <2>2, DiscardSame DEF Same
  <2> QED BY <1>0, <2>3, <2>4, DropsSteady, OneChanges
<1>5. CASE ok # {} \/ splits # {}
  <2>1. /\ refs' = [refs EXCEPT ![f] = @ + Cardinality(splits) - (IF ok = {} THEN 1 ELSE 0)]
        /\ UNCHANGED <<disk, cb, thrown>>
    BY <1>5 DEF FinishSome
  <2>2. Cardinality(splits) = One(fail # {}) + One(bounced # {})
    <3>1. (fail # {}) \in BOOLEAN /\ (bounced # {}) \in BOOLEAN
      OBVIOUS
    <3> QED BY <3>1, SplitsCount
  <2>3. splits # {} => fail # {} \/ bounced # {}
    OBVIOUS
  <2> HIDE DEF splits
  <2>4. refs'[f] = refs[f] + One(fail # {}) + One(bounced # {}) - (IF ok = {} THEN 1 ELSE 0)
    BY <1>0, <1>3, <2>1, <2>2, SMTT(30) DEF TypeOK, One
  <2>5. \A g \in File \ {f} : Same(g)
    BY <1>0, <1>1, <2>1 DEF Same, TypeOK
  <2>6. Primary(f) = 1 + One(at[f]["late"] # "none")
    BY <1>0 DEF Primary, One, Form, Splits
  <2>7. Primary(f)' = One(ok # {}) + One(at[f]["late"] # "none") + One(fail # {}) + One(bounced # {})
    BY <1>2 DEF Primary, One
  <2>8. refs'[f] = Primary(f)'
    BY <1>3, <2>4, <2>6, <2>7 DEF One
  <2>9. Primary(f)' # 0
    BY <1>5, <2>3, <2>7 DEF One
  <2>10. Steady(f)'
    BY <1>2, <1>3, <2>1, <2>8, <2>9 DEF Steady, Splits, Second, Waiting
  <2> QED BY <1>0, <2>1, <2>5, <2>10, OneChanges
<1> QED BY <1>4, <1>5

LEMMA FinishSteady ==
    ASSUME IInv, AllSteady, NEW f \in File, FinishMail(f)
    PROVE  AllSteady'
<1>1. at[f]["main"] = "send"
  BY DEF FinishMail
<1>2. \/ \E all, success \in BOOLEAN :
            (success => at[f]["late"] = "none") /\ FinishAll(f, all, success)
      \/ \E ok, fail, bounced, skipped \in SUBSET todo[f].rcpts : FinishSome(f, ok, fail, bounced, skipped)
  <2>1. PICK ok \in SUBSET todo[f].rcpts, fail \in SUBSET todo[f].rcpts, bounced \in SUBSET todo[f].rcpts :
           IF todo[f].rcpts \in {fail, bounced}
           THEN \E success \in BOOLEAN : /\ success => "lmtp" \in Faults /\ at[f]["late"] = "none"
                                         /\ FinishAll(f, todo[f].rcpts = fail, success)
           ELSE FinishSome(f, ok, fail, bounced, todo[f].rcpts \ (ok \cup fail \cup bounced))
    BY DEF FinishMail
  <2> QED BY <2>1
<1> QED BY <1>1, <1>2, FinishAllSteady, FinishSomeSteady

\* A submission, and a crash.
LEMMA SubmissionSteady ==
    ASSUME IInv, AllSteady, NEW t \in Txn, WriteFile(t) \/ WriteFails(t) \/ Acknowledge(t)
    PROVE  AllSteady'
<1>0. TypeOK /\ ~thrown /\ \A f \in File : Steady(f)
  BY DEF IInv, AllSteady
<1>1. CASE WriteFile(t)
  <2>1. PICK g \in File : /\ IsNew(g)
                         /\ MakeFile(g, Deliveries[t][Len(txn[t].files) + 1], FALSE)
                         /\ Goes(g, "main", "held")
    BY <1>1 DEF WriteFile
  <2>2. \A u \in Strand : at[g][u] = "none"
    BY <2>1 DEF IsNew, Live
  <2>3. /\ at'[g]["main"] = "held" /\ \A u \in Strand \ {"main"} : at'[g][u] = "none"
        /\ \A h \in File \ {g} : at'[h] = at[h]
    BY <1>0, <2>1, <2>2, GoesSame DEF Strand
  <2>4. /\ refs'[g] = 1 /\ disk'[g] = 0 /\ cb'[g] = "dummy"
        /\ \A h \in File \ {g} : refs'[h] = refs[h] /\ disk'[h] = disk[h] /\ cb'[h] = cb[h]
    BY <1>0, <2>1 DEF TypeOK, MakeFile
  <2>5. Steady(g)' /\ thrown' = thrown
    BY <1>1, <2>3, <2>4, MadeSteady DEF WriteFile
  <2> QED BY <1>0, <2>3, <2>4, <2>5, OneChanges DEF Same
<1>2. ASSUME NEW g \in File, g \in ToSet(txn[t].files) PROVE at[g]["main"] = "held"
  <2>1. PICK i \in DOMAIN txn[t].files : g = txn[t].files[i]
    BY <1>2 DEF ToSet
  <2> QED BY <2>1 DEF IInv, Submitted, Wrote
<1>3. CASE WriteFails(t)
  <2>1. /\ UNCHANGED <<refs, cb, thrown>>
        /\ \A f \in File : IF f \in ToSet(txn[t].files)
                           THEN disk'[f] = NoFile /\ \A u \in Strand : at'[f][u] = "none"
                           ELSE disk'[f] = disk[f] /\ \A u \in Strand : at'[f][u] = at[f][u]
    BY <1>0, <1>3 DEF WriteFails, TypeOK
  <2>2. ASSUME NEW f \in File PROVE Steady(f)'
    <3>1. CASE f \in ToSet(txn[t].files)
      <4>1. cb[f] # "armed"
        BY <1>0, <1>2, <3>1 DEF Steady, Waiting
      <4> QED BY <2>1, <3>1, <4>1 DEF Steady, Strand, Splits, Second
    <3>2. CASE f \notin ToSet(txn[t].files)
      <4>1. Primary(f)' = Primary(f)
        BY <2>1, <3>2 DEF Primary, One, Strand
      <4> QED BY <1>0, <2>1, <3>2, <4>1 DEF Steady, Strand, Splits, Second
    <3> QED BY <3>1, <3>2
  <2> QED BY <1>0, <2>1, <2>2 DEF AllSteady
<1>4. CASE Acknowledge(t)
  <2>1. /\ UNCHANGED <<disk, refs, cb, thrown>>
        /\ \A f \in File : at'[f] = IF f \in ToSet(txn[t].files)
                                    THEN [at[f] EXCEPT !["main"] = "queued"] ELSE at[f]
    BY <1>4 DEF Acknowledge
  <2>2. ASSUME NEW f \in File PROVE Steady(f)'
    <3>1. CASE f \in ToSet(txn[t].files)
      <4>1. /\ at[f]["main"] = "held" /\ at'[f]["main"] = "queued"
            /\ \A u \in Strand \ {"main"} : at'[f][u] = at[f][u]
        BY <1>0, <1>2, <2>1, <3>1, ZenonT(60) DEF TypeOK, Strand
      <4>2. cb[f] # "armed" /\ "main" \in Strand /\ "main" \notin Splits
        BY <1>0, <4>1 DEF Steady, Waiting, Strand, Splits
      <4>3. GoesOn(f, "main")
        BY <2>1, <4>1, <4>2 DEF GoesOn
      <4> QED BY <1>0, <4>2, <4>3, GoesOnSteady
    <3>2. CASE f \notin ToSet(txn[t].files)
      BY <1>0, <2>1, <3>2, SameSteady DEF Same
    <3> QED BY <3>1, <3>2
  <2> QED BY <1>0, <2>1, <2>2 DEF AllSteady
<1> QED BY <1>1, <1>3, <1>4

LEMMA RestartSteady ==
    ASSUME IInv, Restart
    PROVE  AllSteady'
<1>1. ASSUME NEW f \in File PROVE Steady(f)'
  <2>1. /\ at'[f]["main"] = IF disk[f] # NoFile THEN "listed" ELSE "none"
        /\ \A u \in Strand \ {"main"} : at'[f][u] = "none"
        /\ refs'[f] = 1 /\ cb'[f] = "dummy" /\ disk'[f] = disk[f]
    BY DEF Restart, Strand
  <2>2. Primary(f)' = One(disk[f] # NoFile)
    BY <2>1 DEF Primary, One, Strand
  <2> QED BY <2>1, <2>2 DEF Steady, Strand, Splits, Second, One
<1> QED BY <1>1 DEF AllSteady, Restart

LEMMA SteadyInit == Init => AllSteady
  BY DEF Init, AllSteady, Steady, Strand, Splits, Second

\* No stream is torn, and no hooks meet.
LEMMA IntactNext ==
    ASSUME SplitsWork, ~torn, [Next]_vars
    PROVE  ~torn'
<1>1. ~StreamCloses /\ \A f \in File : ~HooksClash(f)
  BY DEF SplitsWork, StreamCloses, HooksClash
<1>2. CannotWrite => torn' = torn
  BY DEF SplitsWork, CannotWrite
<1>3. CASE UNCHANGED vars
  BY <1>3 DEF vars
<1>4. CASE Restart
  BY <1>4 DEF Restart
<1>5. ASSUME NEW t \in Txn, WriteFile(t) \/ WriteFails(t) \/ Acknowledge(t) PROVE ~torn'
  BY <1>2, <1>5 DEF WriteFile, WriteFails, Acknowledge
<1>6. ASSUME NEW f \in File,
             \/ Load(f) \/ TimerFires(f) \/ Dispatch(f) \/ DelayRespond(f)
             \/ SendTempFails(f) \/ SendBounces(f) \/ FinishMail(f)
             \/ DeferredRespond(f) \/ Renamed(f) \/ RenameFails(f)
      PROVE  ~torn'
  BY <1>6 DEF Load, TimerFires, Dispatch, DelayRespond, SendTempFails, SendBounces, FinishMail,
              DeferredRespond, Renamed, RenameFails
<1>7. ASSUME NEW f \in File, NEW s \in Strand,
             \/ DeliveredRespond(f, s) \/ BounceRespond(f, s) \/ PopulateFails(f, s)
             \/ NoticeWritten(f, s) \/ NoticeQueued(f, s) \/ NoticeFails(f, s)
      PROVE  ~torn'
  BY <1>2, <1>7 DEF DeliveredRespond, BounceRespond, PopulateFails, NoticeWritten, NoticeQueued, NoticeFails
<1>8. ASSUME NEW f \in File, NEW s \in Splits,
             SplitWritten(f, s) \/ SplitReady(f, s) \/ SplitFails(f, s) \/ SplitWriteFails(f, s)
      PROVE  ~torn'
  BY <1>8 DEF SplitWritten, SplitReady, SplitFails, SplitWriteFails
<1>9. {"main", "late"} \subseteq Strand
  BY DEF Strand
<1> QED BY <1>1, <1>3, <1>4, <1>5, <1>6, <1>7, <1>8, <1>9 DEF Next, Internal

LEMMA Intact == SplitsWork => (Spec => []~torn)
<1>1. Init => ~torn
  BY DEF Init
<1>2. SplitsWork /\ ~torn /\ [Next]_vars => ~torn'
  BY IntactNext
<1>3. CASE SplitsWork
  BY <1>1, <1>2, <1>3, PTL DEF Spec
<1> QED BY <1>3

LEMMA SteadyNext ==
    ASSUME SplitsWork, IInv, AllSteady, ~torn, [Next]_vars
    PROVE  AllSteady'
<1>1. CASE UNCHANGED vars
  <2>1. \A f \in File : Same(f)
    BY <1>1 DEF vars, item, Same
  <2> QED BY <1>1, <2>1, SameSteady DEF vars, AllSteady
<1>2. {"main", "late"} \subseteq Strand /\ ~StreamCloses /\ \A f \in File : ~HooksClash(f)
  BY DEF Strand, SplitsWork, StreamCloses, HooksClash
<1>3. CASE Next
  BY <1>2, <1>3, SubmissionSteady, SendingSteady, FinishSteady, EndingSteady, SplittingSteady,
     RestartSteady DEF Next, Internal
<1> QED BY <1>1, <1>3

THEOREM StaysSteady == SplitsWork => (Spec => []AllSteady)
<1> SUFFICES ASSUME SplitsWork PROVE Spec => []AllSteady
  OBVIOUS
<1>1. IInv /\ AllSteady /\ ~torn /\ [Next]_vars => AllSteady'
  BY SteadyNext
<1>2. Spec => []~torn
  BY Intact
<1> QED BY <1>1, <1>2, SteadyInit, Invariance, PTL DEF Spec

-----------------------------------------------------------------------------
\* What the runs check of it.

LEMMA AddIf ==
    ASSUME NEW S, IsFiniteSet(S), NEW x, x \notin S, NEW p \in BOOLEAN
    PROVE  LET T == S \cup (IF p THEN {x} ELSE {})
           IN  IsFiniteSet(T) /\ Cardinality(T) = Cardinality(S) + One(p) /\ Cardinality(T) \in Nat
<1>1. CASE p
  BY <1>1, FS_AddElement, FS_CardinalityType DEF One
<1>2. CASE ~p
  <2>1. S \cup {} = S
    OBVIOUS
  <2> QED BY <1>2, <2>1, FS_CardinalityType DEF One
<1> QED BY <1>1, <1>2

LEMMA LiveCount ==
    ASSUME NEW f \in File, Steady(f)
    PROVE  Cardinality(Live(f)) = Primary(f)
<1> DEFINE A == {} \cup (IF at[f]["main"] # "none" THEN {"main"} ELSE {})
           B == A \cup (IF at[f]["late"] # "none" THEN {"late"} ELSE {})
           C == B \cup (IF at[f]["fail"] # "none" THEN {"fail"} ELSE {})
           D == C \cup (IF at[f]["bounce"] # "none" THEN {"bounce"} ELSE {})
<1>1. Live(f) = D
  BY DEF Live, Steady, Strand, Splits, Second
<1>2. IsFiniteSet({}) /\ Cardinality({}) = 0
  BY FS_EmptySet
<1>3. "main" \notin {} /\ "late" \notin A /\ "fail" \notin B /\ "bounce" \notin C
  OBVIOUS
<1>4. \A s \in {"main", "late", "fail", "bounce"} : (at[f][s] # "none") \in BOOLEAN
  OBVIOUS
<1>5. /\ IsFiniteSet(A) /\ Cardinality(A) \in Nat
      /\ Cardinality(A) = 0 + One(at[f]["main"] # "none")
  BY <1>2, <1>3, <1>4, AddIf
<1> HIDE DEF A
<1>6. /\ IsFiniteSet(B) /\ Cardinality(B) \in Nat
      /\ Cardinality(B) = Cardinality(A) + One(at[f]["late"] # "none")
  BY <1>3, <1>4, <1>5, AddIf
<1> HIDE DEF B
<1>7. /\ IsFiniteSet(C) /\ Cardinality(C) \in Nat
      /\ Cardinality(C) = Cardinality(B) + One(at[f]["fail"] # "none")
  BY <1>3, <1>4, <1>6, AddIf
<1> HIDE DEF C
<1>8. Cardinality(D) = Cardinality(C) + One(at[f]["bounce"] # "none")
  BY <1>3, <1>4, <1>7, AddIf
<1> HIDE DEF D
<1> QED BY <1>1, <1>5, <1>6, <1>7, <1>8 DEF Primary, One

\* The reference count of a file in the queue is the number of callbacks that
\* will discard it (refcount and discard() of outbound.js), for any mails,
\* retries and crashes, when the splits do not fail.
THEOREM ReferencesExact == SplitsWork => (Spec => []RefcountExact)
<1>1. AllSteady => RefcountExact
  BY LiveCount DEF AllSteady, RefcountExact, Steady
<1> QED BY <1>1, StaysSteady, PTL

\* A slot of the delivery queue is held only by a mail that some callback
\* will still settle (next_cb of outbound.js).
THEOREM SlotsComeBack == SplitsWork => (Spec => []NoSlotLeak)
<1>1. IInv /\ AllSteady => NoSlotLeak
  <2> SUFFICES ASSUME IInv, AllSteady, NEW f \in File, cb[f] = "armed"
               PROVE  \E s \in Strand :
                         at[f][s] \notin {"none", "held", "listed", "queued", "timed", "born"}
    BY DEF NoSlotLeak
  <2>1. Steady(f)
    BY DEF AllSteady
  <2>2. at[f]["late"] \in {"none", "delivered"}
    BY DEF IInv, Shape, Form
  <2> QED BY <2>1, <2>2 DEF Steady, Primary, One, Strand, Splits, Waiting
<1> QED BY <1>1, StaysSteady, Invariance, PTL

\* next_cb is not called again for a slot that was given back, so async does
\* not throw.
THEOREM SlotsComeBackOnce == SplitsWork => (Spec => []NextCbOnce)
<1>1. AllSteady => NextCbOnce
  BY DEF AllSteady, NextCbOnce
<1> QED BY <1>1, StaysSteady, PTL

-----------------------------------------------------------------------------
\* One end for each recipient, when the process does not crash.

\* r ended once at most; one strand has it to settle, and none when it ended.
SingleFor(r) ==
    /\ \A w, x \in fate[r] : w = x
    /\ \A f \in File, s \in Strand : Owns(f, s, r) =>
          /\ fate[r] = {}
          /\ \A g \in File, u \in Strand : Owns(g, u, r) => g = f /\ u = s

\* Nobody has the recipients of files that a submission did not write yet.
Unwritten ==
    \A t \in Txn : txn[t].st = "open" =>
        \A i \in Len(txn[t].files) + 1 .. Len(Deliveries[t]) : \A r \in Deliveries[t][i] :
            fate[r] = {} /\ \A f \in File, s \in Strand : ~Owns(f, s, r)

\* A split is for some of the recipients of its file.
Pieces == \A f \in File, s \in Splits :
             at[f][s] = "split" => piece[f][s] \subseteq todo[f].rcpts

Single == (\A r \in Rcpt : SingleFor(r)) /\ Unwritten /\ Pieces

\* The step leaves r where it was, or ends it and then nobody has it.
Keeps(r) ==
    /\ \A f \in File, s \in Strand : Owns(f, s, r)' => Owns(f, s, r)
    /\ \/ fate'[r] = fate[r]
       \/ /\ \E w : fate'[r] = {w}
          /\ \E f \in File, s \in Strand : Owns(f, s, r)
          /\ \A f \in File, s \in Strand : ~Owns(f, s, r)'

\* The step takes r from strand s of f, and strand u of g has it if any has.
Handed(r, f, s, g, u) ==
    /\ fate'[r] = fate[r]
    /\ ~Owns(f, s, r)'
    /\ Owns(g, u, r)' => Owns(f, s, r)
    /\ \A h \in File, v \in Strand : Owns(h, v, r)' => Owns(h, v, r) \/ (h = g /\ v = u)

LEMMA KeptSingle ==
    ASSUME NEW r, SingleFor(r), Keeps(r)
    PROVE  SingleFor(r)'
  BY DEF SingleFor, Keeps

LEMMA HandedSingle ==
    ASSUME NEW r, SingleFor(r), NEW f \in File, NEW g \in File, NEW s \in Strand, NEW u \in Strand,
           Handed(r, f, s, g, u)
    PROVE  SingleFor(r)'
<1>1. \A w, x \in fate'[r] : w = x
  BY DEF SingleFor, Handed
<1>2. ASSUME NEW h \in File, NEW v \in Strand, Owns(h, v, r)'
      PROVE  /\ fate'[r] = {}
             /\ \A k \in File, y \in Strand : Owns(k, y, r)' => k = h /\ y = v
  BY <1>2 DEF SingleFor, Handed
<1> QED BY <1>1, <1>2 DEF SingleFor

Passes(r) == \/ Keeps(r)
             \/ \E f, g \in File : \E s, u \in Strand : Handed(r, f, s, g, u)

LEMMA PassesUnowned ==
    ASSUME NEW r, Passes(r), \A f \in File, s \in Strand : ~Owns(f, s, r)
    PROVE  fate'[r] = fate[r] /\ \A f \in File, s \in Strand : ~Owns(f, s, r)'
  BY DEF Passes, Keeps, Handed

LEMMA AllPass ==
    ASSUME TypeOK, Single, Pieces', \A r \in Rcpt : Passes(r),
           \A t \in Txn : txn'[t] = txn[t] \/ txn'[t].st # "open"
    PROVE  Single'
<1>1. ASSUME NEW r \in Rcpt PROVE SingleFor(r)'
  BY KeptSingle, HandedSingle DEF Passes, Single
<1>2. Unwritten'
  <2> SUFFICES ASSUME NEW t \in Txn, txn'[t].st = "open",
                      NEW i \in Len(txn'[t].files) + 1 .. Len(Deliveries[t]),
                      NEW r \in Deliveries[t][i]
               PROVE  fate'[r] = {} /\ \A f \in File, s \in Strand : ~Owns(f, s, r)'
    BY DEF Unwritten
  <2>1. txn'[t] = txn[t]
    OBVIOUS
  <2>2. fate[r] = {} /\ \A f \in File, s \in Strand : ~Owns(f, s, r)
    BY <2>1 DEF Single, Unwritten
  <2>3. r \in Rcpt
    <3>1. Deliveries[t] \in Seq((SUBSET Rcpt) \ {{}})
      BY ConstAssumption
    <3>2. i \in 1 .. Len(Deliveries[t])
      <4>1. txn[t].files \in Seq(File)
        BY DEF TypeOK
      <4>2. Len(txn[t].files) \in Nat
        BY <4>1
      <4> QED BY <2>1, <3>1, <4>2
    <3> QED BY <3>1, <3>2
  <2> QED BY <2>2, <2>3, PassesUnowned
<1> QED BY <1>1, <1>2 DEF Single

\* No strand takes on a recipient.
Shrinking ==
    /\ UNCHANGED todo
    /\ \A f \in File : disk'[f] # NoFile => disk[f] # NoFile
    /\ \A f \in File, s \in Strand : at'[f][s] \in Whole => at[f][s] \in Whole
    /\ \A f \in File, s \in Splits : at'[f][s] = "split" =>
          at[f][s] = "split" /\ piece'[f][s] = piece[f][s]

LEMMA ShrinkingOwns ==
    ASSUME Shrinking, NEW f \in File, NEW s \in Strand, NEW r
    PROVE  Owns(f, s, r)' => Owns(f, s, r)
  BY DEF Shrinking, Owns

LEMMA ShrinkingPieces ==
    ASSUME Single, Shrinking
    PROVE  Pieces'
  BY DEF Single, Pieces, Shrinking

LEMMA QuietSingle ==
    ASSUME TypeOK, Single, Shrinking, UNCHANGED <<fate, txn>>
    PROVE  Single'
<1>1. \A r \in Rcpt : Passes(r)
  BY ShrinkingOwns DEF Passes, Keeps
<1> QED BY <1>1, ShrinkingPieces, AllPass

\* A mail whose main strand ends takes its recipients to their end.
LEMMA EndSingle ==
    ASSUME TypeOK, Single, Shrinking, txn' = txn, NEW f \in File, disk[f] # NoFile,
           at[f]["main"] \in Whole, at'[f]["main"] = "none",
           NEW how, fate' = Ended(todo[f].rcpts, how)
    PROVE  Single'
<1>0. SUFFICES ASSUME NEW r \in Rcpt PROVE Passes(r)
  BY ShrinkingPieces, AllPass
<1>1. CASE r \in todo[f].rcpts
  <2>1. Owns(f, "main", r) /\ "main" \in Strand
    BY <1>1 DEF Owns, Strand
  <2>2. fate[r] = {} /\ \A g \in File, u \in Strand : Owns(g, u, r) => g = f /\ u = "main"
    BY <2>1 DEF Single, SingleFor
  <2>3. ~Owns(f, "main", r)'
    BY DEF Owns, Whole, Splits
  <2>4. fate'[r] = {how}
    BY <1>1, <2>2 DEF Ended
  <2> QED BY <2>1, <2>2, <2>3, <2>4, ShrinkingOwns DEF Passes, Keeps
<1>2. CASE r \notin todo[f].rcpts
  <2>1. fate'[r] = fate[r]
    BY <1>2 DEF Ended
  <2> QED BY <2>1, ShrinkingOwns DEF Passes, Keeps
<1> QED BY <1>1, <1>2

LEMMA SendingSingle ==
    ASSUME IInv, AllSteady, Single, NEW f \in File,
           \/ Load(f) \/ TimerFires(f) \/ Dispatch(f) \/ DelayRespond(f)
           \/ SendTempFails(f) \/ SendBounces(f)
           \/ DeferredRespond(f) \/ Renamed(f) \/ RenameFails(f)
    PROVE  Single'
<1>0. TypeOK /\ "main" \in Strand /\ "main" \notin Splits /\ Splits \subseteq Strand /\ Steady(f)
  BY DEF IInv, AllSteady, Strand, Splits
<1>1. txn' = txn
  BY DEF Load, TimerFires, Dispatch, DelayRespond, SendTempFails, SendBounces, DeferredRespond,
         Renamed, RenameFails
<1>2. ASSUME NEW w, Goes(f, "main", w), at[f]["main"] \in Whole, UNCHANGED <<todo, piece>>,
             \A g \in File : disk'[g] # NoFile => disk[g] # NoFile
      PROVE  Shrinking
  BY <1>0, <1>2, GoesSame DEF Shrinking
<1>3. CASE \/ Load(f) \/ TimerFires(f) \/ Dispatch(f) \/ DelayRespond(f)
           \/ SendTempFails(f) \/ SendBounces(f) \/ RenameFails(f)
  <2>1. PICK w : Goes(f, "main", w)
    BY <1>3 DEF Load, TimerFires, Dispatch, DelayRespond, SendTempFails, SendBounces, RenameFails
  <2>2. at[f]["main"] \in Whole /\ UNCHANGED <<todo, piece, disk, fate>>
    BY <1>3 DEF Load, TimerFires, Dispatch, DelayRespond, SendTempFails, SendBounces, RenameFails, Whole
  <2> QED BY <1>0, <1>1, <1>2, <2>1, <2>2, QuietSingle
<1>4. CASE Renamed(f)
  <2>1. /\ at[f]["main"] = "rename" /\ Goes(f, "main", "timed")
        /\ disk' = [disk EXCEPT ![f] = tries[f]] /\ UNCHANGED <<todo, piece, fate>>
    BY <1>4 DEF Renamed
  <2>2. disk[f] # NoFile
    BY <1>0, <2>1 DEF Steady
  <2>3. \A g \in File : disk'[g] # NoFile => disk[g] # NoFile
    BY <1>0, <2>1, <2>2 DEF TypeOK
  <2> QED BY <1>0, <1>1, <1>2, <2>1, <2>3, QuietSingle DEF Whole
<1>5. CASE DeferredRespond(f)
  <2>1. at[f]["main"] = "defer" /\ UNCHANGED <<todo, piece>>
    BY <1>5 DEF DeferredRespond
  <2>2. CASE Goes(f, "main", "rename") /\ UNCHANGED <<disk, refs, cb, fate, thrown>>
    BY <1>0, <1>1, <1>2, <2>1, <2>2, QuietSingle DEF Whole
  <2>3. CASE /\ fate' = Ended(todo[f].rcpts, "dropped")
             /\ Goes(f, "main", "none") /\ Discard(f)
    <3>1. \A g \in File : disk'[g] # NoFile => disk[g] # NoFile
      BY <1>0, <2>3, DiscardPoints
    <3>2. Shrinking /\ at[f]["main"] \in Whole
      BY <1>2, <2>1, <2>3, <3>1 DEF Whole
    <3>3. at'[f]["main"] = "none" /\ disk[f] # NoFile
      BY <1>0, <2>1, <2>3, GoesSame DEF Steady
    <3> QED BY <1>0, <1>1, <2>3, <3>2, <3>3, EndSingle
  <2> QED BY <1>5, <2>2, <2>3 DEF DeferredRespond
<1> QED BY <1>3, <1>4, <1>5

\* Strand s of f writes file g for some of the recipients it has.
LEMMA WriteSingle ==
    ASSUME TypeOK, Single, NEW f \in File, NEW s \in Strand, NEW g \in File,
           NEW w \in {"noted", "ready"}, NEW v \in {"held", "born"}, NEW rcpts, NEW null,
           IsNew(g), MakeFile(g, rcpts, null),
           at' = [at EXCEPT ![f][s] = w, ![g]["main"] = v],
           \A x \in rcpts : Owns(f, s, x), at[f][s] # "none",
           \A h \in File, u \in Splits : h # f \/ u # s => piece'[h][u] = piece[h][u],
           UNCHANGED <<fate, txn>>
    PROVE  Single'
<1>1. /\ disk[g] = NoFile /\ g # f /\ \A u \in Strand : at[g][u] = "none"
      /\ "main" \in Strand /\ "main" \notin Splits /\ Splits \subseteq Strand
  BY DEF IsNew, Live, Strand, Splits
<1>2. /\ at'[f][s] = w /\ \A u \in Strand \ {s} : at'[f][u] = at[f][u]
      /\ at'[g]["main"] = v /\ \A u \in Strand \ {"main"} : at'[g][u] = "none"
      /\ \A h \in File \ {f, g} : at'[h] = at[h]
  BY <1>1 DEF TypeOK
<1>3. /\ todo'[g].rcpts = rcpts
      /\ \A h \in File \ {g} : disk'[h] = disk[h] /\ todo'[h] = todo[h]
  BY DEF TypeOK, MakeFile
<1>4. ASSUME NEW h \in File, NEW u \in Strand, NEW r, Owns(h, u, r)', h # g \/ u # "main"
      PROVE  Owns(h, u, r) /\ (h # f \/ u # s)
  <2>1. CASE h = g
    BY <1>1, <1>2, <1>4, <2>1 DEF Owns, Whole
  <2>2. CASE h = f
    BY <1>1, <1>2, <1>3, <1>4, <2>2 DEF Owns, Whole
  <2>3. CASE h \notin {f, g}
    BY <1>2, <1>3, <1>4, <2>3 DEF Owns
  <2> QED BY <2>1, <2>2, <2>3
<1>5. ASSUME NEW r PROVE Handed(r, f, s, g, "main")
  <2>1. Owns(g, "main", r)' => Owns(f, s, r)
    BY <1>3 DEF Owns
  <2>2. ~Owns(f, s, r)'
    BY <1>1, <1>4
  <2> QED BY <1>4, <2>1, <2>2 DEF Handed
<1>6. Pieces'
  <2> SUFFICES ASSUME NEW h \in File, NEW u \in Splits, at'[h][u] = "split"
               PROVE  piece'[h][u] \subseteq todo'[h].rcpts
    BY DEF Pieces
  <2>1. h # g /\ (h # f \/ u # s) /\ at[h][u] = "split"
    BY <1>1, <1>2, ZenonT(60)
  <2> QED BY <1>3, <2>1 DEF Single, Pieces
<1> QED BY <1>1, <1>5, <1>6, AllPass DEF Passes

\* Strand s of f ends, and the mail of the file it wrote goes on.
LEMMA HandOverShrinks ==
    ASSUME TypeOK, NEW f \in File, NEW s \in Strand, NEW g \in File, NEW w,
           at' = [at EXCEPT ![f][s] = "none", ![g]["main"] = w],
           at[g]["main"] \in {"held", "born"}, Discard(f), UNCHANGED <<todo, piece>>
    PROVE  Shrinking
<1>1. \A h \in File : disk'[h] # NoFile => disk[h] # NoFile
  BY DiscardPoints
<1>2. \A h \in File, u \in Strand : at'[h][u] \in {at[h][u], "none"} \/ (h = g /\ u = "main")
  BY DEF TypeOK, Strand
<1>3. \A h \in File, u \in Strand : at'[h][u] \in Whole => at[h][u] \in Whole
  BY <1>2 DEF Whole
<1>4. \A h \in File, u \in Splits : at'[h][u] = "split" => at[h][u] = "split"
  BY <1>2 DEF Splits, Strand
<1> QED BY <1>1, <1>3, <1>4 DEF Shrinking

LEMMA EndingSingle ==
    ASSUME IInv, AllSteady, Single, NEW f \in File, NEW s \in Strand,
           \/ DeliveredRespond(f, s) \/ BounceRespond(f, s) \/ PopulateFails(f, s)
           \/ NoticeWritten(f, s) \/ NoticeQueued(f, s) \/ NoticeFails(f, s)
    PROVE  Single'
<1>0. TypeOK /\ Steady(f) /\ Form(f) /\ Splits \subseteq Strand
  BY DEF IInv, AllSteady, Shape, Strand, Splits
<1>1. at[f][s] \in {"bounce", "notify", "noted"} => s = "main" /\ disk[f] # NoFile
  BY <1>0 DEF Steady, Form, Strand, Splits, Second
<1>2. txn' = txn
  BY DEF DeliveredRespond, BounceRespond, PopulateFails, NoticeWritten, NoticeQueued, NoticeFails
<1>3. ASSUME NEW w \in {"none", "notify"}, Goes(f, s, w), w = "none" \/ at[f][s] = "bounce",
             UNCHANGED <<todo, piece>>, \A g \in File : disk'[g] # NoFile => disk[g] # NoFile
      PROVE  Shrinking
  BY <1>0, <1>3, GoesSame DEF Shrinking, Whole
<1>4. ASSUME at[f][s] \in {"bounce", "notify"}, Goes(f, s, "none"), Discard(f) \/ DoubleBounce(f),
             UNCHANGED <<todo, piece>>, NEW how, fate' = Ended(todo[f].rcpts, how)
      PROVE  Single'
  <2>1. \A g \in File : disk'[g] # NoFile => disk[g] # NoFile
    BY <1>0, <1>4, DiscardPoints, DoubleBouncePoints
  <2>2. Shrinking
    BY <1>3, <1>4, <2>1
  <2>3. s = "main" /\ disk[f] # NoFile /\ at'[f]["main"] = "none" /\ at[f]["main"] \in Whole
    BY <1>0, <1>1, <1>4, GoesSame DEF Whole
  <2> QED BY <1>0, <1>2, <1>4, <2>2, <2>3, EndSingle
<1>5. CASE DeliveredRespond(f, s)
  <2>1. \A g \in File : disk'[g] # NoFile => disk[g] # NoFile
    BY <1>0, <1>5, DiscardPoints DEF DeliveredRespond
  <2>2. Shrinking /\ UNCHANGED fate
    BY <1>3, <1>5, <2>1 DEF DeliveredRespond
  <2> QED BY <1>0, <1>2, <2>2, QuietSingle
<1>6. CASE PopulateFails(f, s)
  BY <1>4, <1>6 DEF PopulateFails
<1>7. CASE NoticeFails(f, s)
  BY <1>4, <1>7 DEF NoticeFails
<1>8. CASE BounceRespond(f, s)
  <2>1. at[f][s] = "bounce" /\ UNCHANGED <<todo, piece>>
    BY <1>8 DEF BounceRespond
  <2>2. CASE /\ fate' = Ended(todo[f].rcpts, "dropped")
             /\ Goes(f, s, "none") /\ Discard(f)
    BY <1>4, <2>1, <2>2
  <2>3. CASE /\ fate' = Ended(todo[f].rcpts, "logged")
             /\ Goes(f, s, "none") /\ DoubleBounce(f)
    BY <1>4, <2>1, <2>3
  <2>4. CASE Goes(f, s, "notify") /\ UNCHANGED <<disk, refs, cb, fate, thrown>>
    <3>1. Shrinking
      BY <1>3, <2>1, <2>4
    <3> QED BY <1>0, <1>2, <2>4, <3>1, QuietSingle
  <2> QED BY <1>8, <2>2, <2>3, <2>4 DEF BounceRespond
<1>9. CASE NoticeWritten(f, s)
  <2>1. PICK g \in File : /\ IsNew(g) /\ MakeFile(g, todo[f].rcpts, TRUE)
                         /\ at' = [at EXCEPT ![f][s] = "noted", ![g]["main"] = "held"]
    BY <1>9 DEF NoticeWritten
  <2>2. at[f][s] = "notify" /\ disk[f] # NoFile /\ UNCHANGED <<piece, fate>>
    BY <1>9 DEF NoticeWritten
  <2>3. \A x \in todo[f].rcpts : Owns(f, s, x)
    BY <2>2 DEF Owns, Whole
  <2> QED BY <1>0, <1>2, <2>1, <2>2, <2>3, WriteSingle
<1>10. CASE NoticeQueued(f, s)
  <2>1. PICK g : g = child[f][s]
    OBVIOUS
  <2>2. /\ at[f][s] = "noted" /\ Discard(f)
        /\ at' = [at EXCEPT ![f][s] = "none", ![g]["main"] = "queued"]
        /\ UNCHANGED <<todo, piece, fate>>
    BY <1>10, <2>1 DEF NoticeQueued
  <2>3. g \in File /\ at[g]["main"] = "held"
    BY <2>1, <2>2 DEF IInv, Children, Parent, ChildOf
  <2>4. Shrinking
    BY <1>0, <2>2, <2>3, HandOverShrinks
  <2> QED BY <1>0, <1>2, <2>2, <2>4, QuietSingle
<1> QED BY <1>5, <1>6, <1>7, <1>8, <1>9, <1>10

LEMMA SplittingSingle ==
    ASSUME IInv, AllSteady, Single, SplitsWork, NEW f \in File, NEW s \in Splits,
           SplitWritten(f, s) \/ SplitReady(f, s) \/ SplitFails(f, s) \/ SplitWriteFails(f, s)
    PROVE  Single'
<1>0. TypeOK /\ s \in Strand /\ Steady(f)
  BY DEF IInv, AllSteady, Strand, Splits
<1>1. CASE SplitWritten(f, s)
  <2>1. PICK g \in File : /\ IsNew(g) /\ MakeFile(g, piece[f][s], todo[f].null)
                         /\ at' = [at EXCEPT ![f][s] = "ready", ![g]["main"] = "born"]
    BY <1>1 DEF SplitWritten
  <2>2. /\ at[f][s] = "split" /\ UNCHANGED <<fate, txn>>
        /\ \A h \in File, u \in Splits : h # f \/ u # s => piece'[h][u] = piece[h][u]
    BY <1>0, <1>1 DEF SplitWritten, TypeOK
  <2>3. disk[f] # NoFile
    BY <1>0, <2>2 DEF Steady
  <2>4. \A x \in piece[f][s] : Owns(f, s, x)
    BY <2>2, <2>3 DEF Owns, Single, Pieces
  <2> QED BY <1>0, <2>1, <2>2, <2>4, WriteSingle
<1>2. CASE SplitReady(f, s)
  <2>1. PICK g : g = child[f][s]
    OBVIOUS
  <2>2. at[f][s] = "ready" /\ Discard(f) /\ UNCHANGED <<todo, piece, txn, fate>>
    BY <1>2 DEF SplitReady
  <2>3. g \in File /\ at[g]["main"] = "born"
    BY <1>0, <2>1, <2>2 DEF IInv, Children, Parent, ChildOf
  <2>4. PICK w : at' = [at EXCEPT ![f][s] = "none", ![g]["main"] = w]
    BY <1>2, <2>1 DEF SplitReady
  <2>5. Shrinking
    BY <1>0, <2>2, <2>3, <2>4, HandOverShrinks
  <2> QED BY <1>0, <2>2, <2>5, QuietSingle
<1>3. ~SplitFails(f, s) /\ ~SplitWriteFails(f, s)
  BY DEF SplitsWork, SplitFails, SplitWriteFails
<1> QED BY <1>1, <1>2, <1>3

\* The lists of a conversation share out the recipients of the mail.
LEMMA FinishSomeSingle ==
    ASSUME IInv, AllSteady, Single, NEW f \in File,
           NEW ok \in SUBSET todo[f].rcpts, NEW fail \in SUBSET todo[f].rcpts,
           NEW bounced \in SUBSET todo[f].rcpts, NEW skipped \in SUBSET todo[f].rcpts,
           skipped = todo[f].rcpts \ (ok \cup fail \cup bounced),
           ok \cap fail = {}, ok \cap bounced = {}, fail \cap bounced = {},
           at[f]["main"] = "send", FinishSome(f, ok, fail, bounced, skipped),
           UNCHANGED <<todo, txn>>
    PROVE  Single'
<1>0. /\ TypeOK /\ Steady(f) /\ Form(f) /\ disk[f] # NoFile
      /\ "main" \in Strand /\ "main" \notin Splits /\ Splits \subseteq Strand
  BY DEF IInv, AllSteady, Shape, Steady, Strand, Splits
<1>1. /\ at'[f]["main"] = IF ok # {} THEN "delivered" ELSE "none"
      /\ at'[f]["late"] \in {"none", "delivered"}
      /\ at'[f]["fail"] = IF fail # {} THEN "split" ELSE "none"
      /\ at'[f]["bounce"] = IF bounced # {} THEN "split" ELSE "none"
      /\ \A u \in {"fail2", "bounce2"} : at'[f][u] = "none"
      /\ \A g \in File \ {f} : at'[g] = at[g]
  BY <1>0 DEF FinishSome, TypeOK, Form, Strand, Splits, Second, Steady
<1>2. /\ piece'[f]["fail"] = fail /\ piece'[f]["bounce"] = bounced
      /\ \A g \in File \ {f} : piece'[g] = piece[g]
  BY <1>0 DEF FinishSome, TypeOK, Splits
<1>3. \A g \in File : disk'[g] # NoFile => disk[g] # NoFile
  <2>1. Discard(f) \/ UNCHANGED disk
    BY DEF FinishSome
  <2> QED BY <1>0, <2>1, DiscardPoints
<1>4. ASSUME NEW g \in File, NEW u \in Strand, NEW r, Owns(g, u, r)'
      PROVE  IF g = f THEN (u = "fail" /\ r \in fail) \/ (u = "bounce" /\ r \in bounced)
                      ELSE Owns(g, u, r)
  <2>1. CASE g = f
    BY <1>1, <1>2, <1>4, <2>1 DEF Owns, Whole, Strand
  <2>2. CASE g # f
    BY <1>1, <1>2, <1>3, <1>4, <2>2 DEF Owns
  <2> QED BY <2>1, <2>2
<1>5. \A r \in todo[f].rcpts : Owns(f, "main", r)
  BY <1>0 DEF Owns, Whole
<1>6. \A r \in Rcpt : fate'[r] = IF r \in skipped THEN fate[r] \cup {"skipped"} ELSE Taken(f, ok)[r]
  BY DEF FinishSome
<1>7. \A r \in Rcpt \ ok : Taken(f, ok)[r] = fate[r]
  BY DEF Taken, Ended
<1>8. ASSUME NEW r \in Rcpt PROVE Passes(r)
  <2>1. CASE r \notin todo[f].rcpts
    <3>1. fate'[r] = fate[r]
      <4>1. r \notin skipped /\ r \notin ok
        BY <2>1
      <4> QED BY <1>6, <1>7, <4>1
    <3>2. \A g \in File, u \in Strand : Owns(g, u, r)' => Owns(g, u, r)
      <4>1. r \notin fail /\ r \notin bounced
        BY <2>1
      <4> QED BY <1>4, <4>1
    <3> QED BY <3>1, <3>2 DEF Passes, Keeps
  <2>2. CASE r \in fail
    <3>1. fate'[r] = fate[r]
      BY <1>6, <1>7, <2>2
    <3>2. Handed(r, f, "main", f, "fail")
      BY <1>0, <1>4, <1>5, <2>2, <3>1 DEF Handed
    <3> QED BY <1>0, <3>2 DEF Passes, Splits
  <2>3. CASE r \in bounced
    <3>1. fate'[r] = fate[r]
      BY <1>6, <1>7, <2>3
    <3>2. Handed(r, f, "main", f, "bounce")
      BY <1>0, <1>4, <1>5, <2>3, <3>1 DEF Handed
    <3> QED BY <1>0, <3>2 DEF Passes, Splits
  <2>4. CASE r \in ok \cup skipped
    <3>1. Owns(f, "main", r)
      BY <1>5, <2>4
    <3>2. fate[r] = {} /\ \A g \in File, u \in Strand : Owns(g, u, r) => g = f /\ u = "main"
      BY <1>0, <3>1 DEF Single, SingleFor
    <3>3. \A g \in File, u \in Strand : ~Owns(g, u, r)'
      BY <1>4, <2>4, <3>2
    <3>4. \E w : fate'[r] = {w}
      <4>1. CASE r \in skipped
        <5>1. fate'[r] = {"skipped"}
          BY <1>6, <3>2, <4>1
        <5> QED BY <5>1
      <4>2. CASE r \notin skipped
        <5>1. fate'[r] = Taken(f, ok)[r] /\ r \in ok
          BY <1>6, <2>4, <4>2
        <5>2. Taken(f, ok)[r] = IF todo[f].null THEN {"notified"} ELSE {"delivered"}
          BY <3>2, <5>1 DEF Taken, Ended
        <5> QED BY <5>1, <5>2
      <4> QED BY <4>1, <4>2
    <3> QED BY <1>0, <3>1, <3>3, <3>4 DEF Passes, Keeps
  <2> QED BY <2>1, <2>2, <2>3, <2>4
<1>9. Pieces'
  BY <1>1, <1>2 DEF Single, Pieces, Splits
<1> QED BY <1>0, <1>8, <1>9, AllPass

LEMMA FinishSingle ==
    ASSUME IInv, AllSteady, Single, NEW f \in File, FinishMail(f)
    PROVE  Single'
<1>1. at[f]["main"] = "send" /\ UNCHANGED <<todo, txn>>
  BY DEF FinishMail
<1>2. PICK ok \in SUBSET todo[f].rcpts, fail \in SUBSET todo[f].rcpts,
           bounced \in SUBSET todo[f].rcpts, skipped \in SUBSET todo[f].rcpts :
         /\ skipped = todo[f].rcpts \ (ok \cup fail \cup bounced)
         /\ ok \cap fail = {} /\ ok \cap bounced = {} /\ fail \cap bounced = {}
         /\ IF todo[f].rcpts \in {fail, bounced}
            THEN \E success \in BOOLEAN : FinishAll(f, todo[f].rcpts = fail, success)
            ELSE FinishSome(f, ok, fail, bounced, skipped)
  <2>1. PICK ok \in SUBSET todo[f].rcpts, fail \in SUBSET todo[f].rcpts, bounced \in SUBSET todo[f].rcpts :
           /\ ok \cap fail = {} /\ ok \cap bounced = {} /\ fail \cap bounced = {}
           /\ IF todo[f].rcpts \in {fail, bounced}
              THEN \E success \in BOOLEAN : /\ success => "lmtp" \in Faults /\ at[f]["late"] = "none"
                                            /\ FinishAll(f, todo[f].rcpts = fail, success)
              ELSE FinishSome(f, ok, fail, bounced, todo[f].rcpts \ (ok \cup fail \cup bounced))
    BY Zenon DEF FinishMail
  <2>2. PICK skipped \in SUBSET todo[f].rcpts : skipped = todo[f].rcpts \ (ok \cup fail \cup bounced)
    OBVIOUS
  <2>3. IF todo[f].rcpts \in {fail, bounced}
        THEN \E success \in BOOLEAN : FinishAll(f, todo[f].rcpts = fail, success)
        ELSE FinishSome(f, ok, fail, bounced, skipped)
    BY <2>1, <2>2
  <2> QED BY <2>1, <2>2, <2>3
<1>3. CASE todo[f].rcpts \in {fail, bounced}
  <2>1. PICK all \in BOOLEAN, success \in BOOLEAN : FinishAll(f, all, success)
    BY <1>2, <1>3
  <2>2. TypeOK /\ UNCHANGED <<disk, todo, piece, fate>>
    BY <1>1, <2>1 DEF FinishAll, IInv
  <2>3. /\ \A g \in File, u \in Strand : at'[g][u] \in Whole => at[g][u] \in Whole
        /\ \A g \in File, u \in Splits : at'[g][u] = "split" => at[g][u] = "split"
    <3>1. \A g \in File, u \in Strand :
             \/ at'[g][u] = at[g][u]
             \/ g = f /\ u = "main"
             \/ g = f /\ u = "late" /\ at'[g][u] = "delivered"
      BY <2>1, <2>2 DEF FinishAll, TypeOK, Strand
    <3> QED BY <1>1, <3>1 DEF Whole, Splits, Strand
  <2>4. Shrinking
    BY <2>2, <2>3 DEF Shrinking
  <2> QED BY <1>1, <2>2, <2>4, QuietSingle
<1>4. CASE todo[f].rcpts \notin {fail, bounced}
  BY <1>1, <1>2, <1>4, FinishSomeSingle
<1> QED BY <1>3, <1>4

LEMMA SubmissionSingle ==
    ASSUME IInv, Single, NEW t \in Txn, WriteFile(t) \/ WriteFails(t) \/ Acknowledge(t)
    PROVE  Single'
<1>0. TypeOK /\ "main" \in Strand /\ "main" \notin Splits /\ Splits \subseteq Strand
  BY DEF IInv, Strand, Splits
<1>1. ASSUME NEW g \in File, g \in ToSet(txn[t].files) PROVE at[g]["main"] = "held"
  <2>1. PICK i \in DOMAIN txn[t].files : g = txn[t].files[i]
    BY <1>1 DEF ToSet
  <2> QED BY <2>1 DEF IInv, Submitted, Wrote
<1>2. CASE WriteFails(t) \/ Acknowledge(t)
  <2>1. /\ UNCHANGED <<todo, piece, fate>>
        /\ \A u \in Txn : txn'[u] = txn[u] \/ txn'[u].st # "open"
    BY <1>0, <1>2 DEF WriteFails, Acknowledge, TypeOK
  <2>2. \A f \in File : disk'[f] # NoFile => disk[f] # NoFile
    BY <1>2 DEF WriteFails, Acknowledge
  <2>3. \A f \in File, u \in Strand :
           at'[f][u] \in {at[f][u], "none"} \/ (u = "main" /\ at[f][u] = "held")
    BY <1>0, <1>1, <1>2 DEF WriteFails, Acknowledge, TypeOK
  <2>4. Shrinking
    BY <1>0, <2>1, <2>2, <2>3 DEF Shrinking, Whole
  <2>5. \A r \in Rcpt : Passes(r)
    BY <2>1, <2>4, ShrinkingOwns DEF Passes, Keeps
  <2> QED BY <1>0, <2>1, <2>4, <2>5, ShrinkingPieces, AllPass
<1>3. CASE WriteFile(t)
  <2> DEFINE n == Len(txn[t].files) + 1
  <2>1. PICK g \in File : /\ IsNew(g) /\ MakeFile(g, Deliveries[t][n], FALSE)
                         /\ Goes(g, "main", "held")
                         /\ txn' = [txn EXCEPT ![t].files = Append(@, g)]
    BY <1>3 DEF WriteFile
  <2>2. txn[t].st = "open" /\ Left(t) > 0 /\ UNCHANGED <<piece, fate>>
    BY <1>3 DEF WriteFile
  <2>3. /\ txn[t].files \in Seq(File) /\ Deliveries[t] \in Seq((SUBSET Rcpt) \ {{}})
        /\ Len(txn[t].files) \in Nat /\ Len(Deliveries[t]) \in Nat
    <3>1. txn[t].files \in Seq(File) /\ Deliveries[t] \in Seq((SUBSET Rcpt) \ {{}})
      BY <1>0, ConstAssumption DEF TypeOK
    <3> QED BY <3>1
  <2>4. n \in 1 .. Len(Deliveries[t]) /\ n \in n .. Len(Deliveries[t])
    <3>1. Len(Deliveries[t]) - Len(txn[t].files) > 0
      BY <2>2 DEF Left
    <3>2. PICK a \in Nat, b \in Nat : a = Len(Deliveries[t]) /\ b = Len(txn[t].files)
      BY <2>3
    <3>3. a - b > 0
      BY <3>1, <3>2
    <3>4. b + 1 \in 1 .. a /\ b + 1 \in b + 1 .. a
      BY <3>3
    <3> QED BY <3>2, <3>4
  <2>5. /\ txn'[t].st = "open" /\ Len(txn'[t].files) = n
        /\ \A u \in Txn \ {t} : txn'[u] = txn[u]
    BY <1>0, <2>1, <2>2, <2>3 DEF TypeOK
  <2>6. \A r \in Deliveries[t][n] : fate[r] = {} /\ \A f \in File, s \in Strand : ~Owns(f, s, r)
    BY <2>2, <2>4 DEF Single, Unwritten
  <2> HIDE DEF n
  <2>7. disk[g] = NoFile /\ \A u \in Strand : at[g][u] = "none"
    BY <2>1 DEF IsNew, Live
  <2>8. /\ at'[g]["main"] = "held" /\ \A u \in Strand \ {"main"} : at'[g][u] = "none"
        /\ \A h \in File \ {g} : at'[h] = at[h]
    BY <1>0, <2>1, <2>7, GoesSame
  <2>9. /\ todo'[g].rcpts = Deliveries[t][n]
        /\ \A h \in File \ {g} : disk'[h] = disk[h] /\ todo'[h] = todo[h]
    BY <1>0, <2>1 DEF TypeOK, MakeFile
  <2>10. ASSUME NEW h \in File, NEW u \in Strand, NEW r, Owns(h, u, r)'
         PROVE  Owns(h, u, r) \/ (h = g /\ u = "main" /\ r \in Deliveries[t][n])
    <3>1. CASE h = g
      BY <1>0, <2>2, <2>8, <2>9, <2>10, <3>1 DEF Owns, Whole
    <3>2. CASE h # g
      BY <2>2, <2>8, <2>9, <2>10, <3>2 DEF Owns
    <3> QED BY <3>1, <3>2
  <2>11. ASSUME NEW r \in Rcpt PROVE SingleFor(r)'
    <3>1. SingleFor(r)
      BY DEF Single
    <3>2. CASE r \in Deliveries[t][n]
      BY <2>2, <2>6, <2>10, <3>2 DEF SingleFor
    <3>3. CASE r \notin Deliveries[t][n]
      BY <2>2, <2>10, <3>1, <3>3 DEF SingleFor
    <3> QED BY <3>2, <3>3
  <2>12. Pieces'
    BY <1>0, <2>2, <2>8, <2>9 DEF Single, Pieces
  <2>13. ASSUME NEW v \in Txn, txn'[v].st = "open",
                NEW i \in Len(txn'[v].files) + 1 .. Len(Deliveries[v]), NEW r \in Deliveries[v][i]
         PROVE  fate'[r] = {} /\ \A f \in File, s \in Strand : ~Owns(f, s, r)'
    <3>1. /\ txn[v].st = "open" /\ i \in Len(txn[v].files) + 1 .. Len(Deliveries[v])
          /\ i \in DOMAIN Deliveries[v] /\ <<v, i>> # <<t, n>>
      <4>1. CASE v = t
        BY <2>2, <2>3, <2>5, <2>13, <4>1 DEF n
      <4>2. CASE v # t
        <5>1. txn[v].files \in Seq(File) /\ Deliveries[v] \in Seq((SUBSET Rcpt) \ {{}})
          BY <1>0, ConstAssumption DEF TypeOK
        <5>2. Len(txn[v].files) \in Nat /\ DOMAIN Deliveries[v] = 1 .. Len(Deliveries[v])
          BY <5>1
        <5> QED BY <2>5, <2>13, <4>2, <5>2
      <4> QED BY <4>1, <4>2
    <3>2. fate[r] = {} /\ \A f \in File, s \in Strand : ~Owns(f, s, r)
      BY <3>1 DEF Single, Unwritten
    <3>3. r \notin Deliveries[t][n]
      BY <2>3, <2>4, <3>1, OneMailAssumption
    <3> QED BY <2>2, <2>10, <3>2, <3>3
  <2> QED BY <2>11, <2>12, <2>13 DEF Single, Unwritten
<1> QED BY <1>2, <1>3

LEMMA SingleInit == Init => Single
<1> SUFFICES ASSUME Init PROVE Single
  OBVIOUS
<1>1. \A f \in File, s \in Strand : \A r : ~Owns(f, s, r)
  BY DEF Init, Owns
<1>2. \A r \in Rcpt : fate[r] = {}
  BY DEF Init
<1>3. Unwritten
  <2> SUFFICES ASSUME NEW t \in Txn, NEW i \in Len(txn[t].files) + 1 .. Len(Deliveries[t]),
                      NEW r \in Deliveries[t][i]
               PROVE  r \in Rcpt
    BY <1>1, <1>2 DEF Unwritten
  <2>1. Deliveries[t] \in Seq((SUBSET Rcpt) \ {{}})
    BY ConstAssumption
  <2>2. Len(txn[t].files) = 0
    BY DEF Init
  <2>3. i \in 1 .. Len(Deliveries[t])
    BY <2>2
  <2> QED BY <2>1, <2>3
<1>4. Pieces
  BY DEF Init, Pieces, Splits, Strand
<1> QED BY <1>1, <1>2, <1>3, <1>4 DEF Single, SingleFor

LEMMA SingleNext ==
    ASSUME SplitsWork, MaxRestarts = 0, IInv, AllSteady, Single, [Next]_vars
    PROVE  Single'
<1>1. CASE UNCHANGED vars
  BY <1>1, QuietSingle DEF vars, item, Shrinking, IInv
<1>2. ~Restart
  BY DEF Restart, IInv, TypeOK
<1>3. {"main", "late"} \subseteq Strand /\ \A f \in File : ~HooksClash(f)
  BY DEF Strand, SplitsWork, HooksClash
<1>5. CASE StreamCloses
  BY <1>5, QuietSingle DEF StreamCloses, item, Shrinking, IInv
<1>4. CASE Next
  BY <1>2, <1>3, <1>4, <1>5, SubmissionSingle, SendingSingle, FinishSingle, EndingSingle, SplittingSingle
  DEF Next, Internal
<1> QED BY <1>1, <1>4

\* Without crashes and failed splits a recipient ends once: it is delivered,
\* reported, logged, dropped or skipped, and no two of these (finish_processing_mail
\* and everything after it, outbound.js).
THEOREM EndsOnceEver == SplitsWork /\ MaxRestarts = 0 => (Spec => []OneEnd)
<1> SUFFICES ASSUME SplitsWork, MaxRestarts = 0 PROVE Spec => []OneEnd
  OBVIOUS
<1>1. IInv /\ AllSteady /\ Single /\ [Next]_vars => Single'
  BY SingleNext
<1>2. Single => OneEnd
  <2> SUFFICES ASSUME Single, NEW r \in Rcpt PROVE Cardinality(fate[r]) <= 1
    BY DEF OneEnd
  <2>1. \A w, x \in fate[r] : w = x
    BY DEF Single, SingleFor
  <2>2. CASE fate[r] = {}
    BY <2>2, FS_EmptySet
  <2>3. CASE fate[r] # {}
    <3>1. PICK w : fate[r] = {w}
      BY <2>1, <2>3
    <3> QED BY <3>1, FS_Singleton
  <2> QED BY <2>2, <2>3
<1> QED BY <1>1, <1>2, SingleInit, StaysSteady, Invariance, PTL DEF Spec
=============================================================================
