---------------------------- MODULE PluginProofs ----------------------------
(***************************************************************************)
(* The plugins that keep state over connections, for any connections: the  *)
(* counts of plugins/limit.js, the verdicts of AUTH, of reverse names, of  *)
(* URI lists and of DNS lists, and greylisting.                            *)
(***************************************************************************)
EXTENDS Limit, Verdicts, FiniteSetTheorems, TLAPS

------------------------------------------------------------------------------
(* Counts.  CountsExact is not inductive: whether an answer repairs the count *)
(* depends on the number it brings (Seen), which was right when the store     *)
(* gave it, and whether a connection may be counted down depends on its       *)
(* having been counted up (InStep).                                           *)

Places == {"away", "incr", "skipped", "counted", "check", "blind", "delay", "open", "denied", "left"}
Downs  == {"none", "decr", "uncounted", "gone"}
Visit  == [at : Places, limit : Int, down : Downs, left : Int, counted : BOOLEAN, odd : BOOLEAN]

VisitsTyped ==
    /\ visit \in [Visits -> Visit]
    /\ stored \in [Origins -> Int]
    /\ resets \in [Origins -> Nat]
    /\ expires \in Nat

\* A connection that nothing odd happened to is counted from its own answer on
\* until it is counted down.
CountedUp(w) == w.at \in {"counted", "check", "delay", "open", "denied", "left"} /\ w.down \in {"none", "decr"}
InStep == \A v \in Visits : Harmless(Origin[v]) => (visit[v].counted <=> CountedUp(visit[v]))

\* The number an answer brings needs no repair, and none is under way.
Seen ==
    \A v \in Visits : Harmless(Origin[v]) =>
        /\ visit[v].at = "counted" => visit[v].limit >= 1
        /\ visit[v].down = "uncounted" => visit[v].left >= 0
NoReset == \A o \in Origins : Harmless(o) => resets[o] = 0

\* The check that follows no count, and a connection that is counted down in vain.
Odd(w) == w.at = "blind" \/ (w.down # "none" /\ w.at = "skipped")
Blind == \A v \in Visits : Odd(visit[v]) => visit[v].odd

\* What the store was asked first is done first.
InOrder(w) == (w.at = "away" => w.down = "none") /\ (w.at = "incr" => w.down \in {"none", "decr"})
Ordered == \A v \in Visits : InOrder(visit[v])

CountsInv == VisitsTyped /\ Blind /\ Ordered /\ InStep /\ Seen /\ NoReset /\ CountsExact

------------------------------------------------------------------------------
LEMMA OriginIn == ASSUME NEW v \in Visits PROVE Origin[v] \in Origins
    BY DEF Origins

LEMMA InitCountsInv == LimitInit => CountsInv
<1> SUFFICES ASSUME LimitInit PROVE CountsInv
    OBVIOUS
<1>1. VisitsTyped
    BY DEF LimitInit, VisitsTyped, Visit, Places, Downs
<1>2. InStep /\ Seen
    BY DEF LimitInit, InStep, Seen, CountedUp
<1>3. NoReset /\ Blind /\ Ordered
    BY DEF LimitInit, NoReset, Blind, Odd, Ordered, InOrder
<1>4. \A o \in Origins : stored[o] = Cardinality(Counted(o))
  <2> TAKE o \in Origins
  <2>1. Counted(o) = {}
      BY DEF LimitInit, Counted
  <2> QED
      BY <2>1, FS_EmptySet DEF LimitInit
<1> QED
    BY <1>1, <1>2, <1>3, <1>4 DEF CountsInv, CountsExact, LimitInit

------------------------------------------------------------------------------
\* The set of the counted connections, and the count, under a step of the store.
LEMMA CountedFinite == \A o \in Origins : IsFiniteSet(Counted(o)) /\ Cardinality(Counted(o)) \in Nat
    BY LimitAssumption, FS_Subset, FS_CardinalityType DEF Counted

\* A step that leaves the counted connections and the stored counts alone keeps
\* the first part of CountsExact.
LEMMA SameCounted ==
    ASSUME VisitsTyped, VisitsTyped',
           \A v \in Visits : visit'[v].counted = visit[v].counted
    PROVE  \A o \in Origins : Counted(o)' = Counted(o)
    BY DEF Counted

\* What was harmless after a step was so before it.
LEMMA HarmlessBefore ==
    ASSUME VisitsTyped, expires' >= expires,
           \A v \in Visits : visit[v].odd => visit'[v].odd
    PROVE  \A o \in Origins : Harmless(o)' => Harmless(o)
    BY DEF Harmless, VisitsTyped

\* One connection moves on; nothing of the store changes.
LEMMA StepOf ==
    ASSUME CountsInv, VisitsTyped', NEW v \in Visits,
           \A u \in Visits \ {v} : visit'[u] = visit[u],
           visit'[v].counted = visit[v].counted, visit[v].odd => visit'[v].odd,
           Odd(visit'[v]) => visit'[v].odd, InOrder(visit'[v]),
           ~visit'[v].odd => (CountedUp(visit'[v]) <=> CountedUp(visit[v])),
           (visit'[v].at = "counted") <=> (visit[v].at = "counted"),
           visit[v].at = "counted" => visit'[v].limit = visit[v].limit,
           (visit'[v].down = "uncounted") <=> (visit[v].down = "uncounted"),
           visit'[v].left = visit[v].left,
           stored' = stored, resets' = resets, expires' >= expires
    PROVE  CountsInv'
<1> USE DEF CountsInv
<1>1. \A u \in Visits : /\ visit'[u].counted = visit[u].counted
                        /\ visit[u].odd => visit'[u].odd
                        /\ u # v => visit'[u] = visit[u]
    OBVIOUS
<1>2. \A o \in Origins : Counted(o)' = Counted(o)
    BY <1>1, SameCounted
<1>3. \A o \in Origins : Harmless(o)' => Harmless(o)
    BY <1>1, HarmlessBefore
<1>4. \A u \in Visits : Harmless(Origin[u])' => Harmless(Origin[u]) /\ ~visit'[u].odd
    BY <1>3, OriginIn DEF Harmless
<1>5. InStep'
    BY <1>1, <1>4 DEF InStep
<1>6. Seen'
    BY <1>1, <1>4 DEF Seen
<1>7. NoReset'
    BY <1>3 DEF NoReset
<1>8. CountsExact'
  <2>1. ASSUME NEW u \in Visits
        PROVE  /\ visit[u].at = "counted" /\ visit[u].limit < 0 => visit'[u].at = "counted" /\ visit'[u].limit < 0
               /\ visit[u].down = "uncounted" /\ visit[u].left < 0 => visit'[u].down = "uncounted" /\ visit'[u].left < 0
      BY <1>1
  <2> QED
      BY <1>2, <1>3, <2>1 DEF CountsExact
<1>9. Blind' /\ Ordered'
    BY <1>1 DEF Blind, Ordered
<1> QED
    BY <1>5, <1>6, <1>7, <1>8, <1>9

------------------------------------------------------------------------------
\* The steps that only move a connection on.
LEMMA Moves ==
    ASSUME CountsInv, NEW v \in Visits,
           Arrives(v) \/ NoCount(v) \/ Check(v) \/ Denied(v) \/ Leaves(v)
    PROVE  CountsInv'
<1> USE DEF CountsInv
<1> DEFINE w == visit[v]
           x == visit'[v]
<1>1. /\ w \in Visit /\ (Odd(w) => w.odd) /\ InOrder(w)
      /\ \A k \in Visit : visit' = [visit EXCEPT ![v] = k] => x = k /\ VisitsTyped' /\ \A u \in Visits \ {v} : visit'[u] = visit[u]
  <2>1. w \in Visit /\ (Odd(w) => w.odd) /\ InOrder(w)
      BY DEF VisitsTyped, Blind, Ordered
  <2>2. stored' = stored /\ resets' = resets /\ expires' \in Nat
      BY DEF VisitsTyped, Arrives, NoCount, Check, Denied, Leaves
  <2>3. ASSUME NEW k \in Visit, visit' = [visit EXCEPT ![v] = k]
        PROVE  x = k /\ VisitsTyped' /\ \A u \in Visits \ {v} : visit'[u] = visit[u]
    <3>1. visit' \in [Visits -> Visit] /\ x = k /\ \A u \in Visits \ {v} : visit'[u] = visit[u]
        BY <2>3 DEF VisitsTyped
    <3> QED
        BY <2>2, <3>1 DEF VisitsTyped
  <2> QED
      BY <2>1, <2>3
<1>2. stored' = stored /\ resets' = resets /\ expires' >= expires
    BY DEF VisitsTyped, Arrives, NoCount, Check, Denied, Leaves, To
<1>3. CASE Arrives(v)
  <2>1. PICK at \in {"incr", "skipped"} : visit' = [visit EXCEPT ![v].at = at] /\ w.at = "away"
      BY <1>3 DEF Arrives, To
  <2>2. visit' = [visit EXCEPT ![v] = [w EXCEPT !.at = at]] /\ [w EXCEPT !.at = at] \in Visit
      BY <1>1, <2>1 DEF Visit, Places, VisitsTyped
  <2>3. x = [w EXCEPT !.at = at] /\ VisitsTyped' /\ \A u \in Visits \ {v} : visit'[u] = visit[u]
      BY <1>1, <2>2
  <2>4. /\ x.at = at /\ x.counted = w.counted /\ x.odd = w.odd /\ x.limit = w.limit
        /\ x.down = w.down /\ x.left = w.left
      BY <1>1, <2>3 DEF Visit
  <2> HIDE DEF w, x
  <2>5. (Odd(x) => x.odd) /\ (~x.odd => (CountedUp(x) <=> CountedUp(w))) /\ InOrder(x)
      BY <1>1, <2>1, <2>4 DEF Odd, CountedUp, InOrder
  <2> QED
      BY <1>2, <2>1, <2>3, <2>4, <2>5, StepOf DEF w, x
<1>4. CASE NoCount(v)
  <2> DEFINE at == IF w.down = "none" THEN "blind" ELSE "left"
  <2>1. visit' = [visit EXCEPT ![v].at = at, ![v].odd = TRUE] /\ w.at = "incr"
      BY <1>4 DEF NoCount
  <2>2. visit' = [visit EXCEPT ![v] = [w EXCEPT !.at = at, !.odd = TRUE]] /\ [w EXCEPT !.at = at, !.odd = TRUE] \in Visit
      BY <1>1, <2>1 DEF Visit, Places, VisitsTyped
  <2>3. x = [w EXCEPT !.at = at, !.odd = TRUE] /\ VisitsTyped' /\ \A u \in Visits \ {v} : visit'[u] = visit[u]
      BY <1>1, <2>2
  <2>4. x.at = at /\ x.counted = w.counted /\ x.odd /\ x.limit = w.limit /\ x.down = w.down /\ x.left = w.left
      BY <1>1, <2>3 DEF Visit
  <2>5. InOrder(x) /\ x.at # "counted"
      BY <2>4 DEF InOrder
  <2> HIDE DEF w, x
  <2> QED
      BY <1>1, <1>2, <2>1, <2>3, <2>4, <2>5, StepOf DEF w, x
<1>5. CASE Check(v)
  <2> DEFINE zero == 0
  <2>1. PICK at \in {"open", "delay"} : visit' = [visit EXCEPT ![v].at = at, ![v].limit = zero] /\ w.at \in {"check", "blind"}
      BY <1>5 DEF Check
  <2>2. zero \in Int /\ at \in Places
      BY DEF Places
  <2> HIDE DEF zero
  <2>2a. visit' = [visit EXCEPT ![v] = [w EXCEPT !.at = at, !.limit = zero]]
      BY <2>1 DEF VisitsTyped
  <2>2b. [w EXCEPT !.at = at, !.limit = zero] \in Visit
      BY <1>1, <2>2 DEF Visit
  <2>3. x = [w EXCEPT !.at = at, !.limit = zero] /\ VisitsTyped' /\ \A u \in Visits \ {v} : visit'[u] = visit[u]
      BY <1>1, <2>2a, <2>2b
  <2>4. x.at = at /\ x.counted = w.counted /\ x.odd = w.odd /\ x.down = w.down /\ x.left = w.left
      BY <1>1, <2>3 DEF Visit
  <2> HIDE DEF w, x
  <2>5. (Odd(x) => x.odd) /\ (~x.odd => (CountedUp(x) <=> CountedUp(w))) /\ InOrder(x)
      BY <1>1, <2>1, <2>4 DEF Odd, CountedUp, InOrder
  <2> QED
      BY <1>2, <2>1, <2>3, <2>4, <2>5, StepOf DEF w, x
<1>6. CASE Denied(v)
  <2>1. visit' = [visit EXCEPT ![v].at = "denied"] /\ w.at = "delay"
      BY <1>6 DEF Denied, To
  <2>2. visit' = [visit EXCEPT ![v] = [w EXCEPT !.at = "denied"]] /\ [w EXCEPT !.at = "denied"] \in Visit
      BY <1>1, <2>1 DEF Visit, Places, VisitsTyped
  <2>3. x = [w EXCEPT !.at = "denied"] /\ VisitsTyped' /\ \A u \in Visits \ {v} : visit'[u] = visit[u]
      BY <1>1, <2>2
  <2>4. x.at = "denied" /\ x.counted = w.counted /\ x.odd = w.odd /\ x.limit = w.limit /\ x.down = w.down /\ x.left = w.left
      BY <1>1, <2>3 DEF Visit
  <2> HIDE DEF w, x
  <2>5. (Odd(x) => x.odd) /\ (~x.odd => (CountedUp(x) <=> CountedUp(w))) /\ InOrder(x)
      BY <1>1, <2>1, <2>4 DEF Odd, CountedUp, InOrder
  <2> QED
      BY <1>2, <2>1, <2>3, <2>4, <2>5, StepOf DEF w, x
<1>7. CASE Leaves(v)
  <2> DEFINE at  == IF w.at \in {"incr", "counted"} THEN w.at ELSE "left"
             odd == w.odd \/ w.at = "skipped"
             k   == [w EXCEPT !.at = at, !.down = "decr", !.odd = odd]
  <2>1. visit' = [visit EXCEPT ![v].at = at, ![v].down = "decr", ![v].odd = odd] /\ w.at # "away" /\ w.down = "none"
      BY <1>7 DEF Leaves
  <2>2. visit' = [visit EXCEPT ![v] = k]
      BY <2>1 DEF VisitsTyped
  <2>3. odd \in BOOLEAN /\ at \in Places
      BY <1>1 DEF Visit, Places
  <2> HIDE DEF odd, at
  <2>4. k \in Visit
      BY <1>1, <2>3 DEF Visit, Downs
  <2>5. x = k /\ VisitsTyped' /\ \A u \in Visits \ {v} : visit'[u] = visit[u]
      BY <1>1, <2>2, <2>4
  <2>6. x.at = at /\ x.counted = w.counted /\ x.odd = odd /\ x.limit = w.limit /\ x.down = "decr" /\ x.left = w.left
      BY <1>1, <2>5 DEF Visit
  <2>7. w.at \in Places
      BY <1>1 DEF Visit
  <2> HIDE DEF w, x
  <2>8. (Odd(x) => x.odd) /\ (~x.odd => (CountedUp(x) <=> CountedUp(w))) /\ (w.odd => x.odd) /\ InOrder(x)
      BY <1>1, <2>1, <2>6, <2>7 DEF Odd, CountedUp, InOrder, Places, odd, at
  <2>9. (x.at = "counted") <=> (w.at = "counted")
      BY <2>6 DEF at
  <2> QED
      BY <1>2, <2>1, <2>5, <2>6, <2>8, <2>9, StepOf DEF w, x
<1> QED
    BY <1>3, <1>4, <1>5, <1>6, <1>7

\* The answer of the store: a count that is not odd needs no repair, one below
\* 0 is repaired.
LEMMA Answer ==
    ASSUME CountsInv, NEW v \in Visits, AnswersIncr(v) \/ AnswersDecr(v)
    PROVE  CountsInv'
<1> USE DEF CountsInv
<1> DEFINE o == Origin[v]
           w == visit[v]
           x == visit'[v]
<1>1. w \in Visit /\ (Odd(w) => w.odd) /\ InOrder(w) /\ o \in Origins
    BY OriginIn DEF VisitsTyped, Blind, Ordered
<1>2. PICK n, k : /\ visit' = [visit EXCEPT ![v] = k] /\ k \in Visit
                  /\ resets' = [resets EXCEPT ![o] = @ + IF n < 0 THEN 1 ELSE IF n < 1 /\ w.at = "counted" /\ k.at # "counted" THEN 1 ELSE 0]
                  /\ k.counted = w.counted /\ k.odd = w.odd
                  /\ \/ w.at = "counted" /\ n = w.limit /\ k.at \in {"check", "left"} /\ k.down = w.down /\ k.left = w.left
                        /\ (w.down = "none" <=> k.at = "check")
                     \/ w.down = "uncounted" /\ n = w.left /\ k.down = "gone" /\ k.at = w.at /\ k.limit = w.limit
  <2>1. CASE AnswersIncr(v)
    <3> DEFINE at == IF w.down = "none" THEN "check" ELSE "left"
               k  == [w EXCEPT !.at = at]
    <3>1. /\ visit' = [visit EXCEPT ![v].at = at] /\ w.at = "counted"
          /\ resets' = [resets EXCEPT ![o] = @ + IF w.limit < 1 THEN 1 ELSE 0]
        BY <2>1 DEF AnswersIncr, Repairs, To
    <3>2. visit' = [visit EXCEPT ![v] = k]
        BY <3>1 DEF VisitsTyped
    <3>3. /\ k \in Visit /\ k.at = at /\ k.counted = w.counted /\ k.odd = w.odd /\ k.down = w.down /\ k.left = w.left
          /\ w.limit \in Int
        BY <1>1 DEF Visit, Places
    <3>4. (IF w.limit < 1 THEN 1 ELSE 0) = IF w.limit < 0 THEN 1 ELSE IF w.limit < 1 /\ w.at = "counted" /\ k.at # "counted" THEN 1 ELSE 0
        BY <3>1, <3>3
    <3>5. resets' = [resets EXCEPT ![o] = @ + IF w.limit < 0 THEN 1 ELSE IF w.limit < 1 /\ w.at = "counted" /\ k.at # "counted" THEN 1 ELSE 0]
        BY <3>1, <3>4, Zenon
    <3> HIDE DEF k, w
    <3> QED
        BY <3>1, <3>2, <3>3, <3>5
  <2>2. CASE AnswersDecr(v)
    <3> DEFINE zero == 0
               k == [w EXCEPT !.down = "gone", !.left = zero]
    <3>1. /\ visit' = [visit EXCEPT ![v].down = "gone", ![v].left = zero] /\ w.down = "uncounted"
          /\ resets' = [resets EXCEPT ![o] = @ + IF w.left < 0 THEN 1 ELSE 0]
        BY <2>2 DEF AnswersDecr, Repairs
    <3>2. zero \in Int
        OBVIOUS
    <3> HIDE DEF zero
    <3>2a. visit' = [visit EXCEPT ![v] = k]
        BY <3>1 DEF VisitsTyped
    <3>3. k \in Visit /\ w.left \in Int
        BY <1>1, <3>2 DEF Visit, Downs
    <3>3a. k.at = w.at /\ k.counted = w.counted /\ k.odd = w.odd /\ k.down = "gone" /\ k.limit = w.limit
        BY <1>1 DEF Visit
    <3> HIDE DEF k, w
    <3>4. (IF w.left < 0 THEN 1 ELSE 0) = IF w.left < 0 THEN 1 ELSE IF w.left < 1 /\ w.at = "counted" /\ k.at # "counted" THEN 1 ELSE 0
        BY <3>3, <3>3a
    <3>5. resets' = [resets EXCEPT ![o] = @ + IF w.left < 0 THEN 1 ELSE IF w.left < 1 /\ w.at = "counted" /\ k.at # "counted" THEN 1 ELSE 0]
        BY <3>1, <3>4, Zenon
    <3> QED
        BY <3>1, <3>2a, <3>3, <3>3a, <3>5
  <2> QED
      BY <2>1, <2>2
<1>3. x = k /\ \A u \in Visits \ {v} : visit'[u] = visit[u]
    BY <1>2 DEF VisitsTyped
<1>4. stored' = stored /\ expires' = expires
    BY DEF AnswersIncr, AnswersDecr
<1>5. resets'[o] = resets[o] + (IF n < 0 THEN 1 ELSE IF n < 1 /\ w.at = "counted" /\ k.at # "counted" THEN 1 ELSE 0)
      /\ resets' \in [Origins -> Nat] /\ \A p \in Origins : p # o => resets'[p] = resets[p]
    BY <1>1, <1>2 DEF VisitsTyped
<1>6. VisitsTyped'
    BY <1>2, <1>4, <1>5 DEF VisitsTyped
<1> HIDE DEF w, x, o
<1>7. \A u \in Visits : visit'[u].counted = visit[u].counted /\ visit'[u].odd = visit[u].odd
    BY <1>2, <1>3 DEF x, w
<1>8. /\ \A p \in Origins : Counted(p)' = Counted(p)
      /\ \A p \in Origins : Harmless(p)' = Harmless(p)
    BY <1>4, <1>6, <1>7, SameCounted DEF Harmless
<1>9. (CountedUp(w) <=> CountedUp(k)) \/ (w.down = "uncounted" /\ ~CountedUp(w) /\ ~CountedUp(k))
    BY <1>2 DEF CountedUp
<1>10. InStep'
    BY <1>2, <1>3, <1>7, <1>8, <1>9, OriginIn DEF InStep, x, w
<1>11. Seen'
  <2> SUFFICES ASSUME NEW u \in Visits, Harmless(Origin[u])
               PROVE  /\ visit'[u].at = "counted" => visit'[u].limit >= 1
                      /\ visit'[u].down = "uncounted" => visit'[u].left >= 0
      BY <1>8, OriginIn DEF Seen
  <2>1. CASE u = v
      BY <1>2, <1>3, <2>1 DEF Seen, x, w
  <2>2. CASE u # v
      BY <1>3, <2>2 DEF Seen
  <2> QED
      BY <2>1, <2>2
<1>12. Blind' /\ Ordered'
  <2>1. Odd(k) => k.odd
    <3>1. Odd(k) => Odd(w)
        BY <1>2 DEF Odd
    <3> QED
        BY <1>1, <1>2, <3>1
  <2>2. InOrder(k)
      BY <1>1, <1>2 DEF InOrder
  <2> QED
      BY <1>3, <2>1, <2>2 DEF Blind, Ordered, x
<1>13. NoReset'
  <2> SUFFICES ASSUME NEW p \in Origins, Harmless(p) PROVE resets'[p] = 0
      BY <1>8 DEF NoReset
  <2>1. CASE p = o
    <3>1. (w.at = "counted" => w.limit >= 1) /\ (w.down = "uncounted" => w.left >= 0)
        BY <2>1 DEF Seen, o, w
    <3>2. w.limit \in Int /\ w.left \in Int /\ resets[o] = 0
        BY <1>1, <2>1 DEF Visit, NoReset
    <3>3. n \in Int /\ n >= 0 /\ (w.at = "counted" /\ k.at # "counted" => n >= 1)
        BY <1>2, <3>1, <3>2
    <3> QED
        BY <1>5, <2>1, <3>2, <3>3
  <2>2. CASE p # o
      BY <1>5, <2>2 DEF NoReset
  <2> QED
      BY <2>1, <2>2
<1>14. CountsExact'
  <2> DEFINE Owed(u) == \/ visit[u].at = "counted" /\ visit[u].limit < 0
                        \/ visit[u].down = "uncounted" /\ visit[u].left < 0
             Owes(u) == \/ visit'[u].at = "counted" /\ visit'[u].limit < 0
                        \/ visit'[u].down = "uncounted" /\ visit'[u].left < 0
  <2> SUFFICES ASSUME NEW p \in Origins, stored[p] < 0
               PROVE  resets'[p] > 0 \/ \E u \in Visits : Origin[u] = p /\ Owes(u)
      BY <1>4, <1>8 DEF CountsExact
  <2>1. CASE resets[p] > 0
      BY <1>5, <2>1 DEF VisitsTyped
  <2>2. ASSUME NEW u \in Visits, Origin[u] = p, Owed(u)
        PROVE  resets'[p] > 0 \/ Owes(u)
    <3>1. CASE u # v
        BY <1>3, <2>2, <3>1
    <3>2. CASE u = v /\ n < 0
        BY <1>5, <2>2, <3>2 DEF o, VisitsTyped
    <3>3. CASE u = v /\ ~(n < 0)
      <4>1. \/ w.at = "counted" /\ w.limit < 0 /\ ~(w.at = "counted" /\ n = w.limit)
            \/ w.down = "uncounted" /\ w.left < 0 /\ ~(w.down = "uncounted" /\ n = w.left)
          BY <2>2, <3>3 DEF w
      <4>2. \/ k.at = "counted" /\ k.limit = w.limit /\ w.limit < 0
            \/ k.down = "uncounted" /\ k.left = w.left /\ w.left < 0
          BY <1>2, <4>1
      <4> QED
          BY <1>3, <3>3, <4>2 DEF x
    <3> QED
        BY <3>1, <3>2, <3>3
  <2> HIDE DEF Owes
  <2>3. resets[p] > 0 \/ \E u \in Visits : Origin[u] = p /\ Owed(u)
      BY DEF CountsExact
  <2> QED
      BY <2>1, <2>2, <2>3
<1> QED
    BY <1>6, <1>10, <1>11, <1>12, <1>13, <1>14

\* A repair that arrives, or an expiry.
LEMMA StoreAlone ==
    ASSUME CountsInv, NEW o \in Origins, Sets(o) \/ Expires(o)
    PROVE  CountsInv'
<1> USE DEF CountsInv
<1>1. VisitsTyped' /\ visit' = visit /\ ~Harmless(o)'
    BY DEF Sets, Expires, VisitsTyped, NoReset, Harmless
<1>2. \A p \in Origins : /\ Counted(p)' = Counted(p)
                         /\ Harmless(p)' => Harmless(p)
                         /\ p # o => stored'[p] = stored[p] /\ resets'[p] = resets[p]
    BY <1>1 DEF Sets, Expires, VisitsTyped, Harmless, Counted
<1>3. stored'[o] >= 0
    BY DEF Sets, Expires, VisitsTyped
<1>4. Blind' /\ Ordered' /\ InStep' /\ Seen'
    BY <1>1, <1>2, OriginIn DEF Blind, Ordered, InStep, Seen
<1>5. NoReset'
    BY <1>1, <1>2 DEF NoReset
<1>6. CountsExact'
  <2> SUFFICES ASSUME NEW p \in Origins, p # o
               PROVE  /\ Harmless(p)' => stored'[p] = Cardinality(Counted(p)')
                      /\ stored'[p] < 0 => \/ resets'[p] > 0
                                           \/ \E v \in Visits : /\ Origin[v] = p
                                                                 /\ \/ visit'[v].at = "counted" /\ visit'[v].limit < 0
                                                                    \/ visit'[v].down = "uncounted" /\ visit'[v].left < 0
      BY <1>1, <1>3 DEF CountsExact, VisitsTyped
  <2> QED
      BY <1>1, <1>2 DEF CountsExact
<1> QED
    BY <1>1, <1>4, <1>5, <1>6

\* The store adds: the count and the set of counted connections change together.
LEMMA StoreAdds ==
    ASSUME CountsInv, NEW v \in Visits, Incr(v) \/ Decr(v)
    PROVE  CountsInv'
<1> USE DEF CountsInv
<1> DEFINE o == Origin[v]
           w == visit[v]
           x == visit'[v]
           n == stored'[o]
<1>1. o \in Origins /\ w \in Visit /\ (Odd(w) => w.odd) /\ InOrder(w)
    BY OriginIn DEF VisitsTyped, Blind, Ordered
<1>2. PICK up \in BOOLEAN, m \in Int, k \in Visit :
          /\ visit' = [visit EXCEPT ![v] = k] /\ stored' = [stored EXCEPT ![o] = m]
          /\ k.counted = up /\ k.odd = w.odd
          /\ \/ up /\ w.at = "incr" /\ m = stored[o] + 1 /\ k.at = "counted" /\ k.limit = m /\ k.down = w.down /\ k.left = w.left
             \/ ~up /\ w.at # "incr" /\ w.down = "decr" /\ m = stored[o] - 1 /\ k.at = w.at /\ k.limit = w.limit
                /\ k.down = "uncounted" /\ k.left = m
  <2>1. stored[o] \in Int /\ stored[o] + 1 \in Int /\ stored[o] - 1 \in Int
      BY <1>1 DEF VisitsTyped
  <2>2. CASE Incr(v)
    <3> DEFINE m == stored[o] + 1
               k == [w EXCEPT !.at = "counted", !.limit = m, !.counted = TRUE]
    <3>1. visit' = [visit EXCEPT ![v].at = "counted", ![v].limit = m, ![v].counted = TRUE] /\ w.at = "incr"
          /\ stored' = [stored EXCEPT ![o] = m]
        BY <2>2 DEF Incr
    <3>2. visit' = [visit EXCEPT ![v] = k]
        BY <3>1 DEF VisitsTyped
    <3> HIDE DEF m
    <3>3. /\ k \in Visit /\ k.at = "counted" /\ k.limit = m /\ k.counted = TRUE /\ k.odd = w.odd
          /\ k.down = w.down /\ k.left = w.left
        BY <1>1, <2>1 DEF Visit, Places, m
    <3> HIDE DEF k, w
    <3> QED
        BY <2>1, <3>1, <3>2, <3>3 DEF m
  <2>3. CASE Decr(v)
    <3> DEFINE m == stored[o] - 1
               k == [w EXCEPT !.down = "uncounted", !.left = m, !.counted = FALSE]
    <3>1. /\ visit' = [visit EXCEPT ![v].down = "uncounted", ![v].left = m, ![v].counted = FALSE]
          /\ w.at # "incr" /\ w.down = "decr" /\ stored' = [stored EXCEPT ![o] = m]
        BY <2>3 DEF Decr
    <3>2. visit' = [visit EXCEPT ![v] = k]
        BY <3>1 DEF VisitsTyped
    <3> HIDE DEF m
    <3>3. /\ k \in Visit /\ k.at = w.at /\ k.limit = w.limit /\ k.counted = FALSE /\ k.odd = w.odd
          /\ k.down = "uncounted" /\ k.left = m
        BY <1>1, <2>1 DEF Visit, Downs, m
    <3> HIDE DEF k, w
    <3> QED
        BY <2>1, <3>1, <3>2, <3>3 DEF m
  <2> QED
      BY <2>2, <2>3
<1>3. resets' = resets /\ expires' = expires
    BY DEF Incr, Decr
<1>4. /\ x = k /\ \A u \in Visits : u # v => visit'[u] = visit[u]
      /\ n = m /\ \A p \in Origins : p # o => stored'[p] = stored[p]
      /\ VisitsTyped'
    BY <1>1, <1>2, <1>3 DEF VisitsTyped
<1> HIDE DEF o, w, x, n
<1>5. \A u \in Visits : visit'[u].odd = visit[u].odd
    BY <1>2, <1>4 DEF x, w
<1>6. \A p \in Origins : Harmless(p)' = Harmless(p)
    BY <1>3, <1>5 DEF Harmless
<1>7. Counted(o)' = IF up THEN Counted(o) \cup {v} ELSE Counted(o) \ {v}
    BY <1>2, <1>4 DEF Counted, o, x
<1>8. \A p \in Origins : p # o => Counted(p)' = Counted(p)
    BY <1>4 DEF Counted, o
<1>9. Harmless(o) => ~w.odd
    BY DEF Harmless, o, w
<1>10. Harmless(o) => n = Cardinality(Counted(o)') /\ (up => n >= 1) /\ n >= 0
  <2> SUFFICES ASSUME Harmless(o)
               PROVE  n = Cardinality(Counted(o)') /\ (up => n >= 1) /\ n >= 0
      OBVIOUS
  <2>1. v \in Counted(o) <=> ~up
    <3>1. CountedUp(w) <=> ~up
        BY <1>1, <1>2, <1>9 DEF CountedUp, Odd, InOrder, Visit, Places
    <3>2. w.counted \in BOOLEAN /\ (w.counted <=> CountedUp(w))
        BY <1>1 DEF InStep, o, w, Visit
    <3>3. v \in Counted(o) <=> w.counted
        BY DEF Counted, o, w
    <3> QED
        BY <1>2, <3>1, <3>2, <3>3
  <2>2. stored[o] = Cardinality(Counted(o)) /\ IsFiniteSet(Counted(o)) /\ Cardinality(Counted(o)) \in Nat
      BY <1>1, CountedFinite DEF CountsExact
  <2>3. CASE up
    <3>1. Cardinality(Counted(o) \cup {v}) = Cardinality(Counted(o)) + 1
        BY <2>1, <2>2, <2>3, FS_AddElement
    <3>2. n = stored[o] + 1
        BY <1>2, <1>4, <2>3
    <3> QED
        BY <1>7, <2>2, <2>3, <3>1, <3>2
  <2>4. CASE ~up
    <3>1. /\ Cardinality(Counted(o) \ {v}) = Cardinality(Counted(o)) - 1
          /\ IsFiniteSet(Counted(o) \ {v})
        BY <2>1, <2>2, <2>4, FS_RemoveElement
    <3>2. Cardinality(Counted(o) \ {v}) \in Nat
        BY <3>1, FS_CardinalityType
    <3>3. n = stored[o] - 1
        BY <1>2, <1>4, <2>4
    <3> QED
        BY <1>7, <2>2, <2>4, <3>1, <3>2, <3>3
  <2> QED
      BY <2>3, <2>4
<1>11. Blind' /\ Ordered'
  <2>1. (Odd(k) => Odd(w)) /\ InOrder(k)
      BY <1>1, <1>2 DEF Odd, InOrder
  <2> QED
      BY <1>1, <1>2, <1>4, <2>1 DEF Blind, Ordered, x
<1>12. NoReset'
    BY <1>3, <1>6 DEF NoReset
<1>13. InStep'
  <2> SUFFICES ASSUME NEW u \in Visits, Harmless(Origin[u]) PROVE visit'[u].counted <=> CountedUp(visit'[u])
      BY <1>6, OriginIn DEF InStep
  <2>1. CASE u = v
    <3>1. ~w.odd
        BY <1>9, <2>1 DEF o
    <3>2. ~up => ~CountedUp(k)
        BY <1>2 DEF CountedUp
    <3>3. up => CountedUp(k)
      <4>1. up => w.down \in {"none", "decr"}
          BY <1>1, <1>2 DEF InOrder
      <4> QED
          BY <1>2, <4>1 DEF CountedUp
    <3> QED
        BY <1>2, <1>4, <2>1, <3>2, <3>3 DEF x
  <2>2. CASE u # v
      BY <1>4, <2>2 DEF InStep
  <2> QED
      BY <2>1, <2>2
<1>14. Seen'
  <2> SUFFICES ASSUME NEW u \in Visits, Harmless(Origin[u])
               PROVE  /\ visit'[u].at = "counted" => visit'[u].limit >= 1
                      /\ visit'[u].down = "uncounted" => visit'[u].left >= 0
      BY <1>6, OriginIn DEF Seen
  <2>1. CASE u = v
      BY <1>2, <1>4, <1>10, <2>1 DEF Seen, x, w, o
  <2>2. CASE u # v
      BY <1>4, <2>2 DEF Seen
  <2> QED
      BY <2>1, <2>2
<1>15. CountsExact'
  <2> DEFINE Owes(u) == \/ visit'[u].at = "counted" /\ visit'[u].limit < 0
                        \/ visit'[u].down = "uncounted" /\ visit'[u].left < 0
             Owed(u) == \/ visit[u].at = "counted" /\ visit[u].limit < 0
                        \/ visit[u].down = "uncounted" /\ visit[u].left < 0
  <2> SUFFICES ASSUME NEW p \in Origins
               PROVE  /\ Harmless(p)' => stored'[p] = Cardinality(Counted(p)')
                      /\ stored'[p] < 0 => resets'[p] > 0 \/ \E u \in Visits : Origin[u] = p /\ Owes(u)
      BY DEF CountsExact
  <2>1. CASE p = o
    <3>1. n < 0 => Owes(v)
        BY <1>2, <1>4 DEF x
    <3> HIDE DEF Owes
    <3>2. stored'[p] = n /\ Origin[v] = p
        BY <2>1 DEF n, o
    <3> QED
        BY <1>6, <1>10, <2>1, <3>1, <3>2
  <2>2. CASE p # o
    <3>1. \A u \in Visits : Origin[u] = p => (Owed(u) => Owes(u))
        BY <1>4, <2>2 DEF o
    <3> HIDE DEF Owes
    <3> QED
        BY <1>3, <1>4, <1>6, <1>8, <2>2, <3>1 DEF CountsExact
  <2> QED
      BY <2>1, <2>2
<1> QED
    BY <1>4, <1>11, <1>12, <1>13, <1>14, <1>15

------------------------------------------------------------------------------
LEMMA NextCountsInv ==
    ASSUME CountsInv, [(\E v \in Visits : Arrives(v)) \/ LimitNext]_limitVars
    PROVE  CountsInv'
<1>1. CASE \E v \in Visits : Arrives(v) \/ NoCount(v) \/ Check(v) \/ Denied(v) \/ Leaves(v)
    BY <1>1, Moves
<1>2. CASE \E v \in Visits : AnswersIncr(v) \/ AnswersDecr(v)
    BY <1>2, Answer
<1>3. CASE \E o \in Origins : Sets(o) \/ Expires(o)
    BY <1>3, StoreAlone
<1>4. CASE \E v \in Visits : Incr(v) \/ Decr(v)
    BY <1>4, StoreAdds
<1>5. CASE UNCHANGED limitVars
    BY <1>5, SMTT(30) DEF limitVars, CountsInv, VisitsTyped, Blind, Ordered, InStep, Seen, NoReset, CountsExact, Counted, Harmless
<1> QED
    BY <1>1, <1>2, <1>3, <1>4, <1>5 DEF LimitNext, Goes

\* For any connections, hosts, limit and number of expiries: a host's count is
\* that of its counted connections as long as nothing odd happened to it, and is
\* never left below 0 (limit.js, incr_concurrency and decr_concurrency).
THEOREM CountsStayExact == LimitSpec => []CountsExact
<1>1. LimitInit => CountsInv
    BY InitCountsInv
<1>2. CountsInv /\ [(\E v \in Visits : Arrives(v)) \/ LimitNext]_limitVars => CountsInv'
    BY NextCountsInv
<1>3. CountsInv => CountsExact
    BY DEF CountsInv
<1> QED
    BY <1>1, <1>2, <1>3, PTL DEF LimitSpec

------------------------------------------------------------------------------
(* AUTH: Justified is not inductive, since a check that succeeded lets the    *)
(* connection relay only when its socket is closed.                           *)

AuthFields == {"allowed", "authenticating", "method", "plain_asked", "login_asked", "userlogin",
               "hook", "delays", "relaying", "accepted", "lines", "over"}
Args == Logins \cup {Auth!Nobody, ""}
Tries == [check : Int, command : {"connect", "ehlo", "starttls", "auth", "quit"}, login : Args, bare : BOOLEAN, asked : BOOLEAN,
          secure : BOOLEAN, complete : BOOLEAN, success : BOOLEAN, state : {"open", "ended", "closed"},
          timed : BOOLEAN, failed : BOOLEAN]

AuthOK(a) == DOMAIN a = AuthFields /\ a.userlogin \in Args

\* What is left of a check is a number.
BackendsAssumed == Backends \in Nat

Succeeded(ts, a) == \A i \in DOMAIN ts : ts[i].success => a.accepted # {}

AuthInv == /\ AuthOK(auth) /\ tries \in Seq(Tries) /\ left \in Seq(Int)
           /\ Succeeded(tries, auth) /\ Auth!Justified

\* A step that accepts nobody and lets nobody relay.
Same(a, b) == AuthOK(b) /\ b.accepted = a.accepted /\ b.relaying = a.relaying

LEMMA AnsweredSame == \A a : AuthOK(a) => Same(a, Auth!Answered(a))
BY DEF AuthOK, Same, AuthFields, Auth!Answered

LEMMA RefusedSame == \A a, x : AuthOK(a) => Same(a, Auth!PasswdOk(x, a, FALSE))
BY DEF AuthOK, Same, AuthFields, Args, Auth!PasswdOk, Auth!Nobody

LEMMA LastSame == \A a, x : AuthOK(a) => Same(a, Auth!Last(x, a))
BY AnsweredSame DEF AuthOK, Same, Auth!Last

LEMMA NewTryType ==
    ASSUME NEW x \in Int, NEW login \in Args, NEW bare \in BOOLEAN
    PROVE  Auth!NewTry(x, login, bare) \in Tries /\ ~Auth!NewTry(x, login, bare).success
<1> DEFINE t == Auth!NewTry(x, login, bare)
<1>1. t = [check |-> x, command |-> "connect", login |-> login, bare |-> bare, asked |-> TRUE, secure |-> FALSE,
           complete |-> FALSE, success |-> FALSE, state |-> "open", timed |-> FALSE, failed |-> FALSE]
  BY Zenon DEF Auth!NewTry
<1> HIDE DEF t
<1>2. ~t.success
  BY <1>1
<1>3. t \in Tries
  BY <1>1 DEF Tries
<1> QED
  BY <1>2, <1>3 DEF t

\* A new socket, and the next step of the exchange, keep the invariant.
LEMMA TryAdded ==
    ASSUME AuthInv, NEW a, Same(auth, a), NEW x \in Int, NEW login \in Args, NEW bare \in BOOLEAN,
           NEW ts \in Seq(Tries), Succeeded(ts, auth),
           auth' = a, tries' = Append(ts, Auth!NewTry(x, login, bare)), left' \in Seq(Int)
    PROVE  AuthInv'
<1> DEFINE t == Auth!NewTry(x, login, bare)
<1>1. t \in Tries /\ ~t.success
  BY NewTryType
<1> HIDE DEF t
<1>2. tries' = Append(ts, t)
  BY DEF t
<1>3. tries' \in Seq(Tries)
  BY <1>1, <1>2
<1>4. Succeeded(tries', a)
  BY <1>1, <1>2 DEF Succeeded, Same
<1> QED
  BY <1>3, <1>4 DEF AuthInv, Same, Auth!Justified

LEMMA Kept ==
    ASSUME AuthInv, NEW a, Same(auth, a), auth' = a, UNCHANGED tries, left' \in Seq(Int)
    PROVE  AuthInv'
BY DEF AuthInv, Same, Succeeded, Auth!Justified

LEMMA CheckUserKeeps ==
    ASSUME AuthInv, BackendsAssumed, NEW a, Same(auth, a), NEW login \in Args, Auth!CheckUser(a, login)
    PROVE  AuthInv'
<1>1. CASE login = Auth!Nobody
  <2> DEFINE b == [a EXCEPT !.authenticating = FALSE]
  <2>1. Same(auth, b)
    BY DEF Same, AuthOK, AuthFields
  <2>2. Same(auth, Auth!Answered(b))
    BY <2>1, AnsweredSame DEF Same
  <2> QED
    BY <1>1, <2>2, Kept DEF Auth!CheckUser, AuthInv
<1>2. CASE login # Auth!Nobody
  <2> DEFINE b == [a EXCEPT !.authenticating = FALSE, !.delays = Append(@, 0)]
  <2>1. Same(auth, b)
    BY DEF Same, AuthOK, AuthFields
  <2>2. Auth!CheckPlainPasswd(b, login)
    BY <1>2 DEF Auth!CheckUser
  <2> HIDE DEF b
  <2>3. left \in Seq(Int) /\ tries \in Seq(Tries) /\ Succeeded(tries, auth)
    BY DEF AuthInv
  <2>4. CASE left' = Append(left, Backends - 1) /\ tries' = Append(tries, Auth!NewTry(Len(left'), login, FALSE)) /\ auth' = b
    <3>1. left' \in Seq(Int)
      BY <2>3, <2>4 DEF BackendsAssumed
    <3>2. Len(left') \in Int
      BY <3>1
    <3> QED
      BY <2>1, <2>3, <2>4, <3>1, <3>2, TryAdded
  <2>5. CASE left' = Append(left, 0) /\ auth' = Auth!PasswdOk(Len(left'), b, FALSE) /\ UNCHANGED tries
    <3>1. left' \in Seq(Int)
      BY <2>3, <2>5
    <3>2. Same(auth, Auth!PasswdOk(Len(left'), b, FALSE))
      BY <2>1, RefusedSame DEF Same
    <3> QED
      BY <2>5, <3>1, <3>2, Kept
  <2> QED
    BY <2>2, <2>4, <2>5 DEF Auth!CheckPlainPasswd
<1> QED
  BY <1>1, <1>2

LEMMA GoesKeeps ==
    ASSUME AuthInv, BackendsAssumed, NEW a, Same(auth, a), NEW arg \in Args, Auth!Goes(a, arg)
    PROVE  AuthInv'
<1>1. AuthOK(a) /\ left \in Seq(Int)
  BY DEF Same, AuthInv
<1>2. ASSUME NEW b, Same(a, b), auth' = Auth!Answered(b), UNCHANGED <<tries, left>>
      PROVE  AuthInv'
  <2>1. Same(auth, Auth!Answered(b))
    BY <1>2, AnsweredSame DEF Same
  <2> QED
    BY <1>1, <1>2, <2>1, Kept
<1>3. CASE a.method = "PLAIN"
  <2>1. Auth!AuthPlain(a, arg)
    BY <1>3 DEF Auth!Goes
  <2>2. CASE arg # ""
    BY <2>1, <2>2, CheckUserKeeps DEF Auth!AuthPlain
  <2>3. CASE arg = ""
    <3>1. Same(a, [a EXCEPT !.over = TRUE]) /\ Same(a, [a EXCEPT !.plain_asked = TRUE])
      BY <1>1 DEF Same, AuthOK, AuthFields
    <3> QED
      BY <1>2, <2>1, <2>3, <3>1 DEF Auth!AuthPlain
  <2> QED
    BY <2>2, <2>3
<1>4. CASE a.method # "PLAIN"
  <2>1. Auth!AuthLogin(a, arg)
    BY <1>4 DEF Auth!Goes
  <2>2. ASSUME auth' = Auth!TakesLogin(a, arg), UNCHANGED <<tries, left>>
        PROVE  AuthInv'
    <3>1. Same(a, [a EXCEPT !.over = TRUE]) /\ Same(a, [a EXCEPT !.userlogin = arg, !.login_asked = TRUE])
      BY <1>1 DEF Same, AuthOK, AuthFields
    <3> QED
      BY <1>2, <2>2, <3>1 DEF Auth!TakesLogin
  <2>3. ASSUME auth' = Auth!Asks(a), UNCHANGED <<tries, left>>
        PROVE  AuthInv'
    <3>1. Same(a, [a EXCEPT !.login_asked = TRUE])
      BY <1>1 DEF Same, AuthOK, AuthFields
    <3> QED
      BY <1>2, <2>3, <3>1 DEF Auth!Asks
  <2>4. ASSUME Auth!CheckUser(a, IF arg = "" THEN Auth!Nobody ELSE a.userlogin)
        PROVE  AuthInv'
    <3>1. (IF arg = "" THEN Auth!Nobody ELSE a.userlogin) \in Args
      BY <1>1 DEF AuthOK, Args
    <3> QED
      BY <2>4, <3>1, CheckUserKeeps
  <2> QED
    BY <2>1, <2>2, <2>3, <2>4 DEF Auth!AuthLogin
<1> QED
  BY <1>3, <1>4

\* The next host of a check, or its end.
LEMMA TryNextKeeps ==
    ASSUME AuthInv, NEW i \in DOMAIN tries, NEW t \in Tries, t.success => auth.accepted # {},
           Auth!TryNext(i, t, auth)
    PROVE  AuthInv'
<1> DEFINE ts == [tries EXCEPT ![i] = t]
<1>1. tries \in Seq(Tries) /\ AuthOK(auth) /\ left \in Seq(Int) /\ Succeeded(tries, auth)
  BY DEF AuthInv
<1>2. ts \in Seq(Tries) /\ DOMAIN ts = DOMAIN tries
  BY <1>1
<1>3. Succeeded(ts, auth)
  BY <1>1 DEF Succeeded
<1> HIDE DEF ts
<1>4. CASE left[t.check] = 0
  <2> DEFINE a == Auth!PasswdOk(t.check, auth, FALSE)
  <2>1. Same(auth, a)
    BY <1>1, RefusedSame
  <2>2. auth' = a /\ tries' = ts /\ left' = left
    BY <1>4 DEF Auth!TryNext, ts
  <2> HIDE DEF a
  <2> QED
    BY <1>1, <1>2, <1>3, <2>1, <2>2 DEF AuthInv, Same, Succeeded, Auth!Justified
<1>5. CASE left[t.check] # 0
  <2>1. auth' = auth /\ tries' = Append(ts, Auth!NewTry(t.check, t.login, t.bare))
        /\ left' = [left EXCEPT ![t.check] = @ - 1]
    BY <1>5 DEF Auth!TryNext, ts
  <2>2. left' \in Seq(Int)
    <3> DEFINE x == t.check
    <3>1. left \in [1 .. Len(left) -> Int] /\ Len(left) \in Nat
      BY <1>1
    <3>2. left' = [left EXCEPT ![x] = left[x] - 1]
      BY <2>1
    <3> HIDE DEF x
    <3>3. x \in 1 .. Len(left) => left[x] - 1 \in Int
      BY <3>1
    <3>4. left' \in [1 .. Len(left) -> Int]
      BY <3>1, <3>2, <3>3
    <3> QED
      BY <3>1, <3>4
  <2>3. t.check \in Int /\ t.login \in Args /\ t.bare \in BOOLEAN
    BY DEF Tries
  <2>4. Same(auth, auth)
    BY <1>1 DEF Same
  <2> QED
    BY <1>2, <1>3, <2>1, <2>2, <2>3, <2>4, TryAdded
<1> QED
  BY <1>4, <1>5

\* A login succeeds only by the reply to AUTH.
LEMMA LineHeard ==
    ASSUME NEW t \in Tries, NEW reply, NEW offer
    PROVE  LET u == Auth!OnLine(t, reply, offer) IN
           u \in Tries /\ (u.success => t.success \/ (t.command = "auth" /\ reply = "ok"))
<1> DEFINE Fits(u) == u \in Tries /\ (u.success => t.success)
<1>1. Fits(Auth!End(t)) /\ Fits(Auth!Command(t, "starttls")) /\ Fits(Auth!Command(t, "auth"))
      /\ Fits(Auth!Command(t, "quit")) /\ Fits(Auth!Command(t, "ehlo")) /\ Fits([t EXCEPT !.asked = TRUE])
  BY DEF Tries, Auth!End, Auth!Command
<1>2. Fits(Auth!AfterRefusal(t))
  BY DEF Tries, Auth!AfterRefusal, Auth!Command
<1>3. Fits(Auth!Command([t EXCEPT !.secure = TRUE], "ehlo"))
  BY DEF Tries, Auth!Command
<1>4. Auth!Command([t EXCEPT !.complete = TRUE, !.success = TRUE], "quit") \in Tries
  BY DEF Tries, Auth!Command
<1> HIDE DEF Fits
<1>5. Auth!OnLine(t, reply, offer) \in
        {Auth!End(t), Auth!Command(t, "starttls"), Auth!Command(t, "auth"), Auth!Command(t, "quit"),
         Auth!Command(t, "ehlo"), [t EXCEPT !.asked = TRUE], Auth!AfterRefusal(t),
         Auth!Command([t EXCEPT !.secure = TRUE], "ehlo")}
      \/ (/\ t.command = "auth" /\ reply = "ok"
          /\ Auth!OnLine(t, reply, offer) = Auth!Command([t EXCEPT !.complete = TRUE, !.success = TRUE], "quit"))
  BY DEF Auth!OnLine
<1> QED
  BY <1>1, <1>2, <1>3, <1>4, <1>5 DEF Fits

LEMMA LineKeeps == ASSUME AuthInv, NEW i \in DOMAIN tries, Auth!Line(i) PROVE AuthInv'
<1>1. tries \in Seq(Tries) /\ tries[i] \in Tries /\ AuthOK(auth) /\ Succeeded(tries, auth)
  BY DEF AuthInv
<1> DEFINE t == [tries[i] EXCEPT !.asked = FALSE]
<1>2. t \in Tries /\ t.command = tries[i].command /\ t.success = tries[i].success
  BY <1>1 DEF Tries
<1> HIDE DEF t
<1>3. PICK reply \in Auth!Replies, offer \in Auth!Offers :
        /\ tries' = [tries EXCEPT ![i] = Auth!Waits(Auth!OnLine(t, reply, offer), reply)]
        /\ auth' = IF tries[i].command = "auth" /\ reply = "ok"
                   THEN [auth EXCEPT !.accepted = @ \cup {tries[i].login}] ELSE auth
  BY DEF Auth!Line, t
<1> DEFINE heard == Auth!OnLine(t, reply, offer)
           u == Auth!Waits(heard, reply)
<1>4. u \in Tries /\ (u.success => t.success \/ (t.command = "auth" /\ reply = "ok"))
  <2>1. heard \in Tries /\ (heard.success => t.success \/ (t.command = "auth" /\ reply = "ok"))
    BY <1>2, LineHeard
  <2> DEFINE b == reply = "more" \/ (heard.asked /\ heard.state = "open")
  <2> HIDE DEF heard
  <2>2. b \in BOOLEAN /\ u = [heard EXCEPT !.asked = b]
    BY Zenon DEF Auth!Waits
  <2> HIDE DEF b, u
  <2> QED
    BY <2>1, <2>2 DEF Tries
<1>5. tries' = [tries EXCEPT ![i] = u]
  BY <1>3
<1> HIDE DEF u
<1>6. AuthOK(auth') /\ auth'.relaying = auth.relaying /\ auth.accepted \subseteq auth'.accepted
      /\ (tries[i].command = "auth" /\ reply = "ok" => auth'.accepted # {})
  BY <1>1, <1>3 DEF AuthOK, AuthFields
<1>7. tries' \in Seq(Tries) /\ DOMAIN tries' = DOMAIN tries
  BY <1>1, <1>4, <1>5
<1>8. Succeeded(tries', auth')
  <2> SUFFICES ASSUME NEW j \in DOMAIN tries, tries'[j].success PROVE auth'.accepted # {}
    BY <1>7 DEF Succeeded
  <2>1. CASE j = i
    BY <1>1, <1>2, <1>4, <1>5, <1>6, <2>1 DEF Succeeded
  <2>2. CASE j # i
    BY <1>1, <1>5, <1>6, <2>2 DEF Succeeded
  <2> QED
    BY <2>1, <2>2
<1>9. left' = left
  BY DEF Auth!Line
<1> QED
  BY <1>6, <1>7, <1>8, <1>9 DEF AuthInv, Auth!Justified

LEMMA ClosesKeeps == ASSUME AuthInv, NEW i \in DOMAIN tries, Auth!Closes(i) PROVE AuthInv'
<1>1. tries \in Seq(Tries) /\ tries[i] \in Tries /\ AuthOK(auth) /\ Succeeded(tries, auth)
  BY DEF AuthInv
<1> DEFINE t == tries[i]
           new == Auth!NewTry(t.check, t.login, t.bare)
           closed == [new EXCEPT !.state = "closed"]
<1>2. new \in Tries /\ ~new.success
  BY <1>1, NewTryType DEF Tries
<1> HIDE DEF new
<1>3. closed \in Tries /\ ~closed.success
  BY <1>2 DEF Tries
<1>4. CASE ~t.complete
  BY <1>3, <1>4, TryNextKeeps DEF Auth!Closes, new
<1>5. CASE t.complete
  <2>1. auth' = Auth!PasswdOk(t.check, auth, t.success) /\ tries' = [tries EXCEPT ![i] = closed] /\ left' = left
    BY <1>5 DEF Auth!Closes, new
  <2> HIDE DEF closed
  <2>2. tries' \in Seq(Tries) /\ DOMAIN tries' = DOMAIN tries
    BY <1>1, <1>3, <2>1
  <2>3. \A a : Succeeded(tries, a) => Succeeded(tries', a)
    BY <1>3, <2>1, <2>2 DEF Succeeded
  <2>4. CASE t.success
    <3> DEFINE a == [auth EXCEPT !.relaying = TRUE]
    <3>1. AuthOK(a) /\ a.accepted = auth.accepted
      BY <1>1 DEF AuthOK, AuthFields
    <3>2. Same(a, auth')
      BY <2>1, <2>4, <3>1, LastSame DEF Auth!PasswdOk, Same
    <3>3. auth.accepted # {}
      BY <1>1, <2>4 DEF Succeeded
    <3> HIDE DEF a
    <3>4. AuthOK(auth') /\ auth'.accepted # {}
      BY <3>1, <3>2, <3>3 DEF Same
    <3> QED
      BY <2>1, <2>2, <3>4 DEF AuthInv, Succeeded, Auth!Justified
  <2>5. CASE ~t.success
    <3>1. t.success = FALSE
      BY <1>1, <2>5 DEF Tries
    <3>2. Same(auth, auth')
      BY <1>1, <2>1, <3>1, RefusedSame
    <3>3. Succeeded(tries', auth)
      BY <1>1, <2>3
    <3> QED
      BY <2>1, <2>2, <3>2, <3>3 DEF AuthInv, Same, Succeeded, Auth!Justified
  <2> QED
    BY <2>4, <2>5
<1> QED
  BY <1>4, <1>5

LEMMA AuthBegins == Auth!AuthInit => AuthInv
<1> SUFFICES ASSUME Auth!AuthInit PROVE AuthInv
  OBVIOUS
<1>1. AuthOK(auth) /\ ~auth.relaying
  BY DEF Auth!AuthInit, AuthOK, AuthFields, Args
<1>2. tries = <<>> /\ left = <<>>
  BY DEF Auth!AuthInit
<1> QED
  BY <1>1, <1>2 DEF AuthInv, Succeeded, Auth!Justified

LEMMA AuthStep ==
    ASSUME AuthInv, BackendsAssumed, [Auth!Capabilities \/ Auth!AuthNext]_authVars PROVE AuthInv'
<1>1. AuthOK(auth) /\ tries \in Seq(Tries) /\ left \in Seq(Int)
  BY DEF AuthInv
<1>2. CASE Auth!Capabilities
  <2> DEFINE a == [auth EXCEPT !.allowed = TRUE]
  <2>1. Same(auth, a)
    BY <1>1 DEF Same, AuthOK, AuthFields
  <2> QED
    BY <1>1, <1>2, <2>1, Kept DEF Auth!Capabilities
<1>3. ASSUME NEW a, Same(auth, a), NEW arg \in Logins \cup {Auth!Nobody, ""}, Auth!Goes(a, arg) PROVE AuthInv'
  BY <1>3, GoesKeeps DEF Args
<1>4. Same(auth, Auth!Heard(auth)) /\ \A method : Same(auth, [Auth!Heard(auth) EXCEPT !.authenticating = TRUE, !.method = method])
  BY <1>1 DEF Same, AuthOK, AuthFields, Auth!Heard
<1>5. CASE Auth!AuthCommand
  <2>1. PICK method \in {"PLAIN", "LOGIN"}, arg \in Logins \cup {Auth!Nobody, ""} :
          Auth!Goes([Auth!Heard(auth) EXCEPT !.authenticating = TRUE, !.method = method], arg)
    BY <1>5 DEF Auth!AuthCommand
  <2> QED
    BY <1>3, <1>4, <2>1
<1>6. CASE Auth!AuthData
  <2>1. PICK arg \in Logins \cup {Auth!Nobody, ""} : Auth!Goes(Auth!Heard(auth), arg)
    BY <1>6 DEF Auth!AuthData
  <2> QED
    BY <1>3, <1>4, <2>1
<1>7. CASE Auth!Delay
  <2>1. PICK x \in DOMAIN left : Auth!Rejected(x)
    BY <1>7 DEF Auth!Delay
  <2> DEFINE a == [auth EXCEPT !.delays[x] = @ - 1]
  <2>2. Same(auth, a)
    BY <1>1 DEF Same, AuthOK, AuthFields
  <2>3. Same(auth, Auth!Last(x, a))
    BY <2>2, LastSame DEF Same
  <2>4. auth' = Auth!Last(x, a) /\ UNCHANGED <<tries, left>>
    BY <2>1 DEF Auth!Rejected
  <2> QED
    BY <1>1, <2>3, <2>4, Kept
<1>8. CASE Auth!Backend
  <2>1. PICK i \in DOMAIN tries : Auth!Line(i) \/ Auth!TimesOut(i) \/ Auth!Fails(i) \/ Auth!Closes(i)
    BY <1>8 DEF Auth!Backend
  <2>2. tries[i] \in Tries /\ (tries[i].success => auth.accepted # {})
    BY <1>1 DEF AuthInv, Succeeded
  <2>3. CASE Auth!TimesOut(i)
    <3> DEFINE t == Auth!End([tries[i] EXCEPT !.timed = TRUE])
    <3>1. t \in Tries /\ (t.success => auth.accepted # {})
      BY <2>2 DEF Tries, Auth!End
    <3> QED
      BY <2>3, <3>1, TryNextKeeps DEF Auth!TimesOut
  <2>4. CASE Auth!Fails(i)
    <3> DEFINE t == [tries[i] EXCEPT !.failed = TRUE]
    <3>1. t \in Tries /\ (t.success => auth.accepted # {})
      BY <2>2 DEF Tries
    <3> QED
      BY <2>4, <3>1, TryNextKeeps DEF Auth!Fails
  <2> QED
    BY <2>1, <2>3, <2>4, LineKeeps, ClosesKeeps
<1>9. CASE UNCHANGED authVars
  BY <1>9 DEF authVars, AuthInv, AuthOK, Succeeded, Auth!Justified
<1> QED
  BY <1>2, <1>5, <1>6, <1>7, <1>8, <1>9 DEF Auth!AuthNext

------------------------------------------------------------------------------
(* Reverse names: the answer that is kept may be of any name, but is "match"  *)
(* only when one resolved.                                                    *)

CallerFields == {"at", "answer", "timer", "ptr_names", "seen", "asked", "ips", "fcrdns", "iprev", "resolved"}

Confirmed(r) ==
    /\ DOMAIN r = CallerFields
    /\ r.ips = "match" \/ r.fcrdns # {} \/ r.iprev = "pass" => r.resolved # {}

NamesInv == DOMAIN caller = Callers /\ \A k \in Callers : Confirmed(caller[k])

LEMMA DoNextKeeps == \A r, answer : Confirmed(r) => Confirmed(Names!DoNext(r, answer))
BY DEF Confirmed, CallerFields, Names!DoNext

LEMMA CheckKeeps == ASSUME NEW r, Confirmed(r) PROVE Confirmed(Names!CheckFcrdns(r))
<1> DEFINE names   == SubSeq(r.ptr_names, 1, r.seen)
           refused == {i \in DOMAIN names : names[i] \in Generic /\ names[i] \notin BadTld /\ "generic_rdns" \in reject}
           matched == r.ips = "match" /\ \A i \in refused : i >= Len(names)
           last    == Names!Last(names)
           s == [r EXCEPT !.at = "over", !.fcrdns = IF matched THEN {last} ELSE {}]
           u == [s EXCEPT !.iprev = IF matched THEN "pass" ELSE "fail"]
<1>1. \/ Names!CheckFcrdns(r) = Names!DoNext(s, "DENY")
      \/ \E answer : Names!CheckFcrdns(r) = Names!DoNext(u, answer)
  BY DEF Names!CheckFcrdns
<1>2. matched => r.resolved # {}
  BY DEF Confirmed
<1> HIDE DEF matched, last
<1>3. Confirmed(s) /\ Confirmed(u)
  BY <1>2 DEF Confirmed, CallerFields
<1> HIDE DEF s, u
<1> QED
  BY <1>1, <1>3, DoNextKeeps

LEMMA NamesBegin == Names!FcrdnsInit => NamesInv /\ Names!FcrdnsTrue
<1> SUFFICES ASSUME Names!FcrdnsInit PROVE NamesInv /\ Names!FcrdnsTrue
  OBVIOUS
<1>1. NamesInv
  BY DEF Names!FcrdnsInit, NamesInv, Confirmed, CallerFields
<1> QED
  BY <1>1 DEF NamesInv, Confirmed, Names!FcrdnsTrue

LEMMA NamesStep ==
    ASSUME NamesInv, [Names!Loads \/ Names!Reloads \/ Names!FcrdnsNext]_namesVars PROVE NamesInv'
<1>1. CASE UNCHANGED caller
  BY <1>1 DEF NamesInv, Confirmed
<1>2. ASSUME NEW k \in Callers, NEW r, Confirmed(r), caller' = [caller EXCEPT ![k] = r] PROVE NamesInv'
  BY <1>2 DEF NamesInv
<1>3. ASSUME NEW k \in Callers, Names!HookLookupRdns(k) PROVE NamesInv'
  <2> DEFINE r == [caller[k] EXCEPT !.at = "ptr", !.timer = TRUE]
  <2>1. Confirmed(r)
    BY DEF NamesInv, Confirmed, CallerFields
  <2>2. caller' = [caller EXCEPT ![k] = r]
    BY <1>3 DEF Names!HookLookupRdns, NamesInv
  <2> QED
    BY <1>2, <2>1, <2>2
<1>4. ASSUME NEW k \in Callers, Names!Timeout(k) PROVE NamesInv'
  BY <1>2, <1>4, DoNextKeeps DEF Names!Timeout, NamesInv
<1>5. ASSUME NEW k \in Callers, Names!PtrError(k) PROVE NamesInv'
  <2> DEFINE r == [caller[k] EXCEPT !.at = "over"]
  <2>1. Confirmed(r)
    BY DEF NamesInv, Confirmed, CallerFields
  <2>2. PICK answer : caller' = [caller EXCEPT ![k] = Names!DoNext(r, answer)]
    BY <1>5 DEF Names!PtrError, NamesInv
  <2> QED
    BY <1>2, <2>1, <2>2, DoNextKeeps
<1>6. ASSUME NEW k \in Callers, Names!PtrAnswer(k) PROVE NamesInv'
  <2>1. PICK names \in PtrNames :
          LET wrong == {i \in DOMAIN names : names[i] \in BadTld}
              stop  == IF "invalid_tld" \in reject /\ wrong # {} THEN CHOOSE i \in wrong : \A j \in wrong : i =< j
                       ELSE Len(names) + 1
              asked == {names[i] : i \in {j \in DOMAIN names : j < stop /\ names[j] \notin BadTld}}
              r     == [caller[k] EXCEPT !.at = IF asked = {} THEN "over" ELSE "ips", !.ptr_names = names,
                                         !.seen = IF stop > Len(names) THEN Len(names) ELSE stop, !.asked = asked]
          IN caller' = [caller EXCEPT ![k] = IF stop =< Len(names) THEN Names!DoNext(r, "DENY")
                                            ELSE IF asked = {} THEN Names!DoNext(r, "CONT") ELSE r]
    BY <1>6 DEF Names!PtrAnswer
  <2> DEFINE wrong == {i \in DOMAIN names : names[i] \in BadTld}
             stop  == IF "invalid_tld" \in reject /\ wrong # {} THEN CHOOSE i \in wrong : \A j \in wrong : i =< j
                      ELSE Len(names) + 1
             asked == {names[i] : i \in {j \in DOMAIN names : j < stop /\ names[j] \notin BadTld}}
             at    == IF asked = {} THEN "over" ELSE "ips"
             seen  == IF stop > Len(names) THEN Len(names) ELSE stop
             r     == [caller[k] EXCEPT !.at = at, !.ptr_names = names, !.seen = seen, !.asked = asked]
  <2>2. caller' = [caller EXCEPT ![k] = IF stop =< Len(names) THEN Names!DoNext(r, "DENY")
                                       ELSE IF asked = {} THEN Names!DoNext(r, "CONT") ELSE r]
    BY <2>1
  <2> HIDE DEF wrong, stop, asked, at, seen
  <2>3. Confirmed(r)
    BY DEF NamesInv, Confirmed, CallerFields
  <2> HIDE DEF r
  <2> QED
    BY <1>2, <2>2, <2>3, DoNextKeeps
<1>7. ASSUME NEW k \in Callers, Names!IpsAnswer(k) PROVE NamesInv'
  <2>1. PICK n \in caller[k].asked, ips \in {"match", "other", "none"} :
          LET r == [caller[k] EXCEPT !.asked = @ \ {n}, !.ips = ips,
                                     !.resolved = IF ips = "match" THEN @ \cup {n} ELSE @] IN
          caller' = [caller EXCEPT ![k] = IF r.asked # {} THEN r ELSE Names!CheckFcrdns(r)]
    BY <1>7 DEF Names!IpsAnswer
  <2> DEFINE r == [caller[k] EXCEPT !.asked = @ \ {n}, !.ips = ips,
                                    !.resolved = IF ips = "match" THEN @ \cup {n} ELSE @]
  <2>2. Confirmed(r)
    BY DEF NamesInv, Confirmed, CallerFields
  <2>3. caller' = [caller EXCEPT ![k] = IF r.asked # {} THEN r ELSE Names!CheckFcrdns(r)]
    BY <2>1
  <2> HIDE DEF r
  <2> QED
    BY <1>2, <2>2, <2>3, CheckKeeps
<1> QED
  BY <1>1, <1>3, <1>4, <1>5, <1>6, <1>7
     DEF Names!Loads, Names!Reloads, Names!FcrdnsNext, namesVars

------------------------------------------------------------------------------
(* URI lists: the lookups of a hook and those that follow it.                 *)

UriFields == {"hook", "part", "asks", "answers"}
RunFields == {"queries", "pending", "called_next", "said", "timed", "found"}

Answers == {"", "CONT", "DENY"}

Reasoned(r) ==
    /\ DOMAIN r = RunFields /\ r.called_next \in BOOLEAN /\ r.timed \in BOOLEAN /\ r.found \in BOOLEAN
    /\ r.found => r.called_next
    /\ ~r.called_next => r.said = ""
    /\ r.said = "DENY" => r.found
    /\ r.said = "CONT" /\ ~r.timed => r.pending = {} /\ ~r.found

\* A hook that waits for its lookups has not answered.
Waits(u, r) ==
    /\ DOMAIN u = UriFields /\ u.asks \in BOOLEAN /\ u.answers \in Seq(Answers)
    /\ u.asks => r.called_next
    /\ zones # {} => Len(u.answers) =< 1 /\ (u.asks \/ ~r.called_next => u.answers = <<>>)

LinksInv == Reasoned(run) /\ Waits(uribl, run)

LEMMA LinksBegin == Links!UriblInit => LinksInv
<1> SUFFICES ASSUME Links!UriblInit PROVE LinksInv
  OBVIOUS
<1>1. Reasoned(run) /\ run.called_next
  BY DEF Links!UriblInit, Links!NewRun, Reasoned, RunFields
<1>2. DOMAIN uribl = UriFields /\ uribl.asks = FALSE /\ uribl.answers = <<>>
  BY DEF Links!UriblInit, UriFields
<1>3. uribl.answers \in Seq(Answers) /\ Len(uribl.answers) = 0
  BY <1>2
<1>4. Waits(uribl, run)
  <2> DEFINE u == uribl
             r == run
  <2>1. DOMAIN u = UriFields /\ u.asks = FALSE /\ u.answers \in Seq(Answers) /\ Len(u.answers) = 0 /\ u.answers = <<>>
    BY <1>2, <1>3
  <2> HIDE DEF u, r
  <2>2. DOMAIN u = UriFields /\ u.asks \in BOOLEAN /\ u.answers \in Seq(Answers)
    BY <2>1
  <2>3. u.asks => r.called_next
    BY <2>1
  <2>4. Len(u.answers) =< 1
    BY <2>1
  <2>5. Waits(u, r)
    BY <2>1, <2>2, <2>3, <2>4, Zenon DEF Waits
  <2> QED
    BY <2>5 DEF u, r
<1> QED
  BY <1>1, <1>4 DEF LinksInv

\* The next() of do_lookups(): the hook answers, or asks for its next part.
LEMMA NextWaits ==
    ASSUME NEW u, NEW r, NEW answer \in Answers, DOMAIN u = UriFields,
           u.answers \in Seq(Answers), zones # {} => u.answers = <<>>, r.called_next = TRUE
    PROVE  Waits(Links!Next(u, answer), r)
<1> DEFINE on   == [u EXCEPT !.part = @ + 1, !.asks = TRUE]
           over == [u EXCEPT !.part = 0, !.asks = FALSE, !.answers = Append(@, answer)]
<1>1. Links!Next(u, answer) \in {on, over}
  BY DEF Links!Next
<1>2. DOMAIN on = UriFields /\ on.asks = TRUE /\ on.answers = u.answers
  BY DEF UriFields
<1>3. DOMAIN over = UriFields /\ over.asks = FALSE /\ over.answers = Append(u.answers, answer)
  BY DEF UriFields
<1>4. /\ Append(u.answers, answer) \in Seq(Answers)
      /\ zones # {} => Len(Append(u.answers, answer)) =< 1 /\ Len(u.answers) =< 1
  <2>1. Len(Append(u.answers, answer)) = Len(u.answers) + 1
    OBVIOUS
  <2> QED
    BY <2>1
<1> HIDE DEF on, over
<1>5. Waits(on, r)
  BY <1>2, <1>4 DEF Waits
<1>6. Waits(over, r)
  BY <1>3, <1>4 DEF Waits
<1> QED
  BY <1>1, <1>5, <1>6

\* A lookup that ends.
Spoken(r, s, answer) ==
    /\ DOMAIN s = RunFields /\ s.called_next = TRUE
    /\ s.said = (IF r.called_next THEN r.said ELSE answer)
    /\ s.timed = r.timed /\ s.found = r.found /\ s.pending = r.pending

LEMMA SaysSpoken ==
    ASSUME NEW r, DOMAIN r = RunFields, r.called_next \in BOOLEAN, NEW answer
    PROVE  Spoken(r, Links!Says(r, answer), answer)
BY DEF Links!Says, RunFields, Spoken

LEMMA AnswersReasoned ==
    ASSUME NEW r, Reasoned(r), NEW q \in r.pending, NEW s \in Links!Answers(r, q)
    PROVE  Reasoned(s) /\ (r.called_next => s.called_next) /\ s.said \in {"", r.said, "CONT", "DENY"}
<1> DEFINE e == [r EXCEPT !.pending = @ \ {q}]
           f == [e EXCEPT !.found = TRUE]
           l == Links!Says(f, "DENY")
<1>1. /\ DOMAIN e = RunFields /\ e.called_next = r.called_next /\ e.said = r.said /\ e.timed = r.timed
      /\ e.found = r.found /\ e.pending = r.pending \ {q}
  BY DEF Reasoned, RunFields
<1>2. /\ DOMAIN r = RunFields /\ r.called_next \in BOOLEAN /\ r.timed \in BOOLEAN /\ r.found \in BOOLEAN
      /\ r.found => r.called_next /\ (~r.called_next => r.said = "")
      /\ r.said = "DENY" => r.found
      /\ ~(r.said = "CONT" /\ ~r.timed)
  BY DEF Reasoned
<1> HIDE DEF e
<1>3. /\ DOMAIN f = RunFields /\ f.called_next = r.called_next /\ f.said = r.said /\ f.timed = r.timed
      /\ f.found = TRUE /\ f.pending = e.pending
  BY <1>1 DEF RunFields
<1>4. /\ DOMAIN l = RunFields /\ l.called_next = TRUE /\ l.timed = r.timed
      /\ l.said = (IF r.called_next THEN r.said ELSE "DENY")
      /\ l.found = TRUE /\ l.pending = e.pending
  <2> HIDE DEF f
  <2>1. f.called_next \in BOOLEAN
    BY <1>2, <1>3
  <2>2. Spoken(f, l, "DENY")
    BY <1>3, <2>1, SaysSpoken, Zenon
  <2> HIDE DEF l
  <2> QED
    BY <1>2, <1>3, <2>2 DEF Spoken
<1> HIDE DEF l
<1>5. s \in {e, l, Links!Says(e, "CONT"), Links!Says(l, "CONT")} /\ (e.pending # {} => s \in {e, l})
      /\ (e.pending = {} => s \in {Links!Says(e, "CONT"), Links!Says(l, "CONT")})
  BY <1>4 DEF Links!Answers, e, f, l
<1>6. CASE s = e
  BY <1>1, <1>2, <1>6 DEF Reasoned
<1>7. CASE s = l
  BY <1>2, <1>4, <1>7 DEF Reasoned
<1>8. CASE s = Links!Says(e, "CONT") /\ e.pending = {}
  <2>1. e.called_next \in BOOLEAN
    BY <1>1, <1>2
  <2>2. Spoken(e, s, "CONT")
    BY <1>1, <1>8, <2>1, SaysSpoken, Zenon
  <2> QED
    BY <1>1, <1>2, <1>8, <2>2 DEF Reasoned, Spoken
<1>9. CASE s = Links!Says(l, "CONT")
  <2>1. l.called_next \in BOOLEAN
    BY <1>4
  <2>2. Spoken(l, s, "CONT")
    BY <1>4, <1>9, <2>1, SaysSpoken, Zenon
  <2> QED
    BY <1>2, <1>4, <2>2 DEF Reasoned, Spoken
<1> QED
  BY <1>5, <1>6, <1>7, <1>8, <1>9

\* What the hook hears of its lookups.
LEMMA ToldWaits ==
    ASSUME LinksInv, NEW r, Reasoned(r), run.called_next => r.called_next,
           r.called_next /\ ~run.called_next => r.said \in Answers
    PROVE  Waits(Links!Told(r), r)
<1>1. Waits(uribl, run)
  BY DEF LinksInv
<1>2. CASE r.called_next /\ ~run.called_next
  <2>1. Links!Told(r) = Links!Next(uribl, r.said)
    BY <1>2, Zenon DEF Links!Told
  <2>2. DOMAIN uribl = UriFields /\ uribl.answers \in Seq(Answers) /\ (zones # {} => uribl.answers = <<>>)
    BY <1>1, <1>2 DEF Waits
  <2>3. r.called_next = TRUE
    BY <1>2 DEF Reasoned
  <2>4. Waits(Links!Next(uribl, r.said), r)
    BY <1>2, <2>2, <2>3, NextWaits, Zenon
  <2> QED
    BY <2>1, <2>4
<1>3. CASE ~(r.called_next /\ ~run.called_next)
  <2>1. Links!Told(r) = uribl
    BY <1>3, Zenon DEF Links!Told
  <2>2. r.called_next <=> run.called_next
    BY <1>3
  <2>3. Waits(uribl, r)
    BY <1>1, <2>2 DEF Waits
  <2> QED
    BY <2>1, <2>3
<1> QED
  BY <1>2, <1>3

LEMMA LinksStep ==
    ASSUME LinksInv, [Links!Reads \/ Links!UriblNext]_linksVars PROVE LinksInv'
<1>1. Reasoned(run) /\ Waits(uribl, run)
  BY DEF LinksInv
<1>2. CASE UNCHANGED <<uribl, run, zones>>
  BY <1>1, <1>2 DEF LinksInv, Reasoned, Waits
<1>3. CASE Links!Reads
  <2>1. zones # {} /\ UNCHANGED <<uribl, run>>
    BY <1>3 DEF Links!Reads, Links!Unread
  <2>2. Reasoned(run)'
    BY <1>1, <2>1 DEF Reasoned
  <2>3. Waits(uribl, run)'
    <3>1. DOMAIN uribl = UriFields /\ uribl.asks \in BOOLEAN /\ uribl.answers \in Seq(Answers)
          /\ (uribl.asks => run.called_next) /\ Len(uribl.answers) =< 1
          /\ (uribl.asks \/ ~run.called_next => uribl.answers = <<>>)
      BY <1>1, <2>1, Zenon DEF Waits
    <3> QED
      BY <2>1, <3>1 DEF Waits
  <2> QED
    BY <2>2, <2>3 DEF LinksInv
<1>4. CASE Links!Hook
  <2> DEFINE part == IF Links!Order[uribl.hook + 1] = "data_post" THEN 1 ELSE 0
             told == IF zones = {} THEN <<"CONT">> ELSE <<>>
  <2>1. /\ uribl' = [hook |-> uribl.hook + 1, part |-> part, asks |-> TRUE, answers |-> told]
        /\ zones' = zones /\ run' = run /\ run.called_next
    BY <1>4 DEF Links!Hook
  <2>2. told \in Seq(Answers) /\ (zones # {} => told = <<>> /\ Len(told) =< 1)
    <3>1. "CONT" \in Answers
      BY DEF Answers
    <3>2. CASE zones = {}
      BY <3>1, <3>2
    <3>3. CASE zones # {}
      BY <3>3
    <3> QED
      BY <3>2, <3>3
  <2> HIDE DEF part, told
  <2>3. DOMAIN uribl' = UriFields /\ uribl'.asks = TRUE /\ uribl'.answers = told
    BY <2>1 DEF UriFields
  <2>4. Waits(uribl, run)'
    BY <2>1, <2>2, <2>3 DEF Waits
  <2>5. Reasoned(run)'
    BY <1>1, <2>1 DEF Reasoned
  <2> QED
    BY <2>4, <2>5 DEF LinksInv
<1>5. CASE Links!DoLookups
  <2>1. DOMAIN uribl = UriFields /\ uribl.answers \in Seq(Answers) /\ (zones # {} => uribl.answers = <<>>)
        /\ run.called_next = TRUE
    BY <1>1, <1>5 DEF Waits, Links!DoLookups, Reasoned
  <2>2. CASE uribl' = Links!Next(uribl, "CONT") /\ UNCHANGED <<run, late, zones>>
    <3>1. "CONT" \in Answers
      BY DEF Answers
    <3>2. Waits(Links!Next(uribl, "CONT"), run)
      BY <2>1, <3>1, NextWaits, Zenon
    <3>3. Waits(uribl, run)'
      BY <2>2, <3>2 DEF Waits
    <3> QED
      BY <1>1, <2>2, <3>3 DEF LinksInv, Reasoned
  <2>3. ASSUME NEW queries, uribl' = [uribl EXCEPT !.asks = FALSE], run' = Links!NewRun(queries), zones' = zones
        PROVE  LinksInv'
    <3>1. /\ DOMAIN uribl' = UriFields /\ uribl'.asks = FALSE /\ uribl'.answers = uribl.answers
      BY <2>1, <2>3 DEF UriFields
    <3>2. Reasoned(run') /\ ~run'.called_next
      BY <2>3 DEF Links!NewRun, Reasoned, RunFields
    <3>3. zones # {} => Len(uribl.answers) =< 1
      BY <2>1
    <3>4. Waits(uribl, run)'
      BY <2>1, <2>3, <3>1, <3>3 DEF Waits
    <3> QED
      BY <3>2, <3>4 DEF LinksInv
  <2> QED
    BY <1>5, <2>2, <2>3 DEF Links!DoLookups
<1>6. ASSUME NEW r, Reasoned(r), run.called_next => r.called_next,
             r.called_next /\ ~run.called_next => r.said \in Answers,
             run' = r, uribl' = Links!Told(r), zones' = zones
      PROVE  LinksInv'
  <2>1. Waits(Links!Told(r), r)
    BY <1>6, ToldWaits
  <2>2. Waits(uribl, run)'
    BY <1>6, <2>1 DEF Waits
  <2> QED
    BY <1>6, <2>2 DEF LinksInv
<1>7. CASE Links!Answer
  <2>1. PICK q \in run.pending : \E r \in Links!Answers(run, q) : run' = r /\ uribl' = Links!Told(r)
    BY <1>7 DEF Links!Answer
  <2>2. PICK r \in Links!Answers(run, q) : run' = r /\ uribl' = Links!Told(r)
    BY <2>1
  <2>3. Reasoned(r) /\ (run.called_next => r.called_next) /\ r.said \in {"", run.said, "CONT", "DENY"}
    BY <1>1, AnswersReasoned
  <2>4. ~run.called_next => run.said = ""
    BY <1>1 DEF Reasoned
  <2>5. r.called_next /\ ~run.called_next => r.said \in Answers
    BY <2>3, <2>4 DEF Answers
  <2>6. zones' = zones
    BY <1>7 DEF Links!Answer
  <2> QED
    BY <1>6, <2>2, <2>3, <2>5, <2>6
<1>8. CASE Links!Timeout
  <2> DEFINE s == Links!Says(run, "CONT")
             r == [s EXCEPT !.timed = TRUE]
  <2>1. ~run.called_next /\ run' = r /\ uribl' = Links!Told(r) /\ zones' = zones
    BY <1>8 DEF Links!Timeout
  <2>2. Spoken(run, s, "CONT")
    BY <1>1, SaysSpoken DEF Reasoned
  <2> HIDE DEF s
  <2>3. DOMAIN r = RunFields /\ r.called_next = TRUE /\ r.said = "CONT" /\ r.timed = TRUE /\ r.found = run.found
    BY <2>1, <2>2 DEF Spoken, RunFields
  <2> HIDE DEF r
  <2>4. Reasoned(r)
    BY <1>1, <2>3 DEF Reasoned
  <2> QED
    BY <1>6, <2>1, <2>3, <2>4 DEF Answers
<1> QED
  BY <1>2, <1>3, <1>4, <1>5, <1>7, <1>8 DEF Links!UriblNext, Links!LateAnswer, linksVars

------------------------------------------------------------------------------
(* DNS lists: a connection that was answered for a zone, or for all of them,  *)
(* and the zones between those in use and those that are tested again.        *)

RemoteFields == {"at", "asked", "ran_cb", "hits", "answers"}
Says == {"OK", "DENY", "CONT"}

\* An answer has its reason in the zones that listed the address, or were heard.
Founded(r) ==
    \A i \in DOMAIN r.answers :
        /\ r.answers[i] # "CONT" => r.hits # {}
        /\ r.answers[i] = "CONT" /\ Block!Verdict # "CONT" => r.hits = {} /\ r.asked = {}

RemoteOK(r) ==
    /\ DOMAIN r = RemoteFields /\ r.ran_cb \in BOOLEAN /\ r.answers \in Seq(Says)
    /\ r.at = "away" => r.asked = {} /\ r.hits = {} /\ r.ran_cb = FALSE
    /\ r.at = "skipped" => r.asked = {}
    /\ r.at # "skipped" /\ ~r.ran_cb => r.answers = <<>>
    /\ ~r.ran_cb /\ Block!Conf.search # "all" => r.hits = {}
    /\ Len(r.answers) =< 1
    /\ Founded(r)

ZonesKept == /\ in_use \subseteq DnsZones /\ disabled_zones \subseteq DnsZones
             /\ conf # {} => in_use \cup disabled_zones = DnsZones

Unasked == conf = {} => \A k \in Remotes : remote[k].at = "away"

BlockInv == /\ DOMAIN remote = Remotes /\ \A k \in Remotes : RemoteOK(remote[k])
            /\ ZonesKept /\ Unasked

LEMMA VerdictSays == Block!Verdict \in Says
BY DEF Block!Verdict, Says

LEMMA RemoteBegins ==
    ASSUME NEW r, DOMAIN r = RemoteFields, r.ran_cb = FALSE, r.answers = <<>>, r.hits = {}, r.at # "away" \/ r.asked = {},
           r.at # "skipped"
    PROVE  RemoteOK(r)
<1>1. r.ran_cb \in BOOLEAN
  OBVIOUS
<1>2. r.answers \in Seq(Says) /\ DOMAIN r.answers = {} /\ Len(r.answers) = 0
  OBVIOUS
<1>3. Len(r.answers) =< 1
  BY <1>2
<1>4. Founded(r)
  BY <1>2 DEF Founded
<1> QED
  BY <1>1, <1>2, <1>3, <1>4 DEF RemoteOK

\* run_cb(): an answer that has its reason, if it is the first.
Runs(r, answer) == /\ answer \in Says
                   /\ answer # "CONT" => r.hits # {}
                   /\ answer = "CONT" /\ Block!Verdict # "CONT" => r.hits = {} /\ r.asked = {}

\* A connection on its way: whether it may still have to be answered for a hit
\* is left open.
Heeds(r) ==
    /\ DOMAIN r = RemoteFields /\ r.ran_cb \in BOOLEAN /\ r.answers \in Seq(Says)
    /\ r.at # "away" /\ r.at # "skipped"
    /\ ~r.ran_cb => r.answers = <<>>
    /\ Len(r.answers) =< 1
    /\ Founded(r)

LEMMA RunCbHeeds ==
    ASSUME NEW r, Heeds(r), NEW answer, ~r.ran_cb => Runs(r, answer)
    PROVE  LET s == Block!RunCb(r, answer) IN
           Heeds(s) /\ s.ran_cb = TRUE /\ s.hits = r.hits /\ s.asked = r.asked /\ s.at = r.at
<1>1. CASE r.ran_cb
  BY <1>1 DEF Heeds, Block!RunCb
<1>2. CASE ~r.ran_cb
  <2> DEFINE s == [r EXCEPT !.ran_cb = TRUE, !.answers = Append(@, answer)]
  <2>1. DOMAIN s = RemoteFields /\ s.ran_cb = TRUE /\ s.answers = Append(r.answers, answer)
        /\ s.hits = r.hits /\ s.asked = r.asked /\ s.at = r.at
    BY DEF Heeds, RemoteFields
  <2>2. Block!RunCb(r, answer) = s
    BY <1>2 DEF Block!RunCb
  <2>3. r.answers = <<>> /\ Runs(r, answer)
    BY <1>2 DEF Heeds
  <2> HIDE DEF s
  <2>4. s.answers = <<answer>>
    BY <2>1, <2>3
  <2>5. s.answers \in Seq(Says) /\ Len(s.answers) = 1 /\ DOMAIN s.answers = {1} /\ s.answers[1] = answer
    BY <2>3, <2>4 DEF Runs
  <2>6. Founded(s)
    BY <2>1, <2>3, <2>5 DEF Founded, Runs
  <2>7. Heeds(s)
    <3>1. s.ran_cb \in BOOLEAN
      BY <2>1
    <3>2. Len(s.answers) =< 1
      BY <2>5
    <3>3. s.at # "away" /\ s.at # "skipped"
      BY <2>1 DEF Heeds
    <3> QED
      BY <2>1, <2>5, <2>6, <3>1, <3>2, <3>3, Zenon DEF Heeds
  <2> QED
    BY <2>1, <2>2, <2>7
<1> QED
  BY <1>1, <1>2

\* One more zone is heard.
LEMMA ZoneHeard ==
    ASSUME NEW r, RemoteOK(r), NEW z \in r.asked, NEW listed \in BOOLEAN
    PROVE  LET s == Block!Over(Block!Heard(r, z, listed)) IN RemoteOK(s) /\ s.at # "away"
<1> DEFINE hits == IF listed THEN r.hits \cup {z} ELSE r.hits
           s == [r EXCEPT !.asked = @ \ {z}, !.hits = IF listed THEN @ \cup {z} ELSE @]
           t == Block!Heard(r, z, listed)
           u == [t EXCEPT !.at = "over"]
           answer == IF Block!Conf.search = "all" /\ t.hits # {} THEN Block!Verdict ELSE "CONT"
<1>1. DOMAIN r = RemoteFields /\ r.ran_cb \in BOOLEAN /\ r.at # "away" /\ r.at # "skipped"
      /\ (~r.ran_cb => r.answers = <<>>) /\ Founded(r) /\ (~r.ran_cb /\ Block!Conf.search # "all" => r.hits = {})
      /\ r.answers \in Seq(Says) /\ Len(r.answers) =< 1
  BY DEF RemoteOK
<1>2. /\ DOMAIN s = RemoteFields /\ s.ran_cb = r.ran_cb /\ s.answers = r.answers /\ s.at = r.at
      /\ s.asked = r.asked \ {z} /\ s.hits = hits /\ (listed => s.hits # {}) /\ (~listed => s.hits = r.hits)
  BY <1>1 DEF RemoteFields
<1> HIDE DEF s, hits
<1>3. Founded(s)
  <2>1. \A i \in DOMAIN r.answers : r.answers[i] # "CONT" => s.hits # {}
    BY <1>1, <1>2 DEF Founded, hits
  <2>2. \A i \in DOMAIN r.answers : ~(r.answers[i] = "CONT" /\ Block!Verdict # "CONT")
    BY <1>1 DEF Founded
  <2> QED
    BY <1>2, <2>1, <2>2 DEF Founded
<1>4. Heeds(s)
  BY <1>1, <1>2, <1>3 DEF Heeds
<1>5. Heeds(t) /\ t.hits = s.hits /\ t.asked = s.asked /\ (~t.ran_cb /\ Block!Conf.search # "all" => t.hits = {})
  <2>1. CASE Block!Conf.search # "all" /\ listed
    <3>1. t = Block!RunCb(s, Block!Verdict)
      BY <2>1 DEF Block!Heard, s
    <3>2. ~s.ran_cb => Runs(s, Block!Verdict)
      BY <1>2, <2>1, VerdictSays DEF Runs
    <3> HIDE DEF t
    <3> QED
      BY <1>4, <3>1, <3>2, RunCbHeeds
  <2>2. CASE ~(Block!Conf.search # "all" /\ listed)
    <3>1. t = s
      BY <2>2 DEF Block!Heard, s
    <3> HIDE DEF t
    <3> QED
      BY <1>1, <1>2, <1>4, <2>2, <3>1
  <2> QED
    BY <2>1, <2>2
<1> HIDE DEF t
<1>6. CASE t.asked # {}
  <2>1. Block!Over(t) = t
    BY <1>6 DEF Block!Over
  <2>2. RemoteOK(t)
    BY <1>5 DEF Heeds, RemoteOK
  <2> QED
    BY <1>5, <2>1, <2>2 DEF Heeds, t
<1>7. CASE t.asked = {}
  <2>1. DOMAIN u = RemoteFields /\ u.ran_cb = t.ran_cb /\ u.answers = t.answers /\ u.at = "over"
        /\ u.asked = t.asked /\ u.hits = t.hits
    BY <1>5 DEF Heeds, RemoteFields
  <2>2. Block!Over(t) = Block!RunCb(u, answer)
    BY <1>7 DEF Block!Over
  <2> HIDE DEF u
  <2>3. Heeds(u)
    BY <1>5, <2>1 DEF Heeds, Founded
  <2>4. ~u.ran_cb => Runs(u, answer)
    BY <1>5, <1>7, <2>1, VerdictSays DEF Runs, Says
  <2> HIDE DEF answer
  <2> DEFINE v == Block!RunCb(u, answer)
  <2>5. Heeds(v) /\ v.ran_cb = TRUE /\ v.at = "over"
    BY <2>1, <2>3, <2>4, RunCbHeeds
  <2> HIDE DEF v
  <2>6. RemoteOK(v)
    BY <2>5 DEF Heeds, RemoteOK
  <2> QED
    BY <2>2, <2>5, <2>6 DEF t, v
<1> QED
  BY <1>6, <1>7

LEMMA BlockBegins == Block!ListInit => BlockInv
<1> SUFFICES ASSUME Block!ListInit PROVE BlockInv
  OBVIOUS
<1>1. ZonesKept /\ Unasked /\ DOMAIN remote = Remotes
  BY DEF Block!ListInit, ZonesKept, Unasked
<1>2. ASSUME NEW k \in Remotes PROVE RemoteOK(remote[k])
  <2> DEFINE r == [at |-> "away", asked |-> {}, ran_cb |-> FALSE, hits |-> {}, answers |-> <<>>]
  <2>1. remote[k] = r
    BY DEF Block!ListInit
  <2>2. DOMAIN r = RemoteFields /\ r.ran_cb = FALSE /\ r.answers = <<>> /\ r.hits = {} /\ r.asked = {} /\ r.at = "away"
    BY DEF RemoteFields
  <2> HIDE DEF r
  <2>3. RemoteOK(r)
    BY <2>2, RemoteBegins
  <2> QED
    BY <2>1, <2>3
<1> QED
  BY <1>1, <1>2 DEF BlockInv

\* A connection keeps what it has while the configuration does.
LEMMA RemoteStays == ASSUME UNCHANGED conf, NEW r, RemoteOK(r) PROVE RemoteOK(r)'
<1>1. Block!Verdict' = Block!Verdict /\ Block!Conf' = Block!Conf
  BY DEF Block!Verdict, Block!Conf
<1> QED
  BY <1>1 DEF RemoteOK, Founded

LEMMA RemotesStay ==
    ASSUME BlockInv, UNCHANGED <<conf, remote>> PROVE (\A k \in Remotes : RemoteOK(remote[k]))' /\ Unasked' /\ DOMAIN remote' = Remotes
<1>1. ASSUME NEW k \in Remotes PROVE RemoteOK(remote[k])'
  BY RemoteStays DEF BlockInv
<1> QED
  BY <1>1 DEF BlockInv, Unasked

\* A zone that is put out of use is tested again.
LEMMA DisableKeeps ==
    ASSUME ZonesKept, NEW z, Block!Disable(z), UNCHANGED conf PROVE ZonesKept'
BY DEF ZonesKept, Block!Disable

LEMMA LookedKeeps ==
    ASSUME ZonesKept, NEW z, NEW outcome, Block!Looked(z, outcome), UNCHANGED conf PROVE ZonesKept'
<1>1. CASE Block!Disable(z)
  BY <1>1, DisableKeeps
<1>2. CASE UNCHANGED <<in_use, disabled_zones>>
  BY <1>2 DEF ZonesKept
<1> QED
  BY <1>1, <1>2 DEF Block!Looked

LEMMA ZoneAnswersKeep ==
    ASSUME BlockInv, NEW k \in Remotes, Block!ZoneAnswers(k) PROVE BlockInv'
<1>1. PICK z \in remote[k].asked, outcome \in Block!Outcomes :
        /\ Block!Looked(z, outcome)
        /\ remote' = [remote EXCEPT ![k] = Block!Over(Block!Heard(@, z, outcome = "listed"))]
  BY DEF Block!ZoneAnswers
<1>2. UNCHANGED conf
  BY DEF Block!ZoneAnswers
<1>3. ZonesKept'
  BY <1>1, <1>2, LookedKeeps DEF BlockInv
<1> DEFINE listed == outcome = "listed"
           s == Block!Over(Block!Heard(remote[k], z, listed))
<1>4. RemoteOK(remote[k]) /\ listed \in BOOLEAN
  BY DEF BlockInv
<1>5. DOMAIN remote = Remotes /\ remote' = [remote EXCEPT ![k] = s]
  BY <1>1 DEF BlockInv
<1> HIDE DEF listed
<1>6. RemoteOK(s) /\ s.at # "away"
  BY <1>4, ZoneHeard, Zenon
<1> HIDE DEF s
<1>7. ASSUME NEW j \in Remotes PROVE RemoteOK(remote[j])'
  <2>1. remote'[j] = IF j = k THEN s ELSE remote[j]
    BY <1>5
  <2>2. PICK r : r = remote'[j]
    OBVIOUS
  <2>3. RemoteOK(r)
    BY <1>6, <2>1, <2>2 DEF BlockInv
  <2>4. RemoteOK(r)'
    BY <1>2, <2>3, RemoteStays
  <2> QED
    BY <2>2, <2>4 DEF RemoteOK, Founded
<1>8. Unasked'
  <2>1. remote[k].at # "away"
    BY <1>1, <1>4 DEF RemoteOK
  <2>2. conf # {}
    BY <2>1 DEF BlockInv, Unasked
  <2> QED
    BY <1>2, <2>2 DEF Unasked
<1> QED
  BY <1>3, <1>5, <1>7, <1>8 DEF BlockInv

LEMMA HookConnectKeeps ==
    ASSUME BlockInv, NEW k \in Remotes, Block!HookConnect(k) PROVE BlockInv'
<1> DEFINE r == remote[k]
           skipped == [r EXCEPT !.at = "skipped", !.answers = <<"CONT">>]
           asks == [r EXCEPT !.at = "asks", !.asked = in_use]
           s == IF in_use = {} THEN skipped ELSE asks
<1>1. /\ DOMAIN remote = Remotes /\ remote' = [remote EXCEPT ![k] = s]
      /\ UNCHANGED <<conf, in_use, disabled_zones>> /\ conf # {} /\ r.at = "away"
  BY DEF Block!HookConnect, BlockInv
<1>2. RemoteOK(r) /\ DOMAIN r = RemoteFields /\ r.asked = {} /\ r.hits = {} /\ r.ran_cb = FALSE /\ r.answers = <<>>
  BY <1>1 DEF BlockInv, RemoteOK
<1> HIDE DEF r
<1>3. RemoteOK(asks)
  <2>1. DOMAIN asks = RemoteFields /\ asks.ran_cb = FALSE /\ asks.answers = <<>> /\ asks.hits = {} /\ asks.at = "asks"
    BY <1>2 DEF RemoteFields
  <2> HIDE DEF asks
  <2> QED
    BY <2>1, RemoteBegins
<1>4. RemoteOK(skipped)
  <2>1. DOMAIN skipped = RemoteFields /\ skipped.ran_cb = FALSE /\ skipped.answers = <<"CONT">> /\ skipped.hits = {}
        /\ skipped.asked = {} /\ skipped.at = "skipped"
    BY <1>2 DEF RemoteFields
  <2> HIDE DEF skipped
  <2>2. "CONT" \in Says
    BY DEF Says
  <2>3. skipped.answers \in Seq(Says) /\ Len(skipped.answers) = 1 /\ DOMAIN skipped.answers = {1} /\ skipped.answers[1] = "CONT"
    BY <2>1, <2>2
  <2>4. Len(skipped.answers) =< 1
    BY <2>3
  <2>5. skipped.ran_cb \in BOOLEAN
    BY <2>1
  <2>6. Founded(skipped)
    BY <2>1, <2>3 DEF Founded
  <2> QED
    BY <2>1, <2>3, <2>4, <2>5, <2>6 DEF RemoteOK
<1>5. RemoteOK(s)
  BY <1>3, <1>4
<1> HIDE DEF s
<1>6. ASSUME NEW j \in Remotes PROVE RemoteOK(remote[j])'
  <2>1. PICK q : q = remote'[j]
    OBVIOUS
  <2>2. RemoteOK(q)
    BY <1>1, <1>5, <2>1 DEF BlockInv
  <2>3. RemoteOK(q)'
    BY <1>1, <2>2, RemoteStays
  <2> QED
    BY <2>1, <2>3 DEF RemoteOK, Founded
<1>7. ZonesKept' /\ Unasked'
  BY <1>1 DEF BlockInv, ZonesKept, Unasked
<1> QED
  BY <1>1, <1>6, <1>7 DEF BlockInv

LEMMA RegisterKeeps == ASSUME BlockInv, Block!Register PROVE BlockInv'
<1>1. conf = {} /\ in_use' = DnsZones /\ UNCHANGED <<disabled_zones, remote>> /\ conf' # {}
  BY DEF Block!Register
<1>2. ZonesKept' /\ Unasked'
  BY <1>1 DEF BlockInv, ZonesKept, Unasked
<1>3. ASSUME NEW k \in Remotes PROVE RemoteOK(remote[k])'
  <2> DEFINE r == remote[k]
  <2>1. RemoteOK(r) /\ r.at = "away"
    BY <1>1 DEF BlockInv, Unasked
  <2>2. DOMAIN r = RemoteFields /\ r.ran_cb \in BOOLEAN /\ r.answers \in Seq(Says) /\ r.asked = {} /\ r.hits = {}
        /\ r.ran_cb = FALSE /\ r.answers = <<>> /\ Len(r.answers) =< 1
    BY <2>1 DEF RemoteOK
  <2>3. DOMAIN r.answers = {}
    BY <2>2
  <2>4. Founded(r)'
    BY <1>1, <2>3 DEF Founded
  <2> QED
    BY <1>1, <2>1, <2>2, <2>4 DEF RemoteOK
<1> QED
  BY <1>1, <1>2, <1>3 DEF BlockInv

LEMMA BlockStep ==
    ASSUME BlockInv, [Block!Register \/ Block!ListNext]_blockVars PROVE BlockInv'
<1>1. ASSUME UNCHANGED <<conf, remote>>, ZonesKept' PROVE BlockInv'
  BY <1>1, RemotesStay DEF BlockInv
<1>2. ZonesKept
  BY DEF BlockInv
<1>3. CASE Block!CheckZones \/ Block!Reload \/ UNCHANGED blockVars
  BY <1>1, <1>2, <1>3 DEF Block!CheckZones, Block!Reload, blockVars, ZonesKept
<1>4. ASSUME NEW z \in DnsZones, Block!TestNone(z) PROVE BlockInv'
  <2>1. UNCHANGED <<conf, remote>>
    BY <1>4 DEF Block!TestNone
  <2>2. Block!Disable(z) \/ \E outcome : Block!Looked(z, outcome)
    BY <1>4 DEF Block!TestNone
  <2> QED
    BY <1>1, <1>2, <2>1, <2>2, DisableKeeps, LookedKeeps
<1>5. ASSUME NEW z \in DnsZones, Block!TestPoint(z) PROVE BlockInv'
  <2>1. UNCHANGED <<conf, remote>>
    BY <1>5 DEF Block!TestPoint
  <2>2. CASE Block!Disable(z)
    BY <1>1, <1>2, <2>1, <2>2, DisableKeeps
  <2>3. CASE in_use' = in_use \cup {z} /\ UNCHANGED disabled_zones
    BY <1>1, <1>2, <2>1, <2>3 DEF ZonesKept
  <2> QED
    BY <1>5, <2>2, <2>3 DEF Block!TestPoint
<1> QED
  BY <1>3, <1>4, <1>5, RegisterKeeps, HookConnectKeeps, ZoneAnswersKeep DEF Block!ListNext

LEMMA NamesTrue == NamesInv => Names!FcrdnsTrue
BY DEF NamesInv, Confirmed, Names!FcrdnsTrue

LEMMA LinksTrue == LinksInv => Links!UriblTrue /\ Links!UriblOnce
BY DEF LinksInv, Reasoned, Waits, Links!UriblTrue, Links!UriblOnce

LEMMA BlockTrue == BlockInv => Block!ListTrue /\ Block!ListOnce
BY DEF BlockInv, RemoteOK, Founded, ZonesKept, Block!ListTrue, Block!ListOnce

------------------------------------------------------------------------------
(* Greylisting: what the store may answer to a transaction depends on when it *)
(* was asked, which is less than a second ago, and on what the others wrote.  *)

PeriodsAssumed == Black \in Int /\ Grey \in Nat /\ White \in Int

MailFields == {"on", "skip", "pass", "at", "rcpt", "read", "stamp"}
RecFields  == {"there", "created", "updated", "until"}

RecOK(r) ==
    /\ DOMAIN r = RecFields /\ r.there \in BOOLEAN
    /\ r.created \in Int /\ r.updated \in Int /\ r.until \in Int
    /\ ~r.there => r.created = List!Never /\ r.until = List!Never

\* The store answers within a second.
MailOK(m, now) ==
    /\ DOMAIN m = MailFields /\ m.stamp \in Int
    /\ m.at # "" => m.read.tuple \in Tuples /\ m.stamp =< now /\ now =< m.stamp + 1
    /\ m.at = "promote" => m.read.created # List!Never /\ m.read.created \in Int

GreyTyped ==
    /\ clock \in Int /\ missed \in BOOLEAN
    /\ DOMAIN mail = Mails /\ \A s \in Mails : MailOK(mail[s], clock)
    /\ DOMAIN grey = Tuples /\ \A t \in Tuples : RecOK(grey[t])
    /\ RecOK(white) /\ DOMAIN tried = Tuples

\* What process_tuple() wrote to the store it had when it wrote it.
TimesTried ==
    /\ \A t \in Tuples : grey[t].created # List!Never => grey[t].created \in tried[t] \/ grey[t].created + Grey < clock
    /\ \A s \in Mails : mail[s].at = "create" => mail[s].stamp \in tried[List!Asked(s)]
    /\ List!OnceWaited

TimesInv == GreyTyped /\ TimesTried

\* A step of one transaction.
Turns(s, m) == mail' = [mail EXCEPT ![s] = m]

LEMMA Others ==
    ASSUME GreyTyped, NEW s \in Mails, NEW m, Turns(s, m)
    PROVE  DOMAIN mail' = Mails /\ \A j \in Mails : mail'[j] = IF j = s THEN m ELSE mail[j]
BY DEF GreyTyped, Turns

LEMMA RecNone == RecOK(List!NoRecord)
BY DEF RecOK, RecFields, List!NoRecord, List!Never

LEMMA ToTurns ==
    ASSUME GreyTyped, NEW s \in Mails, NEW at, NEW rec, List!To(s, at, rec)
    PROVE  \E m : /\ Turns(s, m) /\ DOMAIN m = MailFields
                  /\ m.at = at /\ m.read = rec /\ m.stamp = clock
<1> DEFINE m == [mail[s] EXCEPT !.at = at, !.read = rec, !.stamp = clock]
<1>1. DOMAIN mail[s] = MailFields
  BY DEF GreyTyped, MailOK
<1>2. DOMAIN m = MailFields /\ m.at = at /\ m.read = rec /\ m.stamp = clock
  BY <1>1 DEF MailFields
<1>3. Turns(s, m)
  BY DEF List!To, Turns
<1> HIDE DEF m
<1> QED
  BY <1>2, <1>3

LEMMA LetTurns ==
    ASSUME GreyTyped, NEW s \in Mails, NEW pass, List!Let(s, pass)
    PROVE  \E m : Turns(s, m) /\ DOMAIN m = MailFields /\ m.at = "" /\ m.stamp \in Int
<1> DEFINE m == [mail[s] EXCEPT !.at = "", !.read = List!NoRecord, !.stamp = 0,
                               !.pass = mail[s].on /\ (@ \/ pass)]
<1>1. DOMAIN mail[s] = MailFields
  BY DEF GreyTyped, MailOK
<1>2. DOMAIN m = MailFields /\ m.at = "" /\ m.stamp \in Int
  BY <1>1 DEF MailFields
<1>3. Turns(s, m)
  BY DEF List!Let, Turns
<1> HIDE DEF m
<1> QED
  BY <1>2, <1>3

\* What a step of the hooks or of the store may do to a transaction and to its
\* tuple, the clock standing still.
Idles(s)    == \E m : Turns(s, m) /\ DOMAIN m = MailFields /\ m.at = "" /\ m.stamp \in Int
Reaches(s, at, rec) == \E m : Turns(s, m) /\ DOMAIN m = MailFields /\ m.at = at /\ m.read = rec /\ m.stamp = clock

LEMMA IdlesTimes ==
    ASSUME TimesInv, NEW s \in Mails, Idles(s), UNCHANGED <<clock, grey, tried>>, RecOK(white'), missed' \in BOOLEAN
    PROVE  TimesInv'
<1>1. PICK m : Turns(s, m) /\ DOMAIN m = MailFields /\ m.at = "" /\ m.stamp \in Int
  BY DEF Idles
<1>2. GreyTyped /\ TimesTried
  BY DEF TimesInv
<1>3. DOMAIN mail' = Mails /\ \A j \in Mails : mail'[j] = IF j = s THEN m ELSE mail[j]
  BY <1>1, <1>2, Others
<1>4. GreyTyped'
  BY <1>1, <1>2, <1>3 DEF GreyTyped, MailOK
<1>5. TimesTried'
  BY <1>1, <1>2, <1>3 DEF TimesTried, List!OnceWaited, List!Asked
<1> QED
  BY <1>4, <1>5 DEF TimesInv

LEMMA ReachesTyped ==
    ASSUME GreyTyped, NEW s \in Mails, NEW at, NEW rec, Reaches(s, at, rec), rec.tuple \in Tuples,
           at = "promote" => rec.created # List!Never /\ rec.created \in Int,
           UNCHANGED <<clock, grey>>, DOMAIN tried' = Tuples, RecOK(white'), missed' \in BOOLEAN
    PROVE  GreyTyped'
<1>1. PICK m : Turns(s, m) /\ DOMAIN m = MailFields /\ m.at = at /\ m.read = rec /\ m.stamp = clock
  BY DEF Reaches
<1>2. DOMAIN mail' = Mails /\ \A j \in Mails : mail'[j] = IF j = s THEN m ELSE mail[j]
  BY <1>1, Others
<1>3. clock \in Int /\ clock =< clock /\ clock =< clock + 1
  BY DEF GreyTyped
<1>4. MailOK(m, clock)
  BY <1>1, <1>3 DEF MailOK
<1> QED
  BY <1>2, <1>4 DEF GreyTyped

\* A step to another place than those the times matter at.
LEMMA ReachesTimes ==
    ASSUME TimesInv, NEW s \in Mails, NEW at, NEW rec, Reaches(s, at, rec), rec.tuple \in Tuples,
           at \notin {"promote", "create"}, UNCHANGED <<clock, grey, tried>>, RecOK(white'), missed' \in BOOLEAN
    PROVE  TimesInv'
<1>1. PICK m : Turns(s, m) /\ DOMAIN m = MailFields /\ m.at = at /\ m.read = rec /\ m.stamp = clock
  BY DEF Reaches
<1>2. GreyTyped /\ TimesTried
  BY DEF TimesInv
<1>3. DOMAIN mail' = Mails /\ \A j \in Mails : mail'[j] = IF j = s THEN m ELSE mail[j]
  BY <1>1, <1>2, Others
<1>4. GreyTyped'
  BY <1>2, ReachesTyped DEF GreyTyped
<1>5. TimesTried'
  BY <1>1, <1>2, <1>3 DEF TimesTried, List!OnceWaited, List!Asked
<1> QED
  BY <1>4, <1>5 DEF TimesInv

\* The process ends, and no transaction is left.
LEMMA ThrowsMails ==
    ASSUME List!Throws
    PROVE  DOMAIN mail' = Mails /\ \A s \in Mails : MailOK(mail'[s], clock) /\ mail'[s].at = ""
<1> DEFINE m == List!NoMail
<1>1. DOMAIN m = MailFields /\ m.at = "" /\ m.stamp \in Int
  BY DEF MailFields, List!NoMail
<1>2. mail' = [s \in Mails |-> m]
  BY DEF List!Throws
<1> HIDE DEF m
<1>3. MailOK(m, clock)
  BY <1>1 DEF MailOK
<1> QED
  BY <1>1, <1>2, <1>3

LEMMA ThrowsTimes ==
    ASSUME TimesInv, List!Throws, UNCHANGED <<clock, grey, white>>, DOMAIN tried' = Tuples,
           \A t \in Tuples : tried[t] \subseteq tried'[t]
    PROVE  TimesInv'
<1>1. GreyTyped /\ TimesTried
  BY DEF TimesInv
<1>2. DOMAIN mail' = Mails /\ \A s \in Mails : MailOK(mail'[s], clock) /\ mail'[s].at = ""
  BY ThrowsMails
<1>3. missed' \in BOOLEAN
  BY <1>1, Zenon DEF List!Throws, GreyTyped
<1>4. GreyTyped'
  BY <1>1, <1>2, <1>3 DEF GreyTyped
<1>5. TimesTried'
  BY <1>1, <1>2 DEF TimesTried, List!OnceWaited
<1> QED
  BY <1>4, <1>5 DEF TimesInv

LEMMA ReadTimes ==
    ASSUME PeriodsAssumed, TimesInv, NEW s \in Mails, List!GreyRead(s), ~List!Throws PROVE TimesInv'
<1> DEFINE t == List!Asked(s)
<1>1. PICK r \in {grey[t], List!NoRecord} :
        /\ List!To(s, IF List!Waited(r) THEN "promote" ELSE IF r.there THEN "again" ELSE "create", List!Rec(r, t))
        /\ UNCHANGED missed
  BY DEF List!GreyRead
<1> DEFINE at  == IF List!Waited(r) THEN "promote" ELSE IF r.there THEN "again" ELSE "create"
           rec == List!Rec(r, t)
<1>2. GreyTyped /\ TimesTried /\ mail[s].at = "grey?" /\ t \in Tuples
  BY DEF TimesInv, GreyTyped, MailOK, List!GreyRead, List!Asked
<1>3. RecOK(r)
  BY <1>1, <1>2, RecNone DEF GreyTyped
<1>4. rec.tuple = t /\ rec.created = r.created
  BY DEF List!Rec
<1>5. DOMAIN tried = Tuples /\ tried' = [tried EXCEPT ![t] = @ \cup {clock}] /\ UNCHANGED <<grey, white, clock, missed>>
  BY <1>1, <1>2 DEF List!GreyRead, GreyTyped
<1>6. List!To(s, at, rec)
  BY <1>1
<1> HIDE DEF t
<1>7. at = "promote" => List!Waited(r)
  OBVIOUS
<1> HIDE DEF at, rec
<1>8. PICK m : Turns(s, m) /\ DOMAIN m = MailFields /\ m.at = at /\ m.read = rec /\ m.stamp = clock
  BY <1>2, <1>6, ToTurns
<1>9. DOMAIN mail' = Mails /\ \A j \in Mails : mail'[j] = IF j = s THEN m ELSE mail[j]
  BY <1>2, <1>8, Others
<1>10. GreyTyped'
  <2>1. at = "promote" => rec.created # List!Never /\ rec.created \in Int
    BY <1>3, <1>4, <1>7 DEF List!Waited, RecOK
  <2>2. Reaches(s, at, rec)
    BY <1>8 DEF Reaches
  <2>3. RecOK(white') /\ missed' \in BOOLEAN /\ DOMAIN tried' = Tuples /\ rec.tuple \in Tuples
    BY <1>2, <1>4, <1>5 DEF GreyTyped
  <2> QED
    BY <1>2, <1>5, <2>1, <2>2, <2>3, ReachesTyped
<1>11. \A u \in Tuples : tried[u] \subseteq tried'[u] /\ (u = t => clock \in tried'[u])
  BY <1>2, <1>5
<1>12. \A u \in Tuples : grey'[u].created # List!Never => grey'[u].created \in tried'[u] \/ grey'[u].created + Grey < clock'
  BY <1>2, <1>5, <1>11 DEF TimesTried
<1>13. ASSUME NEW j \in Mails, mail'[j].at = "create" PROVE mail'[j].stamp \in tried'[mail'[j].read.tuple]
  <2>1. CASE j = s
    BY <1>2, <1>4, <1>8, <1>9, <1>11, <2>1
  <2>2. CASE j # s
    BY <1>2, <1>9, <1>11, <1>13, <2>2 DEF TimesTried, List!Asked, GreyTyped, MailOK
  <2> QED
    BY <2>1, <2>2
<1>14. ASSUME NEW j \in Mails, mail'[j].at = "promote"
       PROVE  \E a \in tried'[mail'[j].read.tuple] : a + Black < mail'[j].stamp /\ a + Grey >= mail'[j].stamp
  <2>1. CASE j = s
    <3>1. List!Waited(r) /\ mail'[j].stamp = clock /\ mail'[j].read.tuple = t
      BY <1>4, <1>7, <1>8, <1>9, <1>14, <2>1
    <3>2. r.there /\ r.created # List!Never /\ r.created + Black < clock /\ r.created + Grey >= clock
      BY <3>1 DEF List!Waited
    <3>3. r = grey[t]
      BY <1>1, <3>2 DEF List!NoRecord
    <3>4. r.created \in tried[t]
      BY <1>2, <1>3, <3>2, <3>3 DEF TimesTried, PeriodsAssumed, RecOK, GreyTyped
    <3> QED
      BY <1>2, <1>11, <3>1, <3>2, <3>4
  <2>2. CASE j # s
    BY <1>2, <1>9, <1>11, <1>14, <2>2 DEF TimesTried, List!OnceWaited, List!Asked, GreyTyped, MailOK
  <2> QED
    BY <2>1, <2>2
<1> QED
  BY <1>10, <1>12, <1>13, <1>14 DEF TimesInv, TimesTried, List!OnceWaited, List!Asked

LEMMA WroteTimes ==
    ASSUME PeriodsAssumed, TimesInv, NEW s \in Mails, List!GreyCreated(s) \/ List!GreyAgain(s) PROVE TimesInv'
<1> DEFINE t == List!Asked(s)
<1>1. GreyTyped /\ TimesTried /\ t \in Tuples /\ RecOK(grey[t]) /\ mail[s].stamp \in Int
  BY DEF TimesInv, GreyTyped, MailOK, List!GreyCreated, List!GreyAgain, List!Asked
<1>2. PICK m : Turns(s, m) /\ DOMAIN m = MailFields /\ m.at = "" /\ m.stamp \in Int
  BY <1>1, LetTurns DEF List!GreyCreated, List!GreyAgain
<1>3. DOMAIN mail' = Mails /\ \A j \in Mails : mail'[j] = IF j = s THEN m ELSE mail[j]
  BY <1>1, <1>2, Others
<1>4. UNCHANGED <<white, clock, tried, missed>>
  BY DEF List!GreyCreated, List!GreyAgain
<1>5. ASSUME NEW r, RecOK(r), grey' = [grey EXCEPT ![t] = r],
             r.created # List!Never => r.created \in tried[t] \/ r.created + Grey < clock
      PROVE  TimesInv'
  <2> HIDE DEF t
  <2>1. DOMAIN grey' = Tuples /\ \A u \in Tuples : grey'[u] = IF u = t THEN r ELSE grey[u]
    BY <1>1, <1>5 DEF GreyTyped
  <2>2. GreyTyped'
    <3>1. MailOK(m, clock)
      BY <1>2 DEF MailOK
    <3>2. \A j \in Mails : MailOK(mail'[j], clock)
      BY <1>1, <1>3, <3>1 DEF GreyTyped
    <3>3. \A u \in Tuples : RecOK(grey'[u])
      BY <1>1, <1>5, <2>1 DEF GreyTyped
    <3> QED
      BY <1>1, <1>3, <1>4, <2>1, <3>2, <3>3 DEF GreyTyped
  <2>3. TimesTried'
    BY <1>1, <1>2, <1>3, <1>4, <1>5, <2>1 DEF TimesTried, List!OnceWaited, List!Asked
  <2> QED
    BY <2>2, <2>3 DEF TimesInv
<1>6. CASE List!GreyCreated(s)
  <2> DEFINE until == clock + Grey
             r == [there |-> TRUE, created |-> mail[s].stamp, updated |-> mail[s].stamp, until |-> until]
  <2>1. until \in Int
    BY <1>1 DEF GreyTyped, PeriodsAssumed
  <2>2. grey' = [grey EXCEPT ![t] = r] /\ mail[s].at = "create"
    BY <1>6 DEF List!GreyCreated
  <2> HIDE DEF until
  <2>3. RecOK(r)
    BY <1>1, <2>1 DEF RecOK, RecFields
  <2>4. r.created \in tried[t]
    BY <1>1, <2>2 DEF TimesTried
  <2> QED
    BY <1>5, <2>2, <2>3, <2>4
<1>7. CASE List!GreyAgain(s)
  <2> DEFINE r == [grey[t] EXCEPT !.there = TRUE, !.updated = mail[s].stamp]
  <2>1. grey' = [grey EXCEPT ![t] = r]
    BY <1>7 DEF List!GreyAgain
  <2>2. RecOK(r) /\ r.created = grey[t].created
    BY <1>1 DEF RecOK, RecFields
  <2>3. r.created # List!Never => r.created \in tried[t] \/ r.created + Grey < clock
    BY <1>1, <2>2 DEF TimesTried
  <2> QED
    BY <1>5, <2>1, <2>2, <2>3
<1> QED
  BY <1>6, <1>7

LEMMA OneLater == \A n \in Int : n =< n + 1 /\ n + 1 =< n + 1
OBVIOUS

LEMMA MailLater ==
    ASSUME NEW m, NEW now \in Int, MailOK(m, now), m.at # "" => m.stamp = now
    PROVE  MailOK(m, now + 1)
<1>1. now =< now + 1 /\ now + 1 =< now + 1
  BY OneLater, Zenon
<1>2. m.at # "" => m.stamp =< now + 1 /\ now + 1 =< m.stamp + 1
  BY <1>1, Zenon
<1> QED
  BY <1>2 DEF MailOK

LEMMA TickTimes == ASSUME PeriodsAssumed, TimesInv, List!Tick PROVE TimesInv'
<1>1. GreyTyped /\ TimesTried /\ clock \in Int
  BY DEF TimesInv, GreyTyped
<1>2. /\ clock' = clock + 1 /\ UNCHANGED <<grey, white, mail, missed>>
      /\ \A s \in Mails : mail[s].at # "" => mail[s].stamp = clock
  BY DEF List!Tick
<1>3. DOMAIN tried' = Tuples /\ \A t \in Tuples : \A a \in tried[t] : a + Grey >= clock => a \in tried'[t]
  BY Zenon DEF List!Tick
<1>4. GreyTyped'
  <2>1. ASSUME NEW s \in Mails PROVE MailOK(mail[s], clock')
    <3>1. MailOK(mail[s], clock) /\ (mail[s].at # "" => mail[s].stamp = clock)
      BY <1>1, <1>2 DEF GreyTyped
    <3>2. clock \in Int /\ clock' = clock + 1
      BY <1>1, <1>2
    <3> QED
      BY <3>1, <3>2, MailLater
  <2>2. clock' \in Int
    <3>1. clock \in Int
      BY <1>1
    <3>2. clock' = clock + 1
      BY <1>2
    <3> QED
      BY <3>1, <3>2
  <2>3. \A s \in Mails : MailOK(mail'[s], clock')
    BY <1>2, <2>1
  <2>4. \A t \in Tuples : RecOK(grey'[t])
    BY <1>1, <1>2 DEF GreyTyped
  <2>5. RecOK(white') /\ DOMAIN mail' = Mails /\ DOMAIN grey' = Tuples /\ missed' \in BOOLEAN
    BY <1>1, <1>2 DEF GreyTyped
  <2> QED
    BY <1>3, <2>2, <2>3, <2>4, <2>5 DEF GreyTyped
<1>5. ASSUME NEW t \in Tuples, grey[t].created # List!Never
      PROVE  grey[t].created \in tried'[t] \/ grey[t].created + Grey < clock'
  <2> DEFINE c == grey[t].created
  <2>1. c \in Int /\ (c \in tried[t] \/ c + Grey < clock)
    BY <1>1, <1>5 DEF TimesTried, GreyTyped, RecOK
  <2> HIDE DEF c
  <2>2. c + Grey >= clock \/ c + Grey < clock + 1
    BY <1>1, <2>1 DEF PeriodsAssumed
  <2>3. c + Grey < clock => c + Grey < clock + 1
    BY <1>1, <2>1 DEF PeriodsAssumed
  <2>4. c \in tried'[t] \/ c + Grey < clock'
    BY <1>2, <1>3, <2>1, <2>2, <2>3
  <2> QED
    BY <2>4 DEF c
<1>6. ASSUME NEW s \in Mails, mail[s].at = "create" PROVE mail[s].stamp \in tried'[List!Asked(s)]
  <2>1. mail[s].stamp \in tried[List!Asked(s)] /\ mail[s].stamp = clock
    BY <1>1, <1>2, <1>6 DEF TimesTried
  <2>2. List!Asked(s) \in Tuples
    BY <1>1, <1>6 DEF GreyTyped, MailOK, List!Asked
  <2>3. clock + Grey >= clock
    BY <1>1 DEF PeriodsAssumed
  <2> QED
    BY <1>3, <2>1, <2>2, <2>3
<1>7. ASSUME NEW s \in Mails, mail[s].at = "promote"
      PROVE  \E a \in tried'[List!Asked(s)] : a + Black < mail[s].stamp /\ a + Grey >= mail[s].stamp
  <2>1. PICK a \in tried[List!Asked(s)] : a + Black < mail[s].stamp /\ a + Grey >= mail[s].stamp
    BY <1>1, <1>7 DEF TimesTried, List!OnceWaited
  <2>2. mail[s].stamp = clock /\ List!Asked(s) \in Tuples
    BY <1>1, <1>2, <1>7 DEF GreyTyped, MailOK, List!Asked
  <2> QED
    BY <1>3, <2>1, <2>2
<1> QED
  BY <1>2, <1>4, <1>5, <1>6, <1>7 DEF TimesInv, TimesTried, List!OnceWaited, List!Asked

\* The steps of the hooks: a transaction stays where it is, or asks for the
\* record of the host.
Stays(s) == \E m : /\ Turns(s, m) /\ DOMAIN m = MailFields
                   /\ m.at = mail[s].at /\ m.read = mail[s].read /\ m.stamp = mail[s].stamp

LEMMA HookMailStays == ASSUME GreyTyped, NEW s \in Mails, List!HookMail(s) PROVE Stays(s)
<1>1. PICK listed \in List!InList, why \in List!SkipRules :
        mail' = [mail EXCEPT ![s].on = TRUE, ![s].skip = listed \/ why]
  BY DEF List!HookMail
<1> DEFINE skip == listed \/ why
           m == [mail[s] EXCEPT !.on = TRUE, !.skip = skip]
<1>2. DOMAIN mail[s] = MailFields
  BY DEF GreyTyped, MailOK
<1>3. Turns(s, m)
  BY <1>1 DEF Turns
<1> HIDE DEF skip
<1>4. DOMAIN m = MailFields /\ m.at = mail[s].at /\ m.stamp = mail[s].stamp /\ m.read = mail[s].read
  BY <1>2 DEF MailFields
<1> HIDE DEF m
<1> QED
  BY <1>3, <1>4 DEF Stays

LEMMA MailEndsStays == ASSUME GreyTyped, NEW s \in Mails, List!MailEnds(s) PROVE Stays(s)
<1> DEFINE m == [mail[s] EXCEPT !.on = FALSE, !.skip = FALSE, !.pass = FALSE, !.rcpt = {}]
<1>1. DOMAIN mail[s] = MailFields
  BY DEF GreyTyped, MailOK
<1>2. DOMAIN m = MailFields /\ m.at = mail[s].at /\ m.stamp = mail[s].stamp /\ m.read = mail[s].read
  BY <1>1 DEF MailFields
<1>3. Turns(s, m)
  BY DEF List!MailEnds, Turns
<1> HIDE DEF m
<1> QED
  BY <1>2, <1>3 DEF Stays

LEMMA HookRcptOkStays ==
    ASSUME GreyTyped, NEW s \in Mails, NEW t \in Tuples, List!HookRcptOk(s, t)
    PROVE  Stays(s) \/ Reaches(s, "white?", [tuple |-> t])
<1> DEFINE rcpt == mail[s].rcpt \cup {t}
           rec  == [tuple |-> t]
           seen == [mail[s] EXCEPT !.rcpt = rcpt]
           skip == [mail[s] EXCEPT !.rcpt = rcpt, !.skip = TRUE]
           asks == [mail[s] EXCEPT !.rcpt = rcpt, !.at = "white?", !.read = rec, !.stamp = clock]
<1>1. DOMAIN mail[s] = MailFields
  BY DEF GreyTyped, MailOK
<1>2. Turns(s, seen) \/ Turns(s, skip) \/ Turns(s, asks)
  BY DEF List!HookRcptOk, Turns
<1> HIDE DEF rcpt, rec
<1>3. DOMAIN seen = MailFields /\ seen.at = mail[s].at /\ seen.stamp = mail[s].stamp /\ seen.read = mail[s].read
  BY <1>1 DEF MailFields
<1>4. DOMAIN skip = MailFields /\ skip.at = mail[s].at /\ skip.stamp = mail[s].stamp /\ skip.read = mail[s].read
  BY <1>1 DEF MailFields
<1>5. DOMAIN asks = MailFields /\ asks.at = "white?" /\ asks.stamp = clock /\ asks.read = rec
  BY <1>1 DEF MailFields
<1> HIDE DEF seen, skip, asks
<1>6. CASE Turns(s, seen) \/ Turns(s, skip)
  BY <1>3, <1>4, <1>6 DEF Stays
<1>7. CASE Turns(s, asks)
  BY <1>5, <1>7 DEF Reaches, rec
<1> QED
  BY <1>2, <1>6, <1>7

LEMMA StaysTimes ==
    ASSUME TimesInv, NEW s \in Mails, Stays(s), UNCHANGED <<clock, grey, tried, white, missed>>
    PROVE  TimesInv'
<1>1. PICK m : /\ Turns(s, m) /\ DOMAIN m = MailFields
               /\ m.at = mail[s].at /\ m.read = mail[s].read /\ m.stamp = mail[s].stamp
  BY DEF Stays
<1>2. GreyTyped /\ TimesTried
  BY DEF TimesInv
<1>3. DOMAIN mail' = Mails /\ \A j \in Mails : mail'[j] = IF j = s THEN m ELSE mail[j]
  BY <1>1, <1>2, Others
<1>4. GreyTyped'
  BY <1>1, <1>2, <1>3 DEF GreyTyped, MailOK
<1>5. TimesTried'
  BY <1>1, <1>2, <1>3 DEF TimesTried, List!OnceWaited, List!Asked
<1> QED
  BY <1>4, <1>5 DEF TimesInv

\* A record is dropped.
LEMMA ExpiresTimes ==
    ASSUME TimesInv, UNCHANGED <<clock, mail, tried, missed>>, RecOK(white'),
           grey' = grey \/ \E t \in Tuples : grey' = [grey EXCEPT ![t] = List!NoRecord]
    PROVE  TimesInv'
<1>1. GreyTyped /\ TimesTried
  BY DEF TimesInv
<1>2. DOMAIN grey' = Tuples /\ \A t \in Tuples : grey'[t] \in {grey[t], List!NoRecord}
  BY <1>1 DEF GreyTyped
<1>3. List!NoRecord.created = List!Never
  BY DEF List!NoRecord
<1>4. GreyTyped'
  BY <1>1, <1>2, RecNone DEF GreyTyped
<1>5. TimesTried'
  BY <1>1, <1>2, <1>3 DEF TimesTried, List!OnceWaited, List!Asked
<1> QED
  BY <1>4, <1>5 DEF TimesInv

------------------------------------------------------------------------------
\* The record of the host: what a step writes to it is a record.
LEMMA WhiteWritten ==
    ASSUME PeriodsAssumed, GreyTyped, NEW s \in Mails, List!WhiteTouched(s) \/ List!Promoted(s) \/ List!ExpireSet(s)
    PROVE  RecOK(white')
<1> DEFINE until == clock + White
           touched  == [white EXCEPT !.there = TRUE, !.updated = mail[s].stamp, !.until = until]
           promoted == [white EXCEPT !.there = TRUE, !.created = mail[s].read.created, !.updated = mail[s].stamp]
           later    == [white EXCEPT !.until = until]
           never    == [white EXCEPT !.until = List!Never]
<1>1. RecOK(white) /\ mail[s].stamp \in Int /\ (mail[s].at = "promote" => mail[s].read.created \in Int)
  BY DEF GreyTyped, MailOK
<1>2. until \in Int /\ List!Never \in Int
  BY DEF PeriodsAssumed, GreyTyped, List!Never
<1>3. \/ white' = touched
      \/ mail[s].at = "promote" /\ white' = promoted
      \/ white.there /\ white' = later
      \/ ~white.there /\ white' = never
  <2>1. List!WhiteTouched(s) => white' = touched
    BY Zenon DEF List!WhiteTouched
  <2>2. List!Promoted(s) => mail[s].at = "promote" /\ white' = promoted
    BY Zenon DEF List!Promoted
  <2>3. List!ExpireSet(s) => white' = [white EXCEPT !.until = IF white.there THEN until ELSE List!Never]
    BY Zenon DEF List!ExpireSet
  <2> HIDE DEF until, touched, promoted
  <2>4. List!ExpireSet(s) /\ white.there => white' = later
    BY <2>3
  <2>5. List!ExpireSet(s) /\ ~white.there => white' = never
    BY <2>3
  <2> HIDE DEF later, never
  <2> QED
    BY <2>1, <2>2, <2>4, <2>5
<1> HIDE DEF until
<1>4. RecOK(touched)
  BY <1>1, <1>2 DEF RecOK, RecFields
<1>5. mail[s].at = "promote" => RecOK(promoted)
  BY <1>1 DEF RecOK, RecFields
<1>6. white.there => RecOK(later)
  BY <1>1, <1>2 DEF RecOK, RecFields
<1>7. ~white.there => RecOK(never)
  BY <1>1, <1>2 DEF RecOK, RecFields
<1> QED
  BY <1>3, <1>4, <1>5, <1>6, <1>7

LEMMA PromotedReaches ==
    ASSUME GreyTyped, NEW s \in Mails, List!Promoted(s) PROVE Reaches(s, "expire", mail[s].read)
<1> DEFINE m == [mail[s] EXCEPT !.at = "expire", !.stamp = clock]
<1>1. DOMAIN mail[s] = MailFields
  BY DEF GreyTyped, MailOK
<1>2. DOMAIN m = MailFields /\ m.at = "expire" /\ m.read = mail[s].read /\ m.stamp = clock
  BY <1>1 DEF MailFields
<1>3. Turns(s, m)
  BY DEF List!Promoted, Turns
<1> HIDE DEF m
<1> QED
  BY <1>2, <1>3 DEF Reaches

LEMMA LetIdles == ASSUME GreyTyped, NEW s \in Mails, NEW pass, List!Let(s, pass) PROVE Idles(s)
BY LetTurns DEF Idles

LEMMA ToReaches == ASSUME GreyTyped, NEW s \in Mails, NEW at, NEW rec, List!To(s, at, rec) PROVE Reaches(s, at, rec)
BY ToTurns DEF Reaches

LEMMA StoreTimes == ASSUME PeriodsAssumed, TimesInv, NEW s \in Mails, List!Store(s) PROVE TimesInv'
<1>1. GreyTyped /\ RecOK(white) /\ missed \in BOOLEAN
  BY DEF TimesInv, GreyTyped
<1>2. mail[s].at # "" => mail[s].read.tuple \in Tuples
  BY <1>1 DEF GreyTyped, MailOK
<1>10. CASE List!Throws /\ (List!WhiteRead(s) \/ List!GreyRead(s))
  <2>1. UNCHANGED <<clock, grey, white>> /\ DOMAIN tried = Tuples
    BY <1>1, <1>10 DEF List!WhiteRead, List!GreyRead, GreyTyped
  <2>2. tried' = tried \/ tried' = [tried EXCEPT ![List!Asked(s)] = @ \cup {clock}]
    BY <1>10 DEF List!WhiteRead, List!GreyRead
  <2>3. DOMAIN tried' = Tuples /\ \A t \in Tuples : tried[t] \subseteq tried'[t]
    BY <2>1, <2>2
  <2> QED
    BY <1>10, <2>1, <2>3, ThrowsTimes
<1>3. CASE List!WhiteRead(s) /\ ~List!Throws
  <2>1. UNCHANGED <<clock, grey, tried, white>> /\ mail[s].at = "white?"
    BY <1>3 DEF List!WhiteRead
  <2>2. \/ List!Let(s, FALSE) /\ UNCHANGED missed
        \/ List!To(s, "touch", mail[s].read) /\ UNCHANGED missed
        \/ List!To(s, "grey?", mail[s].read) /\ missed' = (missed \/ white.there)
    BY <1>3 DEF List!WhiteRead
  <2>3. missed' \in BOOLEAN /\ RecOK(white')
    BY <1>1, <2>1, <2>2 DEF RecOK
  <2>4. Idles(s) \/ Reaches(s, "touch", mail[s].read) \/ Reaches(s, "grey?", mail[s].read)
    BY <1>1, <2>2, LetIdles, ToReaches
  <2> QED
    BY <1>2, <2>1, <2>3, <2>4, IdlesTimes, ReachesTimes
<1>4. CASE List!WhiteTouched(s) \/ List!Promoted(s) \/ List!ExpireSet(s)
  <2>1. RecOK(white') /\ missed' \in BOOLEAN
    BY <1>1, <1>4, WhiteWritten DEF List!WhiteTouched, List!Promoted, List!ExpireSet
  <2>2. UNCHANGED <<clock, grey, tried>>
    BY <1>4 DEF List!WhiteTouched, List!Promoted, List!ExpireSet
  <2>3. CASE List!WhiteTouched(s) \/ List!ExpireSet(s)
    <3>1. Idles(s)
      BY <1>1, <2>3, LetIdles DEF List!WhiteTouched, List!ExpireSet
    <3> QED
      BY <2>1, <2>2, <3>1, IdlesTimes
  <2>4. CASE List!Promoted(s)
    <3>1. Reaches(s, "expire", mail[s].read) /\ mail[s].read.tuple \in Tuples
      BY <1>1, <1>2, <2>4, PromotedReaches DEF List!Promoted
    <3> QED
      BY <2>1, <2>2, <3>1, ReachesTimes
  <2> QED
    BY <1>4, <2>3, <2>4
<1> QED
  BY <1>3, <1>4, <1>10, ReadTimes, WroteTimes DEF List!Store

LEMMA TimesBegin == List!GreyInit => TimesInv
<1> SUFFICES ASSUME List!GreyInit PROVE TimesInv
  OBVIOUS
<1>1. DOMAIN grey = Tuples /\ (\A t \in Tuples : grey[t] = List!NoRecord) /\ white = List!NoRecord /\ DOMAIN tried = Tuples
      /\ clock = 0 /\ missed = FALSE
  BY DEF List!GreyInit
<1> DEFINE m == List!NoMail
<1>2. DOMAIN mail = Mails /\ \A s \in Mails : mail[s] = m
  BY DEF List!GreyInit
<1>3. DOMAIN m = MailFields /\ m.at = "" /\ m.stamp \in Int
  BY DEF MailFields, List!NoMail
<1> HIDE DEF m
<1>4. MailOK(m, clock)
  BY <1>3 DEF MailOK
<1>5. GreyTyped
  <2>1. clock \in Int
    <3>1. clock = 0
      BY <1>1
    <3>2. 0 \in Int
      OBVIOUS
    <3> QED
      BY <3>1, <3>2, Zenon
  <2>2. \A s \in Mails : MailOK(mail[s], clock)
    BY <1>2, <1>4
  <2>3. RecOK(white) /\ \A t \in Tuples : RecOK(grey[t])
    BY <1>1, RecNone
  <2>4. missed \in BOOLEAN
    BY DEF List!GreyInit
  <2> QED
    BY <1>1, <1>2, <2>1, <2>2, <2>3, <2>4, Zenon DEF GreyTyped
<1>6. List!NoRecord.created = List!Never
  BY DEF List!NoRecord
<1>7. TimesTried
  BY <1>1, <1>2, <1>3, <1>6 DEF TimesTried, List!OnceWaited
<1> QED
  BY <1>5, <1>7 DEF TimesInv

GreyMoves == (\E s \in Mails : List!HookMail(s)) \/ List!GreyNext

LEMMA TimesStep == ASSUME PeriodsAssumed, TimesInv, [GreyMoves]_greyVars PROVE TimesInv'
<1>1. GreyTyped /\ RecOK(white)
  BY DEF TimesInv, GreyTyped
<1>2. ASSUME NEW s \in Mails, List!HookMail(s) \/ List!MailEnds(s) PROVE TimesInv'
  <2>1. Stays(s)
    BY <1>1, <1>2, HookMailStays, MailEndsStays
  <2>2. UNCHANGED <<clock, grey, tried, white, missed>>
    BY <1>2 DEF List!HookMail, List!MailEnds
  <2> QED
    BY <2>1, <2>2, StaysTimes
<1>3. ASSUME NEW s \in Mails, NEW t \in Tuples, List!HookRcptOk(s, t) PROVE TimesInv'
  <2>1. UNCHANGED <<clock, grey, tried, white, missed>>
    BY <1>3 DEF List!HookRcptOk
  <2>2. CASE Stays(s)
    BY <2>1, <2>2, StaysTimes
  <2>3. CASE Reaches(s, "white?", [tuple |-> t])
    <3>1. [tuple |-> t].tuple \in Tuples
      OBVIOUS
    <3>2. RecOK(white') /\ missed' \in BOOLEAN
      BY <1>1, <2>1 DEF GreyTyped
    <3> QED
      BY <2>1, <2>3, <3>1, <3>2, ReachesTimes
  <2> QED
    BY <1>1, <1>3, <2>2, <2>3, HookRcptOkStays
<1>4. ASSUME NEW t \in Tuples, List!Expires(t) PROVE TimesInv'
  BY <1>1, <1>4, ExpiresTimes DEF List!Expires
<1>5. CASE List!WhiteExpires
  BY <1>5, RecNone, ExpiresTimes DEF List!WhiteExpires
<1>6. CASE UNCHANGED greyVars
  BY <1>1, <1>6, ExpiresTimes DEF greyVars
<1>7. CASE List!WriteFails
  <2>1. List!Throws /\ UNCHANGED <<clock, grey, white, tried>> /\ DOMAIN tried = Tuples
    BY <1>1, <1>7 DEF List!WriteFails, GreyTyped
  <2> QED
    BY <2>1, ThrowsTimes
<1> QED
  BY <1>2, <1>3, <1>4, <1>5, <1>6, <1>7, StoreTimes, TickTimes DEF GreyMoves, List!GreyNext

\* For any periods, hosts are promoted only after the black period and within
\* the grey one (greylist.js, process_tuple()).
THEOREM PromotedOnceWaited == PeriodsAssumed => (List!GreySpec => []List!OnceWaited)
<1> SUFFICES ASSUME PeriodsAssumed PROVE List!GreySpec => []List!OnceWaited
  OBVIOUS
<1>1. TimesInv => List!OnceWaited
  BY DEF TimesInv, TimesTried
<1>2. TimesInv /\ [(\E s \in Mails : List!HookMail(s)) \/ List!GreyNext]_List!greyVars => TimesInv'
  BY TimesStep DEF GreyMoves, greyVars, List!greyVars
<1> QED
  BY <1>1, <1>2, TimesBegin, PTL DEF List!GreySpec

------------------------------------------------------------------------------
\* WhiteWhole: the record of a host that is white outlasts what the
\* transactions under way may still do with it.
WhiteAssumed == White >= 4

Lasts(w, least) == w.until = List!Never \/ w.until >= least
Promoting == \E e \in Mails : mail[e].at = "expire"

LastsFor(w, m, promoting) ==
    /\ m.at = "touch" => w.there /\ (Lasts(w, m.stamp + 2) \/ promoting)
    /\ w.there => /\ m.at = "grey?"   => Lasts(w, m.stamp + White)
                  /\ m.at = "promote" => Lasts(w, m.stamp + White - 1)
                  /\ m.at = "expire"  => Lasts(w, m.stamp + White - 2)
LastsOn(w, promoting, now) ==
    w.there => w.created # List!Never /\ w.updated =< now /\ (Lasts(w, w.updated + White) \/ promoting)

Lasting  == LastsOn(white, Promoting, clock) /\ \A s \in Mails : LastsFor(white, mail[s], Promoting)
WhiteInv == TimesInv /\ (~missed => Lasting)

LEMMA StillPromoting ==
    ASSUME GreyTyped, NEW s \in Mails, NEW m, Turns(s, m), mail[s].at = "expire" => m.at = "expire"
    PROVE  Promoting => Promoting'
<1>1. DOMAIN mail' = Mails /\ \A j \in Mails : mail'[j] = IF j = s THEN m ELSE mail[j]
  BY Others
<1> QED
  BY <1>1 DEF Promoting

\* A transaction goes on, and the record is what it was.
LEMMA SameWhite ==
    ASSUME GreyTyped, Lasting, NEW s \in Mails, NEW m, Turns(s, m), mail[s].at = "expire" => m.at = "expire",
           LastsFor(white, m, Promoting), UNCHANGED <<white, clock>>
    PROVE  Lasting'
<1>1. DOMAIN mail' = Mails /\ \A j \in Mails : mail'[j] = IF j = s THEN m ELSE mail[j]
  BY Others
<1>2. Promoting => Promoting'
  BY StillPromoting
<1>3. \A j \in Mails : LastsFor(white, mail'[j], Promoting)
  BY <1>1 DEF Lasting
<1>4. \A j \in Mails : LastsFor(white, mail'[j], Promoting')
  BY <1>2, <1>3 DEF LastsFor
<1>5. LastsOn(white, Promoting', clock)
  BY <1>2 DEF Lasting, LastsOn
<1> QED
  BY <1>4, <1>5 DEF Lasting

\* A record that has just been given its time lasts for all.
LEMMA LongEnough ==
    ASSUME White \in Int, WhiteAssumed, NEW now \in Int, NEW w, w.there, w.until = now + White, NEW stamp \in Int, stamp =< now
    PROVE  /\ Lasts(w, stamp + 2) /\ Lasts(w, stamp + White)
           /\ Lasts(w, stamp + White - 1) /\ Lasts(w, stamp + White - 2)
<1> DEFINE until == w.until
<1>1. until = now + White
  OBVIOUS
<1> HIDE DEF until
<1>2. /\ until >= stamp + 2 /\ until >= stamp + White
      /\ until >= stamp + White - 1 /\ until >= stamp + White - 2
  BY <1>1 DEF WhiteAssumed
<1> QED
  BY <1>2, Zenon DEF Lasts, until

LEMMA LongLasting ==
    ASSUME PeriodsAssumed, WhiteAssumed, GreyTyped', NEW w, w = white', w.there, w.created # List!Never,
           w.until = clock' + White, w.updated \in Int, w.updated =< clock'
    PROVE  Lasting'
<1>1. clock' \in Int /\ White \in Int
  BY DEF GreyTyped, PeriodsAssumed
<1>2. Lasts(w, w.updated + White)
  BY <1>1, LongEnough
<1>3. LastsOn(w, Promoting', clock')
  BY <1>2 DEF LastsOn
<1>4. ASSUME NEW s \in Mails PROVE LastsFor(w, mail'[s], Promoting')
  <2> DEFINE m == mail'[s]
  <2>1. m.stamp \in Int /\ (m.at # "" => m.stamp =< clock')
    BY DEF GreyTyped, MailOK
  <2> HIDE DEF m
  <2>2. m.at # "" => /\ Lasts(w, m.stamp + 2) /\ Lasts(w, m.stamp + White)
                     /\ Lasts(w, m.stamp + White - 1) /\ Lasts(w, m.stamp + White - 2)
    BY <1>1, <2>1, LongEnough
  <2>3. LastsFor(w, m, Promoting')
    BY <2>2 DEF LastsFor
  <2> QED
    BY <2>3 DEF m
<1> QED
  BY <1>3, <1>4 DEF Lasting

\* Nothing that is left to do needs the record.
LEMMA Careless ==
    \A m, w, p : m.at \notin {"touch", "grey?", "promote", "expire"} => LastsFor(w, m, p)
BY DEF LastsFor

\* A step that leaves the record, and no new use of it begins.
LEMMA IdlesLasting ==
    ASSUME GreyTyped, Lasting, NEW s \in Mails, Idles(s) \/ Stays(s), mail[s].at = "expire" => Stays(s),
           UNCHANGED <<white, clock>>
    PROVE  Lasting'
<1>1. CASE Stays(s)
  <2>1. PICK m : /\ Turns(s, m) /\ DOMAIN m = MailFields
                 /\ m.at = mail[s].at /\ m.read = mail[s].read /\ m.stamp = mail[s].stamp
    BY <1>1 DEF Stays
  <2>2. LastsFor(white, mail[s], Promoting)
    BY DEF Lasting
  <2>3. LastsFor(white, m, Promoting)
    BY <2>1, <2>2 DEF LastsFor
  <2> QED
    BY <2>1, <2>3, SameWhite
<1>2. CASE Idles(s) /\ mail[s].at # "expire"
  <2>1. PICK m : Turns(s, m) /\ DOMAIN m = MailFields /\ m.at = "" /\ m.stamp \in Int
    BY <1>2 DEF Idles
  <2>2. LastsFor(white, m, Promoting)
    BY <2>1, Careless
  <2> QED
    BY <1>2, <2>1, <2>2, SameWhite
<1> QED
  BY <1>1, <1>2

LEMMA ReachesLasting ==
    ASSUME GreyTyped, Lasting, NEW s \in Mails, NEW at, NEW rec, Reaches(s, at, rec), mail[s].at # "expire",
           \A m : m.at = at /\ m.stamp = clock => LastsFor(white, m, Promoting), UNCHANGED <<white, clock>>
    PROVE  Lasting'
<1>1. PICK m : Turns(s, m) /\ DOMAIN m = MailFields /\ m.at = at /\ m.read = rec /\ m.stamp = clock
  BY DEF Reaches
<1> QED
  BY <1>1, SameWhite

\* No promotion is cut short that the record would have its time from.
LEMMA ThrowsLasting ==
    ASSUME WhiteInv, List!Throws, ~missed', UNCHANGED <<white, clock>> PROVE Lasting'
<1>1. Lasting /\ ~Promoting
  BY DEF WhiteInv, List!Throws, Promoting
<1>2. \A s \in Mails : mail'[s].at = ""
  BY ThrowsMails
<1>3. LastsOn(white, FALSE, clock)
  BY <1>1 DEF Lasting, LastsOn
<1>4. LastsOn(white, Promoting', clock)
  BY <1>3 DEF LastsOn
<1>5. \A s \in Mails : LastsFor(white, mail'[s], Promoting')
  BY <1>2, Careless
<1> QED
  BY <1>4, <1>5 DEF Lasting

LEMMA WhiteReadLasting ==
    ASSUME PeriodsAssumed, WhiteInv, NEW s \in Mails, List!WhiteRead(s), ~missed' PROVE Lasting'
<1>1. GreyTyped /\ UNCHANGED <<white, clock>> /\ mail[s].at = "white?"
  BY DEF WhiteInv, TimesInv, List!WhiteRead
<1>2. Lasting
  BY DEF WhiteInv, List!WhiteRead, List!Throws
<1>3. CASE List!Let(s, FALSE)
  BY <1>1, <1>2, <1>3, LetIdles, IdlesLasting
<1>4. CASE white.there /\ white.updated + White - 2 >= clock /\ List!To(s, "touch", mail[s].read)
  <2>1. Reaches(s, "touch", mail[s].read)
    BY <1>1, <1>4, ToReaches
  <2>2. Lasts(white, white.updated + White) \/ Promoting
    BY <1>2, <1>4 DEF Lasting, LastsOn
  <2>3. Lasts(white, clock + 2) \/ Promoting
    <3>1. CASE Promoting
      BY <3>1
    <3>2. CASE Lasts(white, white.updated + White)
      <4> DEFINE until == white.until
                 updated == white.updated
      <4>1. until \in Int /\ updated \in Int /\ clock \in Int /\ White \in Int
        BY <1>1 DEF GreyTyped, RecOK, PeriodsAssumed
      <4>2. updated + White - 2 >= clock /\ (until = List!Never \/ until >= updated + White)
        BY <1>4, <3>2 DEF Lasts
      <4> HIDE DEF until, updated
      <4>3. until = List!Never \/ until >= clock + 2
        BY <4>1, <4>2
      <4> QED
        BY <4>3 DEF Lasts, until
    <3> QED
      BY <2>2, <3>1, <3>2
  <2>4. ASSUME NEW m, m.at = "touch", m.stamp = clock PROVE LastsFor(white, m, Promoting)
    BY <1>4, <2>3, <2>4 DEF LastsFor
  <2> QED
    BY <1>1, <1>2, <2>1, <2>4, ReachesLasting
<1>5. CASE List!To(s, "grey?", mail[s].read) /\ missed' = (missed \/ white.there)
  <2>1. Reaches(s, "grey?", mail[s].read)
    BY <1>1, <1>5, ToReaches
  <2>2. ~white.there
    BY <1>5
  <2>3. ASSUME NEW m, m.at = "grey?", m.stamp = clock PROVE LastsFor(white, m, Promoting)
    BY <2>2, <2>3 DEF LastsFor
  <2> QED
    BY <1>1, <1>2, <2>1, <2>3, ReachesLasting
<1>6. CASE List!Throws
  BY <1>1, <1>6, ThrowsLasting
<1> QED
  BY <1>3, <1>4, <1>5, <1>6 DEF List!WhiteRead

LEMMA GreyReadLasting ==
    ASSUME PeriodsAssumed, WhiteInv, NEW s \in Mails, List!GreyRead(s), ~missed, ~List!Throws PROVE Lasting'
<1>1. GreyTyped /\ UNCHANGED <<white, clock>> /\ mail[s].at = "grey?" /\ Lasting
  BY DEF WhiteInv, TimesInv, List!GreyRead
<1>2. PICK at, rec : at \in {"promote", "again", "create"} /\ List!To(s, at, rec)
  <2> DEFINE t == List!Asked(s)
  <2>1. PICK r \in {grey[t], List!NoRecord} :
          List!To(s, IF List!Waited(r) THEN "promote" ELSE IF r.there THEN "again" ELSE "create", List!Rec(r, t))
    BY DEF List!GreyRead
  <2> DEFINE next == IF List!Waited(r) THEN "promote" ELSE IF r.there THEN "again" ELSE "create"
  <2>2. next \in {"promote", "again", "create"}
    OBVIOUS
  <2>3. List!To(s, next, List!Rec(r, t))
    BY <2>1
  <2> HIDE DEF next, t
  <2> QED
    BY <2>2, <2>3
<1>3. Reaches(s, at, rec)
  BY <1>1, <1>2, ToReaches
<1>4. white.there => Lasts(white, clock + White - 1)
  <2> DEFINE until == white.until
             stamp == mail[s].stamp
  <2>1. until \in Int /\ stamp \in Int /\ clock \in Int /\ White \in Int /\ clock =< stamp + 1
    BY <1>1 DEF GreyTyped, RecOK, MailOK, PeriodsAssumed
  <2>2. LastsFor(white, mail[s], Promoting)
    BY <1>1 DEF Lasting
  <2>3. white.there => until = List!Never \/ until >= stamp + White
    BY <1>1, <2>2 DEF LastsFor, Lasts
  <2> HIDE DEF until, stamp
  <2>4. white.there => until = List!Never \/ until >= clock + White - 1
    BY <2>1, <2>3
  <2> QED
    BY <2>4 DEF Lasts, until
<1>5. ASSUME NEW m, m.at = at, m.stamp = clock PROVE LastsFor(white, m, Promoting)
  BY <1>2, <1>4, <1>5 DEF LastsFor
<1> QED
  BY <1>1, <1>3, <1>5, ReachesLasting

\* The record gets its time, if it is still there.
LEMMA TimedLasting ==
    ASSUME PeriodsAssumed, WhiteAssumed, WhiteInv, TimesInv', NEW s \in Mails, List!WhiteTouched(s) \/ List!ExpireSet(s),
           ~missed
    PROVE  Lasting'
<1>1. GreyTyped /\ GreyTyped' /\ Lasting /\ clock' = clock /\ RecOK(white)
  BY DEF WhiteInv, TimesInv, GreyTyped, List!WhiteTouched, List!ExpireSet
<1>2. mail[s].stamp \in Int /\ (mail[s].at # "" => mail[s].stamp =< clock) /\ LastsFor(white, mail[s], Promoting)
  BY <1>1 DEF GreyTyped, MailOK, Lasting
<1> DEFINE until == clock + White
<1>3. CASE List!WhiteTouched(s)
  <2> DEFINE stamp == mail[s].stamp
             w == [white EXCEPT !.there = TRUE, !.updated = stamp, !.until = until]
  <2>1. white' = w /\ mail[s].at = "touch"
    BY <1>3 DEF List!WhiteTouched
  <2>2. white.there /\ white.created # List!Never /\ stamp \in Int /\ stamp =< clock
    BY <1>1, <1>2, <2>1 DEF LastsFor, Lasting, LastsOn
  <2> HIDE DEF until, stamp
  <2>3. w.there = TRUE /\ w.created = white.created /\ w.until = until /\ w.updated = stamp
    BY <1>1 DEF RecOK, RecFields
  <2> HIDE DEF w
  <2>4. w.until = clock' + White /\ w.updated =< clock'
    BY <1>1, <2>2, <2>3 DEF until
  <2> QED
    BY <1>1, <2>1, <2>2, <2>3, <2>4, LongLasting
<1>4. CASE List!ExpireSet(s) /\ white.there
  <2> DEFINE w == [white EXCEPT !.until = until]
  <2>1. white' = [white EXCEPT !.until = IF white.there THEN until ELSE List!Never]
    BY <1>4, Zenon DEF List!ExpireSet
  <2> HIDE DEF until
  <2>2. white' = w
    BY <1>4, <2>1
  <2>3. w.there = TRUE /\ w.created = white.created /\ w.until = until /\ w.updated = white.updated
    BY <1>1, <1>4 DEF RecOK, RecFields
  <2> HIDE DEF w
  <2>4. white.created # List!Never /\ white.updated =< clock /\ white.updated \in Int
    BY <1>1, <1>4 DEF Lasting, LastsOn, RecOK
  <2>5. w.until = clock' + White /\ w.updated =< clock'
    BY <1>1, <2>3, <2>4 DEF until
  <2> QED
    BY <1>1, <2>2, <2>3, <2>4, <2>5, LongLasting
<1>5. CASE List!ExpireSet(s) /\ ~white.there
  <2> DEFINE w == [white EXCEPT !.until = List!Never]
  <2>1. white' = [white EXCEPT !.until = IF white.there THEN until ELSE List!Never]
    BY <1>5, Zenon DEF List!ExpireSet
  <2> HIDE DEF until
  <2>2. white' = w
    BY <1>5, <2>1
  <2>3. ~w.there
    BY <1>1, <1>5 DEF RecOK, RecFields
  <2> HIDE DEF w
  <2>4. PICK m : Turns(s, m) /\ DOMAIN m = MailFields /\ m.at = "" /\ m.stamp \in Int
    BY <1>1, <1>5, LetTurns DEF List!ExpireSet
  <2>5. \A j \in Mails : mail'[j] = IF j = s THEN m ELSE mail[j]
    BY <1>1, <2>4, Others
  <2>6. \A j \in Mails : mail[j].at # "touch"
    BY <1>1, <1>5 DEF Lasting, LastsFor
  <2>7. \A j \in Mails : LastsFor(w, mail'[j], Promoting')
    BY <2>3, <2>4, <2>5, <2>6 DEF LastsFor
  <2>8. LastsOn(w, Promoting', clock')
    BY <2>3 DEF LastsOn
  <2> QED
    BY <2>2, <2>7, <2>8 DEF Lasting
<1> QED
  BY <1>3, <1>4, <1>5

LEMMA PromotedLasting ==
    ASSUME PeriodsAssumed, WhiteInv, NEW s \in Mails, List!Promoted(s), ~missed PROVE Lasting'
<1>1. GreyTyped /\ Lasting /\ clock' = clock /\ RecOK(white) /\ mail[s].at = "promote"
  BY DEF WhiteInv, TimesInv, GreyTyped, List!Promoted
<1>2. MailOK(mail[s], clock) /\ LastsFor(white, mail[s], Promoting)
  BY <1>1 DEF GreyTyped, Lasting
<1> DEFINE created == mail[s].read.created
           stamp == mail[s].stamp
           w == [white EXCEPT !.there = TRUE, !.created = created, !.updated = stamp]
<1>3. created # List!Never /\ stamp \in Int /\ stamp =< clock /\ clock =< stamp + 1
  BY <1>1, <1>2 DEF MailOK
<1>4. white' = w
  BY Zenon DEF List!Promoted
<1>5. PICK m : Turns(s, m) /\ DOMAIN m = MailFields /\ m.at = "expire" /\ m.read = mail[s].read /\ m.stamp = clock
  BY <1>1, PromotedReaches DEF Reaches
<1>6. DOMAIN mail' = Mails /\ \A j \in Mails : mail'[j] = IF j = s THEN m ELSE mail[j]
  BY <1>1, <1>5, Others
<1>7. Promoting' = TRUE
  BY <1>5, <1>6 DEF Promoting
<1> HIDE DEF created
<1>8. w.there = TRUE /\ w.created = created /\ w.updated = stamp /\ w.until = white.until
  <2> HIDE DEF stamp
  <2> QED
    BY <1>1 DEF RecOK, RecFields
<1> HIDE DEF w
<1>9. \A x : white.there /\ Lasts(white, x) => Lasts(w, x)
  BY <1>8 DEF Lasts
<1>10. ~white.there => \A x : Lasts(w, x)
  BY <1>1, <1>8 DEF Lasts, RecOK
<1>11. LastsOn(w, Promoting', clock')
  BY <1>1, <1>3, <1>7, <1>8 DEF LastsOn
<1>12. ASSUME NEW j \in Mails PROVE LastsFor(w, mail'[j], Promoting')
  <2>1. CASE j = s
    <3>1. white.there => Lasts(white, stamp + White - 1)
      BY <1>1, <1>2 DEF LastsFor
    <3>2. white.there => Lasts(white, clock + White - 2)
      <4> DEFINE until == white.until
      <4>1. until \in Int /\ clock \in Int /\ White \in Int
        BY <1>1 DEF GreyTyped, RecOK, PeriodsAssumed
      <4>2. white.there => until = List!Never \/ until >= stamp + White - 1
        BY <3>1 DEF Lasts
      <4> HIDE DEF until, stamp
      <4>3. white.there => until = List!Never \/ until >= clock + White - 2
        BY <1>3, <4>1, <4>2
      <4> QED
        BY <4>3 DEF Lasts, until
    <3>3. Lasts(w, clock + White - 2)
      BY <1>9, <1>10, <3>2
    <3>4. LastsFor(w, m, Promoting')
      BY <1>5, <3>3 DEF LastsFor
    <3> QED
      BY <1>6, <2>1, <3>4
  <2>2. CASE j # s
    <3>1. LastsFor(white, mail[j], Promoting)
      BY <1>1 DEF Lasting
    <3>2. LastsFor(w, mail[j], Promoting')
      BY <1>7, <1>8, <1>9, <1>10, <3>1 DEF LastsFor
    <3> QED
      BY <1>6, <2>2, <3>2
  <2> QED
    BY <2>1, <2>2
<1> QED
  BY <1>4, <1>11, <1>12 DEF Lasting

\* The record is not dropped while something is left to do with it.
LEMMA ExpiresLasting ==
    ASSUME PeriodsAssumed, WhiteAssumed, WhiteInv, List!WhiteExpires, ~missed PROVE Lasting'
<1>1. GreyTyped /\ Lasting /\ white.there /\ white.until # List!Never /\ white.until =< clock
      /\ white' = List!NoRecord /\ UNCHANGED <<mail, clock>>
  BY DEF WhiteInv, TimesInv, List!WhiteExpires, List!Ends
<1>2. white.until \in Int /\ clock \in Int /\ White \in Int /\ White >= 4
  BY <1>1 DEF GreyTyped, RecOK, PeriodsAssumed, WhiteAssumed
<1> DEFINE until == white.until
<1>3. ASSUME NEW e \in Mails, mail[e].at = "expire" PROVE FALSE
  <2> DEFINE stamp == mail[e].stamp
  <2>1. stamp \in Int /\ clock =< stamp + 1
    BY <1>1, <1>3 DEF GreyTyped, MailOK
  <2>2. until >= stamp + White - 2
    BY <1>1, <1>3 DEF Lasting, LastsFor, Lasts
  <2>3. until \in Int /\ until =< clock
    BY <1>1, <1>2
  <2> HIDE DEF stamp, until
  <2> QED
    BY <1>2, <2>1, <2>2, <2>3
<1>4. ASSUME NEW e \in Mails, mail[e].at = "touch" PROVE FALSE
  <2> DEFINE stamp == mail[e].stamp
  <2>1. stamp \in Int /\ clock =< stamp + 1
    BY <1>1, <1>4 DEF GreyTyped, MailOK
  <2>2. until >= stamp + 2
    BY <1>1, <1>3, <1>4 DEF Lasting, LastsFor, Lasts, Promoting
  <2>3. until \in Int /\ until =< clock
    BY <1>1, <1>2
  <2> HIDE DEF stamp, until
  <2> QED
    BY <1>2, <2>1, <2>2, <2>3
<1>5. ~List!NoRecord.there
  BY DEF List!NoRecord
<1>6. LastsOn(List!NoRecord, Promoting', clock')
  BY <1>5 DEF LastsOn
<1>7. \A j \in Mails : LastsFor(List!NoRecord, mail'[j], Promoting')
  BY <1>1, <1>4, <1>5 DEF LastsFor
<1> QED
  BY <1>1, <1>6, <1>7 DEF Lasting

LEMMA TickLasting == ASSUME WhiteInv, List!Tick, ~missed PROVE Lasting'
<1>1. GreyTyped /\ Lasting /\ clock' = clock + 1 /\ UNCHANGED <<white, mail>>
  BY DEF WhiteInv, TimesInv, List!Tick
<1>2. Promoting' = Promoting
  BY <1>1 DEF Promoting
<1>3. white.there => white.updated =< clock'
  <2> DEFINE updated == white.updated
  <2>1. updated \in Int /\ clock \in Int /\ clock' = clock + 1
    BY <1>1 DEF GreyTyped, RecOK
  <2>2. white.there => updated =< clock
    BY <1>1 DEF Lasting, LastsOn
  <2> HIDE DEF updated
  <2>3. white.there => updated =< clock'
    BY <2>1, <2>2
  <2> QED
    BY <2>3 DEF updated
<1>4. LastsOn(white, Promoting, clock')
  BY <1>1, <1>3 DEF Lasting, LastsOn
<1>5. \A j \in Mails : LastsFor(white, mail[j], Promoting)
  BY <1>1 DEF Lasting
<1>6. LastsOn(white', Promoting', clock') /\ \A j \in Mails : LastsFor(white', mail'[j], Promoting')
  BY <1>1, <1>2, <1>4, <1>5
<1> QED
  BY <1>6 DEF Lasting

LEMMA WhiteBegins == List!GreyInit => WhiteInv
<1> SUFFICES ASSUME List!GreyInit PROVE WhiteInv
  OBVIOUS
<1>1. white = List!NoRecord /\ \A s \in Mails : mail[s].at = ""
  BY DEF List!GreyInit, List!NoMail
<1>2. ~white.there
  BY <1>1 DEF List!NoRecord
<1>3. Lasting
  BY <1>1, <1>2 DEF Lasting, LastsOn, LastsFor
<1> QED
  BY <1>3, TimesBegin DEF WhiteInv

\* What the transactions do to no record of the host.
LEMMA AsideLasting ==
    ASSUME WhiteInv, NEW s \in Mails, ~missed,
           \/ List!HookMail(s) \/ List!MailEnds(s) \/ List!GreyCreated(s) \/ List!GreyAgain(s)
           \/ \E t \in Tuples : List!HookRcptOk(s, t)
    PROVE  Lasting'
<1>1. GreyTyped /\ Lasting
  BY DEF WhiteInv, TimesInv
<1>2. UNCHANGED <<white, clock>>
  BY DEF List!HookMail, List!MailEnds, List!GreyCreated, List!GreyAgain, List!HookRcptOk
<1>3. CASE List!HookMail(s) \/ List!MailEnds(s)
  BY <1>1, <1>2, <1>3, HookMailStays, MailEndsStays, IdlesLasting
<1>4. CASE List!GreyCreated(s) \/ List!GreyAgain(s)
  <2>1. Idles(s)
    BY <1>1, <1>4, LetIdles DEF List!GreyCreated, List!GreyAgain
  <2>2. mail[s].at # "expire"
    BY <1>4 DEF List!GreyCreated, List!GreyAgain
  <2> QED
    BY <1>1, <1>2, <2>1, <2>2, IdlesLasting
<1>5. ASSUME NEW t \in Tuples, List!HookRcptOk(s, t) PROVE Lasting'
  <2>1. mail[s].at = ""
    BY <1>5 DEF List!HookRcptOk
  <2>2. \A m : m.at = "white?" /\ m.stamp = clock => LastsFor(white, m, Promoting)
    BY Careless
  <2>3. CASE Stays(s)
    BY <1>1, <1>2, <2>3, IdlesLasting
  <2>4. CASE Reaches(s, "white?", [tuple |-> t])
    BY <1>1, <1>2, <2>1, <2>2, <2>4, ReachesLasting
  <2> QED
    BY <1>1, <1>5, <2>3, <2>4, HookRcptOkStays
<1> QED
  BY <1>3, <1>4, <1>5

LEMMA WhiteStep ==
    ASSUME PeriodsAssumed, WhiteAssumed, WhiteInv, [GreyMoves]_greyVars PROVE WhiteInv'
<1>1. TimesInv'
  BY TimesStep DEF WhiteInv
<1> SUFFICES ASSUME ~missed' PROVE Lasting'
  BY <1>1 DEF WhiteInv
<1>2. ~missed
  BY ZenonT(60) DEF GreyMoves, List!GreyNext, List!Store, List!HookMail, List!MailEnds, List!HookRcptOk, List!WhiteRead,
         List!WhiteTouched, List!GreyRead, List!GreyCreated, List!GreyAgain, List!Promoted, List!ExpireSet,
         List!Expires, List!WhiteExpires, List!Tick, List!WriteFails, List!Throws, greyVars
<1>3. CASE UNCHANGED <<white, mail, clock>>
  <2>1. Lasting
    BY <1>2 DEF WhiteInv
  <2> QED
    BY <1>3, <2>1 DEF Lasting, LastsOn, LastsFor, Promoting
<1>4. CASE \/ UNCHANGED greyVars
           \/ \E t \in Tuples : List!Expires(t)
  BY <1>3, <1>4 DEF greyVars, List!Expires
<1>5. ASSUME NEW s \in Mails, List!Store(s) PROVE Lasting'
  <2>1. CASE List!GreyRead(s) /\ List!Throws
    BY <2>1, ThrowsLasting DEF List!GreyRead
  <2> QED
    BY <1>1, <1>2, <1>5, <2>1, WhiteReadLasting, TimedLasting, GreyReadLasting, AsideLasting, PromotedLasting DEF List!Store
<1>6. CASE List!WriteFails
  BY <1>6, ThrowsLasting DEF List!WriteFails
<1> QED
  BY <1>2, <1>4, <1>5, <1>6, AsideLasting, ExpiresLasting, TickLasting DEF GreyMoves, List!GreyNext

\* A record that is touched is one a promotion wrote, for any transactions, if
\* white hosts stay white for four seconds or more (greylist.js:280).
THEOREM WhiteHostsWhole == PeriodsAssumed /\ WhiteAssumed => (List!GreySpec => []List!WhiteWhole)
<1> SUFFICES ASSUME PeriodsAssumed, WhiteAssumed PROVE List!GreySpec => []List!WhiteWhole
  OBVIOUS
<1>1. WhiteInv => List!WhiteWhole
  BY DEF WhiteInv, Lasting, LastsOn, List!WhiteWhole
<1>2. WhiteInv /\ [(\E s \in Mails : List!HookMail(s)) \/ List!GreyNext]_List!greyVars => WhiteInv'
  BY WhiteStep DEF GreyMoves, greyVars, List!greyVars
<1> QED
  BY <1>1, <1>2, WhiteBegins, PTL DEF List!GreySpec

------------------------------------------------------------------------------
\* Whatever the order in which backends, stores and name servers answer, time
\* out or fail, what the hooks of AUTH, greylisting, reverse names, URI lists and
\* DNS lists say has its reason, and they say it once.
THEOREM VerdictsAreTrue ==
    BackendsAssumed /\ PeriodsAssumed /\ WhiteAssumed
    => (AuthSpec /\ List!GreySpec /\ NamesSpec /\ LinksSpec /\ BlockSpec => []VerdictsTrue)
<1> SUFFICES ASSUME BackendsAssumed, PeriodsAssumed, WhiteAssumed
             PROVE  AuthSpec /\ List!GreySpec /\ NamesSpec /\ LinksSpec /\ BlockSpec => []VerdictsTrue
  OBVIOUS
<1>1. AuthInv /\ [Auth!Capabilities \/ Auth!AuthNext]_authVars => AuthInv'
  BY AuthStep
<1>2. NamesInv /\ [Names!Loads \/ Names!Reloads \/ Names!FcrdnsNext]_namesVars => NamesInv'
  BY NamesStep
<1>3. LinksInv /\ [Links!Reads \/ Links!UriblNext]_linksVars => LinksInv'
  BY LinksStep
<1>4. BlockInv /\ [Block!Register \/ Block!ListNext]_blockVars => BlockInv'
  BY BlockStep
<1>5. AuthInv /\ List!OnceWaited /\ List!WhiteWhole /\ NamesInv /\ LinksInv /\ BlockInv => VerdictsTrue
  BY NamesTrue, LinksTrue, BlockTrue DEF AuthInv, VerdictsTrue
<1>6. List!GreySpec => []List!OnceWaited /\ []List!WhiteWhole
  BY PromotedOnceWaited, WhiteHostsWhole, PTL
<1> QED
  BY <1>1, <1>2, <1>3, <1>4, <1>5, <1>6, AuthBegins, NamesBegin, LinksBegin, BlockBegins, PTL
     DEF AuthSpec, NamesSpec, LinksSpec, BlockSpec
=============================================================================
