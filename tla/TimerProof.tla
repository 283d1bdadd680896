----------------------------- MODULE TimerProof -----------------------------
(***************************************************************************)
(* Theorems about the timer list of src/timer.c for any number of timers   *)
(* and threads, any width of the tick counter and any times below half its *)
(* range: the list stays in order across the wrap-around, a timer that     *)
(* rt_timer_stop has stopped is in it no more, and the timers keep the     *)
(* promise of AlarmClock.                                                  *)
(***************************************************************************)
EXTENDS Timer, SequenceTheorems, WellFoundedInduction, TLAPS

(***************************************************************************)
(* The inductive invariant.                                                *)
(***************************************************************************)

(* The ticks that lie between now and the tick e, negative when e is past. *)
LeftTo(e) == LET d == Ahead(e, tick) IN IF d < Half THEN d ELSE d - TickMod

(* No listed timer is overdue by more than its starter was held up, nor    *)
(* further ahead than half the counter's range less that delay: any two    *)
(* can be compared.  With interrupts enabled none is due.                  *)
Soonest == IF irq = "off" THEN 1 - MaxDelay ELSE -MaxDelay

LeftBounded ==
  \A t \in Range(list) : Left(t) \in Soonest .. Half - MaxDelay - 1

(* A thread held up before it inserts its timer has lost its delay of the  *)
(* timer's time.                                                           *)
HeldUp(u) == pc[u] = "insert" => Left(arg[u]) = init[arg[u]] - delay[u]

StartingOK == \A u \in User : HeldUp(u)

(* A thread works alone on its timer, which exists and, once taken out of  *)
(* the list, is not put back nor served by anybody else.                   *)
Working(u) ==
  /\ pc[u] = "run" <=> arg[u] = NoTimer
  /\ arg[u] # NoTimer => exists[arg[u]] /\ \A v \in User : arg[v] = arg[u] => u = v
  /\ pc[u] \in {"start", "insert", "clear"} =>
       arg[u] \notin Range(list) /\ (irq = "callback" => arg[u] # serving)

WorkOK == \A u \in User : Working(u)

ExistOK ==
  /\ \A t \in Range(list) : exists[t]
  /\ irq = "callback" => serving \in Timer /\ exists[serving]
  /\ irq # "callback" => serving = NoTimer

TimerInv == TimerSound /\ LeftBounded /\ StartingOK /\ WorkOK /\ ExistOK

(***************************************************************************)
(* Ticks.                                                                  *)
(***************************************************************************)

(* What the assumptions say when there is a timer at all. *)
LEMMA TimesFit ==
  /\ TickMod \in Nat \ {0} /\ MaxDelay \in Nat /\ Half \in Nat /\ 2 * Half <= TickMod - 1
  /\ \A n \in Times : n \in Nat \ {0} /\ n + MaxDelay < Half
BY TimerAssumption DEF Half, RT_TICK_MAX

LEMMA ModSmall ==
  ASSUME NEW a \in (-TickMod) .. 2 * TickMod - 1
  PROVE  a % TickMod = IF a < 0 THEN a + TickMod ELSE IF a < TickMod THEN a ELSE a - TickMod
<1>0. TickMod \in Nat \ {0}
  BY TimesFit
<1>1. CASE a < 0
  <2>1. a \in (-TickMod) .. -1
    BY <1>0, <1>1
  <2> QED BY <1>0, <1>1, <2>1
<1>2. CASE a \in 0 .. TickMod - 1
  BY <1>0, <1>2
<1>3. CASE a \in TickMod .. 2 * TickMod - 1
  BY <1>0, <1>3
<1> QED BY <1>0, <1>1, <1>2, <1>3

LEMMA TickWraps ==
  \A a \in 0 .. 2 * TickMod - 1 :
    a % TickMod = IF a < TickMod THEN a ELSE a - TickMod
<1> SUFFICES ASSUME NEW a \in 0 .. 2 * TickMod - 1
             PROVE  a % TickMod = IF a < TickMod THEN a ELSE a - TickMod
  OBVIOUS
<1>1. TickMod \in Nat \ {0} /\ a \in (-TickMod) .. 2 * TickMod - 1 /\ ~(a < 0)
  BY TimesFit
<1> QED BY <1>1, ModSmall

(* Ticks ahead are counted from the nearer side. *)
LEMMA AheadValue ==
  ASSUME NEW x \in 0 .. RT_TICK_MAX, NEW y \in 0 .. RT_TICK_MAX
  PROVE  Ahead(x, y) = IF x >= y THEN x - y ELSE x - y + TickMod
<1>1. TickMod \in Nat \ {0} /\ x \in Int /\ y \in Int /\ x - y \in (-TickMod) .. 2 * TickMod - 1
      /\ x - y < TickMod
  BY TimesFit DEF RT_TICK_MAX
<1> QED BY <1>1, ModSmall DEF Ahead

LEMMA LeftToInt ==
  ASSUME TimerTypeOK, NEW e \in 0 .. RT_TICK_MAX
  PROVE  /\ LeftTo(e) \in Int /\ LeftTo(e) < Half
         /\ LeftTo(e) = e - tick \/ LeftTo(e) = e - tick - TickMod \/ LeftTo(e) = e - tick + TickMod
         /\ LeftTo(e) >= Half - TickMod
<1>1. /\ TickMod \in Nat \ {0} /\ tick \in 0 .. TickMod - 1 /\ Half \in Nat
      /\ 2 * Half <= TickMod - 1 /\ e \in 0 .. TickMod - 1
  BY TimesFit DEF TimerTypeOK, RT_TICK_MAX
<1>2. Ahead(e, tick) = IF e >= tick THEN e - tick ELSE e - tick + TickMod
  BY AheadValue DEF TimerTypeOK
<1> QED BY <1>1, <1>2 DEF LeftTo

(* A timer started now for n ticks has n ticks left. *)
LEMMA LeftNow ==
  ASSUME TimerTypeOK, NEW n \in 0 .. Half - 1
  PROVE  /\ (tick + n) % TickMod \in 0 .. RT_TICK_MAX
         /\ LeftTo((tick + n) % TickMod) = n
<1>1. /\ TickMod \in Nat \ {0} /\ tick \in 0 .. TickMod - 1 /\ Half \in Nat
      /\ 2 * Half <= TickMod - 1 /\ n \in Nat /\ n < Half
  BY TimesFit DEF TimerTypeOK, RT_TICK_MAX
<1>2. tick + n \in 0 .. 2 * TickMod - 1
  BY <1>1
<1> DEFINE e == (tick + n) % TickMod
<1>3. e = IF tick + n < TickMod THEN tick + n ELSE tick + n - TickMod
  BY <1>1, <1>2, TickWraps
<1>4. e \in 0 .. RT_TICK_MAX /\ tick \in 0 .. RT_TICK_MAX
  BY <1>1, <1>3 DEF RT_TICK_MAX
<1> HIDE DEF e
<1>5. Ahead(e, tick) = IF e >= tick THEN e - tick ELSE e - tick + TickMod
  BY <1>4, AheadValue
<1>6. LeftTo(e) = n
  BY <1>1, <1>3, <1>5 DEF LeftTo
<1> QED BY <1>4, <1>6 DEF e

(* A tick takes one from the ticks left, as long as there is room. *)
LEMMA LeftTick ==
  ASSUME TimerTypeOK, NEW e \in 0 .. RT_TICK_MAX, LeftTo(e) > Half - TickMod,
         tick' = (tick + 1) % TickMod
  PROVE  LeftTo(e)' = LeftTo(e) - 1 /\ tick' \in 0 .. RT_TICK_MAX
<1>1. /\ TickMod \in Nat \ {0} /\ tick \in 0 .. TickMod - 1 /\ Half \in Nat
      /\ 2 * Half <= TickMod - 1 /\ e \in 0 .. TickMod - 1
  BY TimesFit DEF TimerTypeOK, RT_TICK_MAX
<1>2. tick + 1 \in 0 .. 2 * TickMod - 1
  BY <1>1
<1>3. tick' = IF tick + 1 < TickMod THEN tick + 1 ELSE tick + 1 - TickMod
  BY <1>1, <1>2, TickWraps
<1>4. tick' \in 0 .. RT_TICK_MAX
  BY <1>1, <1>3 DEF RT_TICK_MAX
<1>5. Ahead(e, tick) = IF e >= tick THEN e - tick ELSE e - tick + TickMod
  BY AheadValue DEF TimerTypeOK
<1>6. Ahead(e, tick') = IF e >= tick' THEN e - tick' ELSE e - tick' + TickMod
  BY <1>4, AheadValue
<1>7. LeftTo(e)' = IF Ahead(e, tick') < Half THEN Ahead(e, tick') ELSE Ahead(e, tick') - TickMod
  BY DEF LeftTo, Ahead
<1> QED BY <1>1, <1>3, <1>4, <1>5, <1>6, <1>7 DEF LeftTo

(* rt_timer_start finds the timers that expire later, and rt_timer_check   *)
(* those that have expired, as long as all are near enough.                *)
LEMMA Compared ==
  ASSUME TimerTypeOK, NEW d \in 0 .. RT_TICK_MAX, NEW e \in 0 .. RT_TICK_MAX,
         LeftTo(d) - LeftTo(e) < Half, LeftTo(e) - LeftTo(d) < Half
  PROVE  (Ahead(d, e) # 0 /\ Ahead(d, e) < Half) <=> LeftTo(d) > LeftTo(e)
<1>1. /\ TickMod \in Nat \ {0} /\ tick \in 0 .. TickMod - 1 /\ Half \in Nat
      /\ 2 * Half <= TickMod - 1 /\ e \in 0 .. TickMod - 1 /\ d \in 0 .. TickMod - 1
  BY TimesFit DEF TimerTypeOK, RT_TICK_MAX
<1>2. Ahead(d, e) = IF d >= e THEN d - e ELSE d - e + TickMod
  BY AheadValue
<1>3. Ahead(d, tick) = IF d >= tick THEN d - tick ELSE d - tick + TickMod
  BY AheadValue DEF TimerTypeOK
<1>4. Ahead(e, tick) = IF e >= tick THEN e - tick ELSE e - tick + TickMod
  BY AheadValue DEF TimerTypeOK
<1> QED BY <1>1, <1>2, <1>3, <1>4 DEF LeftTo

LEMMA ExpiredNow ==
  ASSUME TimerTypeOK, NEW t \in Timer, Left(t) > -Half
  PROVE  Expired(t) <=> Left(t) <= 0
<1>1. /\ TickMod \in Nat \ {0} /\ tick \in 0 .. TickMod - 1 /\ Half \in Nat
      /\ 2 * Half <= TickMod - 1 /\ expiry[t] \in 0 .. TickMod - 1
  BY TimesFit DEF TimerTypeOK, RT_TICK_MAX
<1>2. /\ Ahead(expiry[t], tick) =
           IF expiry[t] >= tick THEN expiry[t] - tick ELSE expiry[t] - tick + TickMod
      /\ Ahead(tick, expiry[t]) =
           IF tick >= expiry[t] THEN tick - expiry[t] ELSE tick - expiry[t] + TickMod
  BY AheadValue DEF TimerTypeOK
<1> QED BY <1>1, <1>2 DEF Left, Expired

(***************************************************************************)
(* The list.                                                               *)
(***************************************************************************)

(* RemoveAt leaves the other elements in their order. *)
LEMMA RemoveAtIndex ==
  ASSUME NEW S, NEW q \in Seq(S), NEW i \in 1 .. Len(q)
  PROVE  /\ RemoveAt(q, i) \in Seq(S)
         /\ Len(RemoveAt(q, i)) = Len(q) - 1
         /\ \A j \in 1 .. Len(q) - 1 :
              RemoveAt(q, i)[j] = IF j < i THEN q[j] ELSE q[j + 1]
<1> DEFINE a == SubSeq(q, 1, i - 1)  b == SubSeq(q, i + 1, Len(q))
<1>1. Len(q) \in Nat /\ i \in Nat \ {0}
  OBVIOUS
<1>2. \A j \in 1 .. Len(q) : q[j] \in S
  BY ElementOfSeq
<1>3. /\ a \in Seq(S) /\ Len(a) = i - 1
      /\ \A j \in 1 .. i - 1 : a[j] = q[j]
  BY <1>1, <1>2, SubSeqProperties
<1>4. /\ b \in Seq(S) /\ Len(b) = Len(q) - i
      /\ \A j \in 1 .. Len(q) - i : b[j] = q[i + j]
  BY <1>1, <1>2, SubSeqProperties
<1>r. RemoveAt(q, i) = a \o b
  BY DEF RemoveAt
<1> HIDE DEF a, b
<1>5. /\ a \o b \in Seq(S)
      /\ Len(a \o b) = Len(a) + Len(b)
      /\ \A j \in 1 .. Len(a) + Len(b) :
           (a \o b)[j] = IF j <= Len(a) THEN a[j] ELSE b[j - Len(a)]
  BY <1>3, <1>4, ConcatProperties
<1>6. ASSUME NEW j \in 1 .. Len(q) - 1
      PROVE  (a \o b)[j] = IF j < i THEN q[j] ELSE q[j + 1]
  <2>1. CASE j < i
    BY <1>1, <1>3, <1>4, <1>5, <2>1
  <2>2. CASE ~(j < i)
    <3>1. j - (i - 1) \in 1 .. Len(q) - i /\ i + (j - (i - 1)) = j + 1
      BY <1>1, <2>2
    <3>2. (a \o b)[j] = b[j - (i - 1)]
      BY <1>1, <1>3, <1>4, <1>5, <2>2
    <3> QED BY <1>4, <2>2, <3>1, <3>2
  <2> QED BY <2>1, <2>2
<1> QED BY <1>r, <1>1, <1>3, <1>4, <1>5, <1>6

(* InsertAt shifts the elements from its place on by one. *)
LEMMA InsertAtIndex ==
  ASSUME NEW S, NEW q \in Seq(S), NEW e \in S, NEW i \in 1 .. Len(q)
  PROVE  /\ InsertAt(q, i, e) \in Seq(S)
         /\ Len(InsertAt(q, i, e)) = Len(q) + 1
         /\ \A j \in 1 .. Len(q) + 1 :
              InsertAt(q, i, e)[j] = IF j < i THEN q[j] ELSE IF j = i THEN e ELSE q[j - 1]
<1> DEFINE a == SubSeq(q, 1, i - 1)  b == SubSeq(q, i, Len(q))  m == a \o <<e>>
<1>1. Len(q) \in Nat /\ i \in Nat \ {0} /\ i <= Len(q)
  OBVIOUS
<1>2. \A j \in 1 .. Len(q) : q[j] \in S
  BY ElementOfSeq
<1>3. /\ a \in Seq(S) /\ Len(a) = i - 1
      /\ \A j \in 1 .. i - 1 : a[j] = q[j]
  BY <1>1, <1>2, SubSeqProperties
<1>4. /\ b \in Seq(S) /\ Len(b) = Len(q) - i + 1
      /\ \A j \in 1 .. Len(q) - i + 1 : b[j] = q[i + j - 1]
  BY <1>1, <1>2, SubSeqProperties
<1>r. InsertAt(q, i, e) = m \o b
  BY DEF InsertAt
<1> HIDE DEF a, b
<1>e. <<e>> \in Seq(S) /\ Len(<<e>>) = 1 /\ <<e>>[1] = e
  OBVIOUS
<1>5. /\ m \in Seq(S) /\ Len(m) = i
      /\ \A j \in 1 .. i : m[j] = IF j < i THEN q[j] ELSE e
  <2>1. /\ m \in Seq(S) /\ Len(m) = Len(a) + 1
        /\ \A j \in 1 .. Len(a) + 1 : m[j] = IF j <= Len(a) THEN a[j] ELSE <<e>>[j - Len(a)]
    BY <1>3, <1>e, ConcatProperties
  <2>2. ASSUME NEW j \in 1 .. i PROVE m[j] = IF j < i THEN q[j] ELSE e
    <3>1. CASE j < i
      BY <1>1, <1>3, <2>1, <3>1
    <3>2. CASE ~(j < i)
      <4>1. j = i /\ j - Len(a) = 1 /\ ~(j <= Len(a)) /\ j \in 1 .. Len(a) + 1
        BY <1>1, <1>3, <3>2
      <4> QED BY <1>e, <2>1, <3>2, <4>1
    <3> QED BY <3>1, <3>2
  <2> QED BY <1>1, <1>3, <2>1, <2>2
<1> HIDE DEF m
<1>6. /\ m \o b \in Seq(S) /\ Len(m \o b) = Len(m) + Len(b)
      /\ \A j \in 1 .. Len(m) + Len(b) : (m \o b)[j] = IF j <= Len(m) THEN m[j] ELSE b[j - Len(m)]
  BY <1>4, <1>5, ConcatProperties
<1>7. ASSUME NEW j \in 1 .. Len(q) + 1
      PROVE  (m \o b)[j] = IF j < i THEN q[j] ELSE IF j = i THEN e ELSE q[j - 1]
  <2>1. CASE j <= i
    BY <1>1, <1>4, <1>5, <1>6, <2>1
  <2>2. CASE ~(j <= i)
    <3>1. j - i \in 1 .. Len(q) - i + 1 /\ i + (j - i) - 1 = j - 1
      BY <1>1, <2>2
    <3>2. (m \o b)[j] = b[j - i]
      BY <1>1, <1>4, <1>5, <1>6, <2>2
    <3> QED BY SMTT(60), <1>4, <2>2, <3>1, <3>2
  <2> QED BY <2>1, <2>2
<1> QED BY <1>r, <1>1, <1>4, <1>5, <1>6, <1>7

(* A list with a timer on it is not empty and has a first timer. *)
LEMMA HeadRange ==
  ASSUME NEW S, NEW q \in Seq(S)
  PROVE  /\ q = <<>> <=> Range(q) = {}
         /\ q # <<>> => Head(q) \in Range(q) /\ Head(q) \in S
         /\ Range(q) \subseteq S
<1>1. DOMAIN q = 1 .. Len(q) /\ Len(q) \in Nat /\ \A i \in 1 .. Len(q) : q[i] \in S
  BY LenProperties
<1>2. CASE q = <<>>
  <2>1. Len(q) = 0
    BY <1>2, EmptySeq
  <2> QED BY <1>1, <1>2, <2>1 DEF Range
<1>3. CASE q # <<>>
  <2>1. Len(q) \in Nat \ {0}
    BY <1>3, EmptySeq
  <2>2. 1 \in 1 .. Len(q)
    BY <2>1
  <2>3. Head(q) = q[1]
    BY <1>3
  <2> QED BY <1>1, <1>3, <2>2, <2>3 DEF Range
<1> QED BY <1>2, <1>3

(* A set of positions with a member has a least one. *)
LEMMA MinProperties ==
  ASSUME NEW S, S \subseteq Nat, S # {}
  PROVE  Min(S) \in S /\ \A x \in S : Min(S) <= x
<1>1. IsWellFoundedOn(OpToRel(<, Nat), Nat)
  BY NatLessThanWellFounded
<1>2. PICK x \in S : \A y \in S : ~(<<y, x>> \in OpToRel(<, Nat))
  BY <1>1, WFMin
<1>3. \A y \in S : ~(y < x)
  BY <1>2 DEF OpToRel
<1>4. \A y \in S : x <= y
  BY <1>3
<1> QED BY <1>2, <1>4 DEF Min

(* A list is in the order of f and holds everything once. *)
InOrder(q, f) ==
  IsInjective(q) /\ \A i, j \in DOMAIN q : i < j => f[q[i]] <= f[q[j]]

(* A list r made of elements of q whose order is that of their places in q. *)
LEMMA OrderKept ==
  ASSUME NEW S, NEW q \in Seq(S), NEW r \in Seq(S), NEW f, InOrder(q, f),
         NEW old \in [1 .. Len(r) -> 1 .. Len(q)],
         \A j \in 1 .. Len(r) : r[j] = q[old[j]],
         \A i, j \in 1 .. Len(r) : i < j => old[i] < old[j]
  PROVE  InOrder(r, f)
<1>1. DOMAIN q = 1 .. Len(q) /\ DOMAIN r = 1 .. Len(r) /\ Len(r) \in Nat /\ Len(q) \in Nat
  OBVIOUS
<1>2. ASSUME NEW i \in 1 .. Len(r), NEW j \in 1 .. Len(r), i < j
      PROVE  f[r[i]] <= f[r[j]] /\ r[i] # r[j]
  <2>1. old[i] \in 1 .. Len(q) /\ old[j] \in 1 .. Len(q) /\ old[i] < old[j]
    BY <1>2
  <2> QED BY <1>1, <2>1 DEF InOrder, IsInjective
<1>3. ASSUME NEW i \in 1 .. Len(r), NEW j \in 1 .. Len(r), r[i] = r[j]
      PROVE  i = j
  <2>1. ~(i < j) /\ ~(j < i)
    BY <1>2, <1>3
  <2> QED BY <2>1
<1> QED BY <1>1, <1>2, <1>3 DEF InOrder, IsInjective

(* _rt_timer_remove: the other timers stay in the list and in order. *)
LEMMA OffOrdered ==
  ASSUME NEW S, NEW q \in Seq(S), NEW f, InOrder(q, f), NEW t
  PROVE  /\ Off(q, t) \in Seq(S) /\ InOrder(Off(q, t), f)
         /\ Range(Off(q, t)) = Range(q) \ {t}
<1>1. CASE t \notin Range(q)
  BY <1>1 DEF Off
<1>2. CASE t \in Range(q)
  <2> DEFINE k == CHOOSE i \in DOMAIN q : q[i] = t
             r == RemoveAt(q, k)
             old == [j \in 1 .. Len(r) |-> IF j < k THEN j ELSE j + 1]
  <2>1. DOMAIN q = 1 .. Len(q) /\ Len(q) \in Nat
    BY LenProperties
  <2>2. k \in 1 .. Len(q) /\ q[k] = t
    BY <1>2, <2>1 DEF Range
  <2>8. Off(q, t) = r
    BY <1>2 DEF Off
  <2> HIDE DEF k
  <2>3. /\ r \in Seq(S) /\ Len(r) = Len(q) - 1 /\ DOMAIN r = 1 .. Len(q) - 1
        /\ \A j \in 1 .. Len(q) - 1 : r[j] = IF j < k THEN q[j] ELSE q[j + 1]
    BY <2>2, RemoveAtIndex, LenProperties
  <2> HIDE DEF r
  <2>4. /\ old \in [1 .. Len(r) -> 1 .. Len(q)]
        /\ \A j \in 1 .. Len(r) : r[j] = q[old[j]] /\ old[j] # k
        /\ \A i, j \in 1 .. Len(r) : i < j => old[i] < old[j]
    BY <2>1, <2>2, <2>3
  <2> HIDE DEF old
  <2>5. InOrder(r, f)
    BY <2>3, <2>4, OrderKept
  <2>6. \A j \in 1 .. Len(r) : r[j] \in Range(q) \ {t}
    <3> SUFFICES ASSUME NEW j \in 1 .. Len(r) PROVE q[old[j]] \in Range(q) /\ q[old[j]] # t
      BY <2>4
    <3>1. old[j] \in 1 .. Len(q) /\ old[j] # k
      BY <2>4
    <3> QED BY <2>1, <2>2, <3>1 DEF InOrder, IsInjective, Range
  <2>7. ASSUME NEW i \in 1 .. Len(q), i # k PROVE q[i] \in Range(r)
    <3> DEFINE j == IF i < k THEN i ELSE i - 1
    <3>1. j \in 1 .. Len(q) - 1 /\ r[j] = q[i]
      BY <2>1, <2>2, <2>3, <2>7
    <3> QED BY <2>3, <3>1 DEF Range
  <2>9. Range(r) = Range(q) \ {t}
    BY <2>1, <2>2, <2>3, <2>6, <2>7 DEF Range
  <2> QED BY <2>3, <2>5, <2>8, <2>9
<1> QED BY <1>1, <1>2

(* A new element before the first of the places in later, or at the end.   *)
Placed(q, t, later) ==
  IF later = {} THEN Append(q, t) ELSE InsertAt(q, Min(later), t)

(* The first later timer has all earlier ones in front of it, and the new  *)
(* timer goes before it, or to the end when there is none.                 *)
LEMMA PlacedOrdered ==
  ASSUME NEW S, NEW q \in Seq(S), NEW f \in [S -> Int], InOrder(q, f),
         NEW t \in S, t \notin Range(q), NEW later \in SUBSET (DOMAIN q),
         \A i \in DOMAIN q : i \in later <=> f[q[i]] > f[t]
  PROVE  /\ Placed(q, t, later) \in Seq(S) /\ InOrder(Placed(q, t, later), f)
         /\ Range(Placed(q, t, later)) = Range(q) \cup {t}
<1>r. PICK r : r = Placed(q, t, later)
  OBVIOUS
<1>0. PICK k : k = IF later = {} THEN Len(q) + 1 ELSE Min(later)
  OBVIOUS
<1> DEFINE old(j) == IF j < k THEN j ELSE j - 1
<1>1. DOMAIN q = 1 .. Len(q) /\ Len(q) \in Nat /\ \A i \in 1 .. Len(q) : q[i] \in S
  BY LenProperties
<1>e. later = {} => k = Len(q) + 1
  BY <1>0
<1>m. later # {} => /\ k = Min(later) /\ k \in later /\ k \in 1 .. Len(q)
                    /\ \A i \in later : k <= i
  <2> SUFFICES ASSUME later # {} PROVE Min(later) \in later /\ \A i \in later : Min(later) <= i
    BY <1>0, <1>1
  <2> QED BY <1>1, MinProperties
<1>2. k \in 1 .. Len(q) + 1 /\ \A i \in later : k <= i
  BY <1>1, <1>e, <1>m
<1>3. later # {} => k \in later
  BY <1>m
<1>4. /\ r \in Seq(S) /\ Len(r) = Len(q) + 1
      /\ \A j \in 1 .. Len(q) + 1 : r[j] = IF j < k THEN q[j] ELSE IF j = k THEN t ELSE q[j - 1]
  <2>1. CASE later = {}
    BY <1>1, <1>e, <1>r, <2>1, AppendProperties DEF Placed
  <2>2. CASE later # {}
    <3>1. r = InsertAt(q, k, t)
      BY <1>m, <1>r, <2>2 DEF Placed
    <3>2. \A i \in 1 .. Len(q) :
            /\ InsertAt(q, i, t) \in Seq(S) /\ Len(InsertAt(q, i, t)) = Len(q) + 1
            /\ \A j \in 1 .. Len(q) + 1 :
                 InsertAt(q, i, t)[j] = IF j < i THEN q[j] ELSE IF j = i THEN t ELSE q[j - 1]
      BY InsertAtIndex
    <3>3. k \in 1 .. Len(q)
      BY <1>m, <2>2
    <3>4. /\ InsertAt(q, k, t) \in Seq(S) /\ Len(InsertAt(q, k, t)) = Len(q) + 1
          /\ \A j \in 1 .. Len(q) + 1 :
               InsertAt(q, k, t)[j] = IF j < k THEN q[j] ELSE IF j = k THEN t ELSE q[j - 1]
      BY <3>2, <3>3
    <3> QED BY <3>1, <3>4
  <2> QED BY <2>1, <2>2
<1>5. DOMAIN r = 1 .. Len(q) + 1
  BY <1>4
<1>6. ASSUME NEW j \in 1 .. Len(q) + 1, j # k
      PROVE  old(j) \in 1 .. Len(q) /\ r[j] = q[old(j)]
  BY <1>1, <1>2, <1>4, <1>6
<1>7. r[k] = t
  BY <1>2, <1>4
<1>8. \A j \in 1 .. Len(q) : j < k => f[q[j]] <= f[t]
  <2> SUFFICES ASSUME NEW j \in 1 .. Len(q), j < k PROVE ~(f[q[j]] > f[t])
    BY <1>1
  <2> QED BY <1>1, <1>2
<1>9. \A j \in 1 .. Len(q) : j >= k => f[t] <= f[q[j]]
  <2> SUFFICES ASSUME NEW j \in 1 .. Len(q), j >= k PROVE f[t] <= f[q[j]]
    OBVIOUS
  <2>1. later # {}
    BY <1>0, <1>1
  <2>2. k \in later /\ k \in 1 .. Len(q) /\ f[q[k]] > f[t]
    BY <1>1, <1>3, <2>1
  <2>3. f[q[k]] <= f[q[j]]
    BY <1>1, <2>2 DEF InOrder
  <2> QED BY <1>1, <2>2, <2>3
<1>10. ASSUME NEW i \in 1 .. Len(q) + 1, NEW j \in 1 .. Len(q) + 1, i < j
       PROVE  f[r[i]] <= f[r[j]] /\ r[i] # r[j]
  <2>1. CASE i = k
    <3>1. old(j) \in 1 .. Len(q) /\ r[j] = q[old(j)] /\ old(j) >= k
      BY <1>1, <1>2, <1>6, <1>10, <2>1
    <3>2. q[old(j)] \in Range(q)
      BY <1>1, <3>1 DEF Range
    <3> HIDE DEF old
    <3> QED BY <1>7, <1>9, <2>1, <3>1, <3>2
  <2>2. CASE j = k
    <3>1. old(i) \in 1 .. Len(q) /\ r[i] = q[old(i)] /\ old(i) < k
      BY <1>1, <1>2, <1>6, <1>10, <2>2
    <3>2. q[old(i)] \in Range(q)
      BY <1>1, <3>1 DEF Range
    <3> HIDE DEF old
    <3> QED BY <1>7, <1>8, <2>2, <3>1, <3>2
  <2>3. CASE i # k /\ j # k
    <3>1. /\ old(i) \in 1 .. Len(q) /\ r[i] = q[old(i)]
          /\ old(j) \in 1 .. Len(q) /\ r[j] = q[old(j)]
      BY <1>6, <2>3
    <3>2. old(i) < old(j)
      BY <1>1, <1>2, <1>10, <2>3
    <3> HIDE DEF old
    <3>3. f[q[old(i)]] <= f[q[old(j)]] /\ q[old(i)] # q[old(j)]
      BY <1>1, <3>1, <3>2 DEF InOrder, IsInjective
    <3> QED BY <3>1, <3>3
  <2> QED BY <2>1, <2>2, <2>3
<1>11. InOrder(r, f)
  <2>1. ASSUME NEW i \in 1 .. Len(q) + 1, NEW j \in 1 .. Len(q) + 1, r[i] = r[j]
        PROVE  i = j
    <3>1. ~(i < j) /\ ~(j < i)
      BY <1>10, <2>1
    <3> QED BY <1>1, <3>1
  <2> QED BY <1>5, <1>10, <2>1 DEF InOrder, IsInjective
<1>12. \A j \in 1 .. Len(q) + 1 : r[j] \in Range(q) \cup {t}
  <2> SUFFICES ASSUME NEW j \in 1 .. Len(q) + 1, j # k PROVE r[j] \in Range(q)
    BY <1>7
  <2>1. old(j) \in 1 .. Len(q) /\ r[j] = q[old(j)]
    BY <1>6
  <2> HIDE DEF old
  <2> QED BY <1>1, <2>1 DEF Range
<1>13. ASSUME NEW i \in 1 .. Len(q) PROVE q[i] \in Range(r)
  <2>1. CASE i < k
    <3>1. i \in 1 .. Len(q) + 1 /\ r[i] = q[i]
      BY <1>1, <1>2, <1>4, <2>1, SMTT(30)
    <3> QED BY <1>5, <3>1 DEF Range
  <2>2. CASE ~(i < k)
    <3>1. i + 1 \in 1 .. Len(q) + 1 /\ ~(i + 1 < k) /\ i + 1 # k /\ i + 1 - 1 = i
      BY <1>1, <1>2, <2>2
    <3>2. r[i + 1] = q[i]
      BY SMTT(60), <1>4, <3>1
    <3> QED BY <1>5, <3>1, <3>2 DEF Range
  <2> QED BY <2>1, <2>2
<1>14. Range(r) = Range(q) \cup {t}
  BY <1>1, <1>2, <1>5, <1>7, <1>12, <1>13, SMTT(30) DEF Range
<1> QED BY <1>r, <1>4, <1>11, <1>14

(***************************************************************************)
(* The list from one state to the next.                                    *)
(***************************************************************************)

lefts == [t \in Timer |-> Left(t)]

(* What the invariant says of the list and of the ticks left. *)
LEMMA ListFacts ==
  ASSUME TimerInv
  PROVE  /\ list \in Seq(Timer) /\ InOrder(list, lefts) /\ lefts \in [Timer -> Int]
         /\ Range(list) \subseteq Timer
         /\ \A t \in Timer : Left(t) = LeftTo(expiry[t]) /\ Left(t) \in Int
                             /\ expiry[t] \in 0 .. RT_TICK_MAX
         /\ \A t \in Range(list) : Left(t) \in -MaxDelay .. Half - MaxDelay - 1
<1>1. TimerTypeOK /\ ListOrdered /\ LeftBounded
  BY DEF TimerInv, TimerSound
<1>2. /\ list \in Seq(Timer) /\ Range(list) \subseteq Timer
      /\ \A i \in DOMAIN list : list[i] \in Timer
  BY <1>1, HeadRange, LenProperties DEF TimerTypeOK
<1>3. \A t \in Timer : Left(t) = LeftTo(expiry[t]) /\ Left(t) \in Int
                       /\ expiry[t] \in 0 .. RT_TICK_MAX
  <2> SUFFICES ASSUME NEW t \in Timer
               PROVE  Left(t) = LeftTo(expiry[t]) /\ Left(t) \in Int
                      /\ expiry[t] \in 0 .. RT_TICK_MAX
    OBVIOUS
  <2>1. expiry[t] \in 0 .. RT_TICK_MAX
    BY <1>1 DEF TimerTypeOK
  <2>2. Left(t) = LeftTo(expiry[t])
    BY DEF Left, LeftTo
  <2> QED BY <1>1, <2>1, <2>2, LeftToInt
<1>4. InOrder(list, lefts)
  BY <1>1, <1>2 DEF ListOrdered, InOrder, lefts
<1>5. \A t \in Range(list) : Left(t) \in -MaxDelay .. Half - MaxDelay - 1
  BY <1>1, <1>2, <1>3, TimesFit DEF LeftBounded, Soonest
<1> QED BY <1>2, <1>3, <1>4, <1>5 DEF lefts

LEMMA SameLeft ==
  ASSUME NEW x, tick' = tick, expiry'[x] = expiry[x]
  PROVE  Left(x)' = Left(x)
BY DEF Left, Ahead

(* The order in the next state, from an order that fits its ticks left. *)
LEMMA OrderNext ==
  ASSUME NEW f \in [Timer -> Int], NEW q \in Seq(Timer), InOrder(q, f), list' = q,
         \A x \in Range(q) : Left(x)' = f[x]
  PROVE  ListOrdered'
<1>1. DOMAIN q = 1 .. Len(q)
  BY LenProperties
<1>2. \A i \in DOMAIN q : q[i] \in Range(q)
  BY <1>1 DEF Range
<1>3. \A i, j \in DOMAIN q : i < j => Left(q[i])' <= Left(q[j])'
  BY <1>2 DEF InOrder
<1> QED BY <1>3 DEF ListOrdered, InOrder

(* The list stays as it is, and so do the ticks of its timers. *)
LEMMA KeptList ==
  ASSUME TimerInv, list' = list, tick' = tick,
         \A x \in Range(list) : expiry'[x] = expiry[x]
  PROVE  ListOrdered' /\ \A x \in Range(list) : Left(x)' = Left(x)
<1>1. \A x \in Range(list) : Left(x)' = Left(x)
  BY SameLeft
<1>2. \A x \in Range(list) : Left(x)' = lefts[x]
  BY <1>1, ListFacts DEF lefts
<1> QED BY <1>1, <1>2, ListFacts, OrderNext

(* A timer is taken out. *)
LEMMA RemovedList ==
  ASSUME TimerInv, NEW t, list' = Off(list, t), tick' = tick,
         \A x \in Range(list) : expiry'[x] = expiry[x]
  PROVE  /\ list' \in Seq(Timer) /\ ListOrdered'
         /\ Range(list') = Range(list) \ {t}
         /\ \A x \in Range(list') : Left(x)' = Left(x)
<1>1. /\ list' \in Seq(Timer) /\ InOrder(list', lefts) /\ lefts \in [Timer -> Int]
      /\ Range(list') = Range(list) \ {t} /\ Range(list) \subseteq Timer
  BY ListFacts, OffOrdered
<1>2. \A x \in Range(list') : Left(x)' = Left(x)
  BY <1>1, SameLeft
<1>3. \A x \in Range(list') : Left(x)' = lefts[x]
  BY <1>1, <1>2 DEF lefts
<1> QED BY <1>1, <1>2, <1>3, OrderNext

(* A timer is put in, or put in anew, to expire at tick e. *)
LEMMA PlacedList ==
  ASSUME TimerInv, NEW t \in Timer, NEW e \in 0 .. RT_TICK_MAX,
         LeftTo(e) \in -MaxDelay .. Half - MaxDelay - 1,
         list' = Insert(Off(list, t), t, e), tick' = tick, expiry'[t] = e,
         \A x \in Range(list) \ {t} : expiry'[x] = expiry[x]
  PROVE  /\ list' \in Seq(Timer) /\ ListOrdered'
         /\ Range(list') = Range(list) \cup {t}
         /\ \A x \in Range(list) \ {t} : Left(x)' = Left(x)
         /\ Left(t)' = LeftTo(e)
<1> DEFINE q == Off(list, t)
           f == [lefts EXCEPT ![t] = LeftTo(e)]
           later == {i \in DOMAIN q : /\ Ahead(expiry[q[i]], e) # 0
                                      /\ Ahead(expiry[q[i]], e) < Half}
<1>0. TimerTypeOK /\ MaxDelay \in Nat /\ Half \in Nat
  BY TimesFit DEF TimerInv, TimerSound
<1>1. /\ q \in Seq(Timer) /\ InOrder(q, lefts) /\ Range(q) = Range(list) \ {t}
      /\ lefts \in [Timer -> Int] /\ Range(list) \subseteq Timer
  BY ListFacts, OffOrdered
<1>2. list' = Placed(q, t, later)
  BY DEF Insert, Placed
<1> HIDE DEF q
<1>3. \A i \in DOMAIN q : q[i] \in Range(q)
  BY <1>1, LenProperties DEF Range
<1>4. f \in [Timer -> Int] /\ f[t] = LeftTo(e) /\ \A x \in Timer \ {t} : f[x] = lefts[x]
  BY <1>0, <1>1
<1>5. ASSUME NEW i \in DOMAIN q
      PROVE  i \in later <=> f[q[i]] > f[t]
  <2>1. q[i] \in Range(list) /\ q[i] # t /\ q[i] \in Timer
    BY <1>1, <1>3
  <2>2. /\ f[q[i]] = LeftTo(expiry[q[i]]) /\ expiry[q[i]] \in 0 .. RT_TICK_MAX
        /\ LeftTo(expiry[q[i]]) \in -MaxDelay .. Half - MaxDelay - 1
    BY <1>4, <2>1, ListFacts DEF lefts
  <2>3. /\ LeftTo(expiry[q[i]]) - LeftTo(e) < Half
        /\ LeftTo(e) - LeftTo(expiry[q[i]]) < Half
    BY <1>0, <2>2
  <2>4. (Ahead(expiry[q[i]], e) # 0 /\ Ahead(expiry[q[i]], e) < Half)
          <=> LeftTo(expiry[q[i]]) > LeftTo(e)
    BY <1>0, <2>2, <2>3, Compared
  <2> QED BY <1>4, <2>2, <2>4
<1>6. InOrder(q, f)
  <2> HIDE DEF f
  <2> SUFFICES ASSUME NEW i \in DOMAIN q, NEW j \in DOMAIN q, i < j
               PROVE  f[q[i]] <= f[q[j]]
    BY <1>1 DEF InOrder
  <2>1. q[i] \in Timer \ {t} /\ q[j] \in Timer \ {t}
    BY <1>1, <1>3
  <2> QED BY <1>1, <1>4, <2>1 DEF InOrder
<1>7. t \notin Range(q) /\ later \in SUBSET (DOMAIN q)
  BY <1>1
<1> HIDE DEF f, later
<1>8. list' \in Seq(Timer) /\ InOrder(list', f) /\ Range(list') = Range(q) \cup {t}
  <2>1. \A i \in DOMAIN q : i \in later <=> f[q[i]] > f[t]
    BY <1>5
  <2>2. q \in Seq(Timer) /\ f \in [Timer -> Int]
    BY <1>1, <1>4
  <2> QED BY SMTT(60), <1>2, <1>6, <1>7, <2>1, <2>2, PlacedOrdered
<1>9. \A x \in Range(list) \ {t} : Left(x)' = Left(x)
  BY SameLeft
<1>10. Left(t)' = LeftTo(e)
  BY DEF Left, LeftTo, Ahead
<1>11. \A x \in Range(list') : Left(x)' = f[x]
  BY <1>1, <1>4, <1>8, <1>9, <1>10 DEF lefts
<1> QED BY <1>1, <1>4, <1>8, <1>9, <1>10, <1>11, OrderNext

(***************************************************************************)
(* The steps of threads.                                                   *)
(***************************************************************************)

(* A thread that is in a timer function works on a timer that exists. *)
LEMMA Worker ==
  ASSUME TimerInv, NEW u \in User, pc[u] # "run"
  PROVE  arg[u] \in Timer /\ exists[arg[u]]
         /\ \A v \in User \ {u} : arg[v] # arg[u]
BY DEF TimerInv, TimerSound, TimerTypeOK, WorkOK, Working

(* An active timer is a timer, and the times it may run for are short. *)
LEMMA InitFits ==
  ASSUME TimerInv, NEW t \in Timer
  PROVE  init[t] \in Times /\ init[t] \in 1 .. Half - MaxDelay - 1
<1>1. init[t] \in Times
  BY DEF TimerInv, TimerSound, TimerTypeOK
<1> QED BY <1>1, TimesFit

(* Ticks left of timers in the list do not change: what the invariant says *)
(* of bounds and of held up threads stays.                                 *)
LEMMA BoundsKept ==
  ASSUME TimerInv, irq' = irq, tick' = tick,
         \A x \in Range(list') : Left(x)' \in Soonest .. Half - MaxDelay - 1
  PROVE  LeftBounded'
BY DEF LeftBounded, Soonest

LEMMA HeldUpKept ==
  ASSUME NEW u \in User, HeldUp(u), tick' = tick,
         pc'[u] = "insert" =>
           /\ pc[u] = "insert" /\ arg'[u] = arg[u] /\ delay'[u] = delay[u]
           /\ expiry'[arg[u]] = expiry[arg[u]] /\ init'[arg[u]] = init[arg[u]]
  PROVE  HeldUp(u)'
BY DEF HeldUp, Left, Ahead

(* A step that leaves the threads where they are, and puts at most one     *)
(* timer that nobody works on into the list.                               *)
LEMMA WorkKept ==
  ASSUME TimerInv, pc' = pc, arg' = arg, irq' = irq, serving' = serving,
         \A u \in User : pc[u] # "run" => exists'[arg[u]] = exists[arg[u]],
         \A u \in User : pc[u] \in {"start", "insert", "clear"} /\ arg[u] \in Range(list') =>
           arg[u] \in Range(list)
  PROVE  WorkOK'
<1> SUFFICES ASSUME NEW u \in User PROVE Working(u)'
  BY DEF WorkOK
<1>1. Working(u)
  BY DEF TimerInv, WorkOK
<1> QED BY <1>1 DEF Working

LEMMA StartStep ==
  ASSUME TimerInv, NEW u \in User, NEW t \in Timer, Start(u, t)
  PROVE  TimerInv'
<1> USE DEF Start, Enter, objVars, Idle
<1>0. TimerTypeOK /\ WorkOK /\ ExistOK /\ LeftBounded /\ StartingOK /\ t # NoTimer
  BY TimerAssumption DEF TimerInv, TimerSound
<1>1. /\ list' \in Seq(Timer) /\ ListOrdered' /\ Range(list') = Range(list) \ {t}
      /\ \A x \in Range(list') : Left(x)' = Left(x)
  BY RemovedList
<1>2. TimerTypeOK'
  BY <1>0, <1>1 DEF TimerTypeOK
<1>3. LeftBounded'
  BY <1>0, <1>1 DEF LeftBounded, Soonest
<1>4. StartingOK'
  <2> SUFFICES ASSUME NEW v \in User PROVE HeldUp(v)'
    BY DEF StartingOK
  <2>1. pc'[v] = "insert" => v # u /\ pc[v] = "insert" /\ arg'[v] = arg[v]
    BY <1>0 DEF TimerTypeOK
  <2> QED BY <1>0, <2>1, HeldUpKept DEF StartingOK
<1>5. WorkOK'
  <2> SUFFICES ASSUME NEW v \in User PROVE Working(v)'
    BY DEF WorkOK
  <2>1. Working(v)
    BY <1>0 DEF WorkOK
  <2> QED BY <1>0, <1>1, <2>1 DEF Working, TimerTypeOK
<1>6. ExistOK'
  BY <1>0, <1>1 DEF ExistOK
<1> QED BY <1>1, <1>2, <1>3, <1>4, <1>5, <1>6 DEF TimerInv, TimerSound

LEMMA StartReadStep ==
  ASSUME TimerInv, NEW u \in User, StartRead(u)
  PROVE  TimerInv'
<1> USE DEF StartRead, Step, objVars
<1> DEFINE t == arg[u]
           e == (tick + init[t]) % TickMod
<1>0. /\ TimerTypeOK /\ WorkOK /\ ExistOK /\ LeftBounded /\ StartingOK
      /\ t \in Timer /\ t \notin Range(list) /\ pc[u] = "start"
      /\ \A v \in User \ {u} : arg[v] # t
  BY Worker DEF TimerInv, TimerSound, WorkOK, Working
<1>e. e \in 0 .. RT_TICK_MAX /\ LeftTo(e) = init[t] /\ init[t] \in Nat
  BY <1>0, InitFits, LeftNow, TimesFit
<1>1. expiry' = [expiry EXCEPT ![t] = e] /\ expiry'[t] = e
  BY <1>0 DEF TimerTypeOK
<1> HIDE DEF e
<1>2. \A x \in Range(list) : expiry'[x] = expiry[x]
  BY <1>0, <1>1
<1>3. ListOrdered' /\ \A x \in Range(list) : Left(x)' = Left(x)
  BY <1>2, KeptList
<1>4. TimerTypeOK'
  BY SMTT(60), <1>0, <1>1, <1>e, TimesFit DEF TimerTypeOK
<1>5. LeftBounded'
  BY <1>0, <1>3 DEF LeftBounded, Soonest
<1>6. StartingOK'
  <2> SUFFICES ASSUME NEW v \in User PROVE HeldUp(v)'
    BY DEF StartingOK
  <2>1. CASE v = u
    <3>1. delay'[u] = 0 /\ arg'[u] = t
      BY <1>0 DEF TimerTypeOK
    <3> QED BY <1>1, <1>e, <2>1, <3>1 DEF HeldUp, Left, LeftTo, Ahead
  <2>2. CASE v # u
    <3>1. pc'[v] = "insert" =>
            pc[v] = "insert" /\ arg'[v] = arg[v] /\ arg[v] # t /\ delay'[v] = delay[v]
      BY <1>0, <2>2 DEF TimerTypeOK
    <3>2. pc'[v] = "insert" => expiry'[arg[v]] = expiry[arg[v]]
      BY <1>1, <3>1
    <3> QED BY <1>0, <3>1, <3>2, HeldUpKept DEF StartingOK
  <2> QED BY <2>1, <2>2
<1>7. WorkOK'
  <2> SUFFICES ASSUME NEW v \in User PROVE Working(v)'
    BY DEF WorkOK
  <2>1. Working(v)
    BY <1>0 DEF WorkOK
  <2> QED BY <1>0, <2>1 DEF Working, TimerTypeOK
<1>8. ExistOK'
  BY <1>0 DEF ExistOK
<1> QED BY <1>3, <1>4, <1>5, <1>6, <1>7, <1>8 DEF TimerInv, TimerSound

(* The thread puts its timer in with what its delay has left. *)
LEMMA InsertFacts ==
  ASSUME TimerInv, NEW u \in User, StartInsert(u)
  PROVE  /\ arg[u] \in Timer /\ arg[u] \notin Range(list)
         /\ Left(arg[u]) = init[arg[u]] - delay[u] /\ delay[u] \in 0 .. MaxDelay
         /\ list' \in Seq(Timer) /\ ListOrdered' /\ Range(list') = Range(list) \cup {arg[u]}
         /\ \A x \in Range(list') : Left(x)' = Left(x)
         /\ Left(arg[u]) \in 1 - MaxDelay .. Half - MaxDelay - 1
<1> USE DEF StartInsert, Step
<1>t. PICK t : t = arg[u]
  OBVIOUS
<1>0. /\ TimerTypeOK /\ t = arg[u] /\ t \in Timer /\ t \notin Range(list) /\ pc[u] = "insert"
  BY <1>t, Worker DEF TimerInv, TimerSound, WorkOK, Working
<1>1. Left(t) = init[t] - delay[u] /\ delay[u] \in 0 .. MaxDelay
  BY <1>0 DEF TimerInv, StartingOK, HeldUp, TimerTypeOK
<1>2. Left(t) \in 1 - MaxDelay .. Half - MaxDelay - 1
  BY <1>0, <1>1, InitFits, TimesFit
<1>3. Left(t) = LeftTo(expiry[t]) /\ expiry[t] \in 0 .. RT_TICK_MAX
  BY <1>0, ListFacts
<1>4. list' = Insert(Off(list, t), t, expiry[t])
  BY <1>0 DEF Off
<1>5. LeftTo(expiry[t]) \in -MaxDelay .. Half - MaxDelay - 1
  BY <1>2, <1>3, TimesFit
<1>8. tick' = tick /\ expiry' = expiry
  OBVIOUS
<1>6. /\ list' \in Seq(Timer) /\ ListOrdered' /\ Range(list') = Range(list) \cup {t}
      /\ \A x \in Range(list) \ {t} : Left(x)' = Left(x)
      /\ Left(t)' = LeftTo(expiry[t])
  BY <1>0, <1>3, <1>4, <1>5, <1>8, PlacedList
<1>7. \A x \in Range(list') : Left(x)' = Left(x)
  BY <1>3, <1>6
<1> QED BY <1>0, <1>1, <1>2, <1>6, <1>7

LEMMA StartInsertStep ==
  ASSUME TimerInv, NEW u \in User, StartInsert(u)
  PROVE  TimerInv'
<1> USE DEF StartInsert, Step, objVars
<1>0. /\ TimerTypeOK /\ WorkOK /\ ExistOK /\ LeftBounded /\ StartingOK
      /\ arg[u] \in Timer /\ exists[arg[u]] /\ pc[u] = "insert" /\ irq = "off"
      /\ \A v \in User \ {u} : arg[v] # arg[u]
  BY Worker DEF TimerInv, TimerSound
<1>1. /\ list' \in Seq(Timer) /\ ListOrdered' /\ Range(list') = Range(list) \cup {arg[u]}
      /\ \A x \in Range(list') : Left(x)' = Left(x)
      /\ Left(arg[u]) \in 1 - MaxDelay .. Half - MaxDelay - 1
  BY InsertFacts
<1>2. TimerTypeOK'
  BY SMTT(60), <1>0, <1>1, TimesFit DEF TimerTypeOK
<1>3. LeftBounded'
  BY <1>0, <1>1 DEF LeftBounded, Soonest
<1>4. StartingOK'
  <2> SUFFICES ASSUME NEW v \in User PROVE HeldUp(v)'
    BY DEF StartingOK
  <2>1. pc'[v] = "insert" => v # u /\ pc[v] = "insert" /\ arg'[v] = arg[v] /\ delay'[v] = delay[v]
    BY <1>0 DEF TimerTypeOK
  <2> QED BY <1>0, <2>1, HeldUpKept DEF StartingOK
<1>5. WorkOK'
  <2> SUFFICES ASSUME NEW v \in User PROVE Working(v)'
    BY DEF WorkOK
  <2>1. Working(v)
    BY <1>0 DEF WorkOK
  <2> QED BY <1>0, <1>1, <2>1 DEF Working, TimerTypeOK
<1>6. ExistOK'
  BY <1>0, <1>1 DEF ExistOK
<1> QED BY <1>1, <1>2, <1>3, <1>4, <1>5, <1>6 DEF TimerInv, TimerSound

LEMMA StopStep ==
  ASSUME TimerInv, NEW u \in User, NEW t \in Timer, Stop(u, t)
  PROVE  TimerInv'
<1> USE DEF Stop, Enter, objVars, Idle
<1>0. TimerTypeOK /\ WorkOK /\ ExistOK /\ LeftBounded /\ StartingOK /\ t # NoTimer
  BY TimerAssumption DEF TimerInv, TimerSound
<1>1. ListOrdered' /\ \A x \in Range(list) : Left(x)' = Left(x)
  BY KeptList
<1>2. TimerTypeOK'
  BY <1>0 DEF TimerTypeOK
<1>3. LeftBounded'
  BY <1>0, <1>1 DEF LeftBounded, Soonest
<1>4. StartingOK'
  <2> SUFFICES ASSUME NEW v \in User PROVE HeldUp(v)'
    BY DEF StartingOK
  <2>1. pc'[v] = "insert" => v # u /\ pc[v] = "insert" /\ arg'[v] = arg[v]
    BY <1>0 DEF TimerTypeOK
  <2> QED BY <1>0, <2>1, HeldUpKept DEF StartingOK
<1>5. WorkOK'
  <2> SUFFICES ASSUME NEW v \in User PROVE Working(v)'
    BY DEF WorkOK
  <2>1. Working(v)
    BY <1>0 DEF WorkOK
  <2> QED BY <1>0, <2>1 DEF Working, TimerTypeOK
<1>6. ExistOK'
  BY <1>0 DEF ExistOK
<1> QED BY <1>1, <1>2, <1>3, <1>4, <1>5, <1>6 DEF TimerInv, TimerSound

LEMMA StopRemoveStep ==
  ASSUME TimerInv, NEW u \in User, StopRemove(u)
  PROVE  TimerInv'
<1> USE DEF StopRemove, Step, objVars
<1>0. /\ TimerTypeOK /\ WorkOK /\ ExistOK /\ LeftBounded /\ StartingOK
      /\ arg[u] \in Timer /\ pc[u] = "stop" /\ irq = "off"
  BY Worker DEF TimerInv, TimerSound
<1>1. /\ list' \in Seq(Timer) /\ ListOrdered' /\ Range(list') = Range(list) \ {arg[u]}
      /\ \A x \in Range(list') : Left(x)' = Left(x)
  BY RemovedList
<1>2. TimerTypeOK'
  BY SMTT(60), <1>0, <1>1, TimesFit DEF TimerTypeOK
<1>3. LeftBounded'
  BY <1>0, <1>1 DEF LeftBounded, Soonest
<1>4. StartingOK'
  <2> SUFFICES ASSUME NEW v \in User PROVE HeldUp(v)'
    BY DEF StartingOK
  <2>1. pc'[v] = "insert" => v # u /\ pc[v] = "insert" /\ arg'[v] = arg[v] /\ delay'[v] = delay[v]
    BY <1>0 DEF TimerTypeOK
  <2> QED BY <1>0, <2>1, HeldUpKept DEF StartingOK
<1>5. WorkOK'
  <2> SUFFICES ASSUME NEW v \in User PROVE Working(v)'
    BY DEF WorkOK
  <2>1. Working(v)
    BY <1>0 DEF WorkOK
  <2> QED BY <1>0, <1>1, <2>1 DEF Working, TimerTypeOK
<1>6. ExistOK'
  BY <1>0, <1>1 DEF ExistOK
<1> QED BY <1>1, <1>2, <1>3, <1>4, <1>5, <1>6 DEF TimerInv, TimerSound

LEMMA StopClearStep ==
  ASSUME TimerInv, NEW u \in User, StopClear(u)
  PROVE  TimerInv'
<1> USE DEF StopClear, Step, objVars
<1>0. /\ TimerTypeOK /\ WorkOK /\ ExistOK /\ LeftBounded /\ StartingOK
      /\ pc[u] = "clear" /\ irq = "off"
  BY DEF TimerInv, TimerSound
<1>1. ListOrdered' /\ \A x \in Range(list) : Left(x)' = Left(x)
  BY KeptList
<1>2. TimerTypeOK'
  BY <1>0, TimesFit DEF TimerTypeOK
<1>3. LeftBounded'
  BY <1>0, <1>1 DEF LeftBounded, Soonest
<1>4. StartingOK'
  <2> SUFFICES ASSUME NEW v \in User PROVE HeldUp(v)'
    BY DEF StartingOK
  <2>1. pc'[v] = "insert" => v # u /\ pc[v] = "insert" /\ arg'[v] = arg[v] /\ delay'[v] = delay[v]
    BY <1>0 DEF TimerTypeOK
  <2> QED BY <1>0, <2>1, HeldUpKept DEF StartingOK
<1>5. WorkOK'
  <2> SUFFICES ASSUME NEW v \in User PROVE Working(v)'
    BY DEF WorkOK
  <2>1. Working(v)
    BY <1>0 DEF WorkOK
  <2> QED BY <1>0, <2>1 DEF Working, TimerTypeOK
<1>6. ExistOK'
  BY <1>0 DEF ExistOK
<1> QED BY <1>1, <1>2, <1>3, <1>4, <1>5, <1>6 DEF TimerInv, TimerSound

LEMMA DetachStep ==
  ASSUME TimerInv, NEW u \in User, NEW t \in Timer, Detach(u, t)
  PROVE  TimerInv'
<1> USE DEF Detach, userVars, Idle
<1>0. TimerTypeOK /\ WorkOK /\ ExistOK /\ LeftBounded /\ StartingOK /\ t # NoTimer
  BY TimerAssumption DEF TimerInv, TimerSound
<1>1. /\ list' \in Seq(Timer) /\ ListOrdered' /\ Range(list') = Range(list) \ {t}
      /\ \A x \in Range(list') : Left(x)' = Left(x)
  BY RemovedList
<1>2. TimerTypeOK'
  BY <1>0, <1>1 DEF TimerTypeOK
<1>3. LeftBounded'
  BY <1>0, <1>1 DEF LeftBounded, Soonest
<1>4. StartingOK'
  BY <1>0, HeldUpKept DEF StartingOK
<1>5. \A x \in Timer \ {t} : exists'[x] = exists[x]
  BY <1>0 DEF TimerTypeOK
<1>6. WorkOK'
  BY <1>0, <1>1, <1>5, Worker, WorkKept
<1>7. ExistOK'
  BY <1>0, <1>1, <1>5, ListFacts DEF ExistOK
<1> QED BY <1>1, <1>2, <1>3, <1>4, <1>6, <1>7 DEF TimerInv, TimerSound

(* rt_timer_init may write every field of a timer that does not exist. *)
LEMMA TimerInitStep ==
  ASSUME TimerInv, NEW u \in User, NEW t \in Timer, NEW n \in Times, NEW p \in BOOLEAN,
         TimerInit(u, t, n, p)
  PROVE  TimerInv'
<1> USE DEF TimerInit, userVars
<1>0. TimerTypeOK /\ WorkOK /\ ExistOK /\ LeftBounded /\ StartingOK
  BY DEF TimerInv, TimerSound
<1>1. \A x \in Range(list) : x # t /\ x \in Timer
  BY <1>0, ListFacts DEF ExistOK
<1>2. \A v \in User : pc[v] # "run" => arg[v] # t /\ arg[v] \in Timer
  BY Worker
<1>3. \A x \in Timer \ {t} :
        exists'[x] = exists[x] /\ init'[x] = init[x] /\ expiry'[x] = expiry[x]
  BY <1>0 DEF TimerTypeOK
<1>4. ListOrdered' /\ \A x \in Range(list) : Left(x)' = Left(x)
  BY <1>1, <1>3, KeptList
<1>5. TimerTypeOK'
  <2>1. 0 \in 0 .. RT_TICK_MAX
    BY TimesFit DEF RT_TICK_MAX
  <2> QED BY <1>0, <2>1 DEF TimerTypeOK
<1>6. LeftBounded'
  BY <1>0, <1>4 DEF LeftBounded, Soonest
<1>7. StartingOK'
  BY <1>0, <1>2, <1>3, HeldUpKept DEF StartingOK
<1>8. WorkOK'
  BY <1>0, <1>2, <1>3, WorkKept
<1>9. ExistOK'
  BY <1>0, <1>1, <1>3 DEF ExistOK
<1> QED BY <1>4, <1>5, <1>6, <1>7, <1>8, <1>9 DEF TimerInv, TimerSound

LEMMA ControlStep ==
  ASSUME TimerInv, NEW t \in Timer, NEW n \in Times, NEW p \in BOOLEAN, Control(t, n, p)
  PROVE  TimerInv'
<1> USE DEF Control, userVars, Idle
<1>0. TimerTypeOK /\ WorkOK /\ ExistOK /\ LeftBounded /\ StartingOK
  BY DEF TimerInv, TimerSound
<1>1. ListOrdered' /\ \A x \in Range(list) : Left(x)' = Left(x)
  BY KeptList
<1>2. TimerTypeOK'
  BY <1>0 DEF TimerTypeOK
<1>3. LeftBounded'
  BY <1>0, <1>1 DEF LeftBounded, Soonest
<1>4. \A x \in Timer \ {t} : init'[x] = init[x]
  BY <1>0 DEF TimerTypeOK
<1>5. StartingOK'
  BY <1>0, <1>4, Worker, HeldUpKept DEF StartingOK
<1>6. WorkOK'
  BY <1>0, WorkKept
<1>7. ExistOK'
  BY <1>0 DEF ExistOK
<1> QED BY <1>1, <1>2, <1>3, <1>5, <1>6, <1>7 DEF TimerInv, TimerSound

(***************************************************************************)
(* The steps of the tick interrupt.                                        *)
(***************************************************************************)

(* A tick takes one from the ticks left of every listed timer and of every *)
(* timer about to be listed.                                               *)
LEMMA TickFacts ==
  ASSUME TimerInv, Tick
  PROVE  /\ \A x \in Range(list) : Left(x)' = Left(x) - 1
         /\ \A u \in User : pc[u] = "insert" => Left(arg[u])' = Left(arg[u]) - 1
         /\ tick' \in 0 .. RT_TICK_MAX
<1> USE DEF Tick, objVars
<1>0. /\ TimerTypeOK /\ MaxDelay \in Nat /\ Half \in Nat /\ TickMod \in Nat /\ 2 * Half < TickMod
      /\ irq = "off" /\ tick' = (tick + 1) % TickMod
  BY TimesFit DEF TimerInv, TimerSound
<1>1. ASSUME NEW x \in Timer, Left(x) > -Half
      PROVE  Left(x)' = Left(x) - 1 /\ tick' \in 0 .. RT_TICK_MAX
  <2>1. Left(x) = LeftTo(expiry[x]) /\ expiry[x] \in 0 .. RT_TICK_MAX /\ Left(x) \in Int
    BY ListFacts
  <2>2. LeftTo(expiry[x]) > Half - TickMod
    BY <1>0, <1>1, <2>1
  <2> PICK e \in 0 .. RT_TICK_MAX : e = expiry[x]
    BY <2>1
  <2>3. LeftTo(e)' = LeftTo(e) - 1 /\ tick' \in 0 .. RT_TICK_MAX
    BY <1>0, <2>1, <2>2, LeftTick
  <2>4. Left(x)' = LeftTo(e)'
    BY DEF Left, LeftTo, Ahead
  <2> QED BY <2>1, <2>3, <2>4
<1>2. \A x \in Range(list) : Left(x)' = Left(x) - 1
  <2> SUFFICES ASSUME NEW x \in Range(list) PROVE x \in Timer /\ Left(x) > -Half
    BY <1>1
  <2>1. x \in Timer /\ Left(x) \in 1 - MaxDelay .. Half - MaxDelay - 1
    BY <1>0, ListFacts DEF TimerInv, LeftBounded, Soonest
  <2> QED BY <1>0, <2>1, InitFits
<1>3. ASSUME NEW u \in User, pc[u] = "insert" PROVE Left(arg[u])' = Left(arg[u]) - 1
  <2>1. arg[u] \in Timer /\ Left(arg[u]) = init[arg[u]] - delay[u] /\ delay[u] \in 0 .. MaxDelay
    BY <1>0, <1>3, Worker DEF TimerInv, StartingOK, HeldUp, TimerTypeOK
  <2>2. Left(arg[u]) > -Half
    BY <1>0, <2>1, InitFits
  <2> PICK x \in Timer : x = arg[u]
    BY <2>1
  <2>3. Left(x)' = Left(x) - 1
    BY <1>1, <2>2
  <2>4. Left(arg[u])' = Left(x)'
    BY DEF Left, Ahead
  <2> QED BY <2>3, <2>4
<1>4. tick' \in 0 .. RT_TICK_MAX
  BY <1>0, TickWraps DEF TimerTypeOK, RT_TICK_MAX
<1> QED BY <1>2, <1>3, <1>4

LEMMA TickStep ==
  ASSUME TimerInv, Tick
  PROVE  TimerInv'
<1> USE DEF Tick, objVars
<1>0. /\ TimerTypeOK /\ WorkOK /\ ExistOK /\ LeftBounded /\ StartingOK /\ MaxDelay \in Nat
      /\ irq = "off" /\ irq' = "check" /\ list' = list /\ expiry' = expiry
  BY TimesFit DEF TimerInv, TimerSound
<1>1. \A x \in Range(list) : Left(x)' = Left(x) - 1 /\ Left(x) \in Int
  BY TickFacts, ListFacts
<1>2. TimerTypeOK'
  BY <1>0, TickFacts DEF TimerTypeOK
<1>3. ListOrdered'
  <2> DEFINE f == [x \in Timer |-> lefts[x] - 1]
  <2>1. InOrder(list, lefts) /\ lefts \in [Timer -> Int] /\ list \in Seq(Timer)
        /\ Range(list) \subseteq Timer /\ \A i \in DOMAIN list : list[i] \in Timer
    BY ListFacts, LenProperties
  <2>2. f \in [Timer -> Int] /\ InOrder(list, f)
    BY <2>1 DEF InOrder
  <2>3. \A x \in Range(list) : Left(x)' = f[x]
    BY <1>1, <2>1 DEF lefts
  <2> HIDE DEF f
  <2> QED BY <1>0, <2>1, <2>2, <2>3, OrderNext
<1>4. LeftBounded'
  BY <1>0, <1>1, TimesFit DEF LeftBounded, Soonest
<1>5. StartingOK'
  <2> SUFFICES ASSUME NEW u \in User, pc[u] = "insert" PROVE HeldUp(u)'
    BY DEF StartingOK, HeldUp
  <2>1. Left(arg[u])' = Left(arg[u]) - 1
    BY TickFacts
  <2>2. delay'[u] = delay[u] + 1 /\ delay[u] \in Int /\ init[arg[u]] \in Int
    BY <1>0, InitFits, Worker DEF TimerTypeOK
  <2> QED BY <1>0, <2>1, <2>2 DEF HeldUp, StartingOK
<1>6. WorkOK'
  BY <1>0 DEF WorkOK, Working
<1>7. ExistOK'
  BY <1>0 DEF ExistOK
<1> QED BY <1>2, <1>3, <1>4, <1>5, <1>6, <1>7 DEF TimerInv, TimerSound

(* The first timer of the list expires first. *)
LEMMA HeadFirst ==
  ASSUME TimerInv, list # <<>>
  PROVE  /\ Head(list) \in Range(list) /\ Head(list) \in Timer
         /\ Expired(Head(list)) <=> Left(Head(list)) <= 0
         /\ \A x \in Range(list) : Left(Head(list)) <= Left(x)
<1>1. Head(list) \in Range(list) /\ Head(list) \in Timer /\ Head(list) = list[1]
  BY ListFacts, HeadRange
<1>2. TimerTypeOK /\ \A x \in Range(list) : Left(x) \in -MaxDelay .. Half - MaxDelay - 1
  BY ListFacts DEF TimerInv, TimerSound
<1>3. Left(Head(list)) > -Half
  BY <1>1, <1>2, InitFits, TimesFit
<1>4. Expired(Head(list)) <=> Left(Head(list)) <= 0
  BY <1>1, <1>2, <1>3, ExpiredNow
<1>5. ASSUME NEW x \in Range(list) PROVE Left(Head(list)) <= Left(x)
  <2>1. DOMAIN list = 1 .. Len(list) /\ Len(list) \in Nat
    BY ListFacts, LenProperties
  <2>2. PICK i \in 1 .. Len(list) : list[i] = x
    BY <2>1 DEF Range
  <2>3. Left(x) \in Int
    BY ListFacts
  <2>4. 1 \in 1 .. Len(list) /\ (i = 1 \/ 1 < i)
    BY <2>1
  <2> QED BY <1>1, <2>1, <2>2, <2>3, <2>4 DEF TimerInv, TimerSound, ListOrdered
<1> QED BY <1>1, <1>4, <1>5

LEMMA CheckServeStep ==
  ASSUME TimerInv, CheckServe
  PROVE  TimerInv'
<1> USE DEF CheckServe, objVars, userVars
<1>t. PICK t : t = Head(list)
  OBVIOUS
<1>0. /\ TimerTypeOK /\ WorkOK /\ ExistOK /\ LeftBounded /\ StartingOK
      /\ t \in Timer /\ t \in Range(list)
  BY <1>t, HeadFirst DEF TimerInv, TimerSound
<1>1. /\ list' \in Seq(Timer) /\ ListOrdered' /\ Range(list') = Range(list) \ {t}
      /\ \A x \in Range(list') : Left(x)' = Left(x)
  BY <1>t, RemovedList
<1>2. TimerTypeOK'
  BY <1>0, <1>1, <1>t DEF TimerTypeOK
<1>3. LeftBounded'
  BY <1>0, <1>1 DEF LeftBounded, Soonest
<1>4. StartingOK'
  BY <1>0, HeldUpKept DEF StartingOK
<1>5. WorkOK'
  BY <1>0, <1>1, <1>t DEF WorkOK, Working
<1>6. ExistOK'
  BY <1>0, <1>1, <1>t DEF ExistOK
<1> QED BY <1>1, <1>2, <1>3, <1>4, <1>5, <1>6 DEF TimerInv, TimerSound

(* With interrupts enabled again no listed timer is due. *)
LEMMA CheckEndStep ==
  ASSUME TimerInv, CheckEnd
  PROVE  TimerInv'
<1> USE DEF CheckEnd, objVars, userVars
<1>0. TimerTypeOK /\ WorkOK /\ ExistOK /\ LeftBounded /\ StartingOK /\ MaxDelay \in Nat
  BY TimesFit DEF TimerInv, TimerSound
<1>1. ListOrdered' /\ \A x \in Range(list) : Left(x)' = Left(x)
  BY KeptList
<1>2. TimerTypeOK'
  BY <1>0 DEF TimerTypeOK
<1>3. \A x \in Range(list) : Left(x) \in 1 - MaxDelay .. Half - MaxDelay - 1
  <2> SUFFICES ASSUME NEW x \in Range(list) PROVE Left(x) \in 1 - MaxDelay .. Half - MaxDelay - 1
    OBVIOUS
  <2>1. list # <<>>
    BY HeadRange, ListFacts
  <2>2. Left(Head(list)) > 0 /\ Left(Head(list)) <= Left(x)
    BY <2>1, HeadFirst, ListFacts
  <2>3. /\ Left(x) \in -MaxDelay .. Half - MaxDelay - 1 /\ Left(Head(list)) \in Int
        /\ Half \in Nat
    BY <2>1, HeadFirst, ListFacts, TimesFit
  <2> QED BY <1>0, <2>2, <2>3
<1>4. LeftBounded'
  BY <1>1, <1>3 DEF LeftBounded, Soonest
<1>5. StartingOK'
  BY <1>0, HeldUpKept DEF StartingOK
<1>6. WorkOK'
  BY <1>0 DEF WorkOK, Working
<1>7. ExistOK'
  BY <1>0 DEF ExistOK
<1> QED BY <1>1, <1>2, <1>4, <1>5, <1>6, <1>7 DEF TimerInv, TimerSound

(* rt_timer_start in one go puts the timer in with all of its time left. *)
LEMMA StartNowFacts ==
  ASSUME TimerInv, NEW t \in Timer, StartNow(t), tick' = tick
  PROVE  /\ list' \in Seq(Timer) /\ ListOrdered' /\ Range(list') = Range(list) \cup {t}
         /\ expiry' \in [Timer -> 0 .. RT_TICK_MAX] /\ active' \subseteq Timer
         /\ \A x \in Timer \ {t} : expiry'[x] = expiry[x]
         /\ \A x \in Range(list) \ {t} : Left(x)' = Left(x)
         /\ Left(t)' = init[t]
<1> USE DEF StartNow
<1>e. PICK e : e = (tick + init[t]) % TickMod
  OBVIOUS
<1>0. TimerTypeOK /\ init[t] \in 1 .. Half - MaxDelay - 1 /\ MaxDelay \in Nat /\ Half \in Nat
  BY InitFits, TimesFit DEF TimerInv, TimerSound
<1>1. e \in 0 .. RT_TICK_MAX /\ LeftTo(e) = init[t]
  BY <1>0, <1>e, LeftNow
<1>2. /\ expiry' = [expiry EXCEPT ![t] = e] /\ expiry'[t] = e
      /\ expiry' \in [Timer -> 0 .. RT_TICK_MAX] /\ active' \subseteq Timer
      /\ \A x \in Timer \ {t} : expiry'[x] = expiry[x]
  BY <1>0, <1>1, <1>e DEF TimerTypeOK
<1>3. list' = Insert(Off(list, t), t, e)
  BY <1>e
<1>4. LeftTo(e) \in -MaxDelay .. Half - MaxDelay - 1
  BY <1>0, <1>1
<1>5. \A x \in Range(list) \ {t} : expiry'[x] = expiry[x]
  BY <1>2, ListFacts
<1> QED BY <1>1, <1>2, <1>3, <1>4, <1>5, PlacedList

(* What StartNow leaves of the invariant to show. *)
LEMMA StartNowKeeps ==
  ASSUME TimerInv, NEW t \in Timer, StartNow(t), irq = "callback", irq' \in {"callback", "check"},
         UNCHANGED <<tick, objVars, userVars>>, exists[t],
         \A u \in User : pc[u] \in {"start", "insert", "clear"} => arg[u] # t,
         irq' = "callback" => serving' = serving,
         irq' = "check" => serving' = NoTimer
  PROVE  TimerInv'
<1> USE DEF objVars, userVars
<1>0. /\ TimerTypeOK /\ WorkOK /\ ExistOK /\ LeftBounded /\ StartingOK
      /\ MaxDelay \in Nat /\ Half \in Nat /\ init[t] \in 1 .. Half - MaxDelay - 1
  BY InitFits, TimesFit DEF TimerInv, TimerSound
<1>1. /\ list' \in Seq(Timer) /\ ListOrdered' /\ Range(list') = Range(list) \cup {t}
      /\ expiry' \in [Timer -> 0 .. RT_TICK_MAX] /\ active' \subseteq Timer
      /\ \A x \in Timer \ {t} : expiry'[x] = expiry[x]
      /\ \A x \in Range(list) \ {t} : Left(x)' = Left(x)
      /\ Left(t)' = init[t]
  BY StartNowFacts
<1>2. TimerTypeOK'
  BY <1>0, <1>1 DEF TimerTypeOK
<1>3. LeftBounded'
  BY <1>0, <1>1, ListFacts DEF LeftBounded, Soonest
<1>4. StartingOK'
  BY <1>0, <1>1, Worker, HeldUpKept DEF StartingOK
<1>5. WorkOK'
  BY <1>0, <1>1 DEF WorkOK, Working
<1>6. ExistOK'
  BY <1>0, <1>1 DEF ExistOK
<1> QED BY <1>1, <1>2, <1>3, <1>4, <1>5, <1>6 DEF TimerInv, TimerSound

LEMMA CallbackStartStep ==
  ASSUME TimerInv, NEW t \in Timer, CallbackStart(t)
  PROVE  TimerInv'
BY StartNowKeeps DEF CallbackStart, Idle

LEMMA CallbackStopStep ==
  ASSUME TimerInv, NEW t \in Timer, CallbackStop(t)
  PROVE  TimerInv'
<1> USE DEF CallbackStop, Idle, objVars, userVars
<1>0. TimerTypeOK /\ WorkOK /\ ExistOK /\ LeftBounded /\ StartingOK
  BY DEF TimerInv, TimerSound
<1>1. /\ list' \in Seq(Timer) /\ ListOrdered' /\ Range(list') = Range(list) \ {t}
      /\ \A x \in Range(list') : Left(x)' = Left(x)
  BY RemovedList
<1>2. TimerTypeOK'
  BY <1>0, <1>1 DEF TimerTypeOK
<1>3. LeftBounded'
  BY <1>0, <1>1 DEF LeftBounded, Soonest
<1>4. StartingOK'
  BY <1>0, HeldUpKept DEF StartingOK
<1>5. WorkOK'
  BY <1>0, <1>1, WorkKept
<1>6. ExistOK'
  BY <1>0, <1>1 DEF ExistOK
<1> QED BY <1>1, <1>2, <1>3, <1>4, <1>5, <1>6 DEF TimerInv, TimerSound

LEMMA CallbackReturnStep ==
  ASSUME TimerInv, CallbackReturn
  PROVE  TimerInv'
<1> USE DEF CallbackReturn
<1>0. /\ TimerTypeOK /\ WorkOK /\ ExistOK /\ LeftBounded /\ StartingOK
      /\ irq = "callback" /\ serving \in Timer /\ exists[serving]
  BY DEF TimerInv, TimerSound, ExistOK
<1>1. CASE serving \in periodic \cap active
  <2>1. \A u \in User : pc[u] \in {"start", "insert", "clear"} => arg[u] # serving
    BY <1>0 DEF WorkOK, Working
  <2> PICK t \in Timer : t = serving
    BY <1>0
  <2> QED BY <1>0, <1>1, <2>1, StartNowKeeps
<1>2. CASE serving \notin periodic \cap active
  <2> USE DEF objVars, userVars
  <2>1. list' = list /\ expiry' = expiry
    BY <1>2
  <2>2. ListOrdered' /\ \A x \in Range(list) : Left(x)' = Left(x)
    BY <2>1, KeptList
  <2>3. TimerTypeOK'
    BY <1>0, <1>2, <2>1 DEF TimerTypeOK
  <2>4. LeftBounded'
    BY <1>0, <2>1, <2>2 DEF LeftBounded, Soonest
  <2>5. StartingOK'
    BY <1>0, <2>1, HeldUpKept DEF StartingOK
  <2>6. WorkOK'
    BY <1>0, <2>1 DEF WorkOK, Working
  <2>7. ExistOK'
    BY <1>0, <2>1 DEF ExistOK
  <2> QED BY <2>2, <2>3, <2>4, <2>5, <2>6, <2>7 DEF TimerInv, TimerSound
<1> QED BY <1>1, <1>2

(***************************************************************************)
(* Theorems.                                                               *)
(***************************************************************************)

LEMMA TimerInvInit == Init => TimerInv
<1> SUFFICES ASSUME Init PROVE TimerInv
  OBVIOUS
<1> USE DEF Init
<1>1. 0 \in 0 .. RT_TICK_MAX /\ 0 \in 0 .. MaxDelay
  BY TimesFit DEF RT_TICK_MAX
<1>2. TimerTypeOK
  BY <1>1, TimerAssumption DEF TimerTypeOK
<1>3. list \in Seq(Timer) /\ Range(list) = {} /\ DOMAIN list = {}
  <2>1. list = <<>> /\ <<>> \in Seq(Timer) /\ Len(<<>>) = 0
    BY EmptySeq
  <2>2. Range(<<>>) = {}
    BY <2>1, HeadRange
  <2>3. DOMAIN <<>> = 1 .. 0
    BY <2>1, LenProperties
  <2> QED BY <2>1, <2>2, <2>3
<1>4. ListOrdered
  BY <1>3 DEF ListOrdered, IsInjective
<1>5. LeftBounded /\ StartingOK /\ WorkOK /\ ExistOK
  BY <1>3 DEF LeftBounded, StartingOK, HeldUp, WorkOK, Working, ExistOK
<1> QED BY <1>2, <1>4, <1>5 DEF TimerInv, TimerSound

LEMMA TimerInvNext == TimerInv /\ [Next]_vars => TimerInv'
<1> SUFFICES ASSUME TimerInv, [Next]_vars PROVE TimerInv'
  OBVIOUS
<1>1. ASSUME NEW u \in User, UserStep(u) PROVE TimerInv'
  BY <1>1, StartStep, StopStep, DetachStep, TimerInitStep, StartReadStep, StartInsertStep,
     StopRemoveStep, StopClearStep DEF UserStep
<1>2. CASE Interrupt
  BY <1>2, TickStep, CheckServeStep, CallbackReturnStep, CheckEndStep, CallbackStartStep,
     CallbackStopStep DEF Interrupt
<1>3. CASE \E t \in Timer, n \in Times, p \in BOOLEAN : Control(t, n, p)
  BY <1>3, ControlStep
<1>4. CASE UNCHANGED vars
  <2> USE <1>4 DEF vars, objVars, userVars
  <2>1. ListOrdered' /\ \A x \in Range(list) : Left(x)' = Left(x)
    BY KeptList
  <2>2. TimerTypeOK' /\ WorkOK' /\ ExistOK'
    BY DEF TimerInv, TimerSound, TimerTypeOK, WorkOK, Working, ExistOK
  <2>3. LeftBounded'
    BY <2>1 DEF TimerInv, LeftBounded, Soonest
  <2>4. StartingOK'
    BY HeldUpKept DEF TimerInv, StartingOK
  <2> QED BY <2>1, <2>2, <2>3, <2>4 DEF TimerInv, TimerSound
<1> QED BY <1>1, <1>2, <1>3, <1>4 DEF Next

LEMMA TimerInvariant == Spec => []TimerInv
BY TimerInvInit, TimerInvNext, PTL DEF Spec

(* The list holds each timer once and in the order of expiry, although the *)
(* tick counter wraps around, whatever threads and timeout functions start *)
(* and stop.                                                               *)
THEOREM TimersStayInOrder == Spec => []TimerSound
<1>1. TimerInv => TimerSound
  BY DEF TimerInv
<1> QED BY <1>1, TimerInvariant, PTL

(* When rt_timer_stop returns the timer is in the list no more, whatever   *)
(* the tick interrupt did between its steps.                               *)
THEOREM StoppedIsOff == Spec => StopStops
<1>1. TimerInv /\ [Next]_vars =>
        [\A u \in User : pc[u] = "clear" /\ pc'[u] = "run" => arg[u] \notin Range(list')]_vars
  <2> SUFFICES ASSUME TimerInv, Next, NEW u \in User, pc[u] = "clear", pc'[u] = "run"
               PROVE  arg[u] \notin Range(list')
    OBVIOUS
  <2>0. /\ arg[u] \notin Range(list) /\ pc \in [User -> {"run", "start", "insert", "stop", "clear"}]
    BY DEF TimerInv, TimerSound, TimerTypeOK, WorkOK, Working
  <2>1. ASSUME NEW v \in User, UserStep(v) PROVE list' = list
    <3>1. u = v
      BY <2>0, <2>1 DEF UserStep, Start, Stop, Detach, TimerInit, StartRead, StartInsert,
        StopRemove, StopClear, Enter, Step, userVars
    <3> QED BY <2>0, <2>1, <3>1 DEF UserStep, Start, Stop, Detach, TimerInit, StartRead,
      StartInsert, StopRemove, StopClear, Enter, Step, userVars
  <2>2. pc' # pc
    BY DEF vars
  <2>3. ~Interrupt /\ ~(\E t \in Timer, n \in Times, p \in BOOLEAN : Control(t, n, p))
    BY <2>2 DEF Interrupt, Tick, CheckServe, CallbackReturn, CheckEnd, CallbackStart,
      CallbackStop, Control, userVars
  <2> QED BY <2>0, <2>1, <2>3 DEF Next
<1> QED BY <1>1, TimerInvariant, PTL DEF Spec, StopStops

(***************************************************************************)
(* The refinement of AlarmClock, step by step.                             *)
(***************************************************************************)

leftNow == [t \in Timer |-> IF t \in Range(list) THEN Left(t) ELSE 0]

(* A timer leaves the list. *)
LEMMA Disarms ==
  ASSUME TimerInv, NEW t \in Range(list), list' \in Seq(Timer),
         Range(list') = Range(list) \ {t}, \A x \in Range(list') : Left(x)' = Left(x)
  PROVE  leftNow' = [leftNow EXCEPT ![t] = 0]
<1>1. Range(list) \subseteq Timer
  BY ListFacts
<1>2. leftNow' = [x \in Timer |-> IF x \in Range(list') THEN Left(x)' ELSE 0]
  BY DEF leftNow
<1> QED BY <1>1, <1>2 DEF leftNow

(* A timer that has none or other ticks left is given n - d of them. *)
LEMMA Arms ==
  ASSUME TimerInv, NEW t \in Timer, NEW n \in Times, NEW d \in 0 .. MaxDelay,
         irq # "off" => d = 0 /\ irq = "callback", irq' = irq, serving' = serving,
         Range(list') = Range(list) \cup {t}, Left(t)' = n - d,
         \A x \in Range(list) \ {t} : Left(x)' = Left(x)
  PROVE  Alarms!Arm(t)
<1>1. leftNow' = [x \in Timer |-> IF x \in Range(list') THEN Left(x)' ELSE 0]
  BY DEF leftNow
<1>2. ASSUME NEW x \in Timer PROVE leftNow'[x] = [leftNow EXCEPT ![t] = n - d][x]
  BY <1>1 DEF leftNow
<1>3. leftNow' = [leftNow EXCEPT ![t] = n - d]
  BY <1>1, <1>2 DEF leftNow
<1>4. irq # "off" => serving # NoTimer
  BY TimerAssumption DEF TimerInv, ExistOK
<1> QED BY <1>3, <1>4 DEF Alarms!Arm, Alarms!MayWork, leftNow

(* A step that neither lists nor unlists a timer nor starts or ends the    *)
(* interrupt is invisible.                                                 *)
LEMMA Unseen ==
  ASSUME TimerInv, list' = list, irq' = irq, serving' = serving,
         \A x \in Range(list) : Left(x)' = Left(x)
  PROVE  UNCHANGED Alarms!vars
<1>1. leftNow' = [x \in Timer |-> IF x \in Range(list) THEN Left(x)' ELSE 0]
  BY DEF leftNow
<1>2. leftNow' = leftNow
  BY <1>1 DEF leftNow
<1> QED BY <1>2 DEF Alarms!vars, leftNow

(* A step that takes a timer out of the list, if it is there. *)
LEMMA Removes ==
  ASSUME TimerInv, NEW t \in Timer, list' = Off(list, t), tick' = tick, irq' = irq,
         expiry' = expiry, serving' = serving, irq # "check"
  PROVE  [Alarms!Next]_(Alarms!vars)
<1>1. CASE t \in Range(list)
  <2>1. /\ list' \in Seq(Timer) /\ Range(list') = Range(list) \ {t}
        /\ \A x \in Range(list') : Left(x)' = Left(x)
    BY RemovedList
  <2>2. leftNow' = [leftNow EXCEPT ![t] = 0]
    BY <1>1, <2>1, Disarms
  <2>3. irq # "off" => serving # NoTimer
    BY TimerAssumption DEF TimerInv, TimerSound, TimerTypeOK, ExistOK
  <2>4. Alarms!Disarm(t)
    BY <1>1, <2>1, <2>2, <2>3 DEF Alarms!Disarm, Alarms!MayWork, leftNow
  <2> QED BY <2>4 DEF Alarms!Next
<1>2. CASE t \notin Range(list)
  <2>1. list' = list
    BY <1>2 DEF Off
  <2> QED BY <2>1, KeptList, Unseen
<1> QED BY <1>1, <1>2

(* StartNow, by a timeout function. *)
LEMMA StartNowArms ==
  ASSUME TimerInv, NEW t \in Timer, StartNow(t), tick' = tick,
         irq = "callback", irq' = irq, serving' = serving
  PROVE  Alarms!Next
<1>1. /\ Range(list') = Range(list) \cup {t} /\ Left(t)' = init[t]
      /\ \A x \in Range(list) \ {t} : Left(x)' = Left(x)
  BY StartNowFacts
<1>2. init[t] \in Times /\ init[t] - 0 = init[t] /\ 0 \in 0 .. MaxDelay
  BY InitFits, TimesFit
<1>3. Alarms!Arm(t)
  BY <1>1, <1>2, Arms
<1> QED BY <1>3 DEF Alarms!Next

LEMMA UserSteps ==
  ASSUME TimerInv, NEW u \in User, UserStep(u)
  PROVE  [Alarms!Next]_(Alarms!vars)
<1>1. ASSUME NEW t \in Timer, Start(u, t) PROVE [Alarms!Next]_(Alarms!vars)
  BY <1>1, Removes DEF Start, Enter
<1>2. ASSUME NEW t \in Timer, Stop(u, t) PROVE [Alarms!Next]_(Alarms!vars)
  BY <1>2, KeptList, Unseen DEF Stop, Enter
<1>3. ASSUME NEW t \in Timer, Detach(u, t) PROVE [Alarms!Next]_(Alarms!vars)
  BY <1>3, Removes DEF Detach
<1>4. ASSUME NEW t \in Timer, NEW n \in Times, NEW p \in BOOLEAN, TimerInit(u, t, n, p)
      PROVE  [Alarms!Next]_(Alarms!vars)
  <2>1. \A x \in Range(list) : x # t /\ x \in Timer
    BY <1>4, ListFacts DEF TimerInit, TimerInv, ExistOK
  <2>2. /\ list' = list /\ tick' = tick /\ irq' = irq /\ serving' = serving
        /\ \A x \in Range(list) : expiry'[x] = expiry[x]
    BY <1>4, <2>1 DEF TimerInit, TimerInv, TimerSound, TimerTypeOK
  <2> QED BY <2>2, KeptList, Unseen
<1>5. CASE StartRead(u)
  <2>1. arg[u] \notin Range(list)
    BY <1>5 DEF StartRead, Step, TimerInv, WorkOK, Working
  <2>2. /\ list' = list /\ tick' = tick /\ irq' = irq /\ serving' = serving
        /\ \A x \in Range(list) : expiry'[x] = expiry[x]
    BY <1>5, <2>1, ListFacts DEF StartRead, Step, TimerInv, TimerSound, TimerTypeOK
  <2> QED BY <2>2, KeptList, Unseen
<1>6. CASE StartInsert(u)
  <2> PICK t : t = arg[u]
    OBVIOUS
  <2>1. /\ t \in Timer /\ t \notin Range(list) /\ delay[u] \in 0 .. MaxDelay
        /\ Left(t) = init[t] - delay[u] /\ Range(list') = Range(list) \cup {t}
        /\ \A x \in Range(list') : Left(x)' = Left(x)
    BY <1>6, InsertFacts
  <2>2. init[t] \in Times /\ irq = "off" /\ irq' = irq /\ serving' = serving
    BY <1>6, <2>1, InitFits DEF StartInsert, Step
  <2>3. Alarms!Arm(t)
    BY <2>1, <2>2, Arms
  <2> QED BY <2>1, <2>3 DEF Alarms!Next
<1>7. CASE StopRemove(u)
  <2>1. arg[u] \in Timer
    BY <1>7, Worker DEF StopRemove, Step
  <2> QED BY <1>7, <2>1, Removes DEF StopRemove, Step
<1>8. CASE StopClear(u)
  BY <1>8, KeptList, Unseen DEF StopClear, Step
<1> QED BY <1>1, <1>2, <1>3, <1>4, <1>5, <1>6, <1>7, <1>8 DEF UserStep

LEMMA InterruptSteps ==
  ASSUME TimerInv, Interrupt
  PROVE  [Alarms!Next]_(Alarms!vars)
<1>1. CASE Tick
  <2>1. list' = list /\ irq = "off" /\ irq' = "check" /\ serving' = serving
    BY <1>1 DEF Tick
  <2>2. \A x \in Range(list) : Left(x)' = Left(x) - 1 /\ x \in Timer
    BY <1>1, TickFacts, ListFacts
  <2>3. leftNow' = [x \in Timer |-> IF x \in Range(list) THEN Left(x)' ELSE 0]
    BY <2>1 DEF leftNow
  <2>4. leftNow' = [x \in Timer |-> IF x \in Range(list) THEN leftNow[x] - 1 ELSE 0]
    BY <2>2, <2>3 DEF leftNow
  <2>5. Alarms!Tick
    BY <2>1, <2>4 DEF Alarms!Tick, leftNow
  <2> QED BY <2>5 DEF Alarms!Next
<1>2. CASE CheckServe
  <2> PICK t : t = Head(list)
    OBVIOUS
  <2>1. /\ t \in Range(list) /\ t \in Timer /\ Left(t) <= 0
        /\ \A x \in Range(list) : Left(t) <= Left(x)
    BY <1>2, HeadFirst DEF CheckServe
  <2>2. list' = Off(list, t) /\ tick' = tick /\ expiry' = expiry
        /\ irq = "check" /\ irq' = "callback" /\ serving = NoTimer /\ serving' = t
    BY <1>2 DEF CheckServe, TimerInv, ExistOK
  <2>3. /\ list' \in Seq(Timer) /\ Range(list') = Range(list) \ {t}
        /\ \A x \in Range(list') : Left(x)' = Left(x)
    BY <2>2, RemovedList
  <2>4. leftNow' = [leftNow EXCEPT ![t] = 0]
    BY <2>1, <2>3, Disarms
  <2>5. leftNow[t] <= 0 /\ \A x \in Range(list) : leftNow[t] <= leftNow[x]
    BY <2>1, ListFacts DEF leftNow
  <2>6. Alarms!Ring(t)
    BY <2>1, <2>2, <2>3, <2>4, <2>5 DEF Alarms!Ring, leftNow
  <2> QED BY <2>1, <2>6 DEF Alarms!Next
<1>3. CASE CallbackReturn
  <2>1. /\ irq = "callback" /\ irq' = "check" /\ tick' = tick /\ serving' = NoTimer
        /\ serving \in Timer /\ serving # NoTimer
    BY <1>3, TimerAssumption DEF CallbackReturn, TimerInv, ExistOK
  <2>2. leftNow' = [x \in Timer |-> IF x \in Range(list') THEN Left(x)' ELSE 0]
    BY DEF leftNow
  <2>3. CASE serving \in periodic \cap active
    <3> PICK t \in Timer : t = serving
      BY <2>1
    <3>1. StartNow(t)
      BY <1>3, <2>3 DEF CallbackReturn
    <3>2. /\ Range(list') = Range(list) \cup {t} /\ Left(t)' = init[t]
          /\ \A x \in Range(list) \ {t} : Left(x)' = Left(x)
      BY <2>1, <3>1, StartNowFacts
    <3>3. \A x \in Timer : leftNow'[x] = [leftNow EXCEPT ![t] = init[t]][x]
      BY <2>2, <3>2 DEF leftNow
    <3>4. leftNow' = [leftNow EXCEPT ![t] = init[t]] /\ init[t] \in Times
      BY <2>2, <3>3, InitFits DEF leftNow
    <3>5. Alarms!Rung
      BY <2>1, <3>2, <3>4 DEF Alarms!Rung, leftNow
    <3> QED BY <3>5 DEF Alarms!Next
  <2>4. CASE serving \notin periodic \cap active
    <3>1. list' = list /\ expiry' = expiry
      BY <1>3, <2>4 DEF CallbackReturn
    <3>2. leftNow' = leftNow
      BY <2>1, <2>2, <3>1, KeptList DEF leftNow
    <3>3. Alarms!Rung
      BY <2>1, <3>1, <3>2 DEF Alarms!Rung, leftNow
    <3> QED BY <3>3 DEF Alarms!Next
  <2> QED BY <2>3, <2>4
<1>4. CASE CheckEnd
  <2>1. /\ irq = "check" /\ irq' = "off" /\ list' = list /\ tick' = tick /\ expiry' = expiry
        /\ serving = NoTimer /\ serving' = serving
    BY <1>4 DEF CheckEnd, TimerInv, ExistOK
  <2>2. \A x \in Range(list) : Left(x) > 0 /\ x \in Timer
    <3> SUFFICES ASSUME NEW x \in Range(list) PROVE Left(x) > 0
      BY ListFacts
    <3>1. list # <<>>
      BY HeadRange, ListFacts
    <3>2. Left(Head(list)) > 0 /\ Left(Head(list)) <= Left(x)
      BY <1>4, <3>1, HeadFirst, ListFacts DEF CheckEnd
    <3>3. Left(Head(list)) \in Int /\ Left(x) \in Int
      BY <3>1, HeadFirst, ListFacts
    <3> QED BY <3>2, <3>3
  <2>3. leftNow' = [x \in Timer |-> IF x \in Range(list) THEN Left(x)' ELSE 0]
    BY <2>1 DEF leftNow
  <2>4. leftNow' = leftNow
    BY <2>1, <2>3, KeptList DEF leftNow
  <2>5. Alarms!Silence
    BY <2>1, <2>2, <2>4 DEF Alarms!Silence, leftNow
  <2> QED BY <2>5 DEF Alarms!Next
<1>5. ASSUME NEW t \in Timer, CallbackStart(t) PROVE [Alarms!Next]_(Alarms!vars)
  BY <1>5, StartNowArms DEF CallbackStart
<1>6. ASSUME NEW t \in Timer, CallbackStop(t) PROVE [Alarms!Next]_(Alarms!vars)
  BY <1>6, Removes DEF CallbackStop
<1> QED BY <1>1, <1>2, <1>3, <1>4, <1>5, <1>6 DEF Interrupt

(* Every armed timer rings at the tick at which its ticks have passed, not *)
(* before, in the order of their expiry and however the tick counter       *)
(* wraps: what rt_timer_start,                                             *)
(* rt_timer_stop, rt_timer_check and the timeout functions do with the     *)
(* list are steps of AlarmClock.                                           *)
THEOREM TimersKeepTime == Spec => AlarmsPromise
<1>1. Init => Alarms!Init
  <2> SUFFICES ASSUME Init PROVE Alarms!Init
    OBVIOUS
  <2>1. Range(list) = {} /\ irq = "off" /\ serving = NoTimer
    BY HeadRange, EmptySeq DEF Init
  <2>2. leftNow = [t \in Timer |-> 0]
    BY <2>1 DEF leftNow
  <2> QED BY <2>1, <2>2 DEF Alarms!Init, leftNow
<1>2. TimerInv /\ [Next]_vars => [Alarms!Next]_(Alarms!vars)
  <2> SUFFICES ASSUME TimerInv, [Next]_vars PROVE [Alarms!Next]_(Alarms!vars)
    OBVIOUS
  <2>1. ASSUME NEW t \in Timer, NEW n \in Times, NEW p \in BOOLEAN, Control(t, n, p)
        PROVE  [Alarms!Next]_(Alarms!vars)
    BY <2>1, KeptList, Unseen DEF Control
  <2>2. CASE UNCHANGED vars
    BY <2>2, KeptList, Unseen DEF vars
  <2> QED BY <2>1, <2>2, UserSteps, InterruptSteps DEF Next
<1> QED BY <1>1, <1>2, TimerInvariant, PTL DEF Spec, AlarmsPromise
=============================================================================
