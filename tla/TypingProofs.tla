---------------------------- MODULE TypingProofs ----------------------------
(***************************************************************************)
(* Proofs about typing: what the keyboard driver emits for a report is     *)
(* what has changed, the text input's buffer is always drawable and is     *)
(* edited as a line editor would, and shift does not stick.                *)
(***************************************************************************)
EXTENDS Typing, FiniteSetTheorems, SequenceTheorems, WellFoundedInduction, TLAPS

(***************************************************************************)
(* A set of natural numbers that is not empty has a least element.         *)
(***************************************************************************)
LEMMA LeastNatural ==
  ASSUME NEW T, T \subseteq Nat, T # {}
  PROVE  \E x \in T : \A y \in T : x <= y
<1> DEFINE R == OpToRel(<, Nat)
<1>1. IsWellFoundedOn(R, Nat)
  BY NatLessThanWellFounded, Zenon
<1>2. PICK x \in T : \A y \in T : ~ (<<y, x>> \in R)
  <2> HIDE DEF R
  <2> QED BY <1>1, WFMin
<1>3. \A y \in T : ~ (y < x)
  BY <1>2 DEF OpToRel
<1>4. \A y \in T : x <= y
  BY <1>3
<1> QED BY <1>4

(***************************************************************************)
(* Induction on the natural numbers, with the formula as a set.            *)
(***************************************************************************)
LEMMA SetInduction ==
  ASSUME NEW S, 0 \in S, \A n \in Nat : n \in S => n + 1 \in S
  PROVE  Nat \subseteq S
<1> SUFFICES ASSUME Nat \ S # {} PROVE FALSE
  OBVIOUS
<1>1. PICK x \in Nat \ S : \A y \in Nat \ S : x <= y
  BY LeastNatural
<1>2. x # 0 /\ x - 1 \in Nat /\ ~ (x <= x - 1)
  OBVIOUS
<1>3. x - 1 \in S
  BY <1>1, <1>2
<1>4. (x - 1) + 1 \in S
  BY <1>2, <1>3
<1> QED BY <1>4

-----------------------------------------------------------------------------
(***************************************************************************)
(* The driver's loops over the bits and slots of a report append what one  *)
(* turn emits to what the turns before have emitted; `s' holds what each   *)
(* of N turns emits, and f[n] is what the first n have emitted.            *)
(***************************************************************************)
Appended(f, s, N, T) ==
  /\ N \in Nat
  /\ \A n \in 1..N : s[n] \in Seq(T)
  /\ f \in [0..N -> Seq(T)]
  /\ f[0] = <<>>
  /\ \A n \in 1..N : f[n] = f[n - 1] \o s[n]

(***************************************************************************)
(* Such an f exists for every s.                                           *)
(***************************************************************************)
LEMMA AppendedExists ==
  ASSUME NEW T, NEW N \in Nat, NEW s \in [1..N -> Seq(T)]
  PROVE  \E f : Appended(f, s, N, T)
<1> DEFINE S == {m \in Nat : m <= N => \E f : Appended(f, s, m, T)}
<1>1. 0 \in S
  <2>1. PICK g : g = [k \in 0..0 |-> <<>>]
    OBVIOUS
  <2>2. g \in [0..0 -> Seq(T)] /\ g[0] = <<>> /\ 1..0 = {}
    BY <2>1
  <2>3. Appended(g, s, 0, T)
    BY <2>2 DEF Appended
  <2> QED BY <2>3
<1>2. ASSUME NEW m \in Nat, m \in S, m + 1 <= N
      PROVE  \E f : Appended(f, s, m + 1, T)
  <2>1. PICK f : Appended(f, s, m, T)
    BY <1>2
  <2>2. PICK g : g = [k \in 0..m + 1 |-> IF k = m + 1 THEN f[m] \o s[m + 1] ELSE f[k]]
    OBVIOUS
  <2>3. f[m] \o s[m + 1] \in Seq(T)
    <3>1. f[m] \in Seq(T) /\ s[m + 1] \in Seq(T)
      BY <1>2, <2>1 DEF Appended
    <3> QED BY <3>1
  <2>4. g \in [0..m + 1 -> Seq(T)]
    BY <2>1, <2>2, <2>3 DEF Appended
  <2>5. g[0] = <<>>
    BY <2>1, <2>2 DEF Appended
  <2>6. ASSUME NEW n \in 1..m + 1
        PROVE  g[n] = g[n - 1] \o s[n]
    <3>1. CASE n = m + 1
      <4>1. n \in 0..m + 1 /\ m \in 0..m + 1 /\ m # m + 1 /\ n - 1 = m
        BY <3>1
      <4>2. g[n] = f[m] \o s[n] /\ g[n - 1] = f[m]
        BY <4>1, <2>2, <3>1
      <4> QED BY <4>2
    <3>2. CASE n # m + 1
      <4>1. n \in 1..m /\ n - 1 \in 0..m /\ n \in 0..m
        BY <3>2
      <4>2. g[n] = f[n] /\ g[n - 1] = f[n - 1]
        BY <4>1, <2>2
      <4> QED BY <4>1, <4>2, <2>1 DEF Appended
    <3> QED BY <3>1, <3>2
  <2>7. \A n \in 1..m + 1 : s[n] \in Seq(T)
    BY <1>2
  <2>8. Appended(g, s, m + 1, T)
    <3>1. \A n \in 1..m + 1 : g[n] = g[n - 1] \o s[n]
      BY <2>6
    <3>2. m + 1 \in Nat
      OBVIOUS
    <3> QED BY <2>4, <2>5, <2>7, <3>1, <3>2, Zenon DEF Appended
  <2> QED BY <2>8
<1>3. \A m \in Nat : m \in S => m + 1 \in S
  <2> TAKE m \in Nat
  <2> HAVE m \in S
  <2>1. CASE m + 1 <= N
    BY <1>2, <2>1
  <2>2. CASE ~ (m + 1 <= N)
    BY <2>2
  <2> QED BY <2>1, <2>2
<1> HIDE DEF S
<1>4. N \in S
  BY <1>1, <1>3, SetInduction
<1> USE DEF S
<1> QED BY <1>4

(***************************************************************************)
(* Every function that meets that recursion is one.                        *)
(***************************************************************************)
LEMMA AppendedIs ==
  ASSUME NEW T, NEW N \in Nat, NEW s \in [1..N -> Seq(T)],
         NEW f, f = [n \in 0..N |-> f[n]], f[0] = <<>>,
         \A n \in 1..N : f[n - 1] \in Seq(T) => f[n] = f[n - 1] \o s[n]
  PROVE  Appended(f, s, N, T)
<1> DEFINE S == {m \in Nat : m <= N => f[m] \in Seq(T)}
<1>2. 0 \in S
  OBVIOUS
<1>3. \A m \in Nat : m \in S => m + 1 \in S
  <2> TAKE m \in Nat
  <2> HAVE m \in S
  <2>1. CASE m + 1 <= N
    <3>1. m + 1 \in 1..N /\ (m + 1) - 1 = m /\ f[m] \in Seq(T) /\ s[m + 1] \in Seq(T)
      BY <2>1
    <3>2. f[m + 1] = f[m] \o s[m + 1]
      <4>1. f[(m + 1) - 1] \in Seq(T) => f[m + 1] = f[(m + 1) - 1] \o s[m + 1]
        BY <3>1, Zenon
      <4>2. f[(m + 1) - 1] = f[m]
        BY <3>1, Zenon
      <4> QED BY <4>1, <4>2, <3>1, Zenon
    <3>3. f[m] \o s[m + 1] \in Seq(T)
      BY <3>1
    <3>4. f[m + 1] \in Seq(T)
      BY <3>2, <3>3, Zenon
    <3>5. m + 1 \in Nat
      OBVIOUS
    <3> QED BY <3>4, <3>5, Zenon
  <2>2. CASE ~ (m + 1 <= N)
    BY <2>2
  <2> QED BY <2>1, <2>2
<1> HIDE DEF S
<1>4. Nat \subseteq S
  BY <1>2, <1>3, SetInduction
<1>5. ASSUME NEW n \in 0..N
      PROVE  f[n] \in Seq(T)
  <2>1. n \in S /\ n <= N
    BY <1>4
  <2> QED BY <2>1, Zenon DEF S
<1>6. f \in [0..N -> Seq(T)]
  BY <1>5, Zenon
<1>7. \A n \in 1..N : s[n] \in Seq(T)
  OBVIOUS
<1>8. ASSUME NEW n \in 1..N
      PROVE  f[n] = f[n - 1] \o s[n]
  <2>1. n - 1 \in 0..N
    OBVIOUS
  <2> QED BY <1>5, <2>1, Zenon
<1> QED BY <1>6, <1>7, <1>8, Zenon DEF Appended

(***************************************************************************)
(* The recursion as equations.                                             *)
(***************************************************************************)
LEMMA AppendedEquations ==
  ASSUME NEW T, NEW N, NEW s, NEW f, Appended(f, s, N, T)
  PROVE  f = [n \in 0..N |-> IF n = 0 THEN <<>> ELSE f[n - 1] \o s[n]]
<1>1. f = [n \in 0..N |-> f[n]]
  BY Zenon DEF Appended
<1>2. ASSUME NEW n \in 0..N
      PROVE  f[n] = IF n = 0 THEN <<>> ELSE f[n - 1] \o s[n]
  <2>1. CASE n = 0
    BY <2>1 DEF Appended
  <2>2. CASE n # 0
    <3>1. n \in 1..N
      BY <2>2 DEF Appended
    <3>2. f[n] = f[n - 1] \o s[n]
      BY <3>1, Zenon DEF Appended
    <3> QED BY <3>2, <2>2, Zenon
  <2> QED BY <2>1, <2>2
<1> QED BY <1>1, <1>2, Zenon

(***************************************************************************)
(* An event has been emitted iff some turn has emitted it.                 *)
(***************************************************************************)
LEMMA AppendedRange ==
  ASSUME NEW T, NEW N, NEW s, NEW f, Appended(f, s, N, T)
  PROVE  \A m \in 0..N : \A e : e \in Range(f[m]) <=> \E n \in 1..m : e \in Range(s[n])
<1> DEFINE S == {m \in Nat : m <= N => Range(f[m]) = UNION {Range(s[n]) : n \in 1..m}}
<1>0. N \in Nat
  BY DEF Appended
<1>1. 0 \in S
  <2>1. Range(f[0]) = {}
    BY DEF Appended, Range
  <2> QED BY <2>1
<1>2. ASSUME NEW m \in Nat, m \in S, m + 1 <= N
      PROVE  Range(f[m + 1]) = UNION {Range(s[n]) : n \in 1..m + 1}
  <2>1. f[m + 1] = f[m] \o s[m + 1] /\ f[m] \in Seq(T) /\ s[m + 1] \in Seq(T)
    <3>1. m + 1 \in 1..N /\ m \in 0..N /\ (m + 1) - 1 = m
      BY <1>0, <1>2
    <3>2. f[m + 1] = f[(m + 1) - 1] \o s[m + 1]
      BY <3>1 DEF Appended
    <3>3. f[m] \in Seq(T) /\ s[m + 1] \in Seq(T)
      BY <3>1 DEF Appended
    <3> QED BY <3>1, <3>2, <3>3
  <2>2. Range(f[m + 1]) = Range(f[m]) \cup Range(s[m + 1])
    BY <2>1, RangeConcatenation
  <2>3. Range(f[m]) = UNION {Range(s[n]) : n \in 1..m}
    BY <1>0, <1>2
  <2>4. 1..m + 1 = 1..m \cup {m + 1}
    BY <1>0, <1>2
  <2> QED BY <2>2, <2>3, <2>4
<1>3. \A m \in Nat : m \in S => m + 1 \in S
  <2> TAKE m \in Nat
  <2> HAVE m \in S
  <2>1. CASE m + 1 <= N
    <3>1. Range(f[m + 1]) = UNION {Range(s[n]) : n \in 1..m + 1}
      BY <1>0, <1>2, <2>1
    <3>2. m + 1 \in Nat
      OBVIOUS
    <3> QED BY <3>1, <3>2, Zenon
  <2>2. CASE ~ (m + 1 <= N)
    BY <1>0, <2>2
  <2> QED BY <2>1, <2>2
<1> HIDE DEF S
<1>4. Nat \subseteq S
  BY <1>0, <1>1, <1>3, SetInduction
<1>5. TAKE m \in 0..N
<1>6. m \in S /\ m <= N
  BY <1>4
<1>7. Range(f[m]) = UNION {Range(s[n]) : n \in 1..m}
  BY <1>6, Zenon DEF S
<1> QED BY <1>7

\* An event occurs in a sequence of events once, or not at all.
Once(q, e) == \A i, j \in DOMAIN q : q[i] = e /\ q[j] = e => i = j

(***************************************************************************)
(* An event that occurs at most once in each half, and not in both, occurs *)
(* at most once in the whole.                                              *)
(***************************************************************************)
LEMMA ConcatOnce ==
  ASSUME NEW T, NEW q \in Seq(T), NEW r \in Seq(T), NEW e,
         Once(q, e), Once(r, e), ~ (e \in Range(q) /\ e \in Range(r))
  PROVE  Once(q \o r, e)
<1>1. /\ DOMAIN q = 1..Len(q) /\ DOMAIN r = 1..Len(r) /\ Len(q) \in Nat /\ Len(r) \in Nat
      /\ DOMAIN (q \o r) = 1..(Len(q) + Len(r))
  OBVIOUS
<1>2. SUFFICES ASSUME NEW i \in 1..(Len(q) + Len(r)), NEW j \in 1..(Len(q) + Len(r)),
                      (q \o r)[i] = e, (q \o r)[j] = e
               PROVE  i = j
  BY <1>1 DEF Once
<1>3. \A n \in 1..(Len(q) + Len(r)) :
        (q \o r)[n] = IF n <= Len(q) THEN q[n] ELSE r[n - Len(q)]
  OBVIOUS
<1>4. ASSUME NEW n \in 1..(Len(q) + Len(r)), (q \o r)[n] = e
      PROVE  \/ n \in 1..Len(q) /\ q[n] = e /\ e \in Range(q)
             \/ n - Len(q) \in 1..Len(r) /\ r[n - Len(q)] = e /\ e \in Range(r)
  <2>1. CASE n <= Len(q)
    BY <1>1, <1>3, <1>4, <2>1 DEF Range
  <2>2. CASE ~ (n <= Len(q))
    <3>1. n - Len(q) \in 1..Len(r) /\ r[n - Len(q)] = e
      BY <1>1, <1>3, <1>4, <2>2
    <3> QED BY <1>1, <3>1 DEF Range
  <2> QED BY <2>1, <2>2
<1>5. CASE e \in Range(q)
  <2>1. i \in 1..Len(q) /\ q[i] = e /\ j \in 1..Len(q) /\ q[j] = e
    BY <1>2, <1>4, <1>5
  <2> QED BY <2>1, <1>1 DEF Once
<1>6. CASE e \notin Range(q)
  <2>1. /\ i - Len(q) \in 1..Len(r) /\ r[i - Len(q)] = e
        /\ j - Len(q) \in 1..Len(r) /\ r[j - Len(q)] = e
    BY <1>2, <1>4, <1>6
  <2>2. i - Len(q) = j - Len(q)
    BY <2>1, <1>1 DEF Once
  <2> QED BY <2>2, <1>1
<1> QED BY <1>5, <1>6

(***************************************************************************)
(* An event that a turn emits at most once, and at most one turn emits,    *)
(* occurs at most once.                                                    *)
(***************************************************************************)
LEMMA AppendedOnce ==
  ASSUME NEW T, NEW N, NEW s, NEW f, Appended(f, s, N, T), NEW e,
         \A n \in 1..N : Once(s[n], e),
         \A m, n \in 1..N : e \in Range(s[m]) /\ e \in Range(s[n]) => m = n
  PROVE  Once(f[N], e)
<1> DEFINE S == {m \in Nat : m <= N => Once(f[m], e)}
<1>0. N \in Nat
  BY DEF Appended
<1>1. 0 \in S
  <2>1. f[0] = <<>>
    BY DEF Appended
  <2>2. DOMAIN f[0] = {}
    BY <2>1
  <2>3. Once(f[0], e)
    BY <2>2, Zenon DEF Once
  <2>4. 0 \in Nat
    OBVIOUS
  <2> QED BY <2>3, <2>4, Zenon
<1>2. ASSUME NEW m \in Nat, m \in S, m + 1 <= N
      PROVE  Once(f[m + 1], e)
  <2>1. m + 1 \in 1..N /\ m \in 0..N /\ (m + 1) - 1 = m
    BY <1>0, <1>2
  <2>2. f[m + 1] = f[(m + 1) - 1] \o s[m + 1]
    BY <2>1 DEF Appended
  <2>3. f[m] \in Seq(T) /\ s[m + 1] \in Seq(T)
    BY <2>1 DEF Appended
  <2>4. Once(f[m], e) /\ Once(s[m + 1], e)
    BY <1>0, <1>2, <2>1
  <2>5. e \in Range(f[m]) <=> \E n \in 1..m : e \in Range(s[n])
    BY <2>1, AppendedRange
  <2>6. ASSUME e \in Range(f[m]), e \in Range(s[m + 1])
        PROVE  FALSE
    <3>1. PICK n \in 1..m : e \in Range(s[n])
      BY <2>5, <2>6
    <3>2. n \in 1..N /\ n # m + 1
      BY <1>0, <2>1
    <3> QED BY <3>1, <3>2, <2>1, <2>6
  <2>7. Once(f[m] \o s[m + 1], e)
    BY <2>3, <2>4, <2>6, ConcatOnce
  <2> QED BY <2>7, <2>2, <2>1
<1>3. \A m \in Nat : m \in S => m + 1 \in S
  <2> TAKE m \in Nat
  <2> HAVE m \in S
  <2>1. CASE m + 1 <= N
    <3>1. Once(f[m + 1], e)
      BY <1>0, <1>2, <2>1
    <3>2. m + 1 \in Nat
      OBVIOUS
    <3> QED BY <3>1, <3>2, Zenon
  <2>2. CASE ~ (m + 1 <= N)
    BY <1>0, <2>2
  <2> QED BY <2>1, <2>2
<1> HIDE DEF S
<1>4. N \in S
  BY <1>0, <1>1, <1>3, SetInduction
<1> USE DEF S
<1> QED BY <1>4

-----------------------------------------------------------------------------
\* What the n-th turn of the loop over the modifiers emits.
ModifierTurn(old, new, n) ==
  IF (n - 1 \in old.modifiers) = (n - 1 \in new.modifiers) THEN <<>>
  ELSE IF n - 1 \in new.modifiers THEN Down(KEY_LEFTCTRL + n - 1)
  ELSE Up(KEY_LEFTCTRL + n - 1)

\* What the n-th turn of the loop over the slots emits.
KeyTurn(old, new, n) ==
     (IF ~report_contains_key(new, old.keypress[n]) THEN Up(old.keypress[n]) ELSE <<>>)
  \o (IF ~report_contains_key(old, new.keypress[n]) THEN Down(new.keypress[n]) ELSE <<>>)

(***************************************************************************)
(* An event for a key is a sequence of one event.                          *)
(***************************************************************************)
LEMMA OneEvent ==
  ASSUME NEW k
  PROVE  /\ k \in AllKeys => Down(k) \in Seq(KeyEvent) /\ Up(k) \in Seq(KeyEvent)
         /\ Range(Down(k)) = {[type |-> "down", key |-> k]}
         /\ Range(Up(k)) = {[type |-> "up", key |-> k]}
         /\ \A e : Once(Down(k), e) /\ Once(Up(k), e)
<1>1. ASSUME NEW e
      PROVE  DOMAIN <<e>> = {1} /\ <<e>>[1] = e
  OBVIOUS
<1>2. ASSUME NEW T, NEW e \in T
      PROVE  <<e>> \in Seq(T)
  OBVIOUS
<1>3. k \in AllKeys => /\ [type |-> "down", key |-> k] \in KeyEvent
                       /\ [type |-> "up", key |-> k] \in KeyEvent
  BY DEF KeyEvent
<1>4. k \in AllKeys => Down(k) \in Seq(KeyEvent) /\ Up(k) \in Seq(KeyEvent)
  BY <1>2, <1>3, Zenon DEF Down, Up
<1>5. /\ Range(Down(k)) = {[type |-> "down", key |-> k]}
      /\ Range(Up(k)) = {[type |-> "up", key |-> k]}
  BY <1>1 DEF Range, Down, Up
<1>6. \A e : Once(Down(k), e) /\ Once(Up(k), e)
  BY <1>1 DEF Once, Down, Up
<1> QED BY <1>4, <1>5, <1>6

(***************************************************************************)
(* The keys a report can list.                                             *)
(***************************************************************************)
LEMMA ReportKeys ==
  ASSUME NEW report \in Report
  PROVE  /\ report.modifiers \subseteq Modifiers
         /\ \A n \in 1..Slots : report.keypress[n] \in Keys \cup NoKeys /\ report.keypress[n] \in AllKeys
         /\ \A i \in report.modifiers : i \in 0..7 /\ KEY_LEFTCTRL + i \in ModifierKeys
BY KeyboardAssumption DEF Report, AllKeys, NoKeys, ModifierKeys

(***************************************************************************)
(* The empty sequence emits nothing.                                       *)
(***************************************************************************)
LEMMA NoEvent ==
  /\ \A T : <<>> \in Seq(T)
  /\ Range(<<>>) = {}
  /\ \A e : Once(<<>>, e)
<1>1. DOMAIN <<>> = {}
  OBVIOUS
<1>2. Range(<<>>) = {}
  BY <1>1 DEF Range
<1>3. \A e : Once(<<>>, e)
  BY <1>1, Zenon DEF Once
<1> QED BY <1>2, <1>3

(***************************************************************************)
(* What a turn of the loop over the modifiers emits: an event for the      *)
(* modifier if it has changed.                                             *)
(***************************************************************************)
LEMMA ModifierTurnIs ==
  ASSUME NEW old \in Report, NEW new \in Report, NEW n \in 1..8
  PROVE  /\ ModifierTurn(old, new, n) \in Seq(KeyEvent)
         /\ \A e : Once(ModifierTurn(old, new, n), e)
         /\ \A e : e \in Range(ModifierTurn(old, new, n)) <=>
               \/ /\ n - 1 \in new.modifiers \ old.modifiers
                  /\ e = [type |-> "down", key |-> KEY_LEFTCTRL + (n - 1)]
               \/ /\ n - 1 \in old.modifiers \ new.modifiers
                  /\ e = [type |-> "up", key |-> KEY_LEFTCTRL + (n - 1)]
<1>1. KEY_LEFTCTRL + n - 1 = KEY_LEFTCTRL + (n - 1)
  BY DEF KEY_LEFTCTRL
<1>2. CASE (n - 1 \in old.modifiers) = (n - 1 \in new.modifiers)
  <2>1. ModifierTurn(old, new, n) = <<>>
    BY <1>2, Zenon DEF ModifierTurn
  <2> QED BY <2>1, <1>2, NoEvent, Zenon
<1>3. CASE n - 1 \in new.modifiers /\ n - 1 \notin old.modifiers
  <2>1. ModifierTurn(old, new, n) = Down(KEY_LEFTCTRL + (n - 1))
    BY <1>3, <1>1, Zenon DEF ModifierTurn
  <2>2. KEY_LEFTCTRL + (n - 1) \in AllKeys
    <3>1. KEY_LEFTCTRL + (n - 1) \in ModifierKeys
      BY <1>3, ReportKeys
    <3> QED BY <3>1 DEF AllKeys
  <2>3. /\ ModifierTurn(old, new, n) \in Seq(KeyEvent)
        /\ Range(ModifierTurn(old, new, n)) = {[type |-> "down", key |-> KEY_LEFTCTRL + (n - 1)]}
        /\ \A e : Once(ModifierTurn(old, new, n), e)
    BY <2>1, <2>2, OneEvent
  <2> QED BY <2>3, <1>3, Zenon
<1>4. CASE n - 1 \in old.modifiers /\ n - 1 \notin new.modifiers
  <2>1. ModifierTurn(old, new, n) = Up(KEY_LEFTCTRL + (n - 1))
    BY <1>4, <1>1, Zenon DEF ModifierTurn
  <2>2. KEY_LEFTCTRL + (n - 1) \in AllKeys
    <3>1. KEY_LEFTCTRL + (n - 1) \in ModifierKeys
      BY <1>4, ReportKeys
    <3> QED BY <3>1 DEF AllKeys
  <2>3. /\ ModifierTurn(old, new, n) \in Seq(KeyEvent)
        /\ Range(ModifierTurn(old, new, n)) = {[type |-> "up", key |-> KEY_LEFTCTRL + (n - 1)]}
        /\ \A e : Once(ModifierTurn(old, new, n), e)
    BY <2>1, <2>2, OneEvent
  <2> QED BY <2>3, <1>4, Zenon
<1>5. \/ (n - 1 \in old.modifiers) = (n - 1 \in new.modifiers)
      \/ n - 1 \in new.modifiers /\ n - 1 \notin old.modifiers
      \/ n - 1 \in old.modifiers /\ n - 1 \notin new.modifiers
  OBVIOUS
<1> QED BY <1>2, <1>3, <1>4, <1>5, Zenon

(***************************************************************************)
(* What a turn of the loop over the slots emits: the key in the slot has   *)
(* gone up if the new report does not list it, and the key that is now in  *)
(* the slot has gone down if the old report did not list it.               *)
(***************************************************************************)
LEMMA KeyTurnIs ==
  ASSUME NEW old \in Report, NEW new \in Report, NEW n \in 1..Slots
  PROVE  /\ KeyTurn(old, new, n) \in Seq(KeyEvent)
         /\ \A e : Once(KeyTurn(old, new, n), e)
         /\ \A e : e \in Range(KeyTurn(old, new, n)) <=>
               \/ /\ ~report_contains_key(old, new.keypress[n])
                  /\ e = [type |-> "down", key |-> new.keypress[n]]
               \/ /\ ~report_contains_key(new, old.keypress[n])
                  /\ e = [type |-> "up", key |-> old.keypress[n]]
<1>1. PICK u : u = IF ~report_contains_key(new, old.keypress[n]) THEN Up(old.keypress[n]) ELSE <<>>
  OBVIOUS
<1>2. PICK d : d = IF ~report_contains_key(old, new.keypress[n]) THEN Down(new.keypress[n]) ELSE <<>>
  OBVIOUS
<1>3. KeyTurn(old, new, n) = u \o d
  BY <1>1, <1>2, Zenon DEF KeyTurn
<1>4. old.keypress[n] \in AllKeys /\ new.keypress[n] \in AllKeys
  BY ReportKeys
<1>5. /\ u \in Seq(KeyEvent)
      /\ \A e : Once(u, e)
      /\ \A e : e \in Range(u) <=> /\ ~report_contains_key(new, old.keypress[n])
                                   /\ e = [type |-> "up", key |-> old.keypress[n]]
  BY <1>1, <1>4, OneEvent, NoEvent, Zenon
<1>6. /\ d \in Seq(KeyEvent)
      /\ \A e : Once(d, e)
      /\ \A e : e \in Range(d) <=> /\ ~report_contains_key(old, new.keypress[n])
                                   /\ e = [type |-> "down", key |-> new.keypress[n]]
  BY <1>2, <1>4, OneEvent, NoEvent, Zenon
<1>7. u \o d \in Seq(KeyEvent)
  BY <1>5, <1>6
<1>8. Range(u \o d) = Range(u) \cup Range(d)
  BY <1>5, <1>6, RangeConcatenation
<1>9. \A e : ~ (e \in Range(u) /\ e \in Range(d))
  <2> SUFFICES ASSUME NEW e, e \in Range(u), e \in Range(d) PROVE FALSE
    OBVIOUS
  <2>1. e.type = "up"
    <3>1. e = [type |-> "up", key |-> old.keypress[n]]
      BY <1>5, Zenon
    <3> QED BY <3>1
  <2>2. e.type = "down"
    <3>1. e = [type |-> "down", key |-> new.keypress[n]]
      BY <1>6, Zenon
    <3> QED BY <3>1
  <2> QED BY <2>1, <2>2
<1>10. \A e : Once(u \o d, e)
  BY <1>5, <1>6, <1>9, ConcatOnce
<1> QED BY <1>3, <1>5, <1>6, <1>7, <1>8, <1>10, Zenon

(***************************************************************************)
(* The events for the modifiers: one for every modifier that has changed.  *)
(***************************************************************************)
LEMMA ModifierEventsAre ==
  ASSUME NEW old \in Report, NEW new \in Report
  PROVE  /\ ModifierEvents(old, new) \in Seq(KeyEvent)
         /\ \A e : Once(ModifierEvents(old, new), e)
         /\ \A e : e \in Range(ModifierEvents(old, new)) <=>
               \/ \E i \in new.modifiers \ old.modifiers : e = [type |-> "down", key |-> KEY_LEFTCTRL + i]
               \/ \E i \in old.modifiers \ new.modifiers : e = [type |-> "up", key |-> KEY_LEFTCTRL + i]
<1>1. PICK s : s = [n \in 1..8 |-> ModifierTurn(old, new, n)]
  OBVIOUS
<1>2. s \in [1..8 -> Seq(KeyEvent)] /\ \A n \in 1..8 : s[n] = ModifierTurn(old, new, n)
  BY <1>1, ModifierTurnIs
<1>3. PICK f : Appended(f, s, 8, KeyEvent)
  <2>1. 8 \in Nat
    OBVIOUS
  <2> QED BY <2>1, <1>2, AppendedExists
<1>4. f = [n \in 0..8 |-> IF n = 0 THEN <<>> ELSE f[n - 1] \o ModifierTurn(old, new, n)]
  <2>1. f = [n \in 0..8 |-> IF n = 0 THEN <<>> ELSE f[n - 1] \o s[n]]
    BY <1>3, AppendedEquations
  <2>2. \A n \in 0..8 : n # 0 => n \in 1..8
    OBVIOUS
  <2> QED BY <1>2, <2>1, <2>2
<1> DEFINE upTo[n \in 0..8] ==
      IF n = 0 THEN <<>>
      ELSE upTo[n - 1] \o
           (IF (n - 1 \in old.modifiers) = (n - 1 \in new.modifiers) THEN <<>>
            ELSE IF n - 1 \in new.modifiers THEN Down(KEY_LEFTCTRL + n - 1)
            ELSE Up(KEY_LEFTCTRL + n - 1))
<1>5. upTo = [n \in 0..8 |-> IF n = 0 THEN <<>> ELSE upTo[n - 1] \o ModifierTurn(old, new, n)]
  BY <1>4 DEF ModifierTurn
<1>6. ModifierEvents(old, new) = upTo[8]
  BY DEF ModifierEvents
<1> HIDE DEF upTo
<1>7. PICK g : g = upTo
  OBVIOUS
<1>8. g = [n \in 0..8 |-> g[n]] /\ g[0] = <<>> /\ \A n \in 1..8 : g[n] = g[n - 1] \o s[n]
  <2>1. g = [n \in 0..8 |-> IF n = 0 THEN <<>> ELSE g[n - 1] \o ModifierTurn(old, new, n)]
    BY <1>5, <1>7, Zenon
  <2>2. \A n \in 0..8 : g[n] = IF n = 0 THEN <<>> ELSE g[n - 1] \o ModifierTurn(old, new, n)
    BY <2>1, Zenon
  <2>3. g = [n \in 0..8 |-> g[n]]
    BY <2>1, Zenon
  <2>4. 0 \in 0..8 /\ \A n \in 1..8 : n \in 0..8 /\ n # 0
    OBVIOUS
  <2>5. g[0] = <<>>
    BY <2>2, <2>4, Zenon
  <2>6. \A n \in 1..8 : g[n] = g[n - 1] \o s[n]
    BY <2>2, <2>4, <1>2, Zenon
  <2> QED BY <2>3, <2>5, <2>6
<1>9. Appended(g, s, 8, KeyEvent)
  <2>1. 8 \in Nat
    OBVIOUS
  <2>2. \A n \in 1..8 : g[n - 1] \in Seq(KeyEvent) => g[n] = g[n - 1] \o s[n]
    BY <1>8, Zenon
  <2> QED BY <2>1, <2>2, <1>2, <1>8, AppendedIs
<1>10. ModifierEvents(old, new) = g[8] /\ g[8] \in Seq(KeyEvent)
  BY <1>6, <1>7, <1>9 DEF Appended
<1>11. \A e : e \in Range(g[8]) <=> \E n \in 1..8 : e \in Range(s[n])
  BY <1>9, AppendedRange
<1>12. ASSUME NEW e, NEW n \in 1..8
       PROVE  e \in Range(s[n]) <=>
               \/ /\ n - 1 \in new.modifiers \ old.modifiers
                  /\ e = [type |-> "down", key |-> KEY_LEFTCTRL + (n - 1)]
               \/ /\ n - 1 \in old.modifiers \ new.modifiers
                  /\ e = [type |-> "up", key |-> KEY_LEFTCTRL + (n - 1)]
  <2>1. s[n] = ModifierTurn(old, new, n)
    BY <1>2
  <2> QED BY <2>1, ModifierTurnIs
<1>13. ASSUME NEW e
       PROVE  Once(g[8], e)
  <2>1. ASSUME NEW n \in 1..8
        PROVE  Once(s[n], e)
    <3>1. \A x : Once(ModifierTurn(old, new, n), x)
      BY ModifierTurnIs
    <3> QED BY <1>2, <3>1, Zenon
  <2>2. ASSUME NEW n \in 1..8, e \in Range(s[n])
        PROVE  e.key = KEY_LEFTCTRL + (n - 1)
    BY <2>2, <1>12
  <2>3. \A m, n \in 1..8 : e \in Range(s[m]) /\ e \in Range(s[n]) => m = n
    BY <2>2 DEF KEY_LEFTCTRL
  <2> QED BY <1>9, <2>1, <2>3, AppendedOnce
<1>14. ASSUME NEW e, NEW n \in 1..8, e \in Range(s[n])
       PROVE  \/ \E i \in new.modifiers \ old.modifiers : e = [type |-> "down", key |-> KEY_LEFTCTRL + i]
              \/ \E i \in old.modifiers \ new.modifiers : e = [type |-> "up", key |-> KEY_LEFTCTRL + i]
  BY <1>12, <1>14, Zenon
<1>15. ASSUME NEW e,
              \/ \E i \in new.modifiers \ old.modifiers : e = [type |-> "down", key |-> KEY_LEFTCTRL + i]
              \/ \E i \in old.modifiers \ new.modifiers : e = [type |-> "up", key |-> KEY_LEFTCTRL + i]
       PROVE  \E n \in 1..8 : e \in Range(s[n])
  <2>1. PICK i : \/ /\ i \in new.modifiers \ old.modifiers
                    /\ e = [type |-> "down", key |-> KEY_LEFTCTRL + i]
                 \/ /\ i \in old.modifiers \ new.modifiers
                    /\ e = [type |-> "up", key |-> KEY_LEFTCTRL + i]
    BY <1>15
  <2>2. i \in 0..7
    BY <2>1, ReportKeys
  <2>3. i + 1 \in 1..8 /\ (i + 1) - 1 = i
    BY <2>2
  <2>4. e \in Range(s[i + 1])
    BY <2>1, <2>3, <1>12
  <2> QED BY <2>3, <2>4
<1> QED BY <1>10, <1>11, <1>13, <1>14, <1>15, Zenon

(***************************************************************************)
(* The events for the ordinary keys are what the turns of the loop over    *)
(* the slots emit.                                                         *)
(***************************************************************************)
LEMMA KeyEventsLoop ==
  ASSUME NEW old \in Report, NEW new \in Report
  PROVE  \E s, g : /\ Appended(g, s, Slots, KeyEvent)
                   /\ \A n \in 1..Slots : s[n] = KeyTurn(old, new, n)
                   /\ KeyEvents(old, new) = g[Slots]
<1>1. PICK s : s = [n \in 1..Slots |-> KeyTurn(old, new, n)]
  OBVIOUS
<1>2. s \in [1..Slots -> Seq(KeyEvent)] /\ \A n \in 1..Slots : s[n] = KeyTurn(old, new, n)
  BY <1>1, KeyTurnIs
<1>3. Slots \in Nat
  BY KeyboardAssumption
<1>4. PICK f : Appended(f, s, Slots, KeyEvent)
  BY <1>2, <1>3, AppendedExists
<1> DEFINE Ups(n) == IF ~report_contains_key(new, old.keypress[n]) THEN Up(old.keypress[n]) ELSE <<>>
           Downs(n) == IF ~report_contains_key(old, new.keypress[n]) THEN Down(new.keypress[n]) ELSE <<>>
<1>5. ASSUME NEW h, NEW n \in 1..Slots, h \in Seq(KeyEvent)
      PROVE  h \o Ups(n) \o Downs(n) = h \o s[n]
  <2>1. old.keypress[n] \in AllKeys /\ new.keypress[n] \in AllKeys
    BY ReportKeys
  <2>2. Ups(n) \in Seq(KeyEvent) /\ Downs(n) \in Seq(KeyEvent)
    BY <2>1, OneEvent, NoEvent, Zenon
  <2>3. s[n] = Ups(n) \o Downs(n)
    BY <1>2, Zenon DEF KeyTurn
  <2> HIDE DEF Ups, Downs
  <2> QED BY <1>5, <2>2, <2>3, ConcatAssociative
<1> HIDE DEF Ups, Downs
<1>6. f = [n \in 0..Slots |-> IF n = 0 THEN <<>> ELSE f[n - 1] \o Ups(n) \o Downs(n)]
  <2>1. f = [n \in 0..Slots |-> IF n = 0 THEN <<>> ELSE f[n - 1] \o s[n]]
    BY <1>4, AppendedEquations
  <2>2. ASSUME NEW n \in 0..Slots, n # 0
        PROVE  f[n - 1] \o s[n] = f[n - 1] \o Ups(n) \o Downs(n)
    <3>1. n \in 1..Slots /\ n - 1 \in 0..Slots
      BY <2>2, <1>3
    <3>2. f[n - 1] \in Seq(KeyEvent)
      BY <3>1, <1>4, Zenon DEF Appended
    <3> QED BY <1>5, <3>1, <3>2, Zenon
  <2> QED BY <2>1, <2>2, Zenon
<1> USE DEF Ups, Downs
<1> DEFINE upTo[n \in 0..Slots] ==
      IF n = 0 THEN <<>>
      ELSE upTo[n - 1]
             \o (IF ~report_contains_key(new, old.keypress[n]) THEN Up(old.keypress[n]) ELSE <<>>)
             \o (IF ~report_contains_key(old, new.keypress[n]) THEN Down(new.keypress[n]) ELSE <<>>)
<1>7. upTo = [n \in 0..Slots |-> IF n = 0 THEN <<>> ELSE upTo[n - 1] \o Ups(n) \o Downs(n)]
  BY <1>6
<1>8. KeyEvents(old, new) = upTo[Slots]
  BY DEF KeyEvents
<1> HIDE DEF upTo, Ups, Downs
<1>9. PICK g : g = upTo
  OBVIOUS
<1>10. g = [n \in 0..Slots |-> IF n = 0 THEN <<>> ELSE g[n - 1] \o Ups(n) \o Downs(n)]
  BY <1>7, <1>9, Zenon
<1>11. \A n \in 0..Slots : g[n] = IF n = 0 THEN <<>> ELSE g[n - 1] \o Ups(n) \o Downs(n)
  BY <1>10, Zenon
<1>12. g = [n \in 0..Slots |-> g[n]]
  BY <1>10, Zenon
<1>13. 0 \in 0..Slots /\ \A n \in 1..Slots : n \in 0..Slots /\ n # 0
  BY <1>3
<1>14. g[0] = <<>>
  BY <1>11, <1>13, Zenon
<1>15. \A n \in 1..Slots : g[n - 1] \in Seq(KeyEvent) => g[n] = g[n - 1] \o s[n]
  BY <1>5, <1>11, <1>13, Zenon
<1>16. Appended(g, s, Slots, KeyEvent)
  BY <1>2, <1>3, <1>12, <1>14, <1>15, AppendedIs
<1> QED BY <1>2, <1>8, <1>9, <1>16

(***************************************************************************)
(* An ordinary key is in at most one slot of a report.                     *)
(***************************************************************************)
LEMMA SlotsDiffer ==
  ASSUME NEW report \in Reports, NEW i \in 1..Slots, NEW j \in 1..Slots,
         report.keypress[i] = report.keypress[j], report.keypress[i] \notin NoKeys
  PROVE  i = j
<1>1. PICK pressed \in Chords : report \in ReportsOf(pressed)
  BY DEF Reports
<1>2. ~ (Cardinality(pressed) > Slots)
  BY <1>1 DEF ReportsOf, NoKeys
<1>3. /\ \A k \in pressed : Cardinality({n \in 1..Slots : report.keypress[n] = k}) = 1
      /\ \A n \in 1..Slots : report.keypress[n] \in pressed \cup {KEY_NONE}
  BY <1>1, <1>2, Zenon DEF ReportsOf
<1>4. PICK k : k = report.keypress[i]
  OBVIOUS
<1>5. PICK S : S = {n \in 1..Slots : report.keypress[n] = k}
  OBVIOUS
<1>6. k \in pressed
  BY <1>3, <1>4 DEF NoKeys
<1>7. Cardinality(S) = 1
  BY <1>3, <1>5, <1>6, Zenon
<1>8. IsFiniteSet(1..Slots)
  BY KeyboardAssumption, FS_Interval
<1>9. S \in SUBSET (1..Slots)
  BY <1>5
<1>10. IsFiniteSet(S)
  BY <1>8, <1>9, FS_Subset
<1>11. PICK x : S = {x}
  BY <1>7, <1>10, FS_Singleton
<1>12. i \in S /\ j \in S
  BY <1>4, <1>5
<1> QED BY <1>11, <1>12

(***************************************************************************)
(* The events for the ordinary keys: down for what only the new report     *)
(* lists, up for what only the old one does, and each of them once.        *)
(***************************************************************************)
LEMMA KeyEventsAre ==
  ASSUME NEW old \in Reports, NEW new \in Reports
  PROVE  /\ KeyEvents(old, new) \in Seq(KeyEvent)
         /\ \A e : e.key \notin NoKeys => Once(KeyEvents(old, new), e)
         /\ \A e : e \in Range(KeyEvents(old, new)) <=>
               \/ \E n \in 1..Slots : /\ ~report_contains_key(old, new.keypress[n])
                                      /\ e = [type |-> "down", key |-> new.keypress[n]]
               \/ \E n \in 1..Slots : /\ ~report_contains_key(new, old.keypress[n])
                                      /\ e = [type |-> "up", key |-> old.keypress[n]]
<1>1. old \in Report /\ new \in Report
  BY DEF Reports, ReportsOf
<1>2. PICK s, g : /\ Appended(g, s, Slots, KeyEvent)
                  /\ \A n \in 1..Slots : s[n] = KeyTurn(old, new, n)
                  /\ KeyEvents(old, new) = g[Slots]
  BY <1>1, KeyEventsLoop
<1>3. Slots \in Nat /\ Slots \in 0..Slots
  BY KeyboardAssumption
<1>4. g[Slots] \in Seq(KeyEvent)
  BY <1>2, <1>3 DEF Appended
<1>5. ASSUME NEW e, NEW n \in 1..Slots
      PROVE  e \in Range(s[n]) <=>
               \/ /\ ~report_contains_key(old, new.keypress[n])
                  /\ e = [type |-> "down", key |-> new.keypress[n]]
               \/ /\ ~report_contains_key(new, old.keypress[n])
                  /\ e = [type |-> "up", key |-> old.keypress[n]]
  <2>1. s[n] = KeyTurn(old, new, n)
    BY <1>2
  <2> QED BY <1>1, <2>1, KeyTurnIs
<1>6. \A e : e \in Range(g[Slots]) <=> \E n \in 1..Slots : e \in Range(s[n])
  BY <1>2, <1>3, AppendedRange
<1>7. ASSUME NEW e, e.key \notin NoKeys
      PROVE  Once(g[Slots], e)
  <2>1. ASSUME NEW n \in 1..Slots
        PROVE  Once(s[n], e)
    <3>1. \A x : Once(KeyTurn(old, new, n), x)
      BY <1>1, KeyTurnIs
    <3> QED BY <1>2, <3>1, Zenon
  <2>2. ASSUME NEW m \in 1..Slots, NEW n \in 1..Slots, e \in Range(s[m]), e \in Range(s[n])
        PROVE  m = n
    <3>1. \/ e.type = "down" /\ e.key = new.keypress[m]
          \/ e.type = "up" /\ e.key = old.keypress[m]
      BY <1>5, <2>2
    <3>2. \/ e.type = "down" /\ e.key = new.keypress[n]
          \/ e.type = "up" /\ e.key = old.keypress[n]
      BY <1>5, <2>2
    <3>3. \/ new.keypress[m] = new.keypress[n] /\ new.keypress[m] \notin NoKeys
          \/ old.keypress[m] = old.keypress[n] /\ old.keypress[m] \notin NoKeys
      BY <3>1, <3>2, <1>7
    <3> QED BY <3>3, SlotsDiffer
  <2>3. \A m, n \in 1..Slots : e \in Range(s[m]) /\ e \in Range(s[n]) => m = n
    BY <2>2
  <2> QED BY <1>2, <2>1, <2>3, AppendedOnce
<1>8. \A e : (\E n \in 1..Slots : e \in Range(s[n])) <=>
               \/ \E n \in 1..Slots : /\ ~report_contains_key(old, new.keypress[n])
                                      /\ e = [type |-> "down", key |-> new.keypress[n]]
               \/ \E n \in 1..Slots : /\ ~report_contains_key(new, old.keypress[n])
                                      /\ e = [type |-> "up", key |-> old.keypress[n]]
  BY <1>5, Zenon
<1> QED BY <1>2, <1>4, <1>6, <1>7, <1>8, Zenon

(***************************************************************************)
(* The keys of a report are in the keyboard's range; the ordinary keys,    *)
(* the modifiers and the marks for no key do not overlap.                  *)
(***************************************************************************)
LEMMA KeyRanges ==
  /\ Keys \subseteq 4..223
  /\ ModifierKeys \subseteq 224..231
  /\ NoKeys = {0, 1}
  /\ AllKeys \subseteq 0..255
  /\ ModifierKeys \cap (Keys \cup NoKeys) = {}
<1>1. Keys \subseteq 4..223
  BY KeyboardAssumption DEF Keys
<1>2. ModifierKeys \subseteq 224..231
  BY KeyboardAssumption DEF ModifierKeys, KEY_LEFTCTRL
<1>3. NoKeys = {0, 1}
  BY DEF NoKeys, KEY_NONE, KEY_ERR_OVF
<1>4. AllKeys \subseteq 0..255
  BY <1>1, <1>2, <1>3 DEF AllKeys
<1>5. ASSUME NEW k \in ModifierKeys, k \in Keys \cup NoKeys
      PROVE  FALSE
  <2>1. k \in 224..231
    BY <1>2
  <2>2. k \notin NoKeys
    BY <2>1, <1>3
  <2>3. k \notin Keys
    BY <2>1, <1>1
  <2> QED BY <2>2, <2>3, <1>5
<1> QED BY <1>1, <1>2, <1>3, <1>4, <1>5

(***************************************************************************)
(* The events of a report, for the keys that are keys: down for what is    *)
(* newly listed, up for what is no longer listed, and each of them once.   *)
(***************************************************************************)
LEMMA EventsAre ==
  ASSUME NEW old \in Reports, NEW new \in Reports
  PROVE  /\ Events(old, new) \in Seq(KeyEvent)
         /\ \A e : e.key \notin NoKeys => Once(Events(old, new), e)
         /\ \A k : k \notin NoKeys =>
               /\ [type |-> "down", key |-> k] \in Range(Events(old, new)) <=>
                    k \in Listed(new) \ Listed(old)
               /\ [type |-> "up", key |-> k] \in Range(Events(old, new)) <=>
                    k \in Listed(old) \ Listed(new)
<1>1. old \in Report /\ new \in Report
  BY DEF Reports, ReportsOf
<1> DEFINE me == ModifierEvents(old, new)
           ke == KeyEvents(old, new)
<1>4. Events(old, new) = me \o ke
  BY DEF Events
<1>5. /\ me \in Seq(KeyEvent)
      /\ \A e : Once(me, e)
      /\ \A e : e \in Range(me) <=>
            \/ \E i \in new.modifiers \ old.modifiers : e = [type |-> "down", key |-> KEY_LEFTCTRL + i]
            \/ \E i \in old.modifiers \ new.modifiers : e = [type |-> "up", key |-> KEY_LEFTCTRL + i]
  BY <1>1, ModifierEventsAre
<1>6. /\ ke \in Seq(KeyEvent)
      /\ \A e : e.key \notin NoKeys => Once(ke, e)
      /\ \A e : e \in Range(ke) <=>
            \/ \E n \in 1..Slots : /\ ~report_contains_key(old, new.keypress[n])
                                   /\ e = [type |-> "down", key |-> new.keypress[n]]
            \/ \E n \in 1..Slots : /\ ~report_contains_key(new, old.keypress[n])
                                   /\ e = [type |-> "up", key |-> old.keypress[n]]
  BY KeyEventsAre
<1> HIDE DEF me, ke
<1>7. me \o ke \in Seq(KeyEvent)
  BY <1>5, <1>6
<1>8. Range(me \o ke) = Range(me) \cup Range(ke)
  BY <1>5, <1>6, RangeConcatenation
<1>9. ASSUME NEW e, e \in Range(me)
      PROVE  e.key \in ModifierKeys
  <2>1. PICK i \in new.modifiers \cup old.modifiers : e.key = KEY_LEFTCTRL + i
    BY <1>5, <1>9
  <2> QED BY <2>1, <1>1, ReportKeys
<1>10. ASSUME NEW e, e \in Range(ke)
       PROVE  e.key \in Keys \cup NoKeys
  <2>1. PICK n \in 1..Slots : e.key = new.keypress[n] \/ e.key = old.keypress[n]
    BY <1>6, <1>10
  <2> QED BY <2>1, <1>1, ReportKeys
<1>11. ASSUME NEW e, e.key \notin NoKeys
       PROVE  Once(me \o ke, e)
  <2>1. ~ (e \in Range(me) /\ e \in Range(ke))
    <3>1. ~ (e.key \in ModifierKeys /\ e.key \in Keys \cup NoKeys)
      BY KeyRanges, Zenon
    <3> QED BY <1>9, <1>10, <3>1, Zenon
  <2> QED BY <2>1, <1>5, <1>6, <1>11, ConcatOnce
<1>12. ASSUME NEW a \in Reports, NEW b \in Reports, a \in Report, b \in Report, NEW k, k \notin NoKeys
       PROVE  k \in Listed(b) \ Listed(a) <=>
                \/ \E i \in b.modifiers \ a.modifiers : k = KEY_LEFTCTRL + i
                \/ \E n \in 1..Slots : ~report_contains_key(a, b.keypress[n]) /\ k = b.keypress[n]
  <2>1. ASSUME NEW r \in Report, r = a \/ r = b
        PROVE  /\ k \in Listed(r) <=> \/ \E i \in r.modifiers : k = KEY_LEFTCTRL + i
                                      \/ report_contains_key(r, k)
               /\ \A i \in r.modifiers : i \in 0..7 /\ KEY_LEFTCTRL + i \in 224..231
               /\ report_contains_key(r, k) => k \in 4..223
    <3>1. report_contains_key(r, k) => k \in Keys
      BY ReportKeys, <1>12 DEF report_contains_key
    <3>2. \A i \in r.modifiers : i \in 0..7 /\ KEY_LEFTCTRL + i \in 224..231
      <4>1. \A i \in r.modifiers : i \in 0..7 /\ KEY_LEFTCTRL + i \in ModifierKeys
        BY ReportKeys
      <4>2. ModifierKeys \subseteq 224..231
        BY KeyRanges, Zenon
      <4> QED BY <4>1, <4>2
    <3>3. k \in Listed(r) <=> \/ \E i \in r.modifiers : k = KEY_LEFTCTRL + i
                              \/ k \in Keys /\ report_contains_key(r, k)
      BY DEF Listed
    <3>4. k \in Keys => k \in 4..223
      BY KeyRanges
    <3> QED BY <3>1, <3>2, <3>3, <3>4, Zenon
  <2>2. \A r \in {a, b} : report_contains_key(r, k) <=> \E n \in 1..Slots : k = r.keypress[n]
    BY DEF report_contains_key
  <2>3. CASE k \in 4..223
    <3>1. \A r \in {a, b} : \A i \in r.modifiers : k # KEY_LEFTCTRL + i
      BY <2>1, <2>3, <1>12
    <3> QED BY <3>1, <2>1, <2>2, <1>12
  <2>4. CASE k \notin 4..223
    <3>1. /\ ~report_contains_key(a, k) /\ ~report_contains_key(b, k)
          /\ \A n \in 1..Slots : k # a.keypress[n] /\ k # b.keypress[n]
      BY <2>1, <2>2, <2>4, <1>12, Zenon
    <3>2. \A i, j : i \in b.modifiers /\ j \in a.modifiers /\ KEY_LEFTCTRL + i = KEY_LEFTCTRL + j => i = j
      BY <2>1, <1>12 DEF KEY_LEFTCTRL
    <3>3. k \in Listed(a) <=> \E i \in a.modifiers : k = KEY_LEFTCTRL + i
      BY <3>1, <2>1, <1>12, Zenon
    <3>4. k \in Listed(b) <=> \E i \in b.modifiers : k = KEY_LEFTCTRL + i
      BY <3>1, <2>1, <1>12, Zenon
    <3> QED BY <3>1, <3>2, <3>3, <3>4
  <2> QED BY <2>3, <2>4
<1>13. ASSUME NEW k, k \notin NoKeys
       PROVE  /\ [type |-> "down", key |-> k] \in Range(me \o ke) <=> k \in Listed(new) \ Listed(old)
              /\ [type |-> "up", key |-> k] \in Range(me \o ke) <=> k \in Listed(old) \ Listed(new)
  <2>1. \A x : /\ [type |-> "down", key |-> k] = [type |-> "down", key |-> x] <=> k = x
               /\ [type |-> "up", key |-> k] = [type |-> "up", key |-> x] <=> k = x
               /\ [type |-> "up", key |-> k] # [type |-> "down", key |-> x]
               /\ [type |-> "down", key |-> k] # [type |-> "up", key |-> x]
    OBVIOUS
  <2>2. [type |-> "down", key |-> k] \in Range(me \o ke) <=> k \in Listed(new) \ Listed(old)
    <3>1. k \in Listed(new) \ Listed(old) <=>
             \/ \E i \in new.modifiers \ old.modifiers : k = KEY_LEFTCTRL + i
             \/ \E n \in 1..Slots : ~report_contains_key(old, new.keypress[n]) /\ k = new.keypress[n]
      BY <1>1, <1>12, <1>13
    <3> QED BY <3>1, <2>1, <1>5, <1>6, <1>8, Zenon
  <2>3. [type |-> "up", key |-> k] \in Range(me \o ke) <=> k \in Listed(old) \ Listed(new)
    <3>1. k \in Listed(old) \ Listed(new) <=>
             \/ \E i \in old.modifiers \ new.modifiers : k = KEY_LEFTCTRL + i
             \/ \E n \in 1..Slots : ~report_contains_key(new, old.keypress[n]) /\ k = old.keypress[n]
      BY <1>1, <1>12, <1>13
    <3> QED BY <3>1, <2>1, <1>5, <1>6, <1>8, Zenon
  <2> QED BY <2>2, <2>3
<1> QED BY <1>4, <1>7, <1>11, <1>13, Zenon

(***************************************************************************)
(* Any two reports are a pair whose events are exactly what has changed.   *)
(***************************************************************************)
LEMMA ReportsExact ==
  ASSUME NEW old \in Reports, NEW new \in Reports
  PROVE  <<old, new>> \in ExactlyReported
<1>0. PICK p : p = <<old, new>>
  OBVIOUS
<1>1. p \in Reports \X Reports /\ p[1] = old /\ p[2] = new
  BY <1>0
<1> DEFINE ev == Events(p[1], p[2])
<1>2. /\ ev \in Seq(KeyEvent)
      /\ \A e : e.key \notin NoKeys => Once(ev, e)
      /\ \A k : k \notin NoKeys =>
           /\ [type |-> "down", key |-> k] \in Range(ev) <=> k \in Listed(new) \ Listed(old)
           /\ [type |-> "up", key |-> k] \in Range(ev) <=> k \in Listed(old) \ Listed(new)
  BY <1>1, EventsAre
<1> HIDE DEF ev
<1> DEFINE changed(type) == {n \in DOMAIN ev : ev[n].type = type /\ ev[n].key \notin NoKeys}
           keys(type) == {ev[n].key : n \in changed(type)}
<1>3. DOMAIN ev = 1..Len(ev) /\ Len(ev) \in Nat
  BY <1>2
<1>4. ASSUME NEW n \in DOMAIN ev
      PROVE  ev[n] \in KeyEvent /\ ev[n] = [type |-> ev[n].type, key |-> ev[n].key] /\ ev[n] \in Range(ev)
  <2>1. ev[n] \in KeyEvent /\ ev[n] \in Range(ev)
    BY <1>2, <1>3 DEF Range
  <2> QED BY <2>1 DEF KeyEvent
<1>5. \A type : keys(type) = {k \in AllKeys \ NoKeys : [type |-> type, key |-> k] \in Range(ev)}
  <2> TAKE type
  <2>1. ASSUME NEW n \in changed(type)
        PROVE  /\ ev[n].key \in AllKeys \ NoKeys
               /\ [type |-> type, key |-> ev[n].key] \in Range(ev)
    BY <1>4, <2>1 DEF KeyEvent
  <2>2. ASSUME NEW k \in AllKeys \ NoKeys, [type |-> type, key |-> k] \in Range(ev)
        PROVE  \E n \in changed(type) : k = ev[n].key
    <3>1. PICK n \in DOMAIN ev : ev[n] = [type |-> type, key |-> k]
      BY <2>2 DEF Range
    <3> QED BY <3>1
  <2> QED BY <2>1, <2>2
<1>6. Listed(old) \subseteq AllKeys \ NoKeys /\ Listed(new) \subseteq AllKeys \ NoKeys
  <2>1. ASSUME NEW r \in Reports
        PROVE  Listed(r) \subseteq AllKeys \ NoKeys
    <3>1. r \in Report
      BY DEF Reports, ReportsOf
    <3>2. Listed(r) \subseteq ModifierKeys \cup Keys
      BY <3>1, ReportKeys DEF Listed
    <3>3. ModifierKeys \cup Keys \subseteq AllKeys
      BY DEF AllKeys
    <3>4. Keys \cap NoKeys = {}
      BY KeyRanges
    <3>5. ModifierKeys \cap NoKeys = {}
      BY KeyRanges
    <3> QED BY <3>2, <3>3, <3>4, <3>5
  <2> QED BY <2>1
<1>7. keys("down") = Listed(new) \ Listed(old)
  <2>1. keys("down") = {k \in AllKeys \ NoKeys : [type |-> "down", key |-> k] \in Range(ev)}
    BY <1>5
  <2> HIDE DEF keys
  <2> QED BY <2>1, <1>2, <1>6
<1>8. keys("up") = Listed(old) \ Listed(new)
  <2>1. keys("up") = {k \in AllKeys \ NoKeys : [type |-> "up", key |-> k] \in Range(ev)}
    BY <1>5
  <2> HIDE DEF keys
  <2> QED BY <2>1, <1>2, <1>6
<1>9. ASSUME NEW type
      PROVE  Cardinality(changed(type)) = Cardinality(keys(type))
  <2>1. IsFiniteSet(changed(type))
    <3>1. IsFiniteSet(1..Len(ev))
      BY <1>3, FS_Interval
    <3>2. changed(type) \in SUBSET (1..Len(ev))
      BY <1>3
    <3> QED BY <3>1, <3>2, FS_Subset
  <2>2. PICK b : b = [n \in changed(type) |-> ev[n].key]
    OBVIOUS
  <2>3. ASSUME NEW m \in changed(type), NEW n \in changed(type), ev[m].key = ev[n].key
        PROVE  m = n
    <3>1. ev[m] = ev[n] /\ ev[n].key \notin NoKeys
      BY <1>4, <2>3
    <3>2. Once(ev, ev[n])
      BY <3>1, <1>2
    <3> QED BY <3>1, <3>2 DEF Once
  <2>4. b \in Bijection(changed(type), keys(type))
    BY <2>2, <2>3 DEF Bijection, Injection, Surjection, IsInjective
  <2>5. ExistsBijection(changed(type), keys(type))
    BY <2>4 DEF ExistsBijection
  <2> QED BY <2>1, <2>5, FS_Bijection
<1>10. /\ keys("down") = Listed(p[2]) \ Listed(p[1])
       /\ keys("up") = Listed(p[1]) \ Listed(p[2])
       /\ \A type \in {"down", "up"} : Cardinality(changed(type)) = Cardinality(keys(type))
  <2> HIDE DEF changed, keys
  <2> QED BY <1>1, <1>7, <1>8, <1>9, Zenon
<1>11. p \in ExactlyReported
  BY <1>1, <1>10, Zenon DEF ExactlyReported, ev
<1> QED BY <1>0, <1>11

-----------------------------------------------------------------------------
\* What a byte of the buffer can hold.
Byte == Character \cup {NUL, BLOCK_MAGIC, Junk}

\* The text before and after the cursor.
Before == [i \in 1..cursor_index |-> text[i - 1]]
After == [i \in 1..(length - cursor_index) |-> text[cursor_index + i - 1]]

(***************************************************************************)
(* Append as a function.                                                   *)
(***************************************************************************)
LEMMA AppendIs ==
  ASSUME NEW S, NEW q \in Seq(S), NEW n, n = Len(q), NEW c \in S
  PROVE  Append(q, c) = [i \in 1..(n + 1) |-> IF i = n + 1 THEN c ELSE q[i]]
<1>1. Append(q, c) \in Seq(S) /\ Len(Append(q, c)) = n + 1 /\ n \in Nat
  OBVIOUS
<1>2. \A i \in 1..(n + 1) : Append(q, c)[i] = IF i = n + 1 THEN c ELSE q[i]
  OBVIOUS
<1>3. Append(q, c) \in [1..(n + 1) -> S]
  BY <1>1, LenProperties
<1> QED BY <1>2, <1>3

(***************************************************************************)
(* The buffer into which a character is inserted, expanded or not, holds   *)
(* the text and has room for one character and the terminator.             *)
(***************************************************************************)
LEMMA RoomForInsert ==
  ASSUME TextTypeOK, length + 1 > capacity => 2 * capacity <= MaxCapacity
  PROVE  \E buf, cap : /\ buf = (IF length + 1 > capacity THEN Expanded ELSE text)
                       /\ cap = (IF length + 1 > capacity THEN 2 * capacity ELSE capacity)
                       /\ cap \in InitialCapacity..MaxCapacity
                       /\ length + 1 <= cap
                       /\ buf \in [0..cap -> Byte]
                       /\ \A i \in 0..(length - 1) : buf[i] = text[i]
<1>1. /\ capacity \in Nat \ {0} /\ length \in Nat /\ length <= capacity
      /\ text \in [0..capacity -> Byte] /\ InitialCapacity \in Nat /\ MaxCapacity \in Nat
      /\ capacity >= InitialCapacity /\ capacity <= MaxCapacity
  BY TextAssumption DEF TextTypeOK, Byte
<1>2. CASE length + 1 > capacity
  <2>1. PICK buf : buf = Expanded
    OBVIOUS
  <2>2. PICK cap : cap = 2 * capacity
    OBVIOUS
  <2>3. cap \in InitialCapacity..MaxCapacity /\ length + 1 <= cap /\ length <= cap /\ cap \in Nat
    BY <1>1, <1>2, <2>2
  <2>4. buf = [i \in 0..cap |-> IF i < length THEN text[i] ELSE Block(cap)[i]]
    BY <2>1, <2>2 DEF Expanded
  <2>5. \A i \in 0..cap : Block(cap)[i] \in Byte
    BY DEF Block, Byte
  <2>6. \A i \in 0..cap : i < length => text[i] \in Byte
    BY <1>1, <2>3
  <2>7. buf \in [0..cap -> Byte]
    BY <2>4, <2>5, <2>6
  <2>8. \A i \in 0..(length - 1) : buf[i] = text[i]
    BY <2>3, <2>4, <1>1
  <2> QED BY <1>2, <2>1, <2>2, <2>3, <2>7, <2>8
<1>3. CASE ~ (length + 1 > capacity)
  <2>1. length + 1 <= capacity
    BY <1>1, <1>3
  <2> QED BY <1>1, <1>3, <2>1
<1> QED BY <1>2, <1>3

(***************************************************************************)
(* text_input_add_char keeps the text drawable, and either does nothing or *)
(* inserts the character at the cursor.                                    *)
(***************************************************************************)
LEMMA AddChar ==
  ASSUME TextTypeOK, DrawsText, NEW c \in Character, text_input_add_char(c), shift_down' \in BOOLEAN
  PROVE  /\ TextTypeOK' /\ DrawsText'
         /\ \/ UNCHANGED <<Before, After>>
            \/ Before' = Append(Before, c) /\ UNCHANGED After
<1>1. /\ capacity \in Nat \ {0} /\ length \in Nat /\ length <= capacity
      /\ cursor_index \in Nat /\ cursor_index <= length
      /\ \A i \in 0..(length - 1) : text[i] \in Character
  BY TextAssumption DEF TextTypeOK, DrawsText
<1>2. CASE UNCHANGED <<text, length, capacity, cursor_index>>
  BY <1>2 DEF TextTypeOK, DrawsText, Before, After
<1>3. CASE /\ LET full == length + 1 > capacity IN
                /\ full => 2 * capacity <= MaxCapacity
                /\ text' = Inserted(IF full THEN Expanded ELSE text, c)
                /\ capacity' = IF full THEN 2 * capacity ELSE capacity
           /\ length' = length + 1
           /\ cursor_index' = cursor_index + 1
  <2>2. PICK buf, cap : /\ buf = (IF length + 1 > capacity THEN Expanded ELSE text)
                        /\ cap = (IF length + 1 > capacity THEN 2 * capacity ELSE capacity)
                        /\ cap \in InitialCapacity..MaxCapacity
                        /\ length + 1 <= cap
                        /\ buf \in [0..cap -> Byte]
                        /\ \A i \in 0..(length - 1) : buf[i] = text[i]
    BY <1>3, RoomForInsert
  <2>3. text' = Inserted(buf, c) /\ capacity' = cap
    BY <1>3, <2>2, Zenon
  <2>4. DOMAIN buf = 0..cap /\ cap \in Nat /\ \A i \in 0..cap : buf[i] \in Byte
    BY <2>2, TextAssumption
  <2>5. text' = [i \in 0..cap |-> IF i < cursor_index THEN buf[i]
                                 ELSE IF i = cursor_index THEN c
                                 ELSE IF i <= length THEN buf[i - 1]
                                 ELSE IF i = length + 1 THEN NUL
                                 ELSE buf[i]]
    BY <2>3, <2>4 DEF Inserted
  <2>6. ASSUME NEW i \in 0..cap
        PROVE  text'[i] \in Byte
    <3>1. c \in Byte /\ NUL \in Byte
      BY DEF Byte
    <3>2. i > cursor_index => i - 1 \in 0..cap
      BY <1>1, <2>4
    <3> QED BY <2>4, <2>5, <3>1, <3>2, <1>1
  <2>7. text' \in [0..cap -> Byte]
    BY <2>5, <2>6
  <2>8. TextTypeOK'
    <3>1. length' \in 0..cap /\ cursor_index' \in 0..length'
      BY <1>1, <1>3, <2>2, <2>4
    <3>2. text' \in [0..capacity' -> Character \cup {NUL, BLOCK_MAGIC, Junk}]
      BY <2>3, <2>7 DEF Byte
    <3> QED BY <3>1, <3>2, <2>2, <2>3 DEF TextTypeOK
  <2>9. /\ \A i \in 0..(cursor_index - 1) : text'[i] = text[i]
        /\ text'[cursor_index] = c
        /\ \A i \in (cursor_index + 1)..length : text'[i] = text[i - 1]
        /\ text'[length + 1] = NUL
    <3>1. ASSUME NEW i \in 0..(cursor_index - 1)
          PROVE  text'[i] = text[i]
      <4>1. i \in 0..cap /\ i < cursor_index /\ i \in 0..(length - 1)
        BY <1>1, <2>2, <2>4
      <4> QED BY <4>1, <2>2, <2>5
    <3>2. text'[cursor_index] = c
      <4>1. cursor_index \in 0..cap /\ ~ (cursor_index < cursor_index)
        BY <1>1, <2>2, <2>4
      <4> QED BY <4>1, <2>5
    <3>3. ASSUME NEW i \in (cursor_index + 1)..length
          PROVE  text'[i] = text[i - 1]
      <4>1. i \in 0..cap /\ ~ (i < cursor_index) /\ i # cursor_index /\ i <= length
            /\ i - 1 \in 0..(length - 1)
        BY <1>1, <2>2, <2>4
      <4> QED BY <4>1, <2>2, <2>5
    <3>4. text'[length + 1] = NUL
      <4>1. /\ length + 1 \in 0..cap /\ ~ (length + 1 < cursor_index) /\ length + 1 # cursor_index
            /\ ~ (length + 1 <= length)
        BY <1>1, <2>2, <2>4
      <4> QED BY <4>1, <2>5
    <3> QED BY <3>1, <3>2, <3>3, <3>4
  <2>10. DrawsText'
    <3>1. ASSUME NEW i \in 0..length
          PROVE  text'[i] \in Character
      <4>1. CASE i \in 0..(cursor_index - 1)
        BY <4>1, <2>9, <1>1
      <4>2. CASE i = cursor_index
        BY <4>2, <2>9
      <4>3. CASE i \in (cursor_index + 1)..length
        <5>1. i - 1 \in 0..(length - 1)
          BY <4>3, <1>1
        <5> QED BY <5>1, <4>3, <2>9, <1>1
      <4> QED BY <4>1, <4>2, <4>3, <1>1
    <3>2. text'[length'] = NUL /\ 0..(length' - 1) = 0..length
      BY <1>1, <1>3, <2>9
    <3> QED BY <3>1, <3>2 DEF DrawsText
  <2>11. Before' = Append(Before, c)
    <3>1. Before' = [i \in 1..(cursor_index + 1) |-> text'[i - 1]]
      BY <1>3 DEF Before
    <3>2. Before \in Seq(Byte \cup {c}) /\ Len(Before) = cursor_index
      <4>1. \A i \in 1..cursor_index : text[i - 1] \in Byte
        BY <1>1 DEF Byte
      <4> QED BY <4>1, <1>1 DEF Before
    <3>3. Append(Before, c) = [i \in 1..(cursor_index + 1) |-> IF i = cursor_index + 1 THEN c ELSE Before[i]]
      BY <3>2, AppendIs
    <3>4. ASSUME NEW i \in 1..(cursor_index + 1)
          PROVE  text'[i - 1] = IF i = cursor_index + 1 THEN c ELSE Before[i]
      <4>1. CASE i = cursor_index + 1
        BY <4>1, <2>9, <1>1
      <4>2. CASE i # cursor_index + 1
        <5>1. i \in 1..cursor_index /\ i - 1 \in 0..(cursor_index - 1)
          BY <4>2, <1>1
        <5> QED BY <5>1, <4>2, <2>9 DEF Before
      <4> QED BY <4>1, <4>2
    <3> QED BY <3>1, <3>3, <3>4
  <2>12. After' = After
    <3>1. length' - cursor_index' = length - cursor_index
      BY <1>1, <1>3
    <3>2. ASSUME NEW i \in 1..(length - cursor_index)
          PROVE  text'[cursor_index' + i - 1] = text[cursor_index + i - 1]
      <4>1. /\ cursor_index' + i - 1 = cursor_index + i
            /\ cursor_index + i \in (cursor_index + 1)..length
        BY <1>1, <1>3
      <4>2. text'[cursor_index + i] = text[cursor_index + i - 1]
        <5>1. PICK k : k = cursor_index + i
          OBVIOUS
        <5>2. text'[k] = text[k - 1]
          BY <4>1, <5>1, <2>9, Zenon
        <5>3. k - 1 = cursor_index + i - 1
          BY <5>1, <1>1
        <5> QED BY <5>1, <5>2, <5>3, Zenon
      <4> QED BY <4>1, <4>2, Zenon
    <3>3. After' = [i \in 1..(length' - cursor_index') |-> text'[cursor_index' + i - 1]]
      BY DEF After
    <3> QED BY <3>1, <3>2, <3>3 DEF After
  <2> QED BY <2>8, <2>10, <2>11, <2>12
<1> QED BY <1>2, <1>3 DEF text_input_add_char

(***************************************************************************)
(* text_input_remove_char keeps the text drawable, and either does nothing *)
(* or deletes the character before the cursor.                             *)
(***************************************************************************)
LEMMA RemoveChar ==
  ASSUME TextTypeOK, DrawsText, text_input_remove_char, shift_down' \in BOOLEAN
  PROVE  /\ TextTypeOK' /\ DrawsText'
         /\ \/ UNCHANGED <<Before, After>>
            \/ /\ cursor_index # 0
               /\ Before' = [i \in 1..(cursor_index - 1) |-> Before[i]] /\ UNCHANGED After
<1>1. /\ capacity \in Nat \ {0} /\ length \in Nat /\ length <= capacity
      /\ cursor_index \in Nat /\ cursor_index <= length
      /\ text \in [0..capacity -> Byte]
      /\ \A i \in 0..(length - 1) : text[i] \in Character
  BY TextAssumption DEF TextTypeOK, DrawsText, Byte
<1>2. CASE UNCHANGED <<text, length, capacity, cursor_index>>
  BY <1>2 DEF TextTypeOK, DrawsText, Before, After
<1>3. CASE /\ cursor_index # 0
           /\ text' = [i \in DOMAIN text |-> IF i = length - 1 THEN NUL
                                             ELSE IF i \in (cursor_index - 1)..(length - 2)
                                             THEN text[i + 1] ELSE text[i]]
           /\ length' = length - 1
           /\ cursor_index' = cursor_index - 1
           /\ UNCHANGED capacity
  <2>1. text' = [i \in 0..capacity |-> IF i = length - 1 THEN NUL
                                      ELSE IF i \in (cursor_index - 1)..(length - 2)
                                      THEN text[i + 1] ELSE text[i]]
    BY <1>1, <1>3
  <2>2. ASSUME NEW i \in 0..capacity
        PROVE  text'[i] \in Byte
    <3>1. NUL \in Byte
      BY DEF Byte
    <3>2. i \in (cursor_index - 1)..(length - 2) => i + 1 \in 0..capacity
      BY <1>1
    <3> QED BY <1>1, <2>1, <3>1, <3>2
  <2>3. TextTypeOK'
    <3>1. length' \in 0..capacity' /\ cursor_index' \in 0..length'
      BY <1>1, <1>3
    <3>2. text' \in [0..capacity' -> Character \cup {NUL, BLOCK_MAGIC, Junk}]
      BY <1>3, <2>1, <2>2 DEF Byte
    <3> QED BY <3>1, <3>2, <1>3 DEF TextTypeOK
  <2>4. /\ \A i \in 0..(cursor_index - 2) : text'[i] = text[i]
        /\ \A i \in (cursor_index - 1)..(length - 2) : text'[i] = text[i + 1]
        /\ text'[length - 1] = NUL
    <3>1. ASSUME NEW i \in 0..(cursor_index - 2)
          PROVE  text'[i] = text[i]
      <4>1. i \in 0..capacity /\ i # length - 1 /\ i \notin (cursor_index - 1)..(length - 2)
        BY <1>1, <1>3
      <4> QED BY <4>1, <2>1
    <3>2. ASSUME NEW i \in (cursor_index - 1)..(length - 2)
          PROVE  text'[i] = text[i + 1]
      <4>1. i \in 0..capacity /\ i # length - 1
        BY <1>1, <1>3
      <4> QED BY <4>1, <2>1
    <3>3. text'[length - 1] = NUL
      <4>1. length - 1 \in 0..capacity
        BY <1>1, <1>3
      <4> QED BY <4>1, <2>1
    <3> QED BY <3>1, <3>2, <3>3
  <2>5. DrawsText'
    <3>1. ASSUME NEW i \in 0..(length - 2)
          PROVE  text'[i] \in Character
      <4>1. CASE i \in 0..(cursor_index - 2)
        <5>1. i \in 0..(length - 1)
          BY <1>1
        <5> QED BY <4>1, <5>1, <2>4, <1>1
      <4>2. CASE i \in (cursor_index - 1)..(length - 2)
        <5>1. i + 1 \in 0..(length - 1)
          BY <1>1
        <5> QED BY <4>2, <5>1, <2>4, <1>1
      <4> QED BY <4>1, <4>2, <1>1
    <3>2. text'[length'] = NUL /\ 0..(length' - 1) = 0..(length - 2)
      BY <1>1, <1>3, <2>4
    <3> QED BY <3>1, <3>2 DEF DrawsText
  <2>6. Before' = [i \in 1..(cursor_index - 1) |-> Before[i]]
    <3>1. Before' = [i \in 1..(cursor_index - 1) |-> text'[i - 1]]
      BY <1>3 DEF Before
    <3>2. ASSUME NEW i \in 1..(cursor_index - 1)
          PROVE  text'[i - 1] = Before[i]
      <4>1. i \in 1..cursor_index /\ i - 1 \in 0..(cursor_index - 2)
        BY <1>1, <1>3
      <4> QED BY <4>1, <2>4 DEF Before
    <3> QED BY <3>1, <3>2
  <2>7. After' = After
    <3>1. length' - cursor_index' = length - cursor_index
      BY <1>1, <1>3
    <3>2. ASSUME NEW i \in 1..(length - cursor_index)
          PROVE  text'[cursor_index' + i - 1] = text[cursor_index + i - 1]
      <4>1. PICK k : k = cursor_index + i - 2
        OBVIOUS
      <4>2. /\ cursor_index' + i - 1 = k
            /\ k \in (cursor_index - 1)..(length - 2)
            /\ k + 1 = cursor_index + i - 1
        BY <1>1, <1>3, <4>1
      <4>3. text'[k] = text[k + 1]
        BY <4>2, <2>4, Zenon
      <4> QED BY <4>2, <4>3, Zenon
    <3>3. After' = [i \in 1..(length' - cursor_index') |-> text'[cursor_index' + i - 1]]
      BY DEF After
    <3> QED BY <3>1, <3>2, <3>3 DEF After
  <2> QED BY <2>3, <2>5, <2>6, <2>7, <1>3
<1> QED BY <1>2, <1>3 DEF text_input_remove_char

(***************************************************************************)
(* text_input_move_cursor keeps the text drawable, and either does nothing *)
(* or moves the cursor over one character.                                 *)
(***************************************************************************)
LEMMA MoveCursor ==
  ASSUME TextTypeOK, DrawsText, NEW dx \in {-1, 1}, text_input_move_cursor(dx), shift_down' \in BOOLEAN
  PROVE  /\ TextTypeOK' /\ DrawsText'
         /\ \/ UNCHANGED <<Before, After>>
            \/ /\ cursor_index # 0
               /\ Before' = [i \in 1..(cursor_index - 1) |-> Before[i]]
               /\ After' = <<Before[cursor_index]>> \o After
            \/ /\ cursor_index # length
               /\ Before' = Append(Before, After[1])
               /\ After' = Tail(After)
<1>1. /\ capacity \in Nat \ {0} /\ length \in Nat /\ length <= capacity
      /\ cursor_index \in Nat /\ cursor_index <= length
      /\ \A i \in 0..(length - 1) : text[i] \in Character
  BY TextAssumption DEF TextTypeOK, DrawsText
<1>2. TextTypeOK' /\ DrawsText'
  BY <1>1 DEF TextTypeOK, DrawsText, text_input_move_cursor
<1>3. Before \in Seq(Character) /\ After \in Seq(Character)
      /\ Len(Before) = cursor_index /\ Len(After) = length - cursor_index
  <2>1. \A i \in 1..cursor_index : text[i - 1] \in Character
    BY <1>1
  <2>2. \A i \in 1..(length - cursor_index) : text[cursor_index + i - 1] \in Character
    BY <1>1
  <2>3. Before \in Seq(Character) /\ Len(Before) = cursor_index
    BY <2>1, <1>1 DEF Before
  <2>4. After \in Seq(Character) /\ Len(After) = length - cursor_index
    BY <2>2, <1>1 DEF After
  <2> QED BY <2>3, <2>4
<1>4. text' = text /\ length' = length
  BY DEF text_input_move_cursor
<1>5. CASE cursor_index' = cursor_index
  BY <1>2, <1>4, <1>5 DEF Before, After
<1>6. CASE cursor_index # 0 /\ cursor_index' = cursor_index - 1
  <2>1. Before' = [i \in 1..(cursor_index - 1) |-> Before[i]]
    BY <1>1, <1>4, <1>6 DEF Before
  <2>2. PICK q : q = <<Before[cursor_index]>> \o After
    OBVIOUS
  <2>3. Before[cursor_index] = text[cursor_index - 1] /\ Before[cursor_index] \in Character
    BY <1>1, <1>6 DEF Before
  <2>4. /\ q \in Seq(Character) /\ Len(q) = (length - cursor_index) + 1
        /\ \A i \in 1..((length - cursor_index) + 1) :
              q[i] = IF i = 1 THEN Before[cursor_index] ELSE After[i - 1]
    BY <2>2, <2>3, <1>3
  <2>5. After' = [i \in 1..((length - cursor_index) + 1) |-> text[(cursor_index - 1) + i - 1]]
    BY <1>1, <1>4, <1>6 DEF After
  <2>6. ASSUME NEW i \in 1..((length - cursor_index) + 1)
        PROVE  text[(cursor_index - 1) + i - 1] = q[i]
    <3>1. CASE i = 1
      BY <3>1, <2>3, <2>4, <1>1
    <3>2. CASE i # 1
      <4>1. i - 1 \in 1..(length - cursor_index) /\ (cursor_index - 1) + i - 1 = cursor_index + (i - 1) - 1
        BY <3>2, <1>1
      <4>2. After[i - 1] = text[cursor_index + (i - 1) - 1]
        BY <4>1 DEF After
      <4> QED BY <4>1, <4>2, <3>2, <2>4
    <3> QED BY <3>1, <3>2
  <2>7. q \in [1..((length - cursor_index) + 1) -> Character]
    BY <2>4, LenProperties
  <2>8. After' = q
    BY <2>5, <2>6, <2>7
  <2> QED BY <1>2, <1>6, <2>1, <2>2, <2>8
<1>7. CASE cursor_index # length /\ cursor_index' = cursor_index + 1
  <2>1. 1 \in 1..(length - cursor_index) /\ After[1] = text[cursor_index] /\ After[1] \in Character
    BY <1>1, <1>7 DEF After
  <2>2. Append(Before, After[1]) =
          [i \in 1..(cursor_index + 1) |-> IF i = cursor_index + 1 THEN After[1] ELSE Before[i]]
    BY <1>3, <2>1, AppendIs
  <2>3. Before' = [i \in 1..(cursor_index + 1) |-> text[i - 1]]
    BY <1>4, <1>7 DEF Before
  <2>4. ASSUME NEW i \in 1..(cursor_index + 1)
        PROVE  text[i - 1] = IF i = cursor_index + 1 THEN After[1] ELSE Before[i]
    BY <2>1, <1>1 DEF Before
  <2>5. Before' = Append(Before, After[1])
    BY <2>2, <2>3, <2>4
  <2>6. PICK q : q = Tail(After)
    OBVIOUS
  <2>7. /\ q \in Seq(Character) /\ Len(q) = (length - cursor_index) - 1
        /\ \A i \in 1..((length - cursor_index) - 1) : q[i] = After[i + 1]
    BY <1>1, <1>3, <1>7, <2>6
  <2>8. After' = [i \in 1..((length - cursor_index) - 1) |-> text[(cursor_index + 1) + i - 1]]
    BY <1>1, <1>4, <1>7 DEF After
  <2>9. ASSUME NEW i \in 1..((length - cursor_index) - 1)
        PROVE  text[(cursor_index + 1) + i - 1] = q[i]
    <3>1. i + 1 \in 1..(length - cursor_index) /\ (cursor_index + 1) + i - 1 = cursor_index + (i + 1) - 1
      BY <1>1
    <3>2. After[i + 1] = text[cursor_index + (i + 1) - 1]
      BY <3>1 DEF After
    <3> QED BY <3>1, <3>2, <2>7
  <2>10. q \in [1..((length - cursor_index) - 1) -> Character]
    BY <2>7, LenProperties
  <2>11. After' = q
    BY <2>8, <2>9, <2>10
  <2> QED BY <1>2, <1>7, <2>5, <2>6, <2>11
<1>8. \/ cursor_index' = cursor_index
      \/ cursor_index # 0 /\ cursor_index' = cursor_index - 1
      \/ cursor_index # length /\ cursor_index' = cursor_index + 1
  <2>1. cursor_index' = IF cursor_index + dx \in 0..length THEN cursor_index + dx ELSE cursor_index
    BY DEF text_input_move_cursor
  <2>2. CASE dx = -1
    BY <2>1, <2>2, <1>1
  <2>3. CASE dx = 1
    BY <2>1, <2>3, <1>1
  <2> QED BY <2>2, <2>3
<1> QED BY <1>5, <1>6, <1>7, <1>8, Zenon

-----------------------------------------------------------------------------
\* The characters the keys of this keyboard type.
TypedCharacter == UNION {Typed(key, shift) : key \in Keys, shift \in BOOLEAN}

(***************************************************************************)
(* A key types at most one character, one of the ASCII characters; a       *)
(* modifier and the marks for no key type none.                            *)
(***************************************************************************)
LEMMA TypedIs ==
  ASSUME NEW key \in AllKeys, NEW shift \in BOOLEAN, NEW c \in Typed(key, shift)
  PROVE  /\ c \in Character
         /\ c \in TypedCharacter
<1>1. key \in 0..255
  BY KeyRanges
<1>2. c \in Character
  BY <1>1 DEF Character
<1>3. key \in 4..223
  BY DEF Typed, KEY_A, KEY_Z, KEY_1, KEY_0, SymbolKeys, KEY_ENTER, KEY_SPACE
<1>4. key \in Keys
  BY <1>3, KeyRanges DEF AllKeys
<1> QED BY <1>2, <1>4 DEF TypedCharacter

\* A step of the line editor, or one that changes nothing of what it shows.
Edited ==
  \/ UNCHANGED <<Before, After>>
  \/ /\ \E c \in TypedCharacter : Before' = Append(Before, c)
     /\ UNCHANGED After
  \/ /\ cursor_index # 0
     /\ Before' = [i \in 1..(cursor_index - 1) |-> Before[i]] /\ UNCHANGED After
  \/ /\ cursor_index # 0
     /\ Before' = [i \in 1..(cursor_index - 1) |-> Before[i]]
     /\ After' = <<Before[cursor_index]>> \o After
  \/ /\ cursor_index # length
     /\ Before' = Append(Before, After[1])
     /\ After' = Tail(After)

(***************************************************************************)
(* A turn of text_input_update, whatever the event: the text stays         *)
(* drawable, and is edited.                                                *)
(***************************************************************************)
LEMMA ReadEventEdits ==
  ASSUME TypeOK, DrawsText, ReadEvent
  PROVE  TextTypeOK' /\ DrawsText' /\ Edited
<1>1. PICK e : e = Head(queue)
  OBVIOUS
<1>2. e \in KeyEvent
  BY <1>1 DEF TypeOK, ReadEvent
<1>3. e.key \in AllKeys /\ e.type \in {"down", "up"}
  BY <1>2 DEF KeyEvent
<1>4. shift_down \in BOOLEAN /\ TextTypeOK
  BY DEF TypeOK, TextTypeOK
<1>5. CASE KeyUp(e.key)
  <2>1. shift_down' \in BOOLEAN /\ UNCHANGED <<text, length, capacity, cursor_index>>
    BY <1>5 DEF KeyUp
  <2> QED BY <2>1, <1>4 DEF TextTypeOK, DrawsText, Edited, Before, After
<1>6. CASE KeyDown(e.key)
  <2>1. shift_down' \in BOOLEAN
    BY <1>6 DEF KeyDown
  <2>2. ASSUME NEW c \in Typed(e.key, shift_down), text_input_add_char(c)
        PROVE  TextTypeOK' /\ DrawsText' /\ Edited
    <3>1. c \in Character /\ c \in TypedCharacter
      BY <1>3, <1>4, TypedIs
    <3>2. /\ TextTypeOK' /\ DrawsText'
          /\ \/ UNCHANGED <<Before, After>>
             \/ Before' = Append(Before, c) /\ UNCHANGED After
      BY <1>4, <2>1, <2>2, <3>1, AddChar
    <3> QED BY <3>1, <3>2 DEF Edited
  <2>3. CASE text_input_remove_char
    <3>1. /\ TextTypeOK' /\ DrawsText'
          /\ \/ UNCHANGED <<Before, After>>
             \/ /\ cursor_index # 0
                /\ Before' = [i \in 1..(cursor_index - 1) |-> Before[i]] /\ UNCHANGED After
      BY <1>4, <2>1, <2>3, RemoveChar
    <3> QED BY <3>1 DEF Edited
  <2>4. ASSUME NEW dx \in {-1, 1}, text_input_move_cursor(dx)
        PROVE  TextTypeOK' /\ DrawsText' /\ Edited
    <3>1. /\ TextTypeOK' /\ DrawsText'
          /\ \/ UNCHANGED <<Before, After>>
             \/ /\ cursor_index # 0
                /\ Before' = [i \in 1..(cursor_index - 1) |-> Before[i]]
                /\ After' = <<Before[cursor_index]>> \o After
             \/ /\ cursor_index # length
                /\ Before' = Append(Before, After[1])
                /\ After' = Tail(After)
      BY <1>4, <2>1, <2>4, MoveCursor
    <3> QED BY <3>1 DEF Edited
  <2>5. CASE UNCHANGED <<text, length, capacity, cursor_index>>
    BY <2>1, <2>5, <1>4 DEF TextTypeOK, DrawsText, Edited, Before, After
  <2> QED BY <1>6, <2>2, <2>3, <2>4, <2>5 DEF KeyDown
<1> QED BY <1>1, <1>5, <1>6 DEF ReadEvent

(***************************************************************************)
(* The queue takes a prefix of the events that it has room for.            *)
(***************************************************************************)
LEMMA TakenFits ==
  ASSUME NEW events \in Seq(KeyEvent), queue \in Seq(KeyEvent), Len(queue) <= QueueCapacity
  PROVE  queue \o Taken(events) \in Seq(KeyEvent) /\ Len(queue \o Taken(events)) <= QueueCapacity
<1>1. PICK n : n = IF Len(events) < QueueCapacity - Len(queue) THEN Len(events) ELSE QueueCapacity - Len(queue)
  OBVIOUS
<1>2. n \in Nat /\ n <= Len(events) /\ Len(queue) + n <= QueueCapacity
  BY <1>1, QueueAssumption
<1>3. PICK taken : taken = SubSeq(events, 1, n)
  OBVIOUS
<1>4. taken \in Seq(KeyEvent) /\ Len(taken) = n
  BY <1>2, <1>3
<1>5. Taken(events) = taken
  BY <1>1, <1>3, Zenon DEF Taken
<1>6. queue \o taken \in Seq(KeyEvent) /\ Len(queue \o taken) <= QueueCapacity
  BY <1>2, <1>4
<1> QED BY <1>5, <1>6

(***************************************************************************)
(* What keeps the text drawable: the types, and the text itself.           *)
(***************************************************************************)
TextInv == TypeOK /\ DrawsText

(***************************************************************************)
(* text_input_alloc and usb_hid_keyboard_init establish it.                *)
(***************************************************************************)
LEMMA TextInit == Init => TextInv
<1> SUFFICES ASSUME Init PROVE TextInv
  OBVIOUS
<1>1. PICK r : r = [modifiers |-> {}, keypress |-> [i \in 1..Slots |-> KEY_NONE]]
  OBVIOUS
<1>2. r \in Reports
  <2>1. r \in Report
    BY <1>1 DEF Report
  <2>2. Cardinality({}) = 0 /\ Slots \in Nat /\ ~ (0 > Slots)
    BY FS_EmptySet, KeyboardAssumption
  <2>3. \A i \in 1..Slots : r.keypress[i] \in {} \cup {KEY_NONE}
    BY <1>1
  <2>4. r \in ReportsOf({})
    BY <2>1, <2>2, <2>3 DEF ReportsOf
  <2> QED BY <2>4, KeyboardAssumption DEF Reports
<1>3. g_latest_report \in Reports
  BY <1>1, <1>2 DEF Init, usb_hid_keyboard_init
<1>4. queue \in Seq(KeyEvent) /\ Len(queue) <= QueueCapacity
  BY QueueAssumption DEF Init
<1>5. {opened, updating, dropped, unseen} \subseteq BOOLEAN
  BY DEF Init
<1>6. InitialCapacity \in Nat \ {0} /\ MaxCapacity \in Nat /\ InitialCapacity <= MaxCapacity
  BY TextAssumption
<1>7. TextTypeOK /\ DrawsText
  BY <1>6 DEF Init, text_input_alloc, TextTypeOK, DrawsText
<1> QED BY <1>3, <1>4, <1>5, <1>7 DEF TextInv, TypeOK

(***************************************************************************)
(* Every step of the input thread and of text_input_update keeps it.       *)
(***************************************************************************)
LEMMA TextStep == TextInv /\ [Next]_vars => TextInv'
<1> SUFFICES ASSUME TextInv, [Next]_vars PROVE TextInv'
  OBVIOUS
<1>1. TypeOK /\ DrawsText /\ TextTypeOK
  BY DEF TextInv, TypeOK
<1>2. ASSUME UNCHANGED textVars
      PROVE  TextTypeOK' /\ DrawsText'
  BY <1>1, <1>2 DEF textVars, TextTypeOK, DrawsText
<1>3. CASE InputThreadTurn
  <2>1. PICK report \in Reports : usb_hid_keyboard_transfer_callback(report)
    BY <1>3 DEF InputThreadTurn
  <2>2. PICK events : events = Events(g_latest_report, report)
    OBVIOUS
  <2>3. events \in Seq(KeyEvent)
    BY <1>1, <2>2, EventsAre DEF TypeOK
  <2>4. g_latest_report' \in Reports
    BY <2>1 DEF usb_hid_keyboard_transfer_callback
  <2>5. queue' = IF opened THEN queue \o Taken(events) ELSE queue
    BY <2>1, <2>2 DEF usb_hid_keyboard_transfer_callback
  <2>6. queue \in Seq(KeyEvent) /\ Len(queue) <= QueueCapacity
    BY <1>1 DEF TypeOK
  <2>7. queue' \in Seq(KeyEvent) /\ Len(queue') <= QueueCapacity
    BY <2>3, <2>5, <2>6, TakenFits, Zenon
  <2>8. opened' \in BOOLEAN /\ updating' \in BOOLEAN /\ dropped' \in BOOLEAN /\ unseen' \in BOOLEAN
    BY <1>1, <1>3, <2>1, Zenon DEF TypeOK, InputThreadTurn, usb_hid_keyboard_transfer_callback
  <2>9. TextTypeOK' /\ DrawsText'
    BY <1>2, <1>3 DEF InputThreadTurn
  <2> QED BY <2>4, <2>7, <2>8, <2>9 DEF TextInv, TypeOK
<1>4. CASE OpenKeyboard
  BY <1>1, <1>2, <1>4 DEF TextInv, TypeOK, OpenKeyboard
<1>5. CASE BeginUpdate
  BY <1>1, <1>2, <1>5 DEF TextInv, TypeOK, BeginUpdate
<1>6. CASE ReadEvent
  <2>1. TextTypeOK' /\ DrawsText'
    BY <1>1, <1>6, ReadEventEdits
  <2>2. queue' \in Seq(KeyEvent) /\ Len(queue') <= QueueCapacity
    <3>1. queue \in Seq(KeyEvent) /\ queue # <<>> /\ Len(queue) <= QueueCapacity /\ queue' = Tail(queue)
      BY <1>1, <1>6 DEF TypeOK, ReadEvent
    <3> QED BY <3>1, QueueAssumption
  <2> QED BY <1>1, <1>6, <2>1, <2>2 DEF TextInv, TypeOK, ReadEvent
<1>7. CASE EndUpdate
  BY <1>1, <1>2, <1>7 DEF TextInv, TypeOK, EndUpdate
<1>8. CASE UNCHANGED vars
  BY <1>1, <1>8 DEF TextInv, TypeOK, vars, textVars, TextTypeOK, DrawsText
<1> QED BY <1>3, <1>4, <1>5, <1>6, <1>7, <1>8 DEF Next

(***************************************************************************)
(* What is drawn is the text, whatever is typed and however the buffer     *)
(* grows: text_input_draw meets the terminator behind the text first, and  *)
(* reads no byte that was never written.                                   *)
(***************************************************************************)
THEOREM TextDrawn == Spec => []DrawsText
<1>1. TextInv => DrawsText
  BY DEF TextInv
<1> QED BY <1>1, TextInit, TextStep, PTL DEF Spec

(***************************************************************************)
(* The driver's events for a report are exactly what has changed since the *)
(* report before it, for any chords, modifiers and number of slots.        *)
(***************************************************************************)
THEOREM EventsExact == Spec => EventsAreChanges
<1>1. ASSUME TextInv, [Next]_vars
      PROVE  EventsAreChangesStep
  <2>1. g_latest_report \in Reports /\ g_latest_report' \in Reports
    BY <1>1, TextStep DEF TextInv, TypeOK
  <2> QED BY <2>1, ReportsExact DEF EventsAreChangesStep
<1>2. TextInv /\ [Next]_vars => [EventsAreChangesStep]_vars
  BY <1>1
<1> QED BY <1>2, TextInit, TextStep, PTL DEF Spec, EventsAreChanges

(***************************************************************************)
(* A step of the text input is a step of the line editor.                  *)
(***************************************************************************)
LEMMA EditedIsEdit ==
  ASSUME TextInv, Edited
  PROVE  [Editor!Next]_<<Before, After>>
<1>1. /\ cursor_index \in Nat /\ length \in Nat /\ cursor_index <= length
      /\ \A i \in 0..(length - 1) : text[i] \in Character
  BY DEF TextInv, TypeOK, TextTypeOK, DrawsText
<1>2. /\ Before \in Seq(Character) /\ Len(Before) = cursor_index
      /\ After \in Seq(Character) /\ Len(After) = length - cursor_index
  <2>1. \A i \in 1..cursor_index : text[i - 1] \in Character
    BY <1>1
  <2>2. \A i \in 1..(length - cursor_index) : text[cursor_index + i - 1] \in Character
    BY <1>1
  <2>3. Before \in Seq(Character) /\ Len(Before) = cursor_index
    BY <2>1, <1>1 DEF Before
  <2>4. After \in Seq(Character) /\ Len(After) = length - cursor_index
    BY <2>2, <1>1 DEF After
  <2> QED BY <2>3, <2>4
<1>3. ASSUME cursor_index # 0
      PROVE  /\ Before # <<>>
             /\ [i \in 1..(cursor_index - 1) |-> Before[i]] = SubSeq(Before, 1, Len(Before) - 1)
             /\ Before[cursor_index] = Before[Len(Before)]
  BY <1>1, <1>2, <1>3
<1>4. ASSUME cursor_index # length
      PROVE  After # <<>> /\ After[1] = Head(After)
  BY <1>1, <1>2, <1>4
<1>5. Editor!Next <=>
        \/ \E c \in TypedCharacter : Before' = Append(Before, c) /\ UNCHANGED After
        \/ Before # <<>> /\ Before' = SubSeq(Before, 1, Len(Before) - 1) /\ UNCHANGED After
        \/ /\ Before # <<>> /\ Before' = SubSeq(Before, 1, Len(Before) - 1)
           /\ After' = <<Before[Len(Before)]>> \o After
        \/ After # <<>> /\ Before' = Append(Before, Head(After)) /\ After' = Tail(After)
  BY DEF Editor!Next, Editor!Insert, Editor!Backspace, Editor!Left, Editor!Right, Before, After,
         Editor!Front, Editor!Last, TypedCharacter
<1>6. CASE UNCHANGED <<Before, After>>
  BY <1>6
<1>7. CASE /\ \E c \in TypedCharacter : Before' = Append(Before, c)
           /\ UNCHANGED After
  BY <1>5, <1>7
<1>8. CASE /\ cursor_index # 0
           /\ Before' = [i \in 1..(cursor_index - 1) |-> Before[i]] /\ UNCHANGED After
  BY <1>3, <1>5, <1>8
<1>9. CASE /\ cursor_index # 0
           /\ Before' = [i \in 1..(cursor_index - 1) |-> Before[i]]
           /\ After' = <<Before[cursor_index]>> \o After
  BY <1>3, <1>5, <1>9
<1>10. CASE /\ cursor_index # length
            /\ Before' = Append(Before, After[1])
            /\ After' = Tail(After)
  BY <1>4, <1>5, <1>10
<1> QED BY <1>6, <1>7, <1>8, <1>9, <1>10 DEF Edited

(***************************************************************************)
(* The text input implements the line editor, for every size of its first  *)
(* buffer, whatever malloc gives and whatever the keyboard types.          *)
(***************************************************************************)
THEOREM TypingImplementsEditor == Spec => ImplementsEditor
<1>1. Init => Editor!Init
  <2> SUFFICES ASSUME Init PROVE Editor!Init
    OBVIOUS
  <2>1. cursor_index = 0 /\ length = 0
    BY DEF Init, text_input_alloc
  <2>2. 1..cursor_index = {} /\ 1..(length - cursor_index) = {}
    BY <2>1
  <2>3. Before = <<>> /\ After = <<>>
    BY <2>2 DEF Before, After
  <2> QED BY <2>3 DEF Editor!Init, Before, After
<1>2. TextInv /\ [Next]_vars => [Editor!Next]_<<Before, After>>
  <2> SUFFICES ASSUME TextInv, [Next]_vars PROVE [Editor!Next]_<<Before, After>>
    OBVIOUS
  <2>1. CASE ReadEvent
    BY <2>1, ReadEventEdits, EditedIsEdit DEF TextInv
  <2>2. ASSUME UNCHANGED textVars
        PROVE  UNCHANGED <<Before, After>>
    BY <2>2 DEF textVars, Before, After
  <2> QED BY <2>1, <2>2 DEF Next, vars, textVars, InputThreadTurn, OpenKeyboard, BeginUpdate, EndUpdate
<1>3. TextInv /\ [Next]_vars =>
        [Editor!Next]_<<[i \in 1..cursor_index |-> text[i - 1]],
                        [i \in 1..(length - cursor_index) |-> text[cursor_index + i - 1]]>>
  BY <1>2 DEF Before, After
<1> QED BY <1>1, <1>3, TextInit, TextStep, PTL DEF Spec, ImplementsEditor, Editor!Spec

-----------------------------------------------------------------------------
\* The n-th event of q is the last one for a shift key.
LastShift(q, n) ==
  n \in DOMAIN q /\ q[n].key \in Shifts /\ \A k \in n + 1..Len(q) : q[k].key \notin Shifts

HasShift(q) == \E n \in DOMAIN q : q[n].key \in Shifts

\* ShiftAfter, from any value of shift_down.
ShiftFrom(q, s) ==
  LET last == {n \in DOMAIN q : q[n].key \in Shifts /\ \A k \in n + 1..Len(q) : q[k].key \notin Shifts}
  IN  IF last = {} THEN s ELSE \A n \in last : q[n].type = "down"

(***************************************************************************)
(* If there is an event for a shift key, there is a last one.              *)
(***************************************************************************)
LEMMA LastShiftExists ==
  ASSUME NEW q \in Seq(KeyEvent), HasShift(q)
  PROVE  \E n : LastShift(q, n)
<1>1. DOMAIN q = 1..Len(q) /\ Len(q) \in Nat
  OBVIOUS
<1> DEFINE T == {m \in Nat : Len(q) - m \in 1..Len(q) /\ q[Len(q) - m].key \in Shifts}
<1>2. PICK n \in 1..Len(q) : q[n].key \in Shifts
  BY <1>1 DEF HasShift
<1>3. Len(q) - n \in Nat /\ Len(q) - (Len(q) - n) = n
  BY <1>1
<1>4. Len(q) - n \in T
  BY <1>2, <1>3
<1>5. PICK m \in T : \A y \in T : m <= y
  <2>1. T \subseteq Nat /\ T # {}
    BY <1>4
  <2> HIDE DEF T
  <2> QED BY <2>1, LeastNatural
<1>6. ASSUME NEW k \in (Len(q) - m) + 1..Len(q)
      PROVE  q[k].key \notin Shifts
  <2>1. /\ Len(q) - k \in Nat /\ Len(q) - (Len(q) - k) = k /\ k \in 1..Len(q)
        /\ ~ (m <= Len(q) - k)
    BY <1>1
  <2>2. Len(q) - k \notin T
    <3> HIDE DEF T
    <3> QED BY <2>1, <1>5
  <2> QED BY <2>1, <2>2
<1>7. LastShift(q, Len(q) - m)
  BY <1>1, <1>6 DEF LastShift
<1> QED BY <1>7

(***************************************************************************)
(* The last event for a shift key decides; without one nothing changes.    *)
(***************************************************************************)
LEMMA ShiftFromLast ==
  ASSUME NEW q \in Seq(KeyEvent), NEW s
  PROVE  /\ ~HasShift(q) => ShiftFrom(q, s) = s
         /\ \A n : LastShift(q, n) => (ShiftFrom(q, s) <=> q[n].type = "down")
<1>1. DOMAIN q = 1..Len(q) /\ Len(q) \in Nat
  OBVIOUS
<1>2. PICK last : last = {n \in DOMAIN q : q[n].key \in Shifts /\ \A k \in n + 1..Len(q) : q[k].key \notin Shifts}
  OBVIOUS
<1>3. ShiftFrom(q, s) = IF last = {} THEN s ELSE \A n \in last : q[n].type = "down"
  BY <1>2 DEF ShiftFrom
<1>4. \A n : n \in last <=> LastShift(q, n)
  BY <1>2 DEF LastShift
<1>5. ASSUME ~HasShift(q)
      PROVE  ShiftFrom(q, s) = s
  <2>1. last = {}
    BY <1>4, <1>5 DEF LastShift, HasShift
  <2> QED BY <1>3, <2>1
<1>6. ASSUME NEW n, LastShift(q, n)
      PROVE  ShiftFrom(q, s) <=> q[n].type = "down"
  <2>1. \A m : LastShift(q, m) => m = n
    BY <1>1, <1>6 DEF LastShift
  <2>2. last = {n}
    BY <1>4, <1>6, <2>1
  <2> QED BY <1>3, <2>2
<1> QED BY <1>5, <1>6

(***************************************************************************)
(* Events without a shift key, appended, change nothing; among events with *)
(* one there is one that decides.                                          *)
(***************************************************************************)
LEMMA ShiftFromConcat ==
  ASSUME NEW q \in Seq(KeyEvent), NEW r \in Seq(KeyEvent), NEW s \in BOOLEAN
  PROVE  /\ ~HasShift(r) => (ShiftFrom(q \o r, s) <=> ShiftFrom(q, s))
         /\ HasShift(r) => \E e \in Range(r) : /\ e.key \in Shifts /\ e \in KeyEvent
                                               /\ ShiftFrom(q \o r, s) <=> e.type = "down"
<1>1. PICK qr : qr = q \o r
  OBVIOUS
<1>2. /\ DOMAIN q = 1..Len(q) /\ DOMAIN r = 1..Len(r) /\ Len(q) \in Nat /\ Len(r) \in Nat
      /\ qr \in Seq(KeyEvent) /\ Len(qr) = Len(q) + Len(r) /\ DOMAIN qr = 1..(Len(q) + Len(r))
      /\ \A n \in 1..Len(q) : qr[n] = q[n]
      /\ \A n \in 1..Len(r) : qr[Len(q) + n] = r[n]
  BY <1>1
<1>3. ASSUME ~HasShift(r)
      PROVE  ShiftFrom(qr, s) <=> ShiftFrom(q, s)
  <2>1. ASSUME NEW k \in (Len(q) + 1)..Len(qr)
        PROVE  qr[k].key \notin Shifts
    <3>1. k - Len(q) \in 1..Len(r) /\ Len(q) + (k - Len(q)) = k
      BY <1>2
    <3>2. qr[Len(q) + (k - Len(q))] = r[k - Len(q)]
      BY <3>1, <1>2
    <3>3. r[k - Len(q)].key \notin Shifts
      BY <3>1, <1>2, <1>3 DEF HasShift
    <3> QED BY <3>1, <3>2, <3>3
  <2>2. CASE HasShift(q)
    <3>1. PICK n : LastShift(q, n)
      BY <2>2, LastShiftExists
    <3>2. n \in 1..Len(q) /\ n \in DOMAIN qr /\ qr[n] = q[n] /\ q[n].key \in Shifts
      BY <3>1, <1>2 DEF LastShift
    <3>3. ASSUME NEW k \in n + 1..Len(qr)
          PROVE  qr[k].key \notin Shifts
      <4>1. CASE k \in n + 1..Len(q)
        <5>1. k \in 1..Len(q)
          BY <4>1, <3>2, <1>2
        <5> QED BY <5>1, <4>1, <3>1, <1>2 DEF LastShift
      <4>2. CASE k \in (Len(q) + 1)..Len(qr)
        BY <4>2, <2>1
      <4> QED BY <4>1, <4>2, <3>2, <1>2
    <3>4. LastShift(qr, n)
      BY <3>2, <3>3 DEF LastShift
    <3> QED BY <3>1, <3>2, <3>4, <1>2, ShiftFromLast
  <2>3. CASE ~HasShift(q)
    <3>1. ~HasShift(qr)
      <4>1. ASSUME NEW k \in 1..Len(q)
            PROVE  qr[k].key \notin Shifts
        BY <2>3, <1>2 DEF HasShift
      <4>2. \A k \in DOMAIN qr : k \in 1..Len(q) \/ k \in (Len(q) + 1)..Len(qr)
        BY <1>2
      <4> QED BY <4>1, <4>2, <2>1, Zenon DEF HasShift
    <3>2. ShiftFrom(q, s) = s /\ ShiftFrom(qr, s) = s
      BY <3>1, <2>3, <1>2, ShiftFromLast
    <3> QED BY <3>2
  <2> QED BY <2>2, <2>3
<1>4. ASSUME HasShift(r)
      PROVE  \E e \in Range(r) : /\ e.key \in Shifts /\ e \in KeyEvent
                                 /\ ShiftFrom(qr, s) <=> e.type = "down"
  <2>1. PICK n : LastShift(r, n)
    BY <1>4, LastShiftExists
  <2>2. n \in 1..Len(r) /\ r[n] \in KeyEvent /\ r[n] \in Range(r) /\ r[n].key \in Shifts
    BY <2>1, <1>2 DEF LastShift, Range
  <2>3. ASSUME NEW k \in (Len(q) + n) + 1..Len(qr)
        PROVE  qr[k].key \notin Shifts
    <3>1. k - Len(q) \in n + 1..Len(r) /\ k - Len(q) \in 1..Len(r) /\ Len(q) + (k - Len(q)) = k
      BY <1>2, <2>2
    <3>2. qr[Len(q) + (k - Len(q))] = r[k - Len(q)]
      BY <3>1, <1>2
    <3>3. r[k - Len(q)].key \notin Shifts
      BY <3>1, <2>1 DEF LastShift
    <3> QED BY <3>1, <3>2, <3>3
  <2>4. LastShift(qr, Len(q) + n) /\ qr[Len(q) + n] = r[n]
    BY <2>2, <2>3, <1>2 DEF LastShift
  <2>5. ShiftFrom(qr, s) <=> qr[Len(q) + n].type = "down"
    BY <2>4, <1>2, ShiftFromLast
  <2> QED BY <2>2, <2>4, <2>5
<1> QED BY <1>1, <1>3, <1>4

(***************************************************************************)
(* Reading the first event of a queue: what it does to shift_down, the     *)
(* queue that is left no longer has to.                                    *)
(***************************************************************************)
LEMMA ShiftFromTail ==
  ASSUME NEW q \in Seq(KeyEvent), q # <<>>, NEW s \in BOOLEAN, NEW t \in BOOLEAN,
         t <=> IF Head(q).key \in Shifts THEN Head(q).type = "down" ELSE s
  PROVE  ShiftFrom(Tail(q), t) <=> ShiftFrom(q, s)
<1>1. PICK r : r = Tail(q)
  OBVIOUS
<1>2. /\ r \in Seq(KeyEvent) /\ Len(q) \in Nat \ {0} /\ Len(r) = Len(q) - 1
      /\ DOMAIN q = 1..Len(q) /\ DOMAIN r = 1..(Len(q) - 1)
      /\ \A n \in 1..(Len(q) - 1) : r[n] = q[n + 1]
      /\ Head(q) = q[1]
  BY <1>1
<1>3. CASE HasShift(r)
  <2>1. PICK n : LastShift(r, n)
    BY <1>2, <1>3, LastShiftExists
  <2>2. n \in 1..(Len(q) - 1) /\ n + 1 \in 1..Len(q) /\ r[n] = q[n + 1] /\ r[n].key \in Shifts
    BY <2>1, <1>2 DEF LastShift
  <2>3. ASSUME NEW k \in (n + 1) + 1..Len(q)
        PROVE  q[k].key \notin Shifts
    <3>1. k - 1 \in n + 1..Len(r) /\ k - 1 \in 1..(Len(q) - 1) /\ (k - 1) + 1 = k
      BY <1>2, <2>2
    <3>2. r[k - 1] = q[(k - 1) + 1] /\ r[k - 1].key \notin Shifts
      BY <3>1, <2>1, <1>2 DEF LastShift
    <3> QED BY <3>1, <3>2
  <2>4. LastShift(q, n + 1)
    BY <2>2, <2>3, <1>2 DEF LastShift
  <2>5. ShiftFrom(r, t) <=> r[n].type = "down"
    BY <2>1, <1>2, ShiftFromLast
  <2>6. ShiftFrom(q, s) <=> q[n + 1].type = "down"
    BY <2>4, ShiftFromLast
  <2> QED BY <1>1, <2>2, <2>5, <2>6
<1>4. CASE ~HasShift(r)
  <2>1. ShiftFrom(r, t) = t
    BY <1>2, <1>4, ShiftFromLast
  <2>2. ASSUME NEW k \in 2..Len(q)
        PROVE  q[k].key \notin Shifts
    <3>1. k - 1 \in 1..(Len(q) - 1) /\ (k - 1) + 1 = k
      BY <1>2
    <3>2. r[k - 1] = q[(k - 1) + 1] /\ r[k - 1].key \notin Shifts
      BY <3>1, <1>2, <1>4 DEF HasShift
    <3> QED BY <3>1, <3>2
  <2>3. CASE q[1].key \in Shifts
    <3>1. LastShift(q, 1)
      BY <2>2, <2>3, <1>2 DEF LastShift
    <3>2. ShiftFrom(q, s) <=> q[1].type = "down"
      BY <3>1, ShiftFromLast
    <3> QED BY <1>1, <1>2, <2>1, <2>3, <3>2
  <2>4. CASE q[1].key \notin Shifts
    <3>1. ~HasShift(q)
      <4>1. \A k \in DOMAIN q : k = 1 \/ k \in 2..Len(q)
        BY <1>2
      <4> QED BY <4>1, <2>2, <2>4, Zenon DEF HasShift
    <3>2. ShiftFrom(q, s) = s
      BY <3>1, ShiftFromLast
    <3> QED BY <1>1, <1>2, <2>1, <2>4, <3>2
  <2> QED BY <2>3, <2>4
<1> QED BY <1>3, <1>4

(***************************************************************************)
(* A report lists a shift key iff its modifiers say so.                    *)
(***************************************************************************)
LEMMA ShiftListed ==
  ASSUME NEW report \in Reports
  PROVE  /\ ShiftReported(report) <=> \E k \in Shifts : k \in Listed(report)
         /\ \A k \in Shifts : k \notin NoKeys /\ (k \in Listed(report) => k \in ModifierKeys)
<1>1. report \in Report
  BY DEF Reports, ReportsOf
<1>2. \A k \in Shifts : k \notin Keys /\ k \notin NoKeys
  BY KeyRanges DEF Shifts
<1>3. ASSUME NEW k \in Shifts
      PROVE  k \in Listed(report) <=> \E i \in report.modifiers : KEY_LEFTCTRL + i = k
  BY <1>2 DEF Listed
<1>4. ShiftReported(report) <=> \E k \in Shifts : k \in Listed(report)
  BY <1>3, Zenon DEF ShiftReported
<1>5. ASSUME NEW k \in Shifts, k \in Listed(report)
      PROVE  k \in ModifierKeys
  BY <1>1, <1>3, <1>5, ReportKeys
<1> QED BY <1>2, <1>4, <1>5

(***************************************************************************)
(* What the events of a report say of shift is what the report says: if    *)
(* none of them is for a shift key nothing has changed, one that says down *)
(* is for a key that is held, and of a keyboard with one shift key one     *)
(* that says up means that no shift key is held.                           *)
(***************************************************************************)
LEMMA ShiftEvents ==
  ASSUME NEW old \in Reports, NEW new \in Reports
  PROVE  /\ ~HasShift(Events(old, new)) => (ShiftReported(old) <=> ShiftReported(new))
         /\ \A e \in Range(Events(old, new)) : e \in KeyEvent /\ e.key \in Shifts =>
              /\ e.type = "down" => ShiftReported(new)
              /\ Cardinality(ModifierKeys \cap Shifts) = 1 /\ ShiftReported(new) => e.type = "down"
<1>1. PICK ev : ev = Events(old, new)
  OBVIOUS
<1>2. /\ ev \in Seq(KeyEvent)
      /\ \A k \in Shifts :
           /\ [type |-> "down", key |-> k] \in Range(ev) <=> k \in Listed(new) \ Listed(old)
           /\ [type |-> "up", key |-> k] \in Range(ev) <=> k \in Listed(old) \ Listed(new)
  BY <1>1, EventsAre, ShiftListed
<1>3. ASSUME ~HasShift(ev)
      PROVE  ShiftReported(old) <=> ShiftReported(new)
  <2>1. \A e \in Range(ev) : e.key \notin Shifts
    BY <1>3 DEF HasShift, Range
  <2>2. ASSUME NEW k \in Shifts
        PROVE  k \in Listed(old) <=> k \in Listed(new)
    <3>1. /\ [type |-> "down", key |-> k] \notin Range(ev)
          /\ [type |-> "up", key |-> k] \notin Range(ev)
      BY <2>1
    <3> QED BY <3>1, <1>2
  <2> QED BY <2>2, ShiftListed
<1>4. ASSUME NEW e \in Range(ev), e \in KeyEvent, e.key \in Shifts
      PROVE  /\ e.type = "down" => ShiftReported(new)
             /\ Cardinality(ModifierKeys \cap Shifts) = 1 /\ ShiftReported(new) => e.type = "down"
  <2>1. e = [type |-> e.type, key |-> e.key] /\ e.type \in {"down", "up"}
    BY <1>4 DEF KeyEvent
  <2>2. CASE e.type = "down"
    <3>1. e.key \in Listed(new)
      BY <1>2, <1>4, <2>1, <2>2
    <3>2. ShiftReported(new)
      BY <3>1, <1>4, ShiftListed
    <3> QED BY <2>2, <3>2
  <2>3. CASE e.type = "up"
    <3>1. e.key \in Listed(old) /\ e.key \notin Listed(new)
      BY <1>2, <1>4, <2>1, <2>3
    <3>2. ASSUME Cardinality(ModifierKeys \cap Shifts) = 1, ShiftReported(new)
          PROVE  FALSE
      <4>1. PICK k \in Shifts : k \in Listed(new)
        BY <3>2, ShiftListed
      <4>2. k \in ModifierKeys \cap Shifts /\ e.key \in ModifierKeys \cap Shifts
        BY <3>1, <4>1, <1>4, ShiftListed
      <4>3. IsFiniteSet(ModifierKeys \cap Shifts)
        <5>1. IsFiniteSet(224..231)
          <6>1. 224 \in Int /\ 231 \in Int
            OBVIOUS
          <6> QED BY <6>1, FS_Interval, Zenon
        <5>2. ModifierKeys \subseteq 224..231
          BY KeyRanges, Zenon
        <5>3. ModifierKeys \cap Shifts \in SUBSET (224..231)
          BY <5>2
        <5> QED BY <5>1, <5>3, FS_Subset
      <4>4. PICK x : ModifierKeys \cap Shifts = {x}
        BY <3>2, <4>3, FS_Singleton
      <4>5. k = e.key
        BY <4>2, <4>4
      <4> QED BY <3>1, <4>1, <4>5
    <3> QED BY <2>3, <3>2
  <2> QED BY <2>1, <2>2, <2>3
<1> QED BY <1>1, <1>3, <1>4

-----------------------------------------------------------------------------
(***************************************************************************)
(* Before the file is open no event has been queued or read, and shift has *)
(* been down since before it is opened iff it is down.                     *)
(***************************************************************************)
NothingBeforeOpen ==
  ~opened => /\ queue = <<>> /\ shift_down = FALSE
             /\ unseen <=> ShiftReported(g_latest_report)

\* What ShiftFollowsKey says of the queue, without the types.
ShiftKnown ==
  ~dropped /\ opened =>
    /\ ShiftFrom(queue, shift_down) => ShiftReported(g_latest_report)
    /\ Cardinality(ModifierKeys \cap Shifts) = 1 /\ ~unseen =>
         (ShiftReported(g_latest_report) => ShiftFrom(queue, shift_down))

ShiftInv == TextInv /\ NothingBeforeOpen /\ ShiftKnown

(***************************************************************************)
(* Nothing is held, reported or queued at first.                           *)
(***************************************************************************)
LEMMA ShiftInit == Init => ShiftInv
<1> SUFFICES ASSUME Init PROVE ShiftInv
  OBVIOUS
<1>1. ~ShiftReported(g_latest_report)
  BY DEF Init, usb_hid_keyboard_init, ShiftReported
<1> QED BY <1>1, TextInit DEF ShiftInv, NothingBeforeOpen, ShiftKnown, Init, text_input_alloc

(***************************************************************************)
(* Reports, opening the file and reading an event keep it.                 *)
(***************************************************************************)
LEMMA ShiftStep == ShiftInv /\ [Next]_vars => ShiftInv'
<1> SUFFICES ASSUME ShiftInv, [Next]_vars PROVE ShiftInv'
  OBVIOUS
<1>1. TextInv /\ TextInv'
  BY TextStep DEF ShiftInv
<1>2. /\ g_latest_report \in Reports /\ queue \in Seq(KeyEvent) /\ shift_down \in BOOLEAN
      /\ opened \in BOOLEAN /\ dropped \in BOOLEAN /\ unseen \in BOOLEAN
  BY <1>1, Zenon DEF TextInv, TypeOK, TextTypeOK
<1>3. NothingBeforeOpen /\ ShiftKnown
  BY DEF ShiftInv
<1>4. ASSUME UNCHANGED <<g_latest_report, queue, shift_down, dropped, unseen, opened>>
      PROVE  NothingBeforeOpen' /\ ShiftKnown'
  BY <1>3, <1>4 DEF NothingBeforeOpen, ShiftKnown, ShiftReported
<1>5. CASE InputThreadTurn
  <2>1. PICK report \in Reports : usb_hid_keyboard_transfer_callback(report)
    BY <1>5 DEF InputThreadTurn
  <2>2. PICK ev : ev = Events(g_latest_report, report)
    OBVIOUS
  <2>3. /\ g_latest_report' = report
        /\ queue' = IF opened THEN queue \o Taken(ev) ELSE queue
        /\ dropped' = (dropped \/ (opened /\ Taken(ev) # ev))
        /\ unseen' = (ShiftReported(report) /\ (unseen \/ ~opened))
        /\ opened' = opened /\ shift_down' = shift_down
    BY <1>5, <2>1, <2>2, Zenon DEF InputThreadTurn, usb_hid_keyboard_transfer_callback, textVars
  <2>4. ev \in Seq(KeyEvent)
    BY <1>2, <2>2, EventsAre
  <2>5. NothingBeforeOpen'
    <3>1. ShiftReported(g_latest_report)' <=> ShiftReported(report)
      BY <2>3 DEF ShiftReported
    <3> QED BY <1>3, <2>3, <3>1, Zenon DEF NothingBeforeOpen
  <2>6. ASSUME ~dropped', opened'
        PROVE  /\ ShiftFrom(queue', shift_down') => ShiftReported(report)
               /\ Cardinality(ModifierKeys \cap Shifts) = 1 /\ ~unseen' =>
                    (ShiftReported(report) => ShiftFrom(queue', shift_down'))
    <3>1. ~dropped /\ opened /\ Taken(ev) = ev
      BY <2>3, <2>6, Zenon
    <3>2. queue' = queue \o ev /\ shift_down' = shift_down
      BY <2>3, <3>1, Zenon
    <3>3. ShiftReported(report) /\ ~unseen' => ~unseen
      BY <2>3, Zenon
    <3>4. CASE HasShift(ev)
      <4>0. PICK q, s : q = queue /\ s = shift_down /\ q \in Seq(KeyEvent) /\ s \in BOOLEAN
        BY <1>2, Zenon
      <4>1. PICK e \in Range(ev) : /\ e.key \in Shifts /\ e \in KeyEvent
                                   /\ ShiftFrom(q \o ev, s) <=> e.type = "down"
        BY <4>0, <2>4, <3>4, ShiftFromConcat
      <4>3. ShiftFrom(q \o ev, s) = ShiftFrom(queue', shift_down')
        BY <3>2, <4>0, Zenon
      <4>2. /\ e.type = "down" => ShiftReported(report)
            /\ Cardinality(ModifierKeys \cap Shifts) = 1 /\ ShiftReported(report) => e.type = "down"
        BY <1>2, <2>2, <4>1, ShiftEvents
      <4> QED BY <4>1, <4>2, <4>3, Zenon
    <3>5. CASE ~HasShift(ev)
      <4>1. ShiftFrom(queue \o ev, shift_down) <=> ShiftFrom(queue, shift_down)
        BY <1>2, <2>4, <3>5, ShiftFromConcat
      <4>2. ShiftReported(g_latest_report) <=> ShiftReported(report)
        BY <1>2, <2>2, <3>5, ShiftEvents
      <4> QED BY <1>3, <3>1, <3>2, <3>3, <4>1, <4>2, Zenon DEF ShiftKnown
    <3> QED BY <3>4, <3>5
  <2>7. ShiftKnown'
    <3>1. ShiftFrom(queue, shift_down)' <=> ShiftFrom(queue', shift_down')
      BY DEF ShiftFrom
    <3>2. ShiftReported(g_latest_report)' <=> ShiftReported(report)
      BY <2>3 DEF ShiftReported
    <3> QED BY <2>6, <3>1, <3>2, Zenon DEF ShiftKnown
  <2> QED BY <1>1, <2>5, <2>7 DEF ShiftInv
<1>6. CASE OpenKeyboard
  <2>1. ~opened /\ opened' /\ UNCHANGED <<g_latest_report, queue, shift_down, dropped, unseen>>
    BY <1>6 DEF OpenKeyboard, textVars
  <2>2. queue = <<>> /\ shift_down = FALSE /\ (unseen <=> ShiftReported(g_latest_report))
    BY <1>3, <2>1 DEF NothingBeforeOpen
  <2>3. ShiftFrom(queue, shift_down) = FALSE
    <3>1. ~HasShift(queue)
      BY <2>2 DEF HasShift
    <3> QED BY <3>1, <1>2, <2>2, ShiftFromLast
  <2>4. ShiftKnown'
    <3>1. ShiftFrom(queue, shift_down)' = ShiftFrom(queue, shift_down)
      BY <2>1 DEF ShiftFrom
    <3>2. ShiftReported(g_latest_report)' <=> ShiftReported(g_latest_report)
      BY <2>1 DEF ShiftReported
    <3> QED BY <2>1, <2>2, <2>3, <3>1, <3>2, Zenon DEF ShiftKnown
  <2>5. NothingBeforeOpen'
    BY <2>1 DEF NothingBeforeOpen
  <2> QED BY <1>1, <2>4, <2>5 DEF ShiftInv
<1>7. CASE BeginUpdate
  BY <1>1, <1>4, <1>7 DEF ShiftInv, BeginUpdate, textVars
<1>8. CASE ReadEvent
  <2>1. queue # <<>> /\ queue' = Tail(queue) /\ UNCHANGED <<g_latest_report, opened, dropped, unseen>>
    BY <1>8 DEF ReadEvent
  <2>2. PICK e : e = Head(queue)
    OBVIOUS
  <2>4. /\ shift_down' \in BOOLEAN
        /\ shift_down' <=> IF e.key \in Shifts THEN e.type = "down" ELSE shift_down
    <3>1. CASE e.type = "down"
      <4>1. shift_down' = (shift_down \/ e.key \in Shifts)
        BY <1>8, <2>2, <3>1, Zenon DEF ReadEvent, KeyDown
      <4> QED BY <1>2, <3>1, <4>1, Zenon
    <3>2. CASE e.type # "down"
      <4>1. shift_down' = (shift_down /\ e.key \notin Shifts)
        BY <1>8, <2>2, <3>2, Zenon DEF ReadEvent, KeyUp
      <4> QED BY <1>2, <3>2, <4>1, Zenon
    <3> QED BY <3>1, <3>2, Zenon
  <2>5. ShiftFrom(queue', shift_down') <=> ShiftFrom(queue, shift_down)
    <3>1. shift_down' <=> IF Head(queue).key \in Shifts THEN Head(queue).type = "down" ELSE shift_down
      BY <2>2, <2>4, Zenon
    <3>2. ShiftFrom(Tail(queue), shift_down') <=> ShiftFrom(queue, shift_down)
      <4>1. PICK q, s, t : /\ q = queue /\ s = shift_down /\ t = shift_down'
                           /\ q \in Seq(KeyEvent) /\ s \in BOOLEAN /\ t \in BOOLEAN
        BY <1>2, <2>4, Zenon
      <4>2. q # <<>> /\ (t <=> IF Head(q).key \in Shifts THEN Head(q).type = "down" ELSE s)
        BY <2>1, <3>1, <4>1, Zenon
      <4>3. ShiftFrom(Tail(q), t) <=> ShiftFrom(q, s)
        BY <4>1, <4>2, ShiftFromTail
      <4> QED BY <4>1, <4>3, Zenon
    <3> QED BY <2>1, <3>2, Zenon
  <2>6. NothingBeforeOpen'
    BY <1>3, <2>1 DEF NothingBeforeOpen
  <2>7. ShiftKnown'
    <3>1. ShiftFrom(queue, shift_down)' <=> ShiftFrom(queue', shift_down')
      BY DEF ShiftFrom
    <3>2. ShiftReported(g_latest_report)' <=> ShiftReported(g_latest_report)
      BY <2>1 DEF ShiftReported
    <3> QED BY <1>3, <2>1, <2>5, <3>1, <3>2, Zenon DEF ShiftKnown
  <2> QED BY <1>1, <2>6, <2>7 DEF ShiftInv
<1>9. CASE EndUpdate
  BY <1>1, <1>4, <1>9 DEF ShiftInv, EndUpdate, textVars
<1>10. CASE UNCHANGED vars
  BY <1>1, <1>4, <1>10 DEF ShiftInv, vars
<1> QED BY <1>5, <1>6, <1>7, <1>8, <1>9, <1>10 DEF Next

(***************************************************************************)
(* Shift does not stick: for any keyboard and any queue, as long as the    *)
(* input file has dropped no event, what the text input takes shift to be  *)
(* once it has read the queue is what the keyboard last reported.          *)
(***************************************************************************)
THEOREM ShiftNeverSticks == Spec => []ShiftFollowsKey
<1>1. ShiftInv => ShiftFollowsKey
  <2> SUFFICES ASSUME ShiftInv PROVE ShiftFollowsKey
    OBVIOUS
  <2>1. ShiftAfter(queue) <=> ShiftFrom(queue, shift_down)
    BY DEF ShiftAfter, ShiftFrom
  <2> QED BY <2>1 DEF ShiftInv, TextInv, ShiftKnown, ShiftFollowsKey
<1> QED BY <1>1, ShiftInit, ShiftStep, PTL DEF Spec
=============================================================================
