------------------------ MODULE TimerHeapProofs ------------------------
(***************************************************************************)
(* Proofs about TimerHeap, for heaps of any size: what UpHeap, DownHeap,   *)
(* insert and removeTimer do to the entries and to their order.  The       *)
(* recursive paths are reasoned about by induction on positions.           *)
(***************************************************************************)
EXTENDS TimerHeap, WellFoundedInduction, TLAPS

-----------------------------------------------------------------------------
(* Induction on natural numbers *)

LEMMA Least == \A S \in SUBSET Nat : S # {} => \E n \in S : \A m \in S : n <= m
<1> SUFFICES ASSUME NEW S \in SUBSET Nat, S # {} PROVE \E n \in S : \A m \in S : n <= m
  OBVIOUS
<1> DEFINE R == {p \in Nat \X Nat : p[1] < p[2]}
<1>1. IsWellFoundedOn(R, Nat)
  BY NatLessThanWellFounded DEF OpToRel
<1>2. PICK n \in S : \A m \in S : ~ (<<m, n>> \in R)
  <2> HIDE DEF R
  <2> QED BY <1>1, WFMin
<1>3. ASSUME NEW m \in S PROVE n <= m
  <2>1. m \in Nat /\ n \in Nat
    OBVIOUS
  <2>2. m < n => <<m, n>> \in R
    BY <2>1
  <2> HIDE DEF R
  <2> QED BY <1>2, <2>1, <2>2
<1> QED BY <1>3

LEMMA Induct ==
  \A S : 0 \in S /\ (\A n \in Nat : n \in S => n + 1 \in S) => \A n \in Nat : n \in S
<1> SUFFICES ASSUME NEW S, 0 \in S, \A n \in Nat : n \in S => n + 1 \in S,
                    Nat \ S # {} PROVE FALSE
  OBVIOUS
<1> DEFINE T == Nat \ S
<1>1. T \in SUBSET Nat /\ T # {}
  OBVIOUS
<1>2. PICK n \in T : \A m \in T : n <= m
  <2> HIDE DEF T
  <2> QED BY <1>1, Least
<1>3. n # 0 /\ n \in Nat
  BY <1>2
<1>4. n - 1 \in Nat /\ n - 1 \notin T
  BY <1>2, <1>3
<1> QED BY <1>3, <1>4, <1>2

-----------------------------------------------------------------------------
(* The entries of a heap *)

Entries(h) == {h[p] : p \in DOMAIN h}
\* No two entries are of one timer.
Distinct(h) == \A p, q \in DOMAIN h : h[p].timer = h[q].timer => p = q

\* Different positions of a heap of n entries.
IsPath(s, n) == /\ s \in Seq(Nat) /\ Len(s) >= 1
                /\ \A k \in 1..Len(s) : s[k] \in 1..n
                /\ \A k, l \in 1..Len(s) : s[k] = s[l] => k = l
OnPath(s, p) == \E k \in 1..Len(s) : s[k] = p

LEMMA PrependPath ==
  ASSUME NEW p \in Nat, NEW t \in Seq(Nat)
  PROVE  /\ <<p>> \o t \in Seq(Nat) /\ Len(<<p>> \o t) = Len(t) + 1
         /\ (<<p>> \o t)[1] = p
         /\ \A k \in 1..Len(t) : (<<p>> \o t)[k + 1] = t[k]
  OBVIOUS

LEMMA RotateMoves ==
  ASSUME NEW E, NEW h \in Seq(E), NEW s, IsPath(s, Len(h))
  PROVE  /\ Rotate(h, s) \in Seq(E) /\ Len(Rotate(h, s)) = Len(h)
         /\ DOMAIN Rotate(h, s) = 1..Len(h)
         /\ \A k \in 1..Len(s) - 1 : Rotate(h, s)[s[k]] = h[s[k + 1]]
         /\ Rotate(h, s)[s[Len(s)]] = h[s[1]]
         /\ \A p \in 1..Len(h) : ~ OnPath(s, p) => Rotate(h, s)[p] = h[p]
<1> DEFINE at(p) == CHOOSE k \in DOMAIN s : s[k] = p
           val(p) == h[IF at(p) = Len(s) THEN s[1] ELSE s[at(p) + 1]]
<1>1. DOMAIN h = 1..Len(h) /\ DOMAIN s = 1..Len(s) /\ Len(h) \in Nat /\ Len(s) \in Nat
  BY DEF IsPath
<1>2. ASSUME NEW k \in 1..Len(s) PROVE at(s[k]) = k
  BY <1>1 DEF IsPath
<1>3. ASSUME NEW p \in 1..Len(h), OnPath(s, p) PROVE at(p) \in 1..Len(s) /\ s[at(p)] = p
  BY <1>1, <1>3 DEF OnPath
<1>4. Rotate(h, s) = [p \in 1..Len(h) |-> IF OnPath(s, p) THEN val(p) ELSE h[p]]
  BY <1>1 DEF Rotate, OnPath
<1> HIDE DEF at
<1>5. ASSUME NEW p \in 1..Len(h), OnPath(s, p) PROVE val(p) \in E
  <2>1. at(p) \in 1..Len(s)
    BY <1>3, <1>5
  <2>2. at(p) # Len(s) => at(p) + 1 \in 1..Len(s)
    BY <1>1, <2>1
  <2>3. (IF at(p) = Len(s) THEN s[1] ELSE s[at(p) + 1]) \in 1..Len(h)
    BY <2>1, <2>2 DEF IsPath
  <2> QED BY <2>3, <1>1
<1>6. Rotate(h, s) \in Seq(E) /\ Len(Rotate(h, s)) = Len(h) /\ DOMAIN Rotate(h, s) = 1..Len(h)
  <2> HIDE DEF val
  <2>1. \A p \in 1..Len(h) : h[p] \in E
    BY <1>1
  <2> QED BY <1>1, <1>4, <1>5, <2>1
<1>7. ASSUME NEW k \in 1..Len(s)
      PROVE  Rotate(h, s)[s[k]] = IF k = Len(s) THEN h[s[1]] ELSE h[s[k + 1]]
  <2>1. s[k] \in 1..Len(h) /\ OnPath(s, s[k])
    BY DEF IsPath, OnPath
  <2>2. Rotate(h, s)[s[k]] = val(s[k])
    BY <1>4, <2>1
  <2> QED BY <1>2, <2>2
<1>8. ASSUME NEW p \in 1..Len(h), ~ OnPath(s, p) PROVE Rotate(h, s)[p] = h[p]
  BY <1>4, <1>8
<1> HIDE DEF val
<1>9. Len(s) \in 1..Len(s) /\ \A k \in 1..Len(s) - 1 : k \in 1..Len(s) /\ k # Len(s)
  <2>1. Len(s) >= 1
    BY DEF IsPath
  <2>2. \A m \in Nat : m >= 1 => m \in 1..m /\ \A k \in 1..m - 1 : k \in 1..m /\ k # m
    OBVIOUS
  <2> QED BY <1>1, <2>1, <2>2
<1> QED BY <1>6, <1>7, <1>8, <1>9

\* A rotation permutes the entries.
LEMMA RotatePermutes ==
  ASSUME NEW E, NEW h \in Seq(E), NEW s, IsPath(s, Len(h))
  PROVE  /\ Entries(Rotate(h, s)) = Entries(h)
         /\ Distinct(h) => Distinct(Rotate(h, s))
<1> DEFINE g == Rotate(h, s)
           n == Len(s)
<1>1. /\ DOMAIN g = 1..Len(h) /\ DOMAIN h = 1..Len(h)
      /\ \A k \in 1..n - 1 : g[s[k]] = h[s[k + 1]]
      /\ g[s[n]] = h[s[1]]
      /\ \A p \in 1..Len(h) : ~ OnPath(s, p) => g[p] = h[p]
  BY RotateMoves
<1>2. n \in Nat /\ n >= 1 /\ Len(h) \in Nat
  BY DEF IsPath
<1> HIDE DEF g
\* Where the entry at p comes from.
<1>3. ASSUME NEW p \in 1..Len(h)
      PROVE  \E q \in 1..Len(h) :
               /\ g[p] = h[q]
               /\ \/ ~ OnPath(s, p) /\ q = p
                  \/ \E k \in 1..n - 1 : p = s[k] /\ q = s[k + 1]
                  \/ p = s[n] /\ q = s[1]
  <2>1. CASE ~ OnPath(s, p)
    BY <1>1, <2>1
  <2>2. CASE OnPath(s, p)
    <3>1. PICK k \in 1..n : s[k] = p
      BY <2>2 DEF OnPath
    <3>2. CASE k = n
      <4>1. s[1] \in 1..Len(h)
        BY <1>2 DEF IsPath
      <4> QED BY <1>1, <3>1, <3>2, <4>1
    <3>3. CASE k # n
      <4>1. k \in 1..n - 1 /\ k + 1 \in 1..n
        BY <1>2, <3>3
      <4>2. s[k + 1] \in 1..Len(h)
        BY <4>1 DEF IsPath
      <4> QED BY <1>1, <3>1, <4>1, <4>2
    <3> QED BY <3>2, <3>3
  <2> QED BY <2>1, <2>2
<1>4. ASSUME NEW q \in 1..Len(h) PROVE \E p \in 1..Len(h) : g[p] = h[q]
  <2>1. CASE ~ OnPath(s, q)
    BY <1>1, <2>1
  <2>2. CASE OnPath(s, q)
    <3>1. PICK k \in 1..n : s[k] = q
      BY <2>2 DEF OnPath
    <3>2. CASE k = 1
      <4>1. s[n] \in 1..Len(h)
        BY <1>2 DEF IsPath
      <4> QED BY <1>1, <3>1, <3>2, <4>1
    <3>3. CASE k # 1
      <4>1. k - 1 \in 1..n - 1 /\ k - 1 \in 1..n /\ (k - 1) + 1 = k
        BY <1>2, <3>3
      <4>2. s[k - 1] \in 1..Len(h)
        BY <4>1 DEF IsPath
      <4> QED BY <1>1, <3>1, <4>1, <4>2
    <3> QED BY <3>2, <3>3
  <2> QED BY <2>1, <2>2
<1>5. Entries(g) = Entries(h)
  <2>1. Entries(g) = {g[p] : p \in 1..Len(h)} /\ Entries(h) = {h[p] : p \in 1..Len(h)}
    BY <1>1 DEF Entries
  <2>2. \A p \in 1..Len(h) : \E q \in 1..Len(h) : g[p] = h[q]
    BY <1>3
  <2> QED BY <1>4, <2>1, <2>2, ZenonT(60)
<1>6. ASSUME Distinct(h), NEW p \in 1..Len(h), NEW p2 \in 1..Len(h), g[p].timer = g[p2].timer
      PROVE  p = p2
  <2>1. PICK q \in 1..Len(h) :
               /\ g[p] = h[q]
               /\ \/ ~ OnPath(s, p) /\ q = p
                  \/ \E k \in 1..n - 1 : p = s[k] /\ q = s[k + 1]
                  \/ p = s[n] /\ q = s[1]
    BY <1>3
  <2>2. PICK q2 \in 1..Len(h) :
               /\ g[p2] = h[q2]
               /\ \/ ~ OnPath(s, p2) /\ q2 = p2
                  \/ \E k \in 1..n - 1 : p2 = s[k] /\ q2 = s[k + 1]
                  \/ p2 = s[n] /\ q2 = s[1]
    BY <1>3
  <2>3. q = q2
    <3>1. h[q].timer = h[q2].timer
      BY <2>1, <2>2, <1>6
    <3>2. \A x, y \in 1..Len(h) : h[x].timer = h[y].timer => x = y
      BY <1>6, <1>1 DEF Distinct
    <3> QED BY <3>1, <3>2
  <2>4. \A k, l \in 1..n : s[k] = s[l] => k = l
    BY DEF IsPath
  <2>5. \A k \in 1..n - 1 : k + 1 \in 1..n /\ k + 1 # 1 /\ OnPath(s, s[k + 1])
    BY <1>2 DEF OnPath
  <2>6. 1 \in 1..n /\ OnPath(s, s[1])
    BY <1>2 DEF OnPath
  <2>7. \A k, l \in 1..n - 1 : k + 1 = l + 1 => k = l
    OBVIOUS
  <2> QED BY <2>1, <2>2, <2>3, <2>4, <2>5, <2>6, <2>7
<1>7. Distinct(h) => Distinct(g)
  BY <1>1, <1>6 DEF Distinct
<1> QED BY <1>5, <1>7 DEF g

-----------------------------------------------------------------------------
(* UpHeap *)

\* The entry at i is to move from p to the place of its parent.
Rises(h, i, p) == p > 1 /\ h[i].exp < h[p \div 2].exp

\* s goes from p to parents as long as they are later than the entry at i.
IsUpPath(h, i, p, s) ==
  /\ IsPath(s, p) /\ s[1] = p
  /\ \A k \in 1..Len(s) - 1 : s[k + 1] = s[k] \div 2 /\ Rises(h, i, s[k])
  /\ \A k \in 1..Len(s) : k # Len(s) => s[Len(s)] < s[k]
  /\ ~ Rises(h, i, s[Len(s)])

\* The function by which UpPath is defined.
IsUp(h, i, u) ==
  u = [p \in 0..i |-> IF p > 1 /\ h[i].exp < h[p \div 2].exp
                        THEN <<p>> \o u[p \div 2] ELSE <<p>>]

LEMMA Halves == \A p \in Nat : p > 1 => p \div 2 \in Nat /\ p \div 2 >= 1 /\ p \div 2 < p
  OBVIOUS

LEMMA UpExists == ASSUME NEW h, NEW i \in Nat PROVE \E u : IsUp(h, i, u)
<1> DEFINE Body(u, p) == IF p > 1 /\ h[i].exp < h[p \div 2].exp
                           THEN <<p>> \o u[p \div 2] ELSE <<p>>
           S == {n \in Nat : \E u : u = [p \in 0..n |-> Body(u, p)]}
<1>1. 0 \in S
  <2> DEFINE u == [p \in 0..0 |-> <<p>>]
  <2>1. u = [p \in 0..0 |-> Body(u, p)]
    OBVIOUS
  <2> HIDE DEF u
  <2> QED BY <2>1
<1>2. ASSUME NEW n \in Nat, n \in S PROVE n + 1 \in S
  <2>1. PICK u : u = [p \in 0..n |-> Body(u, p)]
    BY <1>2
  <2> DEFINE v == [p \in 0..n + 1 |-> Body(u, p)]
  <2>2. ASSUME NEW p \in 0..n + 1 PROVE Body(v, p) = Body(u, p)
    <3>1. CASE p > 1
      <4>1. p \div 2 \in 0..n
        BY <3>1, Halves
      <4>2. u[p \div 2] = Body(u, p \div 2)
        <5> HIDE DEF Body
        <5> QED BY <2>1, <4>1
      <4>3. p \div 2 \in 0..n + 1
        BY <4>1
      <4>4. v[p \div 2] = Body(u, p \div 2)
        <5> HIDE DEF Body
        <5> QED BY <4>3
      <4> QED BY <4>2, <4>4
    <3>2. CASE ~ (p > 1)
      BY <3>2
    <3> QED BY <3>1, <3>2
  <2>3. v = [p \in 0..n + 1 |-> Body(v, p)]
    <3> HIDE DEF Body
    <3> QED BY <2>2
  <2> HIDE DEF v
  <2> QED BY <2>3
<1>3. i \in S
  <2> HIDE DEF S
  <2> QED BY <1>1, <1>2, Induct
<1> QED BY <1>3 DEF IsUp

LEMMA UpIsUp == ASSUME NEW h, NEW i \in Nat PROVE \E u : IsUp(h, i, u) /\ UpPath(h, i) = u[i]
<1> DEFINE u == CHOOSE u : IsUp(h, i, u)
<1>1. IsUp(h, i, u)
  BY UpExists
<1>2. UpPath(h, i) = u[i]
  BY DEF UpPath, IsUp
<1> HIDE DEF u
<1> QED BY <1>1, <1>2

LEMMA UpPathIsPath ==
  ASSUME NEW h, NEW i \in Nat, i >= 1
  PROVE  IsUpPath(h, i, i, UpPath(h, i))
<1>1. PICK u : IsUp(h, i, u) /\ UpPath(h, i) = u[i]
  BY UpIsUp
<1> DEFINE S == {n \in Nat : \A p \in 1..i : p <= n => IsUpPath(h, i, p, u[p])}
<1>2. 0 \in S
  OBVIOUS
<1>3. ASSUME NEW n \in Nat, n \in S, NEW p \in 1..i, p <= n + 1
      PROVE  IsUpPath(h, i, p, u[p])
  <2>1. u[p] = IF Rises(h, i, p) THEN <<p>> \o u[p \div 2] ELSE <<p>>
    <3> DEFINE Body(r) == IF r > 1 /\ h[i].exp < h[r \div 2].exp
                            THEN <<r>> \o u[r \div 2] ELSE <<r>>
    <3>1. u = [r \in 0..i |-> Body(r)]
      BY <1>1 DEF IsUp
    <3>2. p \in 0..i
      OBVIOUS
    <3>3. u[p] = Body(p)
      <4> HIDE DEF Body
      <4> QED BY <3>1, <3>2
    <3>4. Rises(h, i, p) <=> p > 1 /\ h[i].exp < h[p \div 2].exp
      BY DEF Rises
    <3> QED BY <3>3, <3>4
  <2>2. CASE ~ Rises(h, i, p)
    <3>1. u[p] = <<p>>
      BY <2>1, <2>2
    <3> QED BY <3>1, <2>2 DEF IsUpPath, IsPath
  <2>3. CASE Rises(h, i, p)
    <3> DEFINE q == p \div 2
               t == u[q]
               s == u[p]
    <3>1. q \in 1..i /\ q <= n /\ q < p /\ q \in Nat
      BY <2>3, <1>3, Halves DEF Rises
    <3>2. IsUpPath(h, i, q, t)
      <4> HIDE DEF q, t
      <4>1. \A r \in 1..i : r <= n => IsUpPath(h, i, r, u[r])
        BY <1>3
      <4> QED BY <3>1, <4>1 DEF t
    <3>3. s = <<p>> \o t
      BY <2>1, <2>3
    <3>s. q = p \div 2
      OBVIOUS
    <3> HIDE DEF q, t, s
    <3>4. t \in Seq(Nat) /\ Len(t) >= 1 /\ Len(t) \in Nat
      BY <3>2 DEF IsUpPath, IsPath
    <3>5. s \in Seq(Nat) /\ Len(s) = Len(t) + 1 /\ s[1] = p /\ \A k \in 1..Len(t) : s[k + 1] = t[k]
      BY <3>3, <3>4, PrependPath
    <3>6. \A k \in 2..Len(s) : k - 1 \in 1..Len(t) /\ s[k] = t[k - 1]
      <4>1. \A k \in 2..Len(s) : k - 1 \in 1..Len(t) /\ (k - 1) + 1 = k
        BY <3>4, <3>5
      <4> QED BY <3>5, <4>1
    <3>7. \A k \in 1..Len(t) : t[k] \in 1..q
      BY <3>2 DEF IsUpPath, IsPath
    <3>8. \A k \in 2..Len(s) : s[k] \in 1..q
      BY <3>6, <3>7
    <3>9. \A k \in 1..Len(s) : k = 1 \/ k \in 2..Len(s)
      BY <3>4, <3>5
    <3>10. IsPath(s, p)
      <4>1. \A k \in 1..Len(s) : s[k] \in 1..p
        BY <3>1, <3>5, <3>8, <3>9
      <4>2. \A k, l \in 2..Len(s) : s[k] = s[l] => k = l
        <5>1. \A k, l \in 1..Len(t) : t[k] = t[l] => k = l
          BY <3>2 DEF IsUpPath, IsPath
        <5> QED BY <3>6, <5>1
      <4>3. \A k, l \in 1..Len(s) : s[k] = s[l] => k = l
        BY <3>1, <3>5, <3>8, <3>9, <4>2
      <4> QED BY <3>4, <3>5, <4>1, <4>3 DEF IsPath
    <3>11. s[Len(s)] = t[Len(t)] /\ Len(s) \in 2..Len(s)
      <4>1. Len(s) \in 2..Len(s) /\ Len(s) - 1 = Len(t)
        BY <3>4, <3>5
      <4> QED BY <3>6, <4>1
    <3>12. ~ Rises(h, i, s[Len(s)])
      BY <3>2, <3>11 DEF IsUpPath
    <3>13. \A k \in 1..Len(s) : k # Len(s) => s[Len(s)] < s[k]
      <4>1. \A k \in 1..Len(t) : k # Len(t) => t[Len(t)] < t[k]
        BY <3>2 DEF IsUpPath
      <4>2. ASSUME NEW k \in 2..Len(s), k # Len(s) PROVE s[Len(s)] < s[k]
        <5>1. s[k] = t[k - 1] /\ k - 1 \in 1..Len(t)
          BY <3>6
        <5>2. k - 1 # Len(t)
          BY <3>4, <3>5, <4>2
        <5> QED BY <3>11, <4>1, <5>1, <5>2
      <4>3. s[Len(s)] < s[1]
        BY <3>1, <3>5, <3>8, <3>11
      <4> QED BY <3>9, <4>2, <4>3
    <3>14. \A k \in 1..Len(s) - 1 : s[k + 1] = s[k] \div 2 /\ Rises(h, i, s[k])
      <4>1. \A k \in 1..Len(t) - 1 : t[k + 1] = t[k] \div 2 /\ Rises(h, i, t[k])
        BY <3>2 DEF IsUpPath
      <4>2. ASSUME NEW k \in 1..Len(s) - 1, k # 1
            PROVE  s[k + 1] = s[k] \div 2 /\ Rises(h, i, s[k])
        <5>1. k - 1 \in 1..Len(t) - 1 /\ k \in 2..Len(s) /\ k \in 1..Len(t) /\ (k - 1) + 1 = k
          BY <4>2, <3>4, <3>5
        <5>2. s[k] = t[k - 1] /\ s[k + 1] = t[k]
          BY <5>1, <3>5, <3>6
        <5>3. t[(k - 1) + 1] = t[k - 1] \div 2 /\ Rises(h, i, t[k - 1])
          BY <5>1, <4>1
        <5> QED BY <5>1, <5>2, <5>3
      <4>3. s[1 + 1] = s[1] \div 2 /\ Rises(h, i, s[1])
        <5>1. t[1] = q /\ 1 \in 1..Len(t)
          BY <3>2, <3>4 DEF IsUpPath
        <5> QED BY <3>5, <3>s, <5>1, <2>3
      <4> QED BY <4>2, <4>3
    <3>15. IsUpPath(h, i, p, s)
      BY <3>5, <3>10, <3>12, <3>13, <3>14 DEF IsUpPath
    <3> QED BY <3>15 DEF s
  <2> QED BY <2>2, <2>3
<1>4. ASSUME NEW n \in Nat, n \in S PROVE n + 1 \in S
  BY <1>3, <1>4
<1>5. i \in S
  <2> HIDE DEF S
  <2> QED BY <1>2, <1>4, Induct
<1>6. i \in 1..i /\ i <= i
  OBVIOUS
<1> QED BY <1>1, <1>5, <1>6

\* Sequences of entries whose expirations are integers.
Timed(E) == \A e \in E : e.exp \in Int

\* The heap is ordered but for the entry at i, which may be earlier than its parent.
OrderedButUp(h, i) ==
  /\ \A p \in 2..Len(h) : p # i => h[p \div 2].exp <= h[p].exp
  /\ \A p \in 2..Len(h) : p \div 2 = i /\ i > 1 => h[i \div 2].exp <= h[p].exp

LEMMA UpHeapOrders ==
  ASSUME NEW E, Timed(E), NEW h \in Seq(E), NEW i \in 1..Len(h), OrderedButUp(h, i)
  PROVE  /\ UpHeap(h, i) \in Seq(E) /\ Len(UpHeap(h, i)) = Len(h)
         /\ Entries(UpHeap(h, i)) = Entries(h)
         /\ Distinct(h) => Distinct(UpHeap(h, i))
         /\ IsHeap(UpHeap(h, i))
<1> DEFINE s == UpPath(h, i)
           g == UpHeap(h, i)
           n == Len(s)
<1>1. i \in Nat /\ i >= 1 /\ Len(h) \in Nat /\ i <= Len(h)
  OBVIOUS
<1>2. IsUpPath(h, i, i, s)
  BY <1>1, UpPathIsPath
<1>3. IsPath(s, Len(h)) /\ n \in Nat /\ n >= 1
  <2>1. IsPath(s, i)
    BY <1>2 DEF IsUpPath
  <2>2. s \in Seq(Nat) /\ n >= 1 /\ \A k \in 1..n : s[k] \in 1..i
    BY <2>1 DEF IsPath
  <2>3. \A k \in 1..n : s[k] \in 1..Len(h)
    BY <1>1, <2>2
  <2> HIDE DEF s
  <2> QED BY <2>1, <2>2, <2>3 DEF IsPath
<1>4. g = Rotate(h, s)
  BY DEF UpHeap
<1> HIDE DEF s, g
<1>5. /\ g \in Seq(E) /\ Len(g) = Len(h)
      /\ \A k \in 1..n - 1 : g[s[k]] = h[s[k + 1]]
      /\ g[s[n]] = h[s[1]]
      /\ \A p \in 1..Len(h) : ~ OnPath(s, p) => g[p] = h[p]
  BY <1>3, <1>4, RotateMoves
<1>6. Entries(g) = Entries(h) /\ (Distinct(h) => Distinct(g))
  BY <1>3, <1>4, RotatePermutes
<1>7. \A p \in 1..Len(h) : h[p].exp \in Int
  BY DEF Timed
<1>8. /\ s[1] = i
      /\ \A k \in 1..n - 1 : s[k + 1] = s[k] \div 2 /\ s[k] > 1 /\ h[i].exp < h[s[k] \div 2].exp
      /\ \A k \in 1..n : k # n => s[n] < s[k]
      /\ s[n] > 1 => ~ (h[i].exp < h[s[n] \div 2].exp)
  BY <1>2 DEF IsUpPath, Rises
<1>9. \A k \in 1..n : s[k] \in 1..i /\ s[k] \in Nat
  BY <1>2 DEF IsUpPath, IsPath
<1>10. \A k \in 1..n - 1 : k \in 1..n /\ k + 1 \in 1..n /\ k # n
  BY <1>3
<1>11. \A k \in 1..n : k # n => k \in 1..n - 1
  BY <1>3
<1>12. n \in 1..n /\ 1 \in 1..n
  BY <1>3
<1>13. \A p \in 2..Len(h) : p \in 1..Len(h) /\ p \in Nat /\ p > 1 /\ p \div 2 \in 1..Len(h) /\ p \div 2 < p
  BY <1>1, Halves
<1>14. \A p \in 2..Len(h) : p # i => h[p \div 2].exp <= h[p].exp
  BY DEF OrderedButUp
<1>15. \A p \in 2..Len(h) : p \div 2 = i /\ i > 1 => h[i \div 2].exp <= h[p].exp
  BY DEF OrderedButUp
<1>16. ASSUME NEW p \in 2..Len(h) PROVE g[p \div 2].exp <= g[p].exp
  <2> DEFINE q == p \div 2
  <2>q. q \in 1..Len(h) /\ q < p /\ q \in Nat /\ p \in Nat /\ p > 1 /\ p \in 1..Len(h)
    BY <1>13
  <2>1. CASE \E k \in 1..n - 1 : s[k] = p
    <3>1. PICK k \in 1..n - 1 : s[k] = p
      BY <2>1
    <3>2. g[p] = h[q] /\ s[k + 1] = q /\ h[i].exp < h[q].exp
      BY <3>1, <1>5, <1>8
    <3>3. CASE k + 1 = n
      <4>1. g[q] = h[i]
        BY <1>5, <1>8, <3>2, <3>3
      <4> QED BY <3>2, <4>1, <1>7, <2>q
    <3>4. CASE k + 1 # n
      <4>1. k + 1 \in 1..n - 1
        BY <1>10, <1>11, <3>4
      <4>2. g[q] = h[q \div 2] /\ q > 1
        <5>1. g[s[k + 1]] = h[s[(k + 1) + 1]]
          BY <4>1, <1>5
        <5>2. s[(k + 1) + 1] = s[k + 1] \div 2 /\ s[k + 1] > 1
          BY <4>1, <1>8
        <5> QED BY <3>2, <5>1, <5>2
      <4>3. q # i /\ q \in 2..Len(h)
        BY <1>9, <1>10, <3>1, <2>q, <4>2, SMTT(30)
      <4>4. h[q \div 2].exp <= h[q].exp
        BY <1>14, <4>3
      <4> QED BY <3>2, <4>2, <4>4
    <3> QED BY <3>3, <3>4
  <2>2. CASE p = s[n]
    <3>1. ~ OnPath(s, q)
      BY <1>8, <1>9, <1>12, <2>2, <2>q DEF OnPath
    <3>2. g[q] = h[q] /\ g[p] = h[i]
      BY <1>5, <1>8, <2>2, <2>q, <3>1
    <3>3. ~ (h[i].exp < h[q].exp)
      BY <1>8, <2>2, <2>q
    <3> QED BY <1>7, <2>q, <3>2, <3>3
  <2>3. CASE ~ OnPath(s, p)
    <3>1. g[p] = h[p] /\ p # i
      BY <1>5, <1>8, <1>12, <2>3, <2>q DEF OnPath
    <3>2. h[q].exp <= h[p].exp
      BY <1>14, <3>1
    <3>3. CASE ~ OnPath(s, q)
      BY <1>5, <2>q, <3>1, <3>2, <3>3
    <3>4. CASE \E k \in 1..n - 1 : s[k] = q
      <4>1. PICK k \in 1..n - 1 : s[k] = q
        BY <3>4
      <4>2. g[q] = h[q \div 2] /\ q > 1
        <5>1. g[s[k]] = h[s[k + 1]]
          BY <4>1, <1>5
        <5>2. s[k + 1] = s[k] \div 2 /\ s[k] > 1
          BY <4>1, <1>8
        <5> QED BY <4>1, <5>1, <5>2
      <4>3. CASE q = i
        BY <1>15, <3>1, <4>2, <4>3
      <4>4. CASE q # i
        <5>1. h[q \div 2].exp <= h[q].exp /\ q \div 2 \in 1..Len(h)
          BY <1>14, <1>13, <4>2, <4>4, <2>q
        <5> QED BY <5>1, <1>7, <2>q, <3>1, <3>2, <4>2, SMTT(30)
      <4> QED BY <4>3, <4>4
    <3>5. CASE s[n] = q
      <4>1. g[q] = h[i]
        BY <1>5, <1>8, <3>5
      <4>2. CASE n = 1
        BY <1>8, <3>1, <3>2, <3>5, <4>1, <4>2
      <4>3. CASE n # 1
        <5>1. n - 1 \in 1..n - 1 /\ (n - 1) + 1 = n
          <6>1. \A m \in Nat : m >= 1 /\ m # 1 => m - 1 \in 1..m - 1 /\ (m - 1) + 1 = m
            OBVIOUS
          <6> QED BY <1>3, <4>3, <6>1
        <5>2. s[n] = s[n - 1] \div 2 /\ h[i].exp < h[s[n - 1] \div 2].exp
          BY <1>8, <5>1
        <5>3. h[i].exp < h[q].exp
          BY <5>2, <3>5
        <5> QED BY <1>7, <1>1, <2>q, <3>1, <3>2, <4>1, <5>3
      <4> QED BY <4>2, <4>3
    <3> QED BY <3>3, <3>4, <3>5, <1>11 DEF OnPath
  <2> QED BY <2>1, <2>2, <2>3, <1>11 DEF OnPath
<1>17. IsHeap(g)
  BY <1>5, <1>16 DEF IsHeap
<1> QED BY <1>5, <1>6, <1>17 DEF g

-----------------------------------------------------------------------------
(* DownHeap *)

\* The entry at i is to move from p to the place of p's earliest child.
Sinks(h, i, p) == 2*p <= Len(h) /\ ~ (h[i].exp < h[MinChild(h, p)].exp)

\* s goes from p to earliest children as long as they are not later than the entry at i.
IsDownPath(h, i, p, s) ==
  /\ IsPath(s, Len(h)) /\ s[1] = p
  /\ \A k \in 1..Len(s) : s[k] >= p
  /\ \A k \in 1..Len(s) - 1 : s[k + 1] = MinChild(h, s[k]) /\ Sinks(h, i, s[k])
  /\ ~ Sinks(h, i, s[Len(s)])

\* The function by which DownPath is defined.
IsDown(h, i, u) ==
  u = [p \in i..Len(h) |-> IF 2*p <= Len(h) /\ ~ (h[i].exp < h[MinChild(h, p)].exp)
                             THEN <<p>> \o u[MinChild(h, p)] ELSE <<p>>]

LEMMA Children ==
  ASSUME NEW h, Len(h) \in Nat, NEW p \in 1..Len(h), 2*p <= Len(h)
  PROVE  /\ MinChild(h, p) \in 1..Len(h) /\ MinChild(h, p) \in Nat /\ p < MinChild(h, p)
         /\ MinChild(h, p) \div 2 = p
  BY DEF MinChild

LEMMA EarliestChild ==
  ASSUME NEW E, Timed(E), NEW h \in Seq(E), NEW q \in 2..Len(h)
  PROVE  2*(q \div 2) <= Len(h) /\ h[MinChild(h, q \div 2)].exp <= h[q].exp
<1> DEFINE p == q \div 2
<1>1. p \in 1..Len(h) /\ p \in Nat /\ (q = 2*p \/ q = 2*p + 1) /\ Len(h) \in Nat
  OBVIOUS
<1>2. \A r \in 1..Len(h) : h[r].exp \in Int
  BY DEF Timed
<1> HIDE DEF p
<1>3. 2*p <= Len(h) /\ 2*p \in 1..Len(h) /\ q \in 1..Len(h)
  BY <1>1
<1>4. CASE 2*p = Len(h)
  <2>1. MinChild(h, p) = q
    BY <1>1, <1>4 DEF MinChild
  <2> QED BY <1>2, <1>3, <2>1 DEF p
<1>5. CASE 2*p # Len(h)
  <2>1. 2*p + 1 \in 1..Len(h)
    BY <1>1, <1>3, <1>5
  <2>2. CASE h[2*p].exp < h[2*p + 1].exp
    <3>1. MinChild(h, p) = 2*p
      BY <2>2 DEF MinChild
    <3> QED BY <1>1, <1>2, <1>3, <2>1, <2>2, <3>1 DEF p
  <2>3. CASE ~ (h[2*p].exp < h[2*p + 1].exp)
    <3>1. MinChild(h, p) = 2*p + 1
      BY <1>5, <2>3 DEF MinChild
    <3> QED BY <1>1, <1>2, <1>3, <2>1, <2>3, <3>1 DEF p
  <2> QED BY <2>2, <2>3
<1> QED BY <1>4, <1>5

LEMMA DownExists ==
  ASSUME NEW h, Len(h) \in Nat, NEW i \in Nat, i >= 1 PROVE \E u : IsDown(h, i, u)
<1> DEFINE Body(u, p) == IF 2*p <= Len(h) /\ ~ (h[i].exp < h[MinChild(h, p)].exp)
                           THEN <<p>> \o u[MinChild(h, p)] ELSE <<p>>
           D(n) == {p \in i..Len(h) : p > Len(h) - n}
           S == {n \in Nat : \E u : u = [p \in D(n) |-> Body(u, p)]}
<1>1. 0 \in S
  <2> DEFINE u == [p \in D(0) |-> <<p>>]
  <2>1. D(0) = {}
    OBVIOUS
  <2>2. u = [p \in D(0) |-> Body(u, p)]
    <3> HIDE DEF Body, D
    <3> QED BY <2>1
  <2> HIDE DEF u, D, Body
  <2> QED BY <2>2
<1>2. ASSUME NEW n \in Nat, n \in S PROVE n + 1 \in S
  <2>1. PICK u : u = [p \in D(n) |-> Body(u, p)]
    BY <1>2
  <2> DEFINE v == [p \in D(n + 1) |-> Body(u, p)]
  <2>2. ASSUME NEW p \in D(n + 1) PROVE Body(v, p) = Body(u, p)
    <3>1. CASE 2*p <= Len(h)
      <4> DEFINE q == MinChild(h, p)
      <4>1. q \in 1..Len(h) /\ q \in Nat /\ p < q
        <5>1. p \in 1..Len(h)
          OBVIOUS
        <5> HIDE DEF D
        <5> QED BY <3>1, <5>1, Children
      <4>2. q \in D(n) /\ q \in D(n + 1)
        <5> HIDE DEF q
        <5> QED BY <4>1
      <4>3. u[q] = Body(u, q) /\ v[q] = Body(u, q)
        <5> HIDE DEF Body, q, D
        <5> QED BY <2>1, <4>2
      <4>4. u[q] = v[q]
        BY <4>3
      <4> HIDE DEF v
      <4> QED BY <4>4
    <3>2. CASE ~ (2*p <= Len(h))
      BY <3>2
    <3> QED BY <3>1, <3>2
  <2>3. v = [p \in D(n + 1) |-> Body(v, p)]
    <3> HIDE DEF Body, D
    <3> QED BY <2>2
  <2> HIDE DEF v, D, Body
  <2> QED BY <2>3
<1>3. Len(h) \in S
  <2> HIDE DEF S
  <2> QED BY <1>1, <1>2, Induct
<1>4. D(Len(h)) = i..Len(h)
  OBVIOUS
<1>5. \E u : u = [p \in i..Len(h) |-> Body(u, p)]
  <2> HIDE DEF Body, D
  <2> QED BY <1>3, <1>4
<1> QED BY <1>5 DEF IsDown

LEMMA DownIsDown ==
  ASSUME NEW h, Len(h) \in Nat, NEW i \in Nat, i >= 1
  PROVE  \E u : IsDown(h, i, u) /\ DownPath(h, i) = u[i]
<1> DEFINE u == CHOOSE u : IsDown(h, i, u)
<1>1. IsDown(h, i, u)
  BY DownExists
<1>2. DownPath(h, i) = u[i]
  BY DEF DownPath, IsDown
<1> HIDE DEF u
<1> QED BY <1>1, <1>2

LEMMA DownPathIsPath ==
  ASSUME NEW h, Len(h) \in Nat, NEW i \in 1..Len(h)
  PROVE  IsDownPath(h, i, i, DownPath(h, i))
<1>i. i \in Nat /\ i >= 1
  OBVIOUS
<1>1. PICK u : IsDown(h, i, u) /\ DownPath(h, i) = u[i]
  BY <1>i, DownIsDown
<1> DEFINE S == {n \in Nat : \A p \in i..Len(h) : p > Len(h) - n => IsDownPath(h, i, p, u[p])}
<1>2. 0 \in S
  OBVIOUS
<1>3. ASSUME NEW n \in Nat, n \in S, NEW p \in i..Len(h), p > Len(h) - (n + 1)
      PROVE  IsDownPath(h, i, p, u[p])
  <2>0. p \in 1..Len(h) /\ p \in Nat
    OBVIOUS
  <2>1. u[p] = IF Sinks(h, i, p) THEN <<p>> \o u[MinChild(h, p)] ELSE <<p>>
    <3> DEFINE Body(r) == IF 2*r <= Len(h) /\ ~ (h[i].exp < h[MinChild(h, r)].exp)
                            THEN <<r>> \o u[MinChild(h, r)] ELSE <<r>>
    <3>1. u = [r \in i..Len(h) |-> Body(r)]
      BY <1>1 DEF IsDown
    <3>2. u[p] = Body(p)
      <4> HIDE DEF Body
      <4> QED BY <3>1
    <3>3. Sinks(h, i, p) <=> 2*p <= Len(h) /\ ~ (h[i].exp < h[MinChild(h, p)].exp)
      BY DEF Sinks
    <3> QED BY <3>2, <3>3
  <2>2. CASE ~ Sinks(h, i, p)
    <3>1. u[p] = <<p>>
      BY <2>1, <2>2
    <3> QED BY <2>0, <3>1, <2>2 DEF IsDownPath, IsPath
  <2>3. CASE Sinks(h, i, p)
    <3> DEFINE q == MinChild(h, p)
               t == u[q]
               s == u[p]
    <3>1. q \in i..Len(h) /\ q > Len(h) - n /\ p < q /\ q \in Nat
      <4>1. q \in 1..Len(h) /\ q \in Nat /\ p < q
        BY <2>0, <2>3, Children DEF Sinks
      <4> HIDE DEF q
      <4> QED BY <4>1, <1>3
    <3>2. IsDownPath(h, i, q, t)
      <4> HIDE DEF q, t
      <4>1. \A r \in i..Len(h) : r > Len(h) - n => IsDownPath(h, i, r, u[r])
        BY <1>3
      <4> QED BY <3>1, <4>1 DEF t
    <3>3. s = <<p>> \o t
      BY <2>1, <2>3
    <3>s. q = MinChild(h, p)
      OBVIOUS
    <3> HIDE DEF q, t, s
    <3>4. t \in Seq(Nat) /\ Len(t) >= 1 /\ Len(t) \in Nat
      BY <3>2 DEF IsDownPath, IsPath
    <3>5. s \in Seq(Nat) /\ Len(s) = Len(t) + 1 /\ s[1] = p /\ \A k \in 1..Len(t) : s[k + 1] = t[k]
      BY <2>0, <3>3, <3>4, PrependPath, SMTT(30)
    <3>6. \A k \in 2..Len(s) : k - 1 \in 1..Len(t) /\ s[k] = t[k - 1]
      <4>1. \A k \in 2..Len(s) : k - 1 \in 1..Len(t) /\ (k - 1) + 1 = k
        BY <3>4, <3>5
      <4> QED BY <3>5, <4>1
    <3>7. \A k \in 1..Len(t) : t[k] \in 1..Len(h) /\ t[k] >= q
      BY <3>2 DEF IsDownPath, IsPath
    <3>8. \A k \in 2..Len(s) : s[k] \in 1..Len(h) /\ s[k] > p
      BY <2>0, <3>1, <3>6, <3>7
    <3>9. \A k \in 1..Len(s) : k = 1 \/ k \in 2..Len(s)
      BY <3>4, <3>5
    <3>10. IsPath(s, Len(h))
      <4>1. \A k \in 1..Len(s) : s[k] \in 1..Len(h)
        BY <2>0, <3>5, <3>8, <3>9
      <4>2. \A k, l \in 2..Len(s) : s[k] = s[l] => k = l
        <5>1. \A k, l \in 1..Len(t) : t[k] = t[l] => k = l
          BY <3>2 DEF IsDownPath, IsPath
        <5> QED BY <3>6, <5>1, SMTT(30)
      <4>3. \A k, l \in 1..Len(s) : s[k] = s[l] => k = l
        BY <2>0, <3>5, <3>8, <3>9, <4>2
      <4> QED BY <3>4, <3>5, <4>1, <4>3 DEF IsPath
    <3>11. s[Len(s)] = t[Len(t)]
      <4>1. Len(s) \in 2..Len(s) /\ Len(s) - 1 = Len(t)
        BY <3>4, <3>5
      <4> QED BY <3>6, <4>1
    <3>12. ~ Sinks(h, i, s[Len(s)])
      BY <3>2, <3>11 DEF IsDownPath
    <3>13. \A k \in 1..Len(s) : s[k] >= p
      BY <2>0, <3>5, <3>8, <3>9
    <3>14. \A k \in 1..Len(s) - 1 : s[k + 1] = MinChild(h, s[k]) /\ Sinks(h, i, s[k])
      <4>1. \A k \in 1..Len(t) - 1 : t[k + 1] = MinChild(h, t[k]) /\ Sinks(h, i, t[k])
        BY <3>2 DEF IsDownPath
      <4>2. ASSUME NEW k \in 1..Len(s) - 1, k # 1
            PROVE  s[k + 1] = MinChild(h, s[k]) /\ Sinks(h, i, s[k])
        <5>1. k - 1 \in 1..Len(t) - 1 /\ k \in 2..Len(s) /\ k \in 1..Len(t) /\ (k - 1) + 1 = k
          BY <4>2, <3>4, <3>5
        <5>2. s[k] = t[k - 1] /\ s[k + 1] = t[k]
          BY <5>1, <3>5, <3>6
        <5>3. t[(k - 1) + 1] = MinChild(h, t[k - 1]) /\ Sinks(h, i, t[k - 1])
          BY <5>1, <4>1
        <5> QED BY <5>1, <5>2, <5>3
      <4>3. s[1 + 1] = MinChild(h, s[1]) /\ Sinks(h, i, s[1])
        <5>1. t[1] = q /\ 1 \in 1..Len(t)
          BY <3>2, <3>4 DEF IsDownPath
        <5> QED BY <3>5, <3>s, <5>1, <2>3
      <4> QED BY <4>2, <4>3
    <3>15. IsDownPath(h, i, p, s)
      BY <3>5, <3>10, <3>12, <3>13, <3>14 DEF IsDownPath
    <3> QED BY <3>15 DEF s
  <2> QED BY <2>2, <2>3
<1>4. ASSUME NEW n \in Nat, n \in S PROVE n + 1 \in S
  BY <1>3, <1>4
<1>5. Len(h) \in S
  <2> HIDE DEF S
  <2> QED BY <1>2, <1>4, Induct
<1>6. i \in i..Len(h) /\ i > Len(h) - Len(h)
  OBVIOUS
<1> QED BY <1>1, <1>5, <1>6

\* The heap is ordered but for the entry at i, which may be later than its children.
OrderedButDown(h, i) ==
  /\ \A p \in 2..Len(h) : p \div 2 # i => h[p \div 2].exp <= h[p].exp
  /\ \A p \in 2..Len(h) : p \div 2 = i /\ i > 1 => h[i \div 2].exp <= h[p].exp

LEMMA DownHeapOrders ==
  ASSUME NEW E, Timed(E), NEW h \in Seq(E), NEW i \in 1..Len(h), OrderedButDown(h, i)
  PROVE  /\ DownHeap(h, i) \in Seq(E) /\ Len(DownHeap(h, i)) = Len(h)
         /\ Entries(DownHeap(h, i)) = Entries(h)
         /\ Distinct(h) => Distinct(DownHeap(h, i))
         /\ IsHeap(DownHeap(h, i))
<1> DEFINE s == DownPath(h, i)
           g == DownHeap(h, i)
           n == Len(s)
<1>1. i \in Nat /\ i >= 1 /\ Len(h) \in Nat /\ i <= Len(h)
  OBVIOUS
<1>2. IsDownPath(h, i, i, s)
  BY <1>1, DownPathIsPath
<1>3. IsPath(s, Len(h)) /\ n \in Nat /\ n >= 1
  BY <1>2 DEF IsDownPath, IsPath
<1>4. g = Rotate(h, s)
  BY DEF DownHeap
<1> HIDE DEF s, g
<1>5. /\ g \in Seq(E) /\ Len(g) = Len(h)
      /\ \A k \in 1..n - 1 : g[s[k]] = h[s[k + 1]]
      /\ g[s[n]] = h[s[1]]
      /\ \A p \in 1..Len(h) : ~ OnPath(s, p) => g[p] = h[p]
  BY <1>3, <1>4, RotateMoves
<1>6. Entries(g) = Entries(h) /\ (Distinct(h) => Distinct(g))
  BY <1>3, <1>4, RotatePermutes
<1>7. \A p \in 1..Len(h) : h[p].exp \in Int
  BY DEF Timed
<1>8. /\ s[1] = i
      /\ \A k \in 1..n - 1 : s[k + 1] = MinChild(h, s[k]) /\ Sinks(h, i, s[k])
      /\ ~ Sinks(h, i, s[n])
  BY <1>2 DEF IsDownPath
<1>9. /\ \A k \in 1..n : s[k] \in 1..Len(h) /\ s[k] \in Nat /\ s[k] >= i
      /\ \A k, l \in 1..n : s[k] = s[l] => k = l
  BY <1>2 DEF IsDownPath, IsPath
<1>10. \A k \in 1..n - 1 : k \in 1..n /\ k + 1 \in 1..n /\ k # n
  BY <1>3
<1>11. \A k \in 1..n : k # n => k \in 1..n - 1
  BY <1>3
<1>12. n \in 1..n /\ 1 \in 1..n
  BY <1>3
<1>13. \A p \in 2..Len(h) : p \in 1..Len(h) /\ p \in Nat /\ p > 1 /\ p \div 2 \in 1..Len(h) /\ p \div 2 < p
  BY <1>1, Halves
<1>14. \A p \in 2..Len(h) : p \div 2 # i => h[p \div 2].exp <= h[p].exp
  BY DEF OrderedButDown
<1>15. \A p \in 2..Len(h) : p \div 2 = i /\ i > 1 => h[i \div 2].exp <= h[p].exp
  BY DEF OrderedButDown
\* The parent of what is on the path, below i, is the one before it.
<1>16. ASSUME NEW k \in 1..n - 1
       PROVE  /\ s[k + 1] \div 2 = s[k] /\ s[k + 1] \in 2..Len(h) /\ s[k + 1] # i
              /\ h[s[k + 1]].exp <= h[i].exp
  <2>1. k \in 1..n /\ k + 1 \in 1..n /\ s[k] \in 1..Len(h) /\ s[k + 1] \in 1..Len(h)
    BY <1>9, <1>10
  <2>2. s[k + 1] = MinChild(h, s[k]) /\ 2*s[k] <= Len(h) /\ ~ (h[i].exp < h[s[k + 1]].exp)
    BY <1>8 DEF Sinks
  <2>3. s[k + 1] \div 2 = s[k] /\ s[k] < s[k + 1]
    BY <1>1, <2>1, <2>2, Children
  <2>4. s[k] >= i /\ s[k] \in Nat /\ s[k + 1] \in Nat
    BY <1>9, <2>1
  <2>5. h[s[k + 1]].exp <= h[i].exp
    BY <1>1, <1>7, <2>1, <2>2, SMTT(30)
  <2> QED BY <1>1, <2>1, <2>3, <2>4, <2>5
<1>17. ASSUME NEW p \in 2..Len(h), NEW k \in 1..n, p \div 2 = s[k], OnPath(s, p), p # i
       PROVE  k \in 1..n - 1 /\ p = s[k + 1]
  <2>1. PICK l \in 1..n : s[l] = p
    BY <1>17 DEF OnPath
  <2>2. l # 1
    BY <1>8, <1>17, <2>1
  <2>3. l - 1 \in 1..n - 1 /\ (l - 1) + 1 = l
    BY <1>3, <2>2
  <2>4. s[l - 1] = s[k] /\ l - 1 \in 1..n
    BY <1>10, <1>16, <1>17, <2>1, <2>3
  <2>5. l - 1 = k
    BY <1>9, <2>4
  <2> QED BY <2>1, <2>3, <2>5
<1>18. ASSUME NEW p \in 2..Len(h) PROVE g[p \div 2].exp <= g[p].exp
  <2> DEFINE q == p \div 2
  <2>q. q \in 1..Len(h) /\ q < p /\ q \in Nat /\ p \in Nat /\ p > 1 /\ p \in 1..Len(h)
    BY <1>13
  <2>c. h[MinChild(h, q)].exp <= h[p].exp /\ 2*q <= Len(h)
    BY EarliestChild
  <2>m. MinChild(h, q) \in 1..Len(h)
    BY <1>1, <2>c, <2>q, Children
  <2>1. CASE \E k \in 1..n - 1 : s[k] = q
    <3>1. PICK k \in 1..n - 1 : s[k] = q
      BY <2>1
    <3>2. g[q] = h[s[k + 1]] /\ s[k + 1] = MinChild(h, q)
      BY <1>5, <1>8, <3>1
    <3>n. k \in 1..n /\ p # i
      BY <1>9, <1>10, <2>q, <3>1
    <3>3. CASE ~ OnPath(s, p)
      <4>1. g[p] = h[p]
        BY <1>5, <2>q, <3>3
      <4> QED BY <2>c, <3>2, <4>1
    <3>4. CASE OnPath(s, p)
      <4>1. p = s[k + 1]
        BY <1>17, <3>1, <3>4, <3>n
      <4>2. CASE k + 1 = n
        <5>1. g[p] = h[i]
          BY <1>5, <1>8, <4>1, <4>2
        <5> QED BY <1>16, <3>2, <5>1
      <4>3. CASE k + 1 # n
        <5>1. k + 1 \in 1..n - 1
          BY <1>10, <1>11, <4>3
        <5>2. g[s[k + 1]] = h[s[(k + 1) + 1]]
          BY <1>5, <5>1
        <5>3. s[(k + 1) + 1] \div 2 = s[k + 1] /\ s[(k + 1) + 1] \in 2..Len(h)
          BY <1>16, <5>1
        <5>4. h[s[k + 1]].exp <= h[s[(k + 1) + 1]].exp
          BY <1>14, <1>16, <5>3
        <5> QED BY <3>2, <4>1, <5>2, <5>4
      <4> QED BY <4>2, <4>3
    <3> QED BY <3>3, <3>4
  <2>2. CASE q = s[n]
    <3>1. p # i
      BY <1>9, <1>12, <2>2, <2>q
    <3>2. ~ OnPath(s, p)
      BY <1>12, <1>17, <1>10, <2>2, <3>1
    <3>3. g[p] = h[p] /\ g[q] = h[i]
      BY <1>5, <1>8, <2>2, <2>q, <3>2
    <3>4. h[i].exp < h[MinChild(h, q)].exp
      BY <1>8, <2>2, <2>c DEF Sinks
    <3> QED BY <1>1, <1>7, <2>c, <2>m, <2>q, <3>3, <3>4
  <2>3. CASE ~ OnPath(s, q)
    <3>1. g[q] = h[q] /\ q # i
      BY <1>5, <1>8, <1>12, <2>3, <2>q DEF OnPath
    <3>2. h[q].exp <= h[p].exp
      BY <1>14, <3>1
    <3>3. CASE p = i
      <4>1. CASE n = 1
        <5>1. g[p] = h[p]
          BY <1>5, <1>8, <3>3, <4>1
        <5> QED BY <3>1, <3>2, <5>1
      <4>2. CASE n # 1
        <5>1. 1 \in 1..n - 1
          <6>1. \A m \in Nat : m >= 1 /\ m # 1 => 1 \in 1..m - 1
            OBVIOUS
          <6> QED BY <1>3, <4>2, <6>1
        <5>2. g[p] = h[s[1 + 1]] /\ s[1 + 1] \div 2 = i /\ s[1 + 1] \in 2..Len(h)
          BY <1>5, <1>8, <1>16, <3>3, <5>1
        <5>3. h[q].exp <= h[s[1 + 1]].exp
          BY <1>15, <2>q, <3>3, <5>2
        <5> QED BY <3>1, <5>2, <5>3
      <4> QED BY <4>1, <4>2
    <3>4. CASE p # i /\ OnPath(s, p)
      <4>1. PICK l \in 1..n : s[l] = p
        BY <3>4 DEF OnPath
      <4>2. l # 1
        BY <1>8, <3>4, <4>1
      <4>3. l - 1 \in 1..n - 1 /\ (l - 1) + 1 = l
        BY <1>3, <4>2
      <4>4. s[l - 1] = q /\ l - 1 \in 1..n
        BY <1>10, <1>16, <4>1, <4>3
      <4> QED BY <2>3, <4>4 DEF OnPath
    <3>5. CASE ~ OnPath(s, p)
      <4>1. g[p] = h[p]
        BY <1>5, <2>q, <3>5
      <4> QED BY <3>1, <3>2, <4>1
    <3> QED BY <3>3, <3>4, <3>5
  <2> QED BY <2>1, <2>2, <2>3, <1>11 DEF OnPath
<1>19. IsHeap(g)
  BY <1>5, <1>18 DEF IsHeap
<1> QED BY <1>5, <1>6, <1>19 DEF g

-----------------------------------------------------------------------------
(* insert() and removeTimer() *)

\* An entry put into a heap leaves a heap, with that entry more.
LEMMA InsertOrders ==
  ASSUME NEW E, Timed(E), NEW h \in Seq(E), NEW e \in E, IsHeap(h)
  PROVE  /\ Insert(h, e) \in Seq(E) /\ Len(Insert(h, e)) = Len(h) + 1
         /\ Entries(Insert(h, e)) = Entries(h) \cup {e}
         /\ Distinct(h) /\ (\A p \in DOMAIN h : h[p].timer # e.timer) => Distinct(Insert(h, e))
         /\ IsHeap(Insert(h, e))
<1> DEFINE a == Append(h, e)
           i == Len(h) + 1
<1>1. /\ a \in Seq(E) /\ Len(a) = Len(h) + 1 /\ Len(h) \in Nat
      /\ a[i] = e /\ (\A p \in 1..Len(h) : a[p] = h[p])
      /\ DOMAIN a = 1..i /\ DOMAIN h = 1..Len(h)
  OBVIOUS
<1> HIDE DEF a
<1>2. i \in 1..Len(a) /\ \A p \in 1..i : p = i \/ p \in 1..Len(h)
  BY <1>1
<1>3. OrderedButUp(a, i)
  <2>1. ASSUME NEW p \in 2..Len(a), p # i PROVE a[p \div 2].exp <= a[p].exp
    <3>1. p \in 2..Len(h) /\ p \in 1..Len(h) /\ p \div 2 \in 1..Len(h)
      BY <1>1, <2>1, Halves
    <3>2. h[p \div 2].exp <= h[p].exp
      BY <3>1 DEF IsHeap
    <3> QED BY <1>1, <3>1, <3>2
  <2>2. \A p \in 2..Len(a) : p \div 2 # i
    BY <1>1
  <2> QED BY <2>1, <2>2 DEF OrderedButUp
<1>4. Entries(a) = Entries(h) \cup {e}
  <2>1. Entries(a) = {a[p] : p \in 1..i} /\ Entries(h) = {h[p] : p \in 1..Len(h)}
    BY <1>1 DEF Entries
  <2>2. i \in 1..i /\ \A p \in 1..Len(h) : p \in 1..i
    BY <1>1
  <2> HIDE DEF i
  <2> QED BY <1>1, <1>2, <2>1, <2>2
<1>5. Distinct(h) /\ (\A p \in DOMAIN h : h[p].timer # e.timer) => Distinct(a)
  <2> SUFFICES ASSUME Distinct(h), \A p \in 1..Len(h) : h[p].timer # e.timer,
                      NEW p \in 1..i, NEW q \in 1..i, a[p].timer = a[q].timer
               PROVE  p = q
    BY <1>1 DEF Distinct
  <2>1. \A x, y \in 1..Len(h) : h[x].timer = h[y].timer => x = y
    BY <1>1 DEF Distinct
  <2> HIDE DEF i
  <2> QED BY <1>1, <1>2, <2>1
<1>6. Insert(h, e) = UpHeap(a, i)
  BY DEF Insert, a
<1> HIDE DEF i
<1> QED BY <1>1, <1>2, <1>3, <1>4, <1>5, <1>6, UpHeapOrders

\* The heap after the last entry took the place of entry i.
Filled(h, i) == PopBack(SwapHeap(h, i, Len(h)))

LEMMA FilledHas ==
  ASSUME NEW E, NEW h \in Seq(E), NEW i \in 1..Len(h), i # Len(h)
  PROVE  /\ Filled(h, i) \in Seq(E) /\ Len(Filled(h, i)) = Len(h) - 1
         /\ DOMAIN Filled(h, i) = 1..Len(h) - 1
         /\ i \in 1..Len(h) - 1
         /\ \A p \in 1..Len(h) - 1 : Filled(h, i)[p] = IF p = i THEN h[Len(h)] ELSE h[p]
<1> DEFINE n == Len(h)
           w == SwapHeap(h, i, n)
<1>1. n \in Nat /\ n \in 1..n /\ i \in 1..n /\ DOMAIN h = 1..n /\ \A p \in 1..n : h[p] \in E
  OBVIOUS
<1>2. w = [p \in 1..n |-> IF p = n THEN h[i] ELSE IF p = i THEN h[n] ELSE h[p]]
  BY <1>1 DEF SwapHeap
<1>3. w \in Seq(E) /\ Len(w) = n
  <2>1. \A p \in 1..n : (IF p = n THEN h[i] ELSE IF p = i THEN h[n] ELSE h[p]) \in E
    BY <1>1
  <2> HIDE DEF n, w
  <2> QED BY <1>1, <1>2, <2>1
<1>4. Filled(h, i) = SubSeq(w, 1, n - 1)
  BY <1>3 DEF Filled, PopBack
<1>5. n - 1 \in 0..n /\ i \in 1..n - 1 /\ \A p \in 1..n - 1 : p \in 1..n /\ p # n
  OBVIOUS
<1> HIDE DEF n, w
<1>6. /\ SubSeq(w, 1, n - 1) \in Seq(E) /\ Len(SubSeq(w, 1, n - 1)) = n - 1
      /\ \A p \in 1..n - 1 : SubSeq(w, 1, n - 1)[p] = w[p]
  BY <1>1, <1>3, <1>5
<1>7. \A p \in 1..n - 1 : w[p] = IF p = i THEN h[n] ELSE h[p]
  BY <1>2, <1>5
<1> QED BY <1>4, <1>5, <1>6, <1>7 DEF n

\* The last entry removed.
LEMMA PoppedHas ==
  ASSUME NEW E, NEW h \in Seq(E), Len(h) >= 1
  PROVE  /\ PopBack(h) \in Seq(E) /\ Len(PopBack(h)) = Len(h) - 1
         /\ DOMAIN PopBack(h) = 1..Len(h) - 1
         /\ \A p \in 1..Len(h) - 1 : PopBack(h)[p] = h[p]
<1> DEFINE n == Len(h) - 1
<1>1. PopBack(h) = SubSeq(h, 1, n)
  BY DEF PopBack
<1>2. n \in Nat /\ n <= Len(h) /\ Len(h) \in Nat
  OBVIOUS
<1> HIDE DEF n
<1>3. /\ SubSeq(h, 1, n) \in Seq(E) /\ Len(SubSeq(h, 1, n)) = n
      /\ \A p \in 1..n : SubSeq(h, 1, n)[p] = h[p]
  BY <1>2
<1> QED BY <1>1, <1>3 DEF n

\* What is left when entry i has gone, wherever the others are.
LEMMA OneLess ==
  ASSUME NEW E, NEW h \in Seq(E), NEW g \in Seq(E), NEW i \in 1..Len(h), Distinct(h),
         Len(g) = Len(h) - 1,
         i = Len(h) \/ i \in 1..Len(h) - 1,
         \A p \in 1..Len(h) - 1 : g[p] = IF p = i THEN h[Len(h)] ELSE h[p]
  PROVE  Distinct(g) /\ Entries(g) = Entries(h) \ {h[i]}
<1> DEFINE n == Len(h)
<1>1. /\ n \in Nat /\ DOMAIN g = 1..n - 1 /\ DOMAIN h = 1..n /\ n \in 1..n
      /\ \A p \in 1..n - 1 : p \in 1..n /\ p # n
      /\ \A p \in 1..n : p # n => p \in 1..n - 1
  OBVIOUS
<1>2. \A p, q \in 1..n : h[p].timer = h[q].timer => p = q
  BY <1>1 DEF Distinct
<1>3. \A p \in 1..n - 1 : g[p] = IF p = i THEN h[n] ELSE h[p]
  OBVIOUS
<1> HIDE DEF n
<1>4. Distinct(g)
  <2> SUFFICES ASSUME NEW p \in 1..n - 1, NEW q \in 1..n - 1, g[p].timer = g[q].timer
               PROVE  p = q
    BY <1>1 DEF Distinct
  <2> QED BY <1>1, <1>2, <1>3
<1>5. ASSUME NEW p \in 1..n - 1 PROVE \E q \in 1..n : g[p] = h[q] /\ h[q] # h[i]
  <2>1. CASE p = i
    <3>1. h[n] # h[i]
      BY <1>1, <1>2, <2>1
    <3> QED BY <1>1, <1>3, <2>1, <3>1
  <2>2. CASE p # i
    <3>1. h[p] # h[i]
      BY <1>1, <1>2, <2>2 DEF n
    <3> QED BY <1>1, <1>3, <2>2, <3>1
  <2> QED BY <2>1, <2>2
<1>6. ASSUME NEW q \in 1..n, h[q] # h[i] PROVE \E p \in 1..n - 1 : g[p] = h[q]
  <2>1. q # i
    BY <1>6
  <2>2. CASE q = n
    <3>1. i \in 1..n - 1
      BY <2>1, <2>2 DEF n
    <3> QED BY <1>3, <2>2, <3>1
  <2>3. CASE q # n
    BY <1>1, <1>3, <2>1, <2>3
  <2> QED BY <2>2, <2>3
<1>7. Entries(g) = {g[p] : p \in 1..n - 1} /\ Entries(h) = {h[p] : p \in 1..n}
  BY <1>1 DEF Entries
<1>8. \A x : x \in Entries(g) => x \in Entries(h) /\ x # h[i]
  BY <1>5, <1>7
<1>9. \A x : x \in Entries(h) /\ x # h[i] => x \in Entries(g)
  BY <1>6, <1>7
<1> QED BY <1>4, <1>8, <1>9

\* A removal leaves a heap with the other entries.
LEMMA RemoveOrders ==
  ASSUME NEW E, Timed(E), NEW h \in Seq(E), NEW i \in 1..Len(h), IsHeap(h), Distinct(h)
  PROVE  /\ Remove(h, i) \in Seq(E) /\ Len(Remove(h, i)) = Len(h) - 1
         /\ Entries(Remove(h, i)) = Entries(h) \ {h[i]}
         /\ Distinct(Remove(h, i))
         /\ IsHeap(Remove(h, i))
<1>0. Len(h) \in Nat /\ i \in Nat
  OBVIOUS
<1>h. \A p \in 2..Len(h) : h[p \div 2].exp <= h[p].exp
  BY DEF IsHeap
<1>e. \A p \in 1..Len(h) : h[p].exp \in Int
  BY DEF Timed
<1>1. CASE i = Len(h)
  <2> DEFINE g == PopBack(h)
  <2>1. g \in Seq(E) /\ Len(g) = Len(h) - 1 /\ \A p \in 1..Len(h) - 1 : g[p] = h[p]
    BY PoppedHas
  <2>2. Remove(h, i) = g
    BY <1>1 DEF Remove
  <2> HIDE DEF g
  <2>3. Distinct(g) /\ Entries(g) = Entries(h) \ {h[i]}
    <3>1. \A p \in 1..Len(h) - 1 : g[p] = IF p = i THEN h[Len(h)] ELSE h[p]
      BY <1>0, <1>1, <2>1
    <3> QED BY <1>1, <2>1, <3>1, OneLess
  <2>4. ASSUME NEW p \in 2..Len(g) PROVE g[p \div 2].exp <= g[p].exp
    <3>1. p \in 2..Len(h) /\ p \in 1..Len(h) - 1 /\ p \div 2 \in 1..Len(h) - 1
      BY <1>0, <2>1, Halves
    <3> QED BY <1>h, <2>1, <3>1
  <2> QED BY <2>1, <2>2, <2>3, <2>4 DEF IsHeap
<1>2. CASE i # Len(h)
  <2> DEFINE g == Filled(h, i)
             n == Len(h) - 1
  <2>1. /\ g \in Seq(E) /\ Len(g) = n /\ i \in 1..n
        /\ \A p \in 1..n : g[p] = IF p = i THEN h[Len(h)] ELSE h[p]
    BY <1>2, FilledHas
  <2>2. Remove(h, i) = IF i > 1 /\ g[i].exp < g[i \div 2].exp THEN UpHeap(g, i) ELSE DownHeap(g, i)
    BY <1>2 DEF Remove, Filled
  <2> HIDE DEF g
  <2>3. Distinct(g) /\ Entries(g) = Entries(h) \ {h[i]}
    BY <2>1, OneLess, SMTT(30)
  <2>4. /\ \A p \in 2..n : p \in 2..Len(h) /\ p \in 1..n /\ p \div 2 \in 1..n /\ p \div 2 < p
                           /\ p \in 1..Len(h) /\ p \div 2 \in 1..Len(h)
        /\ n \in Nat /\ n < Len(h)
    BY <1>0, <2>1, Halves
  <2>5. \A p \in 2..n : p # i /\ p \div 2 # i => g[p \div 2].exp <= g[p].exp
    BY <1>h, <2>1, <2>4
  \* The children of i were not earlier than the parent of i.
  <2>6. ASSUME NEW p \in 2..n, p \div 2 = i, i > 1
        PROVE  /\ g[i \div 2].exp <= g[p].exp /\ g[i \div 2] = h[i \div 2]
               /\ g[p] = h[p] /\ i \div 2 \in 1..Len(h) /\ p \in 1..Len(h)
    <3>1. i \in 2..n /\ i \div 2 \in 1..n /\ i \div 2 # i /\ p # i
      BY <1>0, <2>1, <2>4, <2>6, Halves
    <3>2. g[i \div 2] = h[i \div 2] /\ g[p] = h[p]
      BY <2>1, <2>4, <3>1
    <3>3. h[i \div 2].exp <= h[i].exp /\ h[i].exp <= h[p].exp /\ i \div 2 \in 1..Len(h)
      BY <1>h, <2>4, <2>6, <3>1
    <3> QED BY <1>e, <2>4, <3>2, <3>3, SMTT(30)
  <2>7. CASE i > 1 /\ g[i].exp < g[i \div 2].exp
    <3>1. ASSUME NEW p \in 2..n, p # i PROVE g[p \div 2].exp <= g[p].exp
      <4>1. CASE p \div 2 = i
        <5>1. g[i \div 2].exp <= g[p].exp
          BY <2>6, <2>7, <4>1
        <5>2. \A r \in 1..n : g[r].exp \in Int
          BY <2>1 DEF Timed
        <5>3. i \div 2 \in 1..n /\ i \in 1..n /\ p \in 1..n
          BY <1>0, <2>1, <2>4, <2>7, Halves
        <5>4. g[i].exp <= g[p].exp
          BY <2>7, <5>1, <5>2, <5>3
        <5> QED BY <4>1, <5>4
      <4> QED BY <2>5, <3>1, <4>1
    <3>2. OrderedButUp(g, i)
      BY <2>1, <2>6, <3>1 DEF OrderedButUp
    <3>3. Remove(h, i) = UpHeap(g, i)
      BY <2>2, <2>7
    <3>4. /\ UpHeap(g, i) \in Seq(E) /\ Len(UpHeap(g, i)) = Len(g) /\ IsHeap(UpHeap(g, i))
          /\ Entries(UpHeap(g, i)) = Entries(g) /\ Distinct(UpHeap(g, i))
      BY <2>1, <2>3, <3>2, UpHeapOrders
    <3> QED BY <2>1, <2>3, <3>3, <3>4
  <2>8. CASE ~ (i > 1 /\ g[i].exp < g[i \div 2].exp)
    <3>1. ASSUME NEW p \in 2..n, p \div 2 # i PROVE g[p \div 2].exp <= g[p].exp
      <4>1. CASE p = i
        <5>1. \A r \in 1..n : g[r].exp \in Int
          BY <2>1 DEF Timed
        <5>2. i > 1 /\ p \div 2 \in 1..n
          BY <1>0, <2>4, <4>1
        <5> QED BY <2>1, <2>8, <4>1, <5>1, <5>2, SMTT(30)
      <4> QED BY <2>5, <3>1, <4>1
    <3>2. OrderedButDown(g, i)
      BY <2>1, <2>6, <3>1 DEF OrderedButDown
    <3>3. Remove(h, i) = DownHeap(g, i)
      BY <2>2, <2>8
    <3>4. /\ DownHeap(g, i) \in Seq(E) /\ Len(DownHeap(g, i)) = Len(g) /\ IsHeap(DownHeap(g, i))
          /\ Entries(DownHeap(g, i)) = Entries(g) /\ Distinct(DownHeap(g, i))
      BY <2>1, <2>3, <3>2, DownHeapOrders
    <3> QED BY <2>1, <2>3, <3>3, <3>4
  <2> QED BY <2>7, <2>8
<1> QED BY <1>1, <1>2

=============================================================================
