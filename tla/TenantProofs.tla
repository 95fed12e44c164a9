---------------------------- MODULE TenantProofs ----------------------------
(***************************************************************************)
(* Proofs about TenantResolver, for any tenants, requests, settings and    *)
(* capacities: first the lists of the cache, then TenantIInv.              *)
(***************************************************************************)
EXTENDS TenantResolver, TLAPS

(* The smaller of two integers.                                            *)
LEMMA MinOfTwo == \A a, b \in Int : Min({a, b}) = IF a <= b THEN a ELSE b
  <1> SUFFICES ASSUME NEW a \in Int, NEW b \in Int
               PROVE  Min({a, b}) = IF a <= b THEN a ELSE b
    OBVIOUS
  <1> DEFINE m == IF a <= b THEN a ELSE b
  <1>1. m \in {a, b} /\ \A y \in {a, b} : m <= y  OBVIOUS
  <1>2. \A x \in {a, b} : (\A y \in {a, b} : x <= y) => x = m  OBVIOUS
  <1> HIDE DEF m
  <1>3. Min({a, b}) = m  BY <1>1, <1>2 DEF Min
  <1> QED  BY Zenon, <1>3 DEF m

(* The larger of two integers.                                             *)
LEMMA MaxOfTwo == \A a, b \in Int : Max({a, b}) = IF a >= b THEN a ELSE b
  <1> SUFFICES ASSUME NEW a \in Int, NEW b \in Int
               PROVE  Max({a, b}) = IF a >= b THEN a ELSE b
    OBVIOUS
  <1> DEFINE m == IF a >= b THEN a ELSE b
  <1>1. m \in {a, b} /\ \A y \in {a, b} : m >= y  OBVIOUS
  <1>2. \A x \in {a, b} : (\A y \in {a, b} : x >= y) => x = m  OBVIOUS
  <1> HIDE DEF m
  <1>3. Max({a, b}) = m  BY <1>1, <1>2 DEF Max
  <1> QED  BY Zenon, <1>3 DEF m

Distinct(l) == \A i, j \in 1..Len(l) : l[i].key = l[j].key => i = j

(* The index of a key that a list holds.                                   *)
LEMMA IndexIs ==
    ASSUME NEW l, NEW k \in KeysOf(l)
    PROVE  IndexOf(l, k) \in 1..Len(l) /\ l[IndexOf(l, k)].key = k
  BY Zenon DEF IndexOf, KeysOf

(* Two sequences joined.                                                   *)
LEMMA Joined ==
    ASSUME NEW S, NEW a \in Seq(S), NEW b \in Seq(S)
    PROVE  /\ a \o b \in Seq(S) /\ Len(a \o b) = Len(a) + Len(b)
           /\ \A j \in 1..(Len(a) + Len(b)) : (a \o b)[j] = IF j <= Len(a) THEN a[j] ELSE b[j - Len(a)]
  OBVIOUS

(* The list without the entry at an index.                                 *)
LEMMA RemovedIs ==
    ASSUME NEW l \in Seq(Entries), NEW i \in 1..Len(l)
    PROVE  /\ Removed(l, i) \in Seq(Entries)
           /\ Len(Removed(l, i)) = Len(l) - 1
           /\ \A j \in 1..(Len(l) - 1) : Removed(l, i)[j] = IF j < i THEN l[j] ELSE l[j + 1]
  <1> DEFINE a == SubSeq(l, 1, i - 1)
             b == SubSeq(l, i + 1, Len(l))
  <1>1. a \in Seq(Entries) /\ Len(a) = i - 1 /\ \A j \in 1..(i - 1) : a[j] = l[j]
    OBVIOUS
  <1>2. b \in Seq(Entries) /\ Len(b) = Len(l) - i /\ \A j \in 1..(Len(l) - i) : b[j] = l[i + j]
    OBVIOUS
  <1>3. Removed(l, i) = a \o b  BY Zenon DEF Removed
  <1> HIDE DEF a, b
  <1>4. /\ a \o b \in Seq(Entries) /\ Len(a \o b) = Len(a) + Len(b)
        /\ \A j \in 1..(Len(a) + Len(b)) : (a \o b)[j] = IF j <= Len(a) THEN a[j] ELSE b[j - Len(a)]
    BY Zenon, <1>1, <1>2, Joined
  <1>5. \A j \in 1..(Len(l) - 1) : (a \o b)[j] = IF j < i THEN l[j] ELSE l[j + 1]
    <2> TAKE j \in 1..(Len(l) - 1)
    <2>1. CASE j < i
      <3>1. /\ j <= Len(a) /\ j \in 1..(i - 1) /\ j \in 1..(Len(a) + Len(b))
        <4>1. Len(a) = i - 1 /\ Len(b) = Len(l) - i /\ Len(l) \in Nat  BY <1>1, <1>2
        <4> QED  BY <2>1, <4>1
      <3>2. (a \o b)[j] = a[j]  BY Zenon, <1>4, <3>1
      <3>3. a[j] = l[j]  BY Zenon, <1>1, <3>1
      <3> QED  BY Zenon, <2>1, <3>2, <3>3
    <2>2. CASE j >= i
      <3>1. /\ j - Len(a) \in 1..(Len(l) - i) /\ i + (j - Len(a)) = j + 1
            /\ ~(j <= Len(a)) /\ ~(j < i) /\ j \in 1..(Len(a) + Len(b))
        <4>1. Len(a) = i - 1 /\ Len(b) = Len(l) - i /\ Len(l) \in Nat  BY <1>1, <1>2
        <4> QED  BY <2>2, <4>1
      <3>2. (a \o b)[j] = b[j - Len(a)]  BY Zenon, <1>4, <3>1
      <3>3. b[j - Len(a)] = l[i + (j - Len(a))]  BY Zenon, <1>2, <3>1
      <3> QED  BY Zenon, <3>1, <3>2, <3>3
    <2>3. j < i \/ j >= i  OBVIOUS
    <2> QED  BY Zenon, <2>1, <2>2, <2>3
  <1> QED  BY <1>1, <1>2, <1>3, <1>4, <1>5

(* The list without a key: the other entries in their order.               *)
LEMMA WithoutIs ==
    ASSUME NEW l \in Seq(Entries), NEW k, Distinct(l)
    PROVE  /\ Without(l, k) \in Seq(Entries)
           /\ Len(Without(l, k)) = IF k \in KeysOf(l) THEN Len(l) - 1 ELSE Len(l)
           /\ \A j \in 1..Len(Without(l, k)) :
                 /\ Without(l, k)[j] \in {l[i] : i \in 1..Len(l)}
                 /\ Without(l, k)[j].key # k
           /\ Distinct(Without(l, k))
           /\ KeysOf(Without(l, k)) = KeysOf(l) \ {k}
  <1> DEFINE m == Without(l, k)
  <1>1. CASE k \notin KeysOf(l)
    <2>1. m = l  BY Zenon, <1>1 DEF Without
    <2> QED  BY <1>1, <2>1 DEF KeysOf
  <1>2. CASE k \in KeysOf(l)
    <2> DEFINE i == IndexOf(l, k)
    <2>1. i \in 1..Len(l) /\ l[i].key = k  BY Zenon, <1>2, IndexIs
    <2>2. m = Removed(l, i)  BY Zenon, <1>2 DEF Without
    <2> HIDE DEF m, i
    <2>3. /\ m \in Seq(Entries) /\ Len(m) = Len(l) - 1
          /\ \A j \in 1..Len(m) : m[j] = IF j < i THEN l[j] ELSE l[j + 1]
      <3>1. /\ m \in Seq(Entries) /\ Len(m) = Len(l) - 1
            /\ \A j \in 1..(Len(l) - 1) : m[j] = IF j < i THEN l[j] ELSE l[j + 1]
        BY Zenon, <2>1, <2>2, RemovedIs
      <3> QED  BY Zenon, <3>1
    <2>4. Len(l) \in Nat  OBVIOUS
    <2>5. \A j \in 1..Len(m) : \E h \in 1..Len(l) : h # i /\ m[j] = l[h] /\ h = IF j < i THEN j ELSE j + 1
      BY <2>1, <2>3, <2>4
    <2>6. \A j \in 1..Len(m) : m[j] \in {l[h] : h \in 1..Len(l)} /\ m[j].key # k
      BY Zenon, <2>1, <2>5 DEF Distinct
    <2>7. Distinct(m)
      <3> SUFFICES ASSUME NEW a \in 1..Len(m), NEW b \in 1..Len(m), m[a].key = m[b].key PROVE a = b
        BY Zenon DEF Distinct
      <3>1. PICK g \in 1..Len(l) : m[a] = l[g] /\ g = IF a < i THEN a ELSE a + 1  BY <2>5
      <3>2. PICK h \in 1..Len(l) : m[b] = l[h] /\ h = IF b < i THEN b ELSE b + 1  BY <2>5
      <3>3. g = h  BY Zenon, <3>1, <3>2 DEF Distinct
      <3> QED  BY <2>1, <3>1, <3>2, <3>3
    <2>8. KeysOf(m) = KeysOf(l) \ {k}
      <3>1. KeysOf(m) \subseteq KeysOf(l) \ {k}  BY Zenon, <2>6 DEF KeysOf
      <3>2. ASSUME NEW h \in 1..Len(l), l[h].key # k PROVE l[h].key \in KeysOf(m)
        <4>1. h # i  BY Zenon, <2>1, <3>2
        <4>2. \E j \in 1..Len(m) : m[j] = l[h]
          <5>1. CASE h < i  BY <2>1, <2>3, <2>4, <5>1
          <5>2. CASE h > i
            <6>1. h - 1 \in 1..Len(m) /\ ~(h - 1 < i) /\ (h - 1) + 1 = h  BY <2>1, <2>3, <2>4, <5>2
            <6> QED  BY <2>3, <6>1
          <5> QED  BY <2>1, <4>1, <5>1, <5>2
        <4> QED  BY Zenon, <4>2 DEF KeysOf
      <3> QED  BY Zenon, <3>1, <3>2 DEF KeysOf
    <2> QED  BY Zenon, <1>2, <2>3, <2>6, <2>7, <2>8 DEF m
  <1> QED  BY Zenon, <1>1, <1>2

(* A list with one more entry in front.                                    *)
LEMMA FrontIs ==
    ASSUME NEW e \in Entries, NEW m \in Seq(Entries), Distinct(m), e.key \notin KeysOf(m)
    PROVE  /\ <<e>> \o m \in Seq(Entries)
           /\ Len(<<e>> \o m) = Len(m) + 1
           /\ (<<e>> \o m)[1] = e
           /\ \A j \in 2..(Len(m) + 1) : j - 1 \in 1..Len(m) /\ (<<e>> \o m)[j] = m[j - 1]
           /\ Distinct(<<e>> \o m)
           /\ KeysOf(<<e>> \o m) = {e.key} \cup KeysOf(m)
  <1> DEFINE s == <<e>> \o m
  <1>1. s \in Seq(Entries) /\ Len(s) = Len(m) + 1 /\ s[1] = e  OBVIOUS
  <1>2. \A j \in 2..(Len(m) + 1) : j - 1 \in 1..Len(m) /\ s[j] = m[j - 1]  OBVIOUS
  <1>3. \A j \in 1..Len(m) : j + 1 \in 1..Len(s) /\ s[j + 1] = m[j]  OBVIOUS
  <1> HIDE DEF s
  <1>4. \A j \in 1..Len(s) : j = 1 \/ j \in 2..(Len(m) + 1)  BY <1>1
  <1>5. 1 \in 1..Len(s)  BY <1>1
  <1>6. KeysOf(s) = {e.key} \cup KeysOf(m)
    <2>1. \A j \in 1..Len(s) : s[j].key \in {e.key} \cup KeysOf(m)
      BY Zenon, <1>1, <1>2, <1>4 DEF KeysOf
    <2>2. KeysOf(m) \subseteq KeysOf(s)  BY Zenon, <1>3 DEF KeysOf
    <2>3. e.key \in KeysOf(s)  BY Zenon, <1>1, <1>5 DEF KeysOf
    <2>4. KeysOf(s) \subseteq {e.key} \cup KeysOf(m)  BY Zenon, <2>1 DEF KeysOf
    <2> QED  BY Zenon, <2>2, <2>3, <2>4
  <1>7. \A j \in 2..(Len(m) + 1) : s[j].key \in KeysOf(m)  BY Zenon, <1>2 DEF KeysOf
  <1>8. Distinct(s)
    <2> SUFFICES ASSUME NEW a \in 1..Len(s), NEW b \in 1..Len(s), s[a].key = s[b].key PROVE a = b
      BY Zenon DEF Distinct
    <2>1. a = 1 <=> b = 1  BY Zenon, <1>1, <1>4, <1>7
    <2>2. CASE a # 1
      <3>1. a \in 2..(Len(m) + 1) /\ b \in 2..(Len(m) + 1)  BY Zenon, <1>4, <2>1, <2>2
      <3>2. a - 1 = b - 1  BY Zenon, <1>2, <3>1 DEF Distinct
      <3> QED  BY <3>1, <3>2
    <2> QED  BY Zenon, <2>1, <2>2
  <1> QED  BY Zenon, <1>1, <1>2, <1>6, <1>8 DEF s

(* The entry of a key is one of the list.                                  *)
LEMMA EntryIs ==
    ASSUME NEW l \in Seq(Entries), NEW k \in KeysOf(l)
    PROVE  /\ EntryOf(l, k) \in {l[i] : i \in 1..Len(l)}
           /\ EntryOf(l, k) \in Entries /\ EntryOf(l, k).key = k
  <1>1. IndexOf(l, k) \in 1..Len(l) /\ l[IndexOf(l, k)].key = k  BY Zenon, IndexIs
  <1>2. \A i \in 1..Len(l) : l[i] \in Entries  OBVIOUS
  <1> QED  BY Zenon, <1>1, <1>2 DEF EntryOf

(* ttlLRU.get keeps the entries it does not drop, and drops an expired one. *)
LEMMA AfterGetIs ==
    ASSUME NEW l \in Seq(Entries), NEW k, Distinct(l)
    PROVE  /\ AfterGet(l, k) \in Seq(Entries) /\ Distinct(AfterGet(l, k))
           /\ Len(AfterGet(l, k)) <= Len(l)
           /\ \A j \in 1..Len(AfterGet(l, k)) : AfterGet(l, k)[j] \in {l[i] : i \in 1..Len(l)}
           /\ KeysOf(AfterGet(l, k)) = IF Live(l, k) THEN KeysOf(l) ELSE KeysOf(l) \ {k}
  <1> DEFINE m == Without(l, k)
             g == AfterGet(l, k)
  <1>1. /\ m \in Seq(Entries) /\ Distinct(m) /\ KeysOf(m) = KeysOf(l) \ {k}
        /\ Len(m) = IF k \in KeysOf(l) THEN Len(l) - 1 ELSE Len(l)
        /\ \A j \in 1..Len(m) : m[j] \in {l[i] : i \in 1..Len(l)}
    BY Zenon, WithoutIs
  <1>2. CASE ~Live(l, k)
    <2>1. g = m  BY Zenon, <1>2 DEF AfterGet
    <2> HIDE DEF g, m
    <2>2. Len(m) <= Len(l)  BY <1>1
    <2> QED  BY Zenon, <1>1, <1>2, <2>1, <2>2 DEF g
  <1>3. CASE Live(l, k)
    <2>1. k \in KeysOf(l)  BY Zenon, <1>3 DEF Live
    <2> DEFINE e == EntryOf(l, k)
    <2>2. e \in {l[i] : i \in 1..Len(l)} /\ e \in Entries /\ e.key = k  BY Zenon, <2>1, EntryIs
    <2>3. g = <<e>> \o m  BY Zenon, <1>3 DEF AfterGet
    <2> HIDE DEF e, g, m
    <2>4. e.key \notin KeysOf(m)  BY Zenon, <1>1, <2>2
    <2>5. /\ g \in Seq(Entries) /\ Len(g) = Len(m) + 1 /\ g[1] = e /\ Distinct(g)
          /\ \A j \in 2..(Len(m) + 1) : j - 1 \in 1..Len(m) /\ g[j] = m[j - 1]
          /\ KeysOf(g) = {e.key} \cup KeysOf(m)
      <3> DEFINE f == <<e>> \o m
      <3>1. /\ f \in Seq(Entries) /\ Len(f) = Len(m) + 1 /\ f[1] = e /\ Distinct(f)
            /\ \A j \in 2..(Len(m) + 1) : j - 1 \in 1..Len(m) /\ f[j] = m[j - 1]
            /\ KeysOf(f) = {e.key} \cup KeysOf(m)
        BY ZenonT(60), <1>1, <2>2, <2>4, FrontIs
      <3> HIDE DEF f
      <3>2. g = f  BY Zenon, <2>3 DEF f
      <3> QED  BY Zenon, <3>1, <3>2
    <2>6. \A j \in 1..Len(g) : j = 1 \/ j \in 2..(Len(m) + 1)  BY <1>1, <2>5
    <2>7. \A j \in 1..Len(g) : g[j] \in {l[i] : i \in 1..Len(l)}  BY Zenon, <1>1, <2>2, <2>5, <2>6
    <2>8. Len(g) <= Len(l)  BY <1>1, <2>1, <2>5
    <2>9. KeysOf(g) = KeysOf(l)  BY ZenonT(60), <1>1, <2>1, <2>2, <2>5
    <2> QED  BY Zenon, <1>3, <2>5, <2>7, <2>8, <2>9 DEF g
  <1> QED  BY Zenon, <1>2, <1>3

(* ttlLRU.put: the new entry is in front, the others were there, and only the *)
(* least recently used are dropped, never when the key had an entry.       *)
LEMMA AfterPutIs ==
    ASSUME NEW l \in Seq(Entries), Distinct(l), NEW e \in Entries, NEW max \in Nat \ {0}
    PROVE  /\ AfterPut(l, e, max) \in Seq(Entries) /\ Distinct(AfterPut(l, e, max))
           /\ Len(AfterPut(l, e, max)) <= max
           /\ \A j \in 1..Len(AfterPut(l, e, max)) :
                 \/ AfterPut(l, e, max)[j] = e
                 \/ AfterPut(l, e, max)[j] \in {l[i] : i \in 1..Len(l)}
           /\ e.key \in KeysOf(AfterPut(l, e, max))
           /\ KeysOf(AfterPut(l, e, max)) \subseteq {e.key} \cup KeysOf(l)
           /\ e.key \in KeysOf(l) /\ Len(l) <= max =>
                 KeysOf(l) \subseteq KeysOf(AfterPut(l, e, max))
  <1> DEFINE m == Without(l, e.key)
             s == <<e>> \o m
             n == Min({max, Len(s)})
             g == AfterPut(l, e, max)
  <1>1. /\ m \in Seq(Entries) /\ Distinct(m) /\ KeysOf(m) = KeysOf(l) \ {e.key}
        /\ Len(m) = IF e.key \in KeysOf(l) THEN Len(l) - 1 ELSE Len(l)
        /\ \A j \in 1..Len(m) : m[j] \in {l[i] : i \in 1..Len(l)}
    BY Zenon, WithoutIs
  <1>2. g = SubSeq(s, 1, n)  BY Zenon DEF AfterPut
  <1> HIDE DEF m, g
  <1>3. /\ s \in Seq(Entries) /\ Len(s) = Len(m) + 1 /\ s[1] = e /\ Distinct(s)
        /\ \A j \in 2..(Len(m) + 1) : j - 1 \in 1..Len(m) /\ s[j] = m[j - 1]
        /\ KeysOf(s) = {e.key} \cup KeysOf(m)
    <2>1. e.key \notin KeysOf(m)  BY Zenon, <1>1
    <2> QED  BY ZenonT(60), <1>1, <2>1, FrontIs
  <1> HIDE DEF s
  <1>4. n = IF max <= Len(s) THEN max ELSE Len(s)
    <2>1. max \in Int /\ Len(s) \in Int  BY <1>3
    <2> QED  BY Zenon, <2>1, MinOfTwo
  <1> HIDE DEF n
  <1>5. n \in 1..Len(s) /\ n <= max  BY <1>1, <1>3, <1>4
  <1>6. g \in Seq(Entries) /\ Len(g) = n /\ \A j \in 1..n : g[j] = s[j]
    BY <1>2, <1>3, <1>5
  <1>7. \A j \in 1..n : j \in 1..Len(s) /\ (j = 1 \/ j \in 2..(Len(m) + 1))  BY <1>3, <1>5
  <1>8. 1 \in 1..n  BY <1>5
  <1>9. Distinct(g)  BY Zenon, <1>3, <1>6, <1>7 DEF Distinct
  <1>10. \A j \in 1..Len(g) : g[j] = e \/ g[j] \in {l[i] : i \in 1..Len(l)}
    <2> SUFFICES ASSUME NEW j \in 1..n PROVE g[j] = e \/ g[j] \in {l[i] : i \in 1..Len(l)}
      BY Zenon, <1>6
    <2>1. g[j] = s[j] /\ (j = 1 \/ j \in 2..(Len(m) + 1))  BY Zenon, <1>6, <1>7
    <2>2. CASE j = 1  BY Zenon, <1>3, <2>1, <2>2
    <2>3. CASE j \in 2..(Len(m) + 1)
      <3>1. s[j] = m[j - 1] /\ j - 1 \in 1..Len(m)  BY Zenon, <1>3, <2>3
      <3>2. m[j - 1] \in {l[i] : i \in 1..Len(l)}  BY Zenon, <1>1, <3>1
      <3> QED  BY Zenon, <2>1, <3>1, <3>2
    <2> QED  BY Zenon, <2>1, <2>2, <2>3
  <1>11. e.key \in KeysOf(g)  BY Zenon, <1>3, <1>6, <1>8 DEF KeysOf
  <1>12. KeysOf(g) \subseteq KeysOf(s)  BY Zenon, <1>6, <1>7 DEF KeysOf
  <1>13. KeysOf(g) \subseteq {e.key} \cup KeysOf(l)  BY Zenon, <1>1, <1>3, <1>12
  <1>14. e.key \in KeysOf(l) /\ Len(l) <= max => KeysOf(l) \subseteq KeysOf(g)
    <2> HAVE e.key \in KeysOf(l) /\ Len(l) <= max
    <2>1. n = Len(s)  BY <1>1, <1>3, <1>4
    <2>2. KeysOf(g) = KeysOf(s)  BY Zenon, <1>6, <2>1 DEF KeysOf
    <2> QED  BY Zenon, <1>1, <1>3, <2>2
  <1> QED  BY Zenon, <1>5, <1>6, <1>9, <1>10, <1>11, <1>13, <1>14 DEF g

(* A tick changes nothing of an entry but the time it has left.            *)
LEMMA AgedIs ==
    ASSUME NEW l \in Seq(Entries)
    PROVE  /\ Aged(l) \in Seq(Entries) /\ Len(Aged(l)) = Len(l) /\ KeysOf(Aged(l)) = KeysOf(l)
           /\ Distinct(l) => Distinct(Aged(l))
           /\ \A i \in 1..Len(l) :
                 /\ Aged(l)[i].key = l[i].key /\ Aged(l)[i].id = l[i].id
                 /\ Aged(l)[i].lag = l[i].lag
                 /\ Aged(l)[i].left \in Int /\ Aged(l)[i].left <= IF l[i].left < -1 THEN -1 ELSE l[i].left
                 /\ Aged(l)[i].left >= 0 => Aged(l)[i].left = l[i].left - 1
  <1> DEFINE a == Aged(l)
             E(i) == [l[i] EXCEPT !.left = Max({l[i].left - 1, -1})]
  <1>1. a = [i \in 1..Len(l) |-> E(i)]  BY Zenon DEF Aged
  <1>2. \A i \in 1..Len(l) : l[i] \in Entries  OBVIOUS
  <1>3. \A i \in 1..Len(l) : Max({l[i].left - 1, -1}) = IF l[i].left - 1 >= -1 THEN l[i].left - 1 ELSE -1
    <2> TAKE i \in 1..Len(l)
    <2>1. l[i].left - 1 \in Int /\ -1 \in Int  BY <1>2 DEF Entries
    <2> QED  BY Zenon, <2>1, MaxOfTwo
  <1>4. \A i \in 1..Len(l) :
           /\ E(i) \in Entries
           /\ E(i).key = l[i].key /\ E(i).id = l[i].id /\ E(i).lag = l[i].lag
           /\ E(i).left = IF l[i].left - 1 >= -1 THEN l[i].left - 1 ELSE -1
    <2> SUFFICES ASSUME NEW i \in 1..Len(l)
                 PROVE  /\ E(i) \in Entries
                        /\ E(i).key = l[i].key /\ E(i).id = l[i].id /\ E(i).lag = l[i].lag
                        /\ E(i).left = IF l[i].left - 1 >= -1 THEN l[i].left - 1 ELSE -1
      BY Zenon
    <2> DEFINE v == Max({l[i].left - 1, -1})
    <2>1. v \in Int /\ v = IF l[i].left - 1 >= -1 THEN l[i].left - 1 ELSE -1
      BY <1>2, <1>3 DEF Entries
    <2>2. l[i] \in Entries  BY Zenon, <1>2
    <2> HIDE DEF v
    <2>3. \A e \in Entries, w \in Int :
             /\ [e EXCEPT !.left = w] \in Entries
             /\ [e EXCEPT !.left = w].key = e.key /\ [e EXCEPT !.left = w].id = e.id
             /\ [e EXCEPT !.left = w].lag = e.lag /\ [e EXCEPT !.left = w].left = w
      BY Zenon DEF Entries
    <2> DEFINE w == [l[i] EXCEPT !.left = v]
    <2>4. E(i) = w  BY Zenon DEF v
    <2>5. w \in Entries /\ w.key = l[i].key /\ w.id = l[i].id /\ w.lag = l[i].lag /\ w.left = v
      BY ZenonT(60), <2>1, <2>2, <2>3
    <2> HIDE DEF E, w
    <2> QED  BY Zenon, <2>1, <2>4, <2>5
  <1> HIDE DEF E, a
  <1>5. a \in Seq(Entries) /\ Len(a) = Len(l)
    <2>1. \A i \in 1..Len(l) : E(i) \in Entries  BY Zenon, <1>4
    <2> QED  BY <1>1, <2>1
  <1>6. \A i \in 1..Len(l) : a[i] = E(i)  BY Zenon, <1>1
  <1>7. KeysOf(a) = KeysOf(l)
    <2>1. \A i \in 1..Len(l) : a[i].key = l[i].key  BY Zenon, <1>4, <1>6
    <2> QED  BY Zenon, <1>5, <2>1 DEF KeysOf
  <1>8. Distinct(l) => Distinct(a)
    <2>1. \A i \in 1..Len(l) : a[i].key = l[i].key  BY Zenon, <1>4, <1>6
    <2> QED  BY Zenon, <1>5, <2>1 DEF Distinct
  <1>9. \A i \in 1..Len(l) :
           /\ a[i].key = l[i].key /\ a[i].id = l[i].id /\ a[i].lag = l[i].lag
           /\ a[i].left \in Int /\ a[i].left <= IF l[i].left < -1 THEN -1 ELSE l[i].left
           /\ a[i].left >= 0 => a[i].left = l[i].left - 1
    <2> TAKE i \in 1..Len(l)
    <2>1. l[i].left \in Int  BY <1>2 DEF Entries
    <2>2. /\ a[i].key = l[i].key /\ a[i].id = l[i].id /\ a[i].lag = l[i].lag
          /\ a[i].left = IF l[i].left - 1 >= -1 THEN l[i].left - 1 ELSE -1
      BY Zenon, <1>4, <1>6
    <2>3. /\ a[i].left \in Int /\ a[i].left <= IF l[i].left < -1 THEN -1 ELSE l[i].left
          /\ a[i].left >= 0 => a[i].left = l[i].left - 1
      BY <2>1, <2>2
    <2> QED  BY Zenon, <2>2, <2>3
  <1> QED  BY Zenon, <1>5, <1>7, <1>8, <1>9 DEF a

(* The assumptions on the constants, one by one.                           *)
LEMMA TenantBounds ==
    /\ MaxActive \in Nat \ {0} /\ MaxInactive \in Nat \ {0} /\ MinNegTTL \in Nat \ {0} /\ MaxLag \in Nat
    /\ \A c \in Settings : c.ttl \in Nat
    /\ SlugOf \in [Tenants -> Tenants]
    /\ \A a \in {"", "malformed", None} \cup Refusals : a \notin Tenants
  <1>1. \A c \in [resolver : {"header", "subdomain"}, validate : BOOLEAN, postgres : BOOLEAN,
                  baseDomain : BOOLEAN, spelled : BOOLEAN, ttl : Nat] : c.ttl \in Nat
    OBVIOUS
  <1> QED  BY Zenon, <1>1, TenantAssumption

(* The capacities and bounds are numbers.                                  *)
LEMMA TenantNats ==
    MaxActive \in Nat \ {0} /\ MaxInactive \in Nat \ {0} /\ MinNegTTL \in Nat \ {0} /\ MaxLag \in Nat
  BY Zenon, TenantBounds

(* The states a request is in when no answer is on its way to the cache.   *)
LEMMA ReqAtIs ==
    ASSUME NEW at \in {"idle", "getInactive", "ask", "done"}, NEW v \in Values,
           NEW a \in Tenants \cup {None} \cup Refusals
    PROVE  /\ ReqAt(at, v, a) \in RequestStates
           /\ ReqAt(at, v, a).at = at /\ ReqAt(at, v, a).value = v /\ ReqAt(at, v, a).reply = a
           /\ ~ReqAt(at, v, a).ok /\ ReqAt(at, v, a).lag = 0
  <1>1. 0 \in 0..MaxLag  BY TenantNats
  <1> QED  BY <1>1 DEF RequestStates, ReqAt

(* The invariant holds with an empty cache.                                *)
LEMMA TenantInitIInv == TenantInit => TenantIInv
  <1> SUFFICES ASSUME TenantInit PROVE TenantIInv
    OBVIOUS
  <1>1. cfg \in Settings /\ Lint(cfg) /\ cfg.ttl \in Nat
    BY Zenon, TenantBounds DEF TenantInit
  <1>2. rows \in [Tenants -> {"absent", "active", "inactive"}]
    BY DEF TenantInit
  <1>3. slug \in [Tenants -> Tenants]
    BY Zenon, TenantBounds DEF TenantInit
  <1>4. since \in [Tenants -> Nat] /\ \A t \in Tenants : rows[t] = "active" => since[t] = 0
    <2>1. FarSince \in Nat /\ 0 \in Nat  BY <1>1, TenantNats DEF FarSince
    <2> QED  BY Zenon, <2>1 DEF TenantInit
  <1>5. idle \in RequestStates /\ idle.at = "idle" /\ ~idle.ok /\ idle.lag = 0
    <2>1. "" \in Values  BY Zenon DEF Values
    <2>2. "idle" \in {"idle", "getInactive", "ask", "done"} /\ None \in Tenants \cup {None} \cup Refusals
      BY Zenon
    <2>3. 0 \in 0..MaxLag  BY TenantNats
    <2>4. idle \in RequestStates  BY <2>1, <2>2, <2>3 DEF idle, ReqAt, RequestStates
    <2>5. idle.at = "idle" /\ ~idle.ok /\ idle.lag = 0  BY DEF idle, ReqAt
    <2> QED  BY Zenon, <2>4, <2>5
  <1>6. RequestOK(idle)
    BY <1>5 DEF RequestOK
  <1>7. req \in [Requests -> RequestStates] /\ \A r \in Requests : req[r] = idle
    BY Zenon, <1>5 DEF TenantInit
  <1>8. down \in [Tenants -> Nat] /\ \A v \in Tenants : ~Active(v) => down[v] = 0
    <2>1. FarSince \in Nat /\ 0 \in Nat  BY <1>1, TenantNats DEF FarSince
    <2>2. down = [v \in Tenants |-> IF Active(v) THEN FarSince ELSE 0]  BY Zenon DEF TenantInit
    <2> QED  BY Zenon, <2>1, <2>2
  <1>9. /\ active = <<>> /\ inactive = <<>> /\ active \in Seq(Entries) /\ inactive \in Seq(Entries)
        /\ Len(active) = 0 /\ Len(inactive) = 0
    <2>1. active = <<>> /\ inactive = <<>>  BY Zenon DEF TenantInit
    <2> QED  BY <2>1
  <1>10. \A i : i \notin 1..0  OBVIOUS
  <1>11. SegmentsBounded
    <2>1. Len(active) <= MaxActive /\ Len(inactive) <= MaxInactive  BY <1>9, TenantNats
    <2> QED  BY Zenon, <1>9, <1>10, <2>1 DEF SegmentsBounded
  <1> QED
    BY Zenon, <1>1, <1>2, <1>3, <1>4, <1>6, <1>7, <1>8, <1>9, <1>10, <1>11 DEF TenantIInv, TenantTypeOK

(* The segments in terms of Distinct.                                      *)
LEMMA SegmentsAre ==
    ASSUME TenantIInv
    PROVE  /\ active \in Seq(Entries) /\ inactive \in Seq(Entries)
           /\ Distinct(active) /\ Distinct(inactive)
           /\ Len(active) <= MaxActive /\ Len(inactive) <= MaxInactive
  BY Zenon DEF TenantIInv, TenantTypeOK, SegmentsBounded, Distinct

(* What a value names changes with the table only.                         *)
LEMMA ActiveSame ==
    ASSUME cfg' = cfg, rows' = rows, slug' = slug
    PROVE  \A v \in Tenants : Active(v)' <=> Active(v)
  <1> TAKE v \in Tenants
  <1>1. RowFor(v)' = RowFor(v)  BY DEF RowFor, Named
  <1>2. Row(v)' = Row(v)
    <2> DEFINE Any(S) == IF S = {} THEN None ELSE CHOOSE t \in S : TRUE
    <2>1. Row(v) = Any(RowFor(v)) /\ Row(v)' = Any(RowFor(v)')  BY Zenon DEF Row
    <2> HIDE DEF Any
    <2> QED  BY Zenon, <1>1, <2>1
  <1> QED  BY Zenon, <1>1, <1>2 DEF Active

(* What a step of one request has to show: the others are as they were.    *)
LEMMA RequestKeeps ==
    ASSUME TenantIInv, NEW r \in Requests, NEW x \in RequestStates,
           req' = [req EXCEPT ![r] = x], Request,
           active' \in Seq(Entries), inactive' \in Seq(Entries),
           Distinct(active'), Distinct(inactive'),
           Len(active') <= MaxActive, Len(inactive') <= MaxInactive,
           \A i \in 1..Len(active') : EntryOK(active'[i]),
           \A i \in 1..Len(inactive') : RefusalOK(inactive'[i]),
           RequestOK(x)
    PROVE  TenantIInv'
  <1>1. req' \in [Requests -> RequestStates] /\ req'[r] = x /\ \A q \in Requests \ {r} : req'[q] = req[q]
    BY Zenon DEF TenantIInv, TenantTypeOK
  <1>2. cfg' = cfg /\ rows' = rows /\ slug' = slug /\ since' = since /\ down' = down
    BY Zenon DEF Request
  <1>3. TenantTypeOK'  BY Zenon, <1>1, <1>2 DEF TenantIInv, TenantTypeOK
  <1>4. \A t \in Tenants : rows'[t] = "active" => since'[t] = 0  BY Zenon, <1>2 DEF TenantIInv
  <1>5. \A v \in Tenants : ~Active(v)' => down'[v] = 0
    BY Zenon, <1>2, ActiveSame DEF TenantIInv
  <1>6. \A i \in 1..Len(active') : EntryOK(active[i])'  BY Zenon, <1>2 DEF EntryOK, Named
  <1>7. \A i \in 1..Len(inactive') : RefusalOK(inactive[i])'  BY Zenon, <1>2 DEF RefusalOK
  <1>8. \A q \in Requests : RequestOK(req[q])'
    BY Zenon, <1>1, <1>2 DEF TenantIInv, RequestOK, Named
  <1>9. SegmentsBounded'  BY Zenon DEF SegmentsBounded, Distinct
  <1> QED  BY Zenon, <1>3, <1>4, <1>5, <1>6, <1>7, <1>8, <1>9 DEF TenantIInv

Resting(x) == x.at \in {"idle", "getInactive", "ask", "done"} /\ ~x.ok

(* A request that neither has an answer to store nor adds to the cache.    *)
LEMMA RestKeeps ==
    ASSUME TenantIInv, NEW r \in Requests, NEW x \in RequestStates,
           req' = [req EXCEPT ![r] = x], Request,
           Resting(x), RequestOK(x),
           \/ active' = active
           \/ \E k : active' = AfterGet(active, k),
           \/ inactive' = inactive
           \/ \E k : inactive' = AfterGet(inactive, k)
    PROVE  TenantIInv'
  <1>1. /\ active \in Seq(Entries) /\ inactive \in Seq(Entries)
        /\ Distinct(active) /\ Distinct(inactive)
        /\ Len(active) <= MaxActive /\ Len(inactive) <= MaxInactive
    BY Zenon, SegmentsAre
  <1>2. /\ active' \in Seq(Entries) /\ Distinct(active') /\ Len(active') <= Len(active)
        /\ \A j \in 1..Len(active') : active'[j] \in {active[i] : i \in 1..Len(active)}
    <2>1. CASE active' = active
      <3>1. Len(active) <= Len(active)  BY <1>1
      <3> QED  BY Zenon, <1>1, <2>1, <3>1
    <2>2. CASE \E k : active' = AfterGet(active, k)  BY Zenon, <1>1, <2>2, AfterGetIs
    <2> QED  BY Zenon, <2>1, <2>2
  <1>3. /\ inactive' \in Seq(Entries) /\ Distinct(inactive') /\ Len(inactive') <= Len(inactive)
        /\ \A j \in 1..Len(inactive') : inactive'[j] \in {inactive[i] : i \in 1..Len(inactive)}
    <2>1. CASE inactive' = inactive
      <3>1. Len(inactive) <= Len(inactive)  BY <1>1
      <3> QED  BY Zenon, <1>1, <2>1, <3>1
    <2>2. CASE \E k : inactive' = AfterGet(inactive, k)  BY Zenon, <1>1, <2>2, AfterGetIs
    <2> QED  BY Zenon, <2>1, <2>2
  <1>4. Len(active') <= MaxActive /\ Len(inactive') <= MaxInactive
    BY <1>1, <1>2, <1>3, TenantNats
  <1>5. \A i \in 1..Len(active') : EntryOK(active'[i])  BY Zenon, <1>2 DEF TenantIInv
  <1>6. \A i \in 1..Len(inactive') : RefusalOK(inactive'[i])  BY Zenon, <1>3 DEF TenantIInv
  <1> QED  BY Zenon, <1>2, <1>3, <1>4, <1>5, <1>6, RequestKeeps

(* Every way to answer a request, or to begin with it, leaves it resting.  *)
LEMMA ReqAtRests ==
    ASSUME NEW at \in {"idle", "getInactive", "ask", "done"}, NEW v \in Values,
           NEW a \in Tenants \cup {None} \cup Refusals,
           at = "done" /\ a \in Tenants => Named(a, v),
           at \in {"getInactive", "ask"} => v \in Tenants
    PROVE  /\ ReqAt(at, v, a) \in RequestStates
           /\ Resting(ReqAt(at, v, a)) /\ RequestOK(ReqAt(at, v, a))
  <1> DEFINE x == ReqAt(at, v, a)
  <1>1. /\ x \in RequestStates /\ x.at = at /\ x.value = v /\ x.reply = a
        /\ ~x.ok /\ x.lag = 0
    BY ReqAtIs
  <1> HIDE DEF x
  <1>2. x.at \notin {"drop", "store"}  BY <1>1
  <1>3. Resting(x)  BY Zenon, <1>1 DEF Resting
  <1>4. RequestOK(x)  BY Zenon, <1>1, <1>2 DEF RequestOK
  <1> QED  BY Zenon, <1>1, <1>3, <1>4 DEF x

(* A request that arrives keeps the invariant: a hit of the active segment *)
(* serves a tenant that the value names.                                   *)
LEMMA ArriveKeeps ==
    ASSUME TenantIInv, NEW r \in Requests, Arrive(r)
    PROVE  TenantIInv'
  <1>1. Request /\ inactive' = inactive
    BY Zenon DEF Arrive, ArriveUnnamed, ArriveUnchecked, GetActive
  <1>2. active' = active \/ \E k : active' = AfterGet(active, k)
    BY Zenon DEF Arrive, ArriveUnnamed, ArriveUnchecked, GetActive
  <1>3. "" \in Values /\ Tenants \subseteq Values  BY Zenon DEF Values
  <1>4. \A a \in Refusals : a \notin Tenants  BY Zenon, TenantBounds
  <1>5. \A a \in {"required", "invalid", "unavailable"} : a \in Refusals  BY DEF Refusals
  <1>6. ASSUME NEW a \in Refusals, Refuse(r, a) PROVE TenantIInv'
    <2>1. /\ ReqAt("done", "", a) \in RequestStates
          /\ Resting(ReqAt("done", "", a)) /\ RequestOK(ReqAt("done", "", a))
      <3>1. "done" \notin {"getInactive", "ask"}  OBVIOUS
      <3> QED  BY Zenon, <1>3, <1>4, <3>1, ReqAtRests
    <2> QED  BY Zenon, <1>1, <1>2, <1>6, <2>1, RestKeeps DEF Refuse
  <1>7. ASSUME NEW v \in Tenants, NEW t \in Tenants, Serve(r, v, t), Named(t, v) PROVE TenantIInv'
    <2>1. /\ ReqAt("done", v, t) \in RequestStates
          /\ Resting(ReqAt("done", v, t)) /\ RequestOK(ReqAt("done", v, t))
      BY Zenon, <1>3, <1>7, ReqAtRests
    <2> QED  BY Zenon, <1>1, <1>2, <1>7, <2>1, RestKeeps DEF Serve
  <1>8. ASSUME NEW v \in Tenants, NEW to \in {"getInactive", "ask"}, Begin(r, v, to) PROVE TenantIInv'
    <2>1. /\ ReqAt(to, v, None) \in RequestStates
          /\ Resting(ReqAt(to, v, None)) /\ RequestOK(ReqAt(to, v, None))
      <3>1. to # "done"  OBVIOUS
      <3> QED  BY Zenon, <1>3, <3>1, ReqAtRests
    <2> QED  BY Zenon, <1>1, <1>2, <1>8, <2>1, RestKeeps DEF Begin
  <1>9. CASE \E v \in Values : ArriveUnnamed(r, v)
    BY Zenon, <1>5, <1>6, <1>9 DEF ArriveUnnamed
  <1>10. CASE \E v \in Tenants : ArriveUnchecked(r, v)
    <2>1. PICK v \in Tenants : ArriveUnchecked(r, v)  BY Zenon, <1>10
    <2>2. CASE cfg.resolver = "subdomain"  BY Zenon, <1>5, <1>6, <2>1, <2>2 DEF ArriveUnchecked
    <2>3. CASE cfg.resolver # "subdomain"
      <3>1. Named(v, v)  BY Zenon, <2>3 DEF Named
      <3> QED  BY Zenon, <1>7, <2>1, <2>3, <3>1 DEF ArriveUnchecked
    <2> QED  BY Zenon, <2>2, <2>3
  <1>11. CASE \E v \in Tenants : GetActive(r, v)
    <2>1. PICK v \in Tenants : GetActive(r, v)  BY Zenon, <1>11
    <2>2. CASE Live(active, v)
      <3>1. v \in KeysOf(active)  BY Zenon, <2>2 DEF Live
      <3>2. /\ EntryOf(active, v) \in {active[i] : i \in 1..Len(active)}
            /\ EntryOf(active, v).key = v
        BY Zenon, <3>1, EntryIs, SegmentsAre
      <3>3. EntryOK(EntryOf(active, v))  BY Zenon, <3>2 DEF TenantIInv
      <3>4. EntryOf(active, v).id \in Tenants /\ Named(EntryOf(active, v).id, v)
        BY Zenon, <3>2, <3>3 DEF EntryOK
      <3>5. Serve(r, v, EntryOf(active, v).id)  BY Zenon, <2>1, <2>2 DEF GetActive
      <3> QED  BY Zenon, <1>7, <3>4, <3>5
    <2>3. CASE ~Live(active, v)
      BY Zenon, <1>8, <2>1, <2>3 DEF GetActive
    <2> QED  BY Zenon, <2>2, <2>3
  <1> QED  BY Zenon, <1>9, <1>10, <1>11 DEF Arrive

(* What a request that moves on keeps.                                     *)
LEMMA MoveIs ==
    ASSUME TenantIInv, NEW r \in Requests, NEW to \in {"ask", "store"}, Move(r, to)
    PROVE  \E x \in RequestStates :
              /\ req' = [req EXCEPT ![r] = x]
              /\ x.at = to /\ x.value = req[r].value /\ x.id = req[r].id /\ x.ok = req[r].ok
              /\ x.lag = req[r].lag /\ x.reply = req[r].reply
  <1>1. req \in [Requests -> RequestStates] /\ req[r] \in RequestStates
    BY Zenon DEF TenantIInv, TenantTypeOK
  <1> DEFINE x == [req[r] EXCEPT !.at = to]
  <1>2. req' = [req EXCEPT ![r] = x]  BY <1>1 DEF Move
  <1>3. \A q \in RequestStates :
          LET y == [q EXCEPT !.at = to] IN
            /\ y \in RequestStates
            /\ y.at = to /\ y.value = q.value /\ y.id = q.id /\ y.ok = q.ok
            /\ y.lag = q.lag /\ y.reply = q.reply
    BY DEF RequestStates
  <1> QED  BY Zenon, <1>1, <1>2, <1>3

(* The replies of a lookup: its tenant, or that there is none.             *)
LEMMA AnswerRests ==
    ASSUME TenantIInv, NEW r \in Requests, NEW t, NEW ok, Answer(r, t, ok),
           req[r].value \in Tenants, ok => t \in Tenants /\ Named(t, req[r].value)
    PROVE  \E x \in RequestStates :
              req' = [req EXCEPT ![r] = x] /\ Resting(x) /\ RequestOK(x)
  <1>1. "" \in Values /\ Tenants \subseteq Values  BY Zenon DEF Values
  <1>2. "done" \notin {"getInactive", "ask"} /\ "notfound" \in Refusals  BY DEF Refusals
  <1>3. CASE ok
    <2>1. req' = [req EXCEPT ![r] = ReqAt("done", req[r].value, t)]
      BY Zenon, <1>3 DEF Answer, Serve
    <2>2. /\ ReqAt("done", req[r].value, t) \in RequestStates
          /\ Resting(ReqAt("done", req[r].value, t)) /\ RequestOK(ReqAt("done", req[r].value, t))
      BY Zenon, <1>1, <1>2, <1>3, ReqAtRests
    <2> QED  BY Zenon, <2>1, <2>2
  <1>4. CASE ~ok
    <2>1. req' = [req EXCEPT ![r] = ReqAt("done", "", "notfound")]
      BY Zenon, <1>4 DEF Answer, Refuse
    <2>2. "notfound" \notin Tenants  BY Zenon, <1>2, TenantBounds
    <2>3. /\ ReqAt("done", "", "notfound") \in RequestStates
          /\ Resting(ReqAt("done", "", "notfound")) /\ RequestOK(ReqAt("done", "", "notfound"))
      BY Zenon, <1>1, <1>2, <2>2, ReqAtRests
    <2> QED  BY Zenon, <2>1, <2>3
  <1> QED  BY Zenon, <1>3, <1>4

(* Reading the inactive segment keeps the invariant.                       *)
LEMMA GetInactiveKeeps ==
    ASSUME TenantIInv, NEW r \in Requests, GetInactive(r)
    PROVE  TenantIInv'
  <1>1. Request /\ active' = active
        /\ \E k : inactive' = AfterGet(inactive, k)
    BY Zenon DEF GetInactive
  <1>2. req[r].at = "getInactive" /\ RequestOK(req[r])  BY Zenon DEF GetInactive, TenantIInv
  <1>3. req[r].value \in Tenants /\ ~req[r].ok
    <2>1. "getInactive" \notin {"drop", "store"}
          /\ "getInactive" \in {"getInactive", "ask", "drop", "store"}
      OBVIOUS
    <2> QED  BY Zenon, <1>2, <2>1 DEF RequestOK
  <1>4. CASE Live(inactive, req[r].value)
    <2>1. Answer(r, None, FALSE)  BY Zenon, <1>4 DEF GetInactive, Answer
    <2> QED  BY Zenon, <1>1, <1>3, <2>1, AnswerRests, RestKeeps
  <1>5. CASE ~Live(inactive, req[r].value)
    <2>1. Move(r, "ask")  BY Zenon, <1>5 DEF GetInactive
    <2>2. PICK x \in RequestStates :
              /\ req' = [req EXCEPT ![r] = x]
              /\ x.at = "ask" /\ x.value = req[r].value /\ x.id = req[r].id /\ x.ok = req[r].ok
              /\ x.lag = req[r].lag /\ x.reply = req[r].reply
      BY Zenon, <2>1, MoveIs
    <2>3. Resting(x)  BY Zenon, <1>3, <2>2 DEF Resting
    <2>4. RequestOK(x)
      <3>1. "ask" # "done"  OBVIOUS
      <3> QED  BY Zenon, <1>2, <1>3, <2>2, <3>1 DEF RequestOK
    <2> QED  BY Zenon, <1>1, <2>2, <2>3, <2>4, RestKeeps
  <1> QED  BY Zenon, <1>4, <1>5

(* A request that ends, or whose lookup fails, keeps the invariant.        *)
LEMMA LeaveKeeps ==
    ASSUME TenantIInv, NEW r \in Requests, Leave(r) \/ AskFails(r)
    PROVE  TenantIInv'
  <1>1. Request /\ active' = active /\ inactive' = inactive
    BY Zenon DEF Leave, AskFails
  <1>2. "" \in Values  BY Zenon DEF Values
  <1>3. "unavailable" \in Refusals /\ "done" \notin {"getInactive", "ask"}
        /\ "idle" \notin {"getInactive", "ask"} /\ "idle" # "done"
    BY DEF Refusals
  <1>4. \A a \in Refusals : a \notin Tenants  BY Zenon, TenantBounds
  <1>5. CASE Leave(r)
    <2>1. req' = [req EXCEPT ![r] = ReqAt("idle", "", None)]  BY Zenon, <1>5 DEF Leave, idle
    <2>2. /\ ReqAt("idle", "", None) \in RequestStates
          /\ Resting(ReqAt("idle", "", None)) /\ RequestOK(ReqAt("idle", "", None))
      BY Zenon, <1>2, <1>3, ReqAtRests
    <2> QED  BY Zenon, <1>1, <2>1, <2>2, RestKeeps
  <1>6. CASE AskFails(r)
    <2>1. req' = [req EXCEPT ![r] = ReqAt("done", "", "unavailable")]
      BY Zenon, <1>6 DEF AskFails, Refuse
    <2>2. /\ ReqAt("done", "", "unavailable") \in RequestStates
          /\ Resting(ReqAt("done", "", "unavailable")) /\ RequestOK(ReqAt("done", "", "unavailable"))
      BY Zenon, <1>2, <1>3, <1>4, ReqAtRests
    <2> QED  BY Zenon, <1>1, <2>1, <2>2, RestKeeps
  <1> QED  BY Zenon, <1>5, <1>6

(* The answer of the database keeps the invariant: an active row was       *)
(* active just now, and what names no active row did not just now.         *)
LEMMA AskKeeps ==
    ASSUME TenantIInv, NEW r \in Requests, Ask(r)
    PROVE  TenantIInv'
  <1> DEFINE v == req[r].value
             t == Row(v)
             ok == Active(v)
  <1>1. /\ req[r].at = "ask" /\ Request /\ active' = active /\ inactive' = inactive
        /\ IF caching THEN req' = [req EXCEPT ![r] = Found(v, t, ok)]
                      ELSE Answer(r, t, ok)
    BY Zenon DEF Ask
  <1>2. /\ RequestOK(req[r]) /\ req \in [Requests -> RequestStates]
        /\ \A u \in Tenants : rows[u] = "active" => since[u] = 0
        /\ \A u \in Tenants : ~Active(u) => down[u] = 0
    BY Zenon DEF TenantIInv, TenantTypeOK
  <1>3. v \in Tenants
    <2>1. "ask" \in {"getInactive", "ask", "drop", "store"}  OBVIOUS
    <2> QED  BY Zenon, <1>1, <1>2, <2>1 DEF RequestOK
  <1>4. RowFor(v) # {} => t \in Tenants /\ Named(t, v)
    BY Zenon DEF Row, RowFor
  <1>5. t \in Tenants \cup {None} /\ ok \in BOOLEAN
    BY Zenon, <1>4 DEF Row, Active
  <1>6. ok => t \in Tenants /\ Named(t, v) /\ since[t] = 0
    BY Zenon, <1>2, <1>4 DEF Active
  <1>7. ~ok => down[v] = 0  BY Zenon, <1>2, <1>3
  <1> HIDE DEF t, ok
  <1>8. CASE ~caching
    <2>1. Answer(r, t, ok)  BY Zenon, <1>1, <1>8
    <2> QED  BY Zenon, <1>1, <1>3, <1>6, <2>1, AnswerRests, RestKeeps
  <1>9. CASE caching
    <2> DEFINE x == Found(v, t, ok)
    <2>1. req' = [req EXCEPT ![r] = x]  BY Zenon, <1>1, <1>9
    <2>2. x \in RequestStates /\ x.at = "drop" /\ x.value = v /\ x.id = t
          /\ x.ok = ok /\ x.lag = 0 /\ x.reply = None
      <3>1. 0 \in 0..MaxLag  BY TenantNats
      <3>2. v \in Values  BY Zenon, <1>3 DEF Values
      <3>3. \A w \in Values, u \in Tenants \cup {None}, b \in BOOLEAN :
              LET y == Found(w, u, b) IN
                /\ y \in RequestStates /\ y.at = "drop" /\ y.value = w /\ y.id = u
                /\ y.ok = b /\ y.lag = 0 /\ y.reply = None
        BY <3>1 DEF Found, RequestStates
      <3>4. v \in Values /\ t \in Tenants \cup {None} /\ ok \in BOOLEAN
        BY Zenon, <1>5, <3>2
      <3> HIDE DEF v
      <3> QED  BY <3>3, <3>4
    <2> HIDE DEF x, v
    <2>3. 0 <= 0  OBVIOUS
    <2>4. x.at \in {"drop", "store"} /\ x.at # "done"  BY <2>2
    <2>5. RequestOK(x)  BY Zenon, <1>3, <1>6, <1>7, <2>2, <2>3, <2>4 DEF RequestOK
    <2>6. /\ \A i \in 1..Len(active) : EntryOK(active[i])
          /\ \A i \in 1..Len(inactive) : RefusalOK(inactive[i])
      BY Zenon DEF TenantIInv
    <2>7. /\ active' \in Seq(Entries) /\ inactive' \in Seq(Entries)
          /\ Distinct(active') /\ Distinct(inactive')
          /\ Len(active') <= MaxActive /\ Len(inactive') <= MaxInactive
          /\ \A i \in 1..Len(active') : EntryOK(active'[i])
          /\ \A i \in 1..Len(inactive') : RefusalOK(inactive'[i])
      BY Zenon, <1>1, <2>6, SegmentsAre
    <2>8. Request /\ x \in RequestStates  BY Zenon, <1>1, <2>2
    <2> QED  BY Zenon, <2>1, <2>5, <2>7, <2>8, RequestKeeps
  <1> QED  BY Zenon, <1>8, <1>9

(* The first lock of put keeps the invariant: a segment that loses a key   *)
(* has no other entries than before.                                       *)
LEMMA DropKeeps ==
    ASSUME TenantIInv, NEW r \in Requests, Drop(r)
    PROVE  TenantIInv'
  <1>1. /\ req[r].at = "drop" /\ Move(r, "store") /\ Request
        /\ req[r].ok => inactive' = Without(inactive, req[r].value) /\ active' = active
        /\ ~req[r].ok => active' = Without(active, req[r].value) /\ inactive' = inactive
    BY Zenon DEF Drop
  <1>2. PICK x \in RequestStates :
              /\ req' = [req EXCEPT ![r] = x]
              /\ x.at = "store" /\ x.value = req[r].value /\ x.id = req[r].id /\ x.ok = req[r].ok
              /\ x.lag = req[r].lag /\ x.reply = req[r].reply
    BY Zenon, <1>1, MoveIs
  <1>3. RequestOK(req[r])  BY Zenon DEF TenantIInv
  <1>4. RequestOK(x)
    <2>1. /\ "store" # "done" /\ "drop" \in {"getInactive", "ask", "drop", "store"}
          /\ "drop" \in {"drop", "store"} /\ "store" \in {"drop", "store"}
      OBVIOUS
    <2> QED  BY Zenon, <1>1, <1>2, <1>3, <2>1 DEF RequestOK
  <1>5. /\ active \in Seq(Entries) /\ inactive \in Seq(Entries)
        /\ Distinct(active) /\ Distinct(inactive)
        /\ Len(active) <= MaxActive /\ Len(inactive) <= MaxInactive
    BY Zenon, SegmentsAre
  <1>6. \A l \in {active, inactive} :
          LET w == Without(l, req[r].value) IN
            /\ w \in Seq(Entries) /\ Distinct(w) /\ Len(w) <= Len(l)
            /\ \A j \in 1..Len(w) : w[j] \in {l[i] : i \in 1..Len(l)}
    <2> TAKE l \in {active, inactive}
    <2> DEFINE w == Without(l, req[r].value)
    <2>1. l \in Seq(Entries) /\ Distinct(l)  BY Zenon, <1>5
    <2>2. Len(w) = IF req[r].value \in KeysOf(l) THEN Len(l) - 1 ELSE Len(l)
      BY Zenon, <2>1, WithoutIs
    <2> HIDE DEF w
    <2>3. Len(l) \in Nat  BY <2>1
    <2>4. Len(w) <= Len(l)  BY <2>2, <2>3
    <2> QED  BY Zenon, <2>1, <2>4, WithoutIs DEF w
  <1>7. \A a, b, c : a <= b /\ b <= c /\ a \in Nat /\ b \in Nat /\ c \in Nat => a <= c  OBVIOUS
  <1>8. \A l : l \in Seq(Entries) => Len(l) \in Nat  OBVIOUS
  <1>9. MaxActive \in Nat /\ MaxInactive \in Nat  BY TenantNats
  <1>10. /\ \A i \in 1..Len(active) : EntryOK(active[i])
         /\ \A i \in 1..Len(inactive) : RefusalOK(inactive[i])
    BY Zenon DEF TenantIInv
  <1>11. CASE req[r].ok
    <2>1. inactive' = Without(inactive, req[r].value) /\ active' = active  BY Zenon, <1>1, <1>11
    <2>2. inactive' \in Seq(Entries) /\ Distinct(inactive') /\ Len(inactive') <= MaxInactive
      BY Zenon, <1>5, <1>6, <1>7, <1>8, <1>9, <2>1
    <2>3. \A i \in 1..Len(inactive') : RefusalOK(inactive'[i])  BY Zenon, <1>6, <1>10, <2>1
    <2> QED  BY Zenon, <1>1, <1>2, <1>4, <1>5, <1>10, <2>1, <2>2, <2>3, RequestKeeps
  <1>12. CASE ~req[r].ok
    <2>1. active' = Without(active, req[r].value) /\ inactive' = inactive  BY Zenon, <1>1, <1>12
    <2>2. active' \in Seq(Entries) /\ Distinct(active') /\ Len(active') <= MaxActive
      BY Zenon, <1>5, <1>6, <1>7, <1>8, <1>9, <2>1
    <2>3. \A i \in 1..Len(active') : EntryOK(active'[i])  BY Zenon, <1>6, <1>10, <2>1
    <2> QED  BY Zenon, <1>1, <1>2, <1>4, <1>5, <1>10, <2>1, <2>2, <2>3, RequestKeeps
  <1> QED  BY Zenon, <1>11, <1>12

(* The time an entry of an inactive tenant is kept.                        *)
LEMMA NegativeTTLIs == \A n \in Nat : negativeTTL(n) \in Int
  <1> TAKE n \in Nat
  <1>1. n \div 4 \in Int /\ MinNegTTL \in Int /\ n \in Int  BY TenantNats
  <1>2. Max({n \div 4, MinNegTTL}) \in Int  BY Zenon, <1>1, MaxOfTwo
  <1>3. Min({Max({n \div 4, MinNegTTL}), n}) \in Int  BY Zenon, <1>1, <1>2, MinOfTwo
  <1> QED  BY Zenon, <1>3 DEF negativeTTL

(* The entry that put stores is as old as the lookup was slow.             *)
LEMMA FreshIs ==
    ASSUME TenantIInv, NEW r \in Requests, req[r].at = "store", NEW n \in Int
    PROVE  /\ Fresh(r, n) \in Entries /\ Fresh(r, n).key = req[r].value
           /\ req[r].value \in Tenants
           /\ req[r].ok /\ n = cfg.ttl => EntryOK(Fresh(r, n))
           /\ ~req[r].ok /\ n = negativeTTL(cfg.ttl) => RefusalOK(Fresh(r, n))
  <1>1. RequestOK(req[r]) /\ req[r] \in RequestStates /\ cfg.ttl \in Nat
        /\ since \in [Tenants -> Nat]
    BY Zenon, TenantBounds DEF TenantIInv, TenantTypeOK
  <1>2. req[r].value \in Tenants
    <2>1. "store" \in {"getInactive", "ask", "drop", "store"}  OBVIOUS
    <2> QED  BY Zenon, <1>1, <2>1 DEF RequestOK
  <1>3. req[r].lag \in 0..MaxLag /\ req[r].id \in Tenants \cup {None}
    BY <1>1 DEF RequestStates
  <1> DEFINE i == IF req[r].ok THEN req[r].id ELSE None
             e == Fresh(r, n)
  <1>4. i \in Tenants \cup {None} /\ (req[r].ok => i = req[r].id)  BY Zenon, <1>3
  <1>5. e = [key |-> req[r].value, id |-> i, left |-> n, lag |-> req[r].lag]
    BY Zenon DEF Fresh
  <1> HIDE DEF i, e
  <1>6. e \in Entries /\ e.key = req[r].value /\ e.id = i /\ e.left = n /\ e.lag = req[r].lag
    BY <1>2, <1>3, <1>4, <1>5 DEF Entries
  <1>7. ASSUME req[r].ok, n = cfg.ttl PROVE EntryOK(e)
    <2>1. /\ req[r].id \in Tenants /\ Named(req[r].id, req[r].value)
          /\ req[r].lag < MaxLag => since[req[r].id] <= req[r].lag
      BY Zenon, <1>1, <1>7 DEF RequestOK
    <2>2. (cfg.ttl - n) + req[r].lag = req[r].lag  BY <1>1, <1>3, <1>7
    <2> QED  BY Zenon, <1>4, <1>6, <1>7, <2>1, <2>2 DEF EntryOK
  <1>8. ASSUME ~req[r].ok, n = negativeTTL(cfg.ttl) PROVE RefusalOK(e)
    <2>1. "store" \in {"drop", "store"}  OBVIOUS
    <2>2. req[r].lag < MaxLag => down[req[r].value] <= req[r].lag
      BY Zenon, <1>1, <1>8, <2>1 DEF RequestOK
    <2>3. (n - n) + req[r].lag = req[r].lag  BY <1>3
    <2> QED  BY Zenon, <1>6, <1>8, <2>2, <2>3 DEF RefusalOK
  <1> QED  BY Zenon, <1>2, <1>6, <1>7, <1>8 DEF e

(* The second lock of put keeps the invariant: the new entry is as old as  *)
(* its lookup was slow.                                                    *)
LEMMA StoreKeeps ==
    ASSUME TenantIInv, NEW r \in Requests, Store(r)
    PROVE  TenantIInv'
  <1>1. /\ req[r].at = "store" /\ Answer(r, req[r].id, req[r].ok) /\ Request
        /\ req[r].ok => /\ active' = AfterPut(active, Fresh(r, cfg.ttl), MaxActive)
                        /\ inactive' = inactive
        /\ ~req[r].ok => /\ inactive' = AfterPut(inactive, Fresh(r, negativeTTL(cfg.ttl)), MaxInactive)
                         /\ active' = active
    BY Zenon DEF Store
  <1>2. /\ RequestOK(req[r])
        /\ \A i \in 1..Len(active) : EntryOK(active[i])
        /\ \A i \in 1..Len(inactive) : RefusalOK(inactive[i])
    BY Zenon DEF TenantIInv
  <1>3. cfg.ttl \in Nat /\ cfg.ttl \in Int /\ negativeTTL(cfg.ttl) \in Int
    <2>1. cfg.ttl \in Nat  BY Zenon, TenantBounds DEF TenantIInv, TenantTypeOK
    <2>2. \A n \in Nat : n \in Int  OBVIOUS
    <2> QED  BY Zenon, <2>1, <2>2, NegativeTTLIs
  <1>4. PICK x \in RequestStates : req' = [req EXCEPT ![r] = x] /\ Resting(x) /\ RequestOK(x)
    <2>1. req[r].value \in Tenants  BY Zenon, <1>1, <1>3, FreshIs
    <2>2. req[r].ok => req[r].id \in Tenants /\ Named(req[r].id, req[r].value)
      BY Zenon, <1>2 DEF RequestOK
    <2> QED  BY Zenon, <1>1, <2>1, <2>2, AnswerRests
  <1>5. /\ active \in Seq(Entries) /\ inactive \in Seq(Entries)
        /\ Distinct(active) /\ Distinct(inactive)
        /\ Len(active) <= MaxActive /\ Len(inactive) <= MaxInactive
    BY Zenon, SegmentsAre
  <1>6. CASE req[r].ok
    <2> DEFINE e == Fresh(r, cfg.ttl)
    <2>1. e \in Entries /\ EntryOK(e)
      BY Zenon, <1>1, <1>3, <1>6, FreshIs
    <2>2. active' = AfterPut(active, e, MaxActive) /\ inactive' = inactive
      BY Zenon, <1>1, <1>6
    <2> HIDE DEF e
    <2>3. /\ active' \in Seq(Entries) /\ Distinct(active') /\ Len(active') <= MaxActive
          /\ \A j \in 1..Len(active') :
                active'[j] = e \/ active'[j] \in {active[i] : i \in 1..Len(active)}
      BY Zenon, <1>5, <2>1, <2>2, TenantNats, AfterPutIs
    <2>4. \A i \in 1..Len(active') : EntryOK(active'[i])  BY Zenon, <1>2, <2>1, <2>3
    <2>5. /\ inactive' \in Seq(Entries) /\ Distinct(inactive') /\ Len(inactive') <= MaxInactive
          /\ \A i \in 1..Len(inactive') : RefusalOK(inactive'[i])
      BY Zenon, <1>2, <1>5, <2>2
    <2> QED  BY Zenon, <1>1, <1>4, <2>3, <2>4, <2>5, RequestKeeps
  <1>7. CASE ~req[r].ok
    <2> DEFINE e == Fresh(r, negativeTTL(cfg.ttl))
    <2>1. e \in Entries /\ RefusalOK(e)
      BY Zenon, <1>1, <1>3, <1>7, FreshIs
    <2>2. inactive' = AfterPut(inactive, e, MaxInactive) /\ active' = active
      BY Zenon, <1>1, <1>7
    <2> HIDE DEF e
    <2>3. /\ inactive' \in Seq(Entries) /\ Distinct(inactive') /\ Len(inactive') <= MaxInactive
          /\ \A j \in 1..Len(inactive') :
                inactive'[j] = e \/ inactive'[j] \in {inactive[i] : i \in 1..Len(inactive)}
      BY Zenon, <1>5, <2>1, <2>2, TenantNats, AfterPutIs
    <2>4. \A i \in 1..Len(inactive') : RefusalOK(inactive'[i])  BY Zenon, <1>2, <2>1, <2>3
    <2>5. /\ active' \in Seq(Entries) /\ Distinct(active') /\ Len(active') <= MaxActive
          /\ \A i \in 1..Len(active') : EntryOK(active'[i])
      BY Zenon, <1>2, <1>5, <2>2
    <2> QED  BY Zenon, <1>1, <1>4, <2>3, <2>4, <2>5, RequestKeeps
  <1> QED  BY Zenon, <1>6, <1>7

(* What a change of the table has to show.                                 *)
LEMMA TableKeeps ==
    ASSUME TenantIInv, NEW t \in Tenants, NEW s \in {"active", "inactive"},
           rows' = [rows EXCEPT ![t] = s], since' = [since EXCEPT ![t] = 0],
           down' = [v \in Tenants |-> IF Active(v)' THEN down[v] ELSE 0],
           UNCHANGED <<cfg, slug, active, inactive, req>>
    PROVE  TenantIInv'
  <1>1. cfg' = cfg /\ slug' = slug /\ active' = active /\ inactive' = inactive /\ req' = req
    BY Zenon
  <1>2. /\ TenantTypeOK /\ SegmentsBounded
        /\ \A u \in Tenants : rows[u] = "active" => since[u] = 0
        /\ \A i \in 1..Len(active) : EntryOK(active[i])
        /\ \A i \in 1..Len(inactive) : RefusalOK(inactive[i])
        /\ \A r \in Requests : RequestOK(req[r])
    BY Zenon DEF TenantIInv
  <1>3. /\ since \in [Tenants -> Nat] /\ down \in [Tenants -> Nat] /\ cfg.ttl \in Nat
        /\ active \in Seq(Entries) /\ inactive \in Seq(Entries)
        /\ req \in [Requests -> RequestStates]
    BY Zenon, <1>2, TenantBounds DEF TenantTypeOK
  <1>4. \A u \in Tenants : since'[u] = IF u = t THEN 0 ELSE since[u]  BY Zenon, <1>3
  <1>5. \A n \in Nat : 0 <= n  OBVIOUS
  <1>6. TenantTypeOK'
    <2>1. rows' \in [Tenants -> {"absent", "active", "inactive"}]  BY Zenon, <1>2 DEF TenantTypeOK
    <2>2. 0 \in Nat  OBVIOUS
    <2>3. since' \in [Tenants -> Nat]  BY Zenon, <1>3, <2>2
    <2>4. down' \in [Tenants -> Nat]  BY Zenon, <1>3, <2>2
    <2> QED  BY Zenon, <1>1, <1>2, <2>1, <2>3, <2>4 DEF TenantTypeOK
  <1>7. \A u \in Tenants : rows'[u] = "active" => since'[u] = 0
    BY Zenon, <1>2, <1>3, <1>4 DEF TenantTypeOK
  <1>8. \A i \in 1..Len(active') : EntryOK(active[i])'
    <2> SUFFICES ASSUME NEW i \in 1..Len(active) PROVE EntryOK(active[i])'
      BY Zenon, <1>1
    <2> DEFINE e == active[i]
    <2>1. EntryOK(active[i])  BY Zenon, <1>2
    <2>2. e \in Entries  BY <1>3
    <2>3. e.id \in Tenants /\ Named(e.id, e.key)  BY Zenon, <2>1 DEF EntryOK
    <2>4. e.left >= 0 /\ e.lag < MaxLag => since[e.id] <= (cfg.ttl - e.left) + e.lag
      BY Zenon, <2>1 DEF EntryOK
    <2>5. e.left \in Int /\ e.lag \in Nat /\ since[e.id] \in Nat
      <3>1. since[e.id] \in Nat  BY Zenon, <1>3, <2>3
      <3> HIDE DEF e
      <3>2. e.left \in Int /\ e.lag \in Nat  BY <2>2 DEF Entries
      <3> QED  BY Zenon, <3>1, <3>2
    <2>6. e.left >= 0 /\ e.lag < MaxLag => since'[e.id] <= (cfg.ttl - e.left) + e.lag
      <3>1. since'[e.id] = 0 \/ since'[e.id] = since[e.id]  BY Zenon, <1>4, <2>3
      <3> DEFINE a == since[e.id] a1 == since'[e.id] l == e.left g == e.lag c == cfg.ttl
      <3> HIDE DEF a, a1, l, g, c, e
      <3>2. l >= 0 /\ g < MaxLag => a1 <= (c - l) + g
        <4>1. a \in Nat /\ l \in Int /\ g \in Nat /\ c \in Nat /\ (a1 = 0 \/ a1 = a)
          BY Zenon, <1>3, <2>5, <3>1 DEF a, a1, l, g, c
        <4>2. l >= 0 /\ g < MaxLag => a <= (c - l) + g  BY Zenon, <2>4 DEF a, l, g, c
        <4> QED  BY <4>1, <4>2
      <3> QED  BY Zenon, <3>2 DEF a1, l, g, c
    <2> QED  BY Zenon, <1>1, <2>3, <2>6 DEF EntryOK, Named
  <1>9. \A v \in Tenants : ~Active(v)' => down'[v] = 0  BY Zenon
  <1>10. \A v \in Tenants : down'[v] = 0 \/ down'[v] = down[v]  BY Zenon
  <1>11. \A i \in 1..Len(inactive') : RefusalOK(inactive[i])'
    <2> SUFFICES ASSUME NEW i \in 1..Len(inactive) PROVE RefusalOK(inactive[i])'
      BY Zenon, <1>1
    <2> DEFINE e == inactive[i]
               a == down[e.key]
               a1 == down'[e.key]
               m == (negativeTTL(cfg.ttl) - e.left) + e.lag
    <2>1. e.left >= 0 /\ e.lag < MaxLag => a <= m  BY Zenon, <1>2 DEF RefusalOK
    <2>2. e.key \in Tenants /\ e.left \in Int /\ e.lag \in Int
      <3>1. e \in Entries  BY <1>3
      <3> QED  BY <3>1 DEF Entries
    <2>3. a \in Nat /\ (a1 = 0 \/ a1 = a)  BY Zenon, <1>3, <1>10, <2>2
    <2>4. m \in Int
      <3> DEFINE n == negativeTTL(cfg.ttl)
      <3>1. n \in Int  BY Zenon, <1>3, NegativeTTLIs
      <3> HIDE DEF n
      <3>2. (n - e.left) + e.lag \in Int  BY <2>2, <3>1
      <3> QED  BY Zenon, <3>2 DEF n
    <2> HIDE DEF a, a1, m
    <2>5. a <= m => a1 <= m  BY <2>3, <2>4
    <2>6. e.left >= 0 /\ e.lag < MaxLag => a1 <= m  BY Zenon, <2>1, <2>5
    <2> QED  BY Zenon, <1>1, <2>6 DEF RefusalOK, a1, m
  <1>12. \A r \in Requests : RequestOK(req[r])'
    <2> TAKE r \in Requests
    <2>1. RequestOK(req[r])  BY Zenon, <1>2
    <2>2. req[r].lag \in Nat
      <3>1. req[r] \in RequestStates  BY Zenon, <1>3
      <3> QED  BY <3>1, TenantNats DEF RequestStates
    <2>3. req[r].ok => (req[r].lag < MaxLag => since'[req[r].id] <= req[r].lag)
      <3> SUFFICES ASSUME req[r].ok, req[r].lag < MaxLag PROVE since'[req[r].id] <= req[r].lag
        OBVIOUS
      <3>1. req[r].id \in Tenants /\ since[req[r].id] <= req[r].lag  BY Zenon, <2>1 DEF RequestOK
      <3>2. since'[req[r].id] = 0 \/ since'[req[r].id] = since[req[r].id]  BY Zenon, <1>4, <3>1
      <3>3. 0 <= req[r].lag  BY Zenon, <1>5, <2>2
      <3> QED  BY Zenon, <3>1, <3>2, <3>3
    <2>4. ~req[r].ok /\ req[r].at \in {"drop", "store"} =>
             (req[r].lag < MaxLag => down'[req[r].value] <= req[r].lag)
      <3> SUFFICES ASSUME ~req[r].ok, req[r].at \in {"drop", "store"}, req[r].lag < MaxLag
                   PROVE  down'[req[r].value] <= req[r].lag
        OBVIOUS
      <3>1. req[r].at \in {"getInactive", "ask", "drop", "store"}  OBVIOUS
      <3>2. req[r].value \in Tenants /\ down[req[r].value] <= req[r].lag
        BY Zenon, <2>1, <3>1 DEF RequestOK
      <3>3. down'[req[r].value] = 0 \/ down'[req[r].value] = down[req[r].value]
        BY Zenon, <1>10, <3>2
      <3>4. 0 <= req[r].lag  BY Zenon, <1>5, <2>2
      <3> QED  BY Zenon, <3>2, <3>3, <3>4
    <2> QED  BY Zenon, <1>1, <2>1, <2>3, <2>4 DEF RequestOK, Named
  <1>13. SegmentsBounded'  BY Zenon, <1>1, <1>2 DEF SegmentsBounded
  <1> QED  BY Zenon, <1>6, <1>7, <1>8, <1>9, <1>11, <1>12, <1>13 DEF TenantIInv

(* An operator's change keeps the invariant.                               *)
LEMMA SetStatusKeeps ==
    ASSUME TenantIInv, NEW t \in Tenants, NEW s \in {"active", "inactive"}, SetStatus(t, s)
    PROVE  TenantIInv'
  BY Zenon, TableKeeps DEF SetStatus

(* A new tenant keeps the invariant.                                       *)
LEMMA EnsureTenantKeeps ==
    ASSUME TenantIInv, NEW t \in Tenants, EnsureTenant(t)
    PROVE  TenantIInv'
  BY Zenon, TableKeeps DEF EnsureTenant

(* What a tick does to the requests.                                       *)
LEMMA TickRequests ==
    ASSUME TenantIInv, Tick, NEW r \in Requests
    PROVE  /\ req'[r] \in RequestStates
           /\ req'[r].at = req[r].at /\ req'[r].value = req[r].value /\ req'[r].id = req[r].id
           /\ req'[r].ok = req[r].ok /\ req'[r].reply = req[r].reply
           /\ req[r].at \in {"drop", "store"} /\ req'[r].lag < MaxLag =>
                 req'[r].lag = req[r].lag + 1 /\ req[r].lag < MaxLag
  <1>1. req[r] \in RequestStates  BY Zenon DEF TenantIInv, TenantTypeOK
  <1> DEFINE g == IF req[r].at \in {"drop", "store"} THEN Min({req[r].lag + 1, MaxLag}) ELSE req[r].lag
  <1>2. req'[r] = [req[r] EXCEPT !.lag = g]  BY Zenon DEF Tick
  <1>3. req[r].lag \in 0..MaxLag  BY <1>1 DEF RequestStates
  <1>4. req[r].lag \in Int /\ req[r].lag + 1 \in Int /\ MaxLag \in Int  BY <1>3, TenantNats
  <1>5. Min({req[r].lag + 1, MaxLag})
          = IF req[r].lag + 1 <= MaxLag THEN req[r].lag + 1 ELSE MaxLag
    BY Zenon, <1>4, MinOfTwo
  <1>6. CASE req[r].at \in {"drop", "store"}
    <2>1. g = IF req[r].lag + 1 <= MaxLag THEN req[r].lag + 1 ELSE MaxLag  BY Zenon, <1>5, <1>6
    <2> HIDE DEF g
    <2>2. g \in 0..MaxLag /\ (g < MaxLag => g = req[r].lag + 1 /\ req[r].lag < MaxLag)
      BY <1>3, <2>1, TenantNats
    <2>3. \A q \in RequestStates, h \in 0..MaxLag :
            LET y == [q EXCEPT !.lag = h] IN
              /\ y \in RequestStates
              /\ y.at = q.at /\ y.value = q.value /\ y.id = q.id /\ y.ok = q.ok
              /\ y.lag = h /\ y.reply = q.reply
      BY DEF RequestStates
    <2> DEFINE z == [req[r] EXCEPT !.lag = g]
    <2>4. /\ z \in RequestStates /\ z.at = req[r].at /\ z.value = req[r].value /\ z.id = req[r].id
          /\ z.ok = req[r].ok /\ z.lag = g /\ z.reply = req[r].reply
      BY Zenon, <1>1, <2>2, <2>3
    <2> HIDE DEF z
    <2>5. z.lag < MaxLag => z.lag = req[r].lag + 1 /\ req[r].lag < MaxLag  BY Zenon, <2>2, <2>4
    <2>6. req'[r] = z  BY Zenon, <1>2 DEF z
    <2> QED  BY Zenon, <1>6, <2>4, <2>5, <2>6
  <1>7. CASE req[r].at \notin {"drop", "store"}
    <2>1. g = req[r].lag  BY Zenon, <1>7
    <2> HIDE DEF g
    <2>2. \A q \in RequestStates : [q EXCEPT !.lag = q.lag] = q  BY DEF RequestStates
    <2>3. req'[r] = req[r]  BY Zenon, <1>1, <1>2, <2>1, <2>2
    <2> QED  BY Zenon, <1>1, <1>7, <2>3
  <1> QED  BY Zenon, <1>6, <1>7

(* One tick more, up to the bound of the histories.                        *)
LEMMA GrowIs ==
    ASSUME TenantIInv, NEW n \in Nat
    PROVE  Min({n + 1, FarSince}) \in Nat /\ Min({n + 1, FarSince}) <= n + 1
  <1>1. cfg.ttl \in Nat  BY Zenon, TenantBounds DEF TenantIInv, TenantTypeOK
  <1>2. FarSince \in Nat  BY <1>1, TenantNats DEF FarSince
  <1> DEFINE m == Min({n + 1, FarSince})
  <1>3. n + 1 \in Int /\ FarSince \in Int  BY <1>2
  <1>4. m = IF n + 1 <= FarSince THEN n + 1 ELSE FarSince  BY Zenon, <1>3, MinOfTwo
  <1> HIDE DEF m
  <1>5. m \in Nat /\ m <= n + 1  BY <1>2, <1>4
  <1> QED  BY Zenon, <1>5 DEF m

(* What a tick does to the time since a tenant was active, and since a     *)
(* value named none.                                                       *)
LEMMA TickSince ==
    ASSUME TenantIInv, Tick
    PROVE  /\ since' \in [Tenants -> Nat] /\ down' \in [Tenants -> Nat]
           /\ \A t \in Tenants : /\ since'[t] <= since[t] + 1 /\ down'[t] <= down[t] + 1
                                 /\ rows[t] = "active" => since'[t] = 0
                                 /\ ~Active(t) => down'[t] = 0
  <1>1. since \in [Tenants -> Nat] /\ down \in [Tenants -> Nat]
    BY Zenon DEF TenantIInv, TenantTypeOK
  <1>2. since' = [t \in Tenants |->
                    IF rows[t] = "active" THEN 0 ELSE Min({since[t] + 1, FarSince})]
    BY Zenon DEF Tick
  <1>3. down' = [t \in Tenants |-> IF Active(t) THEN Min({down[t] + 1, FarSince}) ELSE 0]
    BY Zenon DEF Tick
  <1>4. \A n \in Nat : 0 \in Nat /\ 0 <= n + 1  OBVIOUS
  <1>5. \A t \in Tenants : since'[t] \in Nat /\ since'[t] <= since[t] + 1
    <2> TAKE t \in Tenants
    <2>1. since[t] \in Nat  BY Zenon, <1>1
    <2>2. since'[t] = 0 \/ since'[t] = Min({since[t] + 1, FarSince})  BY Zenon, <1>2
    <2> QED  BY Zenon, <1>4, <2>1, <2>2, GrowIs
  <1>6. \A t \in Tenants : down'[t] \in Nat /\ down'[t] <= down[t] + 1
    <2> TAKE t \in Tenants
    <2>1. down[t] \in Nat  BY Zenon, <1>1
    <2>2. down'[t] = 0 \/ down'[t] = Min({down[t] + 1, FarSince})  BY Zenon, <1>3
    <2> QED  BY Zenon, <1>4, <2>1, <2>2, GrowIs
  <1>7. \A t \in Tenants : /\ rows[t] = "active" => since'[t] = 0
                           /\ ~Active(t) => down'[t] = 0
    BY Zenon, <1>2, <1>3
  <1>8. since' \in [Tenants -> Nat]  BY Zenon, <1>2, <1>5
  <1>9. down' \in [Tenants -> Nat]  BY Zenon, <1>3, <1>6
  <1> QED  BY Zenon, <1>5, <1>6, <1>7, <1>8, <1>9

(* Time keeps the invariant: an entry ages as fast as the time since its   *)
(* tenant was active grows.                                                *)
LEMMA TickKeeps ==
    ASSUME TenantIInv, Tick
    PROVE  TenantIInv'
  <1>1. cfg' = cfg /\ rows' = rows /\ slug' = slug
        /\ active' = Aged(active) /\ inactive' = Aged(inactive)
        /\ DOMAIN req' = Requests /\ req' = [r \in Requests |-> req'[r]]
    BY Zenon DEF Tick
  <1>2. /\ TenantTypeOK /\ SegmentsBounded
        /\ \A i \in 1..Len(active) : EntryOK(active[i])
        /\ \A i \in 1..Len(inactive) : RefusalOK(inactive[i])
        /\ \A r \in Requests : RequestOK(req[r])
    BY Zenon DEF TenantIInv
  <1>3. /\ since \in [Tenants -> Nat] /\ down \in [Tenants -> Nat] /\ cfg.ttl \in Nat /\ active \in Seq(Entries)
        /\ inactive \in Seq(Entries) /\ Distinct(active) /\ Distinct(inactive)
        /\ Len(active) <= MaxActive /\ Len(inactive) <= MaxInactive
    BY Zenon, <1>2, TenantBounds, SegmentsAre DEF TenantTypeOK
  <1>4. /\ active' \in Seq(Entries) /\ Len(active') = Len(active)
        /\ inactive' \in Seq(Entries) /\ Len(inactive') = Len(inactive)
        /\ Distinct(active') /\ Distinct(inactive')
    BY Zenon, <1>1, <1>3, AgedIs
  <1>5. TenantTypeOK'
    <2>1. req' \in [Requests -> RequestStates]
      <3>1. \A r \in Requests : req'[r] \in RequestStates  BY Zenon, TickRequests
      <3> QED  BY Zenon, <1>1, <3>1
    <2> QED  BY Zenon, <1>1, <1>2, <1>4, <2>1, TickSince DEF TenantTypeOK
  <1>6. \A u \in Tenants : rows'[u] = "active" => since'[u] = 0  BY Zenon, <1>1, TickSince
  <1>7. \A i \in 1..Len(active') : EntryOK(active[i])'
    <2> SUFFICES ASSUME NEW i \in 1..Len(active) PROVE EntryOK(active[i])'
      BY Zenon, <1>4
    <2> DEFINE e == active[i]
               f == Aged(active)[i]
    <2>1. EntryOK(e)  BY Zenon, <1>2
    <2>2. f.key = e.key /\ f.id = e.id /\ f.lag = e.lag /\ f.left \in Int
          /\ (f.left >= 0 => f.left = e.left - 1)
      BY Zenon, <1>3, AgedIs
    <2>3. e.id \in Tenants /\ Named(e.id, e.key)
          /\ (e.left >= 0 /\ e.lag < MaxLag => since[e.id] <= (cfg.ttl - e.left) + e.lag)
      BY Zenon, <2>1 DEF EntryOK
    <2>4. e.left \in Int /\ e.lag \in Nat
      <3>1. e \in Entries  BY <1>3
      <3> QED  BY <3>1 DEF Entries
    <2>5. since[e.id] \in Nat /\ since'[e.id] \in Nat /\ since'[e.id] <= since[e.id] + 1
      BY Zenon, <1>3, <2>3, TickSince
    <2>6. f.left >= 0 /\ f.lag < MaxLag => since'[f.id] <= (cfg.ttl - f.left) + f.lag
      <3> DEFINE a == since[e.id] a1 == since'[e.id] l == e.left l1 == f.left g == e.lag c == cfg.ttl
      <3>1. /\ a \in Nat /\ a1 \in Nat /\ l \in Int /\ l1 \in Int /\ g \in Nat /\ c \in Nat
            /\ a1 <= a + 1 /\ (l1 >= 0 => l1 = l - 1)
            /\ (l >= 0 /\ g < MaxLag => a <= (c - l) + g)
        BY Zenon, <1>3, <2>2, <2>3, <2>4, <2>5
      <3> HIDE DEF a, a1, l, l1, g, c, e, f
      <3>2. l1 >= 0 /\ g < MaxLag => a1 <= (c - l1) + g  BY <3>1
      <3> QED  BY Zenon, <2>2, <3>2 DEF a1, l1, g, c
    <2>7. active'[i] = f  BY Zenon, <1>1
    <2> QED  BY Zenon, <1>1, <2>2, <2>3, <2>6, <2>7 DEF EntryOK, Named
  <1>8. \A r \in Requests : RequestOK(req[r])'
    <2> TAKE r \in Requests
    <2> DEFINE q == req[r]
               p == req'[r]
    <2>1. RequestOK(q)  BY Zenon, <1>2
    <2>2. /\ p.at = q.at /\ p.value = q.value /\ p.id = q.id /\ p.ok = q.ok /\ p.reply = q.reply
          /\ q.at \in {"drop", "store"} /\ p.lag < MaxLag => p.lag = q.lag + 1 /\ q.lag < MaxLag
      BY Zenon, TickRequests
    <2>3. ASSUME q.ok, p.lag < MaxLag PROVE since'[q.id] <= p.lag
      <3>1. since[q.id] <= q.lag /\ q.id \in Tenants /\ q.at \in {"drop", "store"}
        BY Zenon, <2>1, <2>2, <2>3 DEF RequestOK
      <3>2. q.lag \in Nat
        <4>1. q \in RequestStates  BY Zenon, <1>2 DEF TenantTypeOK
        <4> QED  BY <4>1, TenantNats DEF RequestStates
      <3>3. since[q.id] \in Nat /\ since'[q.id] \in Nat /\ since'[q.id] <= since[q.id] + 1
        BY Zenon, <1>3, <3>1, TickSince
      <3> DEFINE a == since[q.id] a1 == since'[q.id] g == q.lag g1 == p.lag
      <3>4. a \in Nat /\ a1 \in Nat /\ g \in Nat /\ a1 <= a + 1 /\ a <= g /\ g1 = g + 1
        BY Zenon, <2>2, <2>3, <3>1, <3>2, <3>3
      <3> HIDE DEF a, a1, g, g1, p, q
      <3>5. a1 <= g1  BY <3>4
      <3> QED  BY Zenon, <3>5 DEF a1, g1
    <2>4. ASSUME ~q.ok, q.at \in {"drop", "store"}, p.lag < MaxLag
          PROVE  down'[q.value] <= p.lag
      <3>1. down[q.value] <= q.lag /\ q.value \in Tenants
        <4>1. q.at \in {"getInactive", "ask", "drop", "store"}  BY <2>4
        <4> QED  BY Zenon, <4>1, <2>1, <2>2, <2>4 DEF RequestOK
      <3>2. q.lag \in Nat
        <4>1. q \in RequestStates  BY Zenon, <1>2 DEF TenantTypeOK
        <4> QED  BY <4>1, TenantNats DEF RequestStates
      <3>3. down[q.value] \in Nat /\ down'[q.value] \in Nat /\ down'[q.value] <= down[q.value] + 1
        BY Zenon, <1>3, <3>1, TickSince
      <3> DEFINE a == down[q.value] a1 == down'[q.value] g == q.lag g1 == p.lag
      <3>4. a \in Nat /\ a1 \in Nat /\ g \in Nat /\ a1 <= a + 1 /\ a <= g /\ g1 = g + 1
        BY Zenon, <2>2, <2>4, <3>1, <3>2, <3>3
      <3> HIDE DEF a, a1, g, g1, p, q
      <3>5. a1 <= g1  BY <3>4
      <3> QED  BY Zenon, <3>5 DEF a1, g1
    <2> QED  BY Zenon, <1>1, <2>1, <2>2, <2>3, <2>4 DEF RequestOK, Named
  <1>9. \A v \in Tenants : ~Active(v)' => down'[v] = 0
    BY Zenon, <1>1, TickSince, ActiveSame
  <1>10. \A i \in 1..Len(inactive') : RefusalOK(inactive[i])'
    <2> SUFFICES ASSUME NEW i \in 1..Len(inactive) PROVE RefusalOK(inactive[i])'
      BY Zenon, <1>4
    <2> DEFINE e == inactive[i]
               f == Aged(inactive)[i]
               n == negativeTTL(cfg.ttl)
    <2>1. e.left >= 0 /\ e.lag < MaxLag => down[e.key] <= (n - e.left) + e.lag
      BY Zenon, <1>2 DEF RefusalOK
    <2>2. f.key = e.key /\ f.lag = e.lag /\ f.left \in Int
          /\ (f.left >= 0 => f.left = e.left - 1)
      BY Zenon, <1>3, AgedIs
    <2>3. e.key \in Tenants /\ e.left \in Int /\ e.lag \in Nat
      <3>1. e \in Entries  BY <1>3
      <3> QED  BY <3>1 DEF Entries
    <2>4. down[e.key] \in Nat /\ down'[e.key] \in Nat /\ down'[e.key] <= down[e.key] + 1
      BY Zenon, <1>3, <2>3, TickSince
    <2>5. n \in Int  BY Zenon, <1>3, NegativeTTLIs
    <2>6. f.left >= 0 /\ f.lag < MaxLag => down'[f.key] <= (n - f.left) + f.lag
      <3> DEFINE a == down[e.key] a1 == down'[e.key] l == e.left l1 == f.left g == e.lag
      <3>1. /\ a \in Nat /\ a1 \in Nat /\ l \in Int /\ l1 \in Int /\ g \in Nat /\ n \in Int
            /\ a1 <= a + 1 /\ (l1 >= 0 => l1 = l - 1)
            /\ (l >= 0 /\ g < MaxLag => a <= (n - l) + g)
        BY Zenon, <2>1, <2>2, <2>3, <2>4, <2>5
      <3> HIDE DEF a, a1, l, l1, g, n, e, f
      <3>2. l1 >= 0 /\ g < MaxLag => a1 <= (n - l1) + g  BY <3>1
      <3> QED  BY Zenon, <2>2, <3>2 DEF a1, l1, g
    <2>7. inactive'[i] = f  BY Zenon, <1>1
    <2> HIDE DEF e, f
    <2> QED  BY Zenon, <1>1, <2>6, <2>7 DEF RefusalOK
  <1>11. SegmentsBounded'
    <2>1. Len(active') <= MaxActive /\ Len(inactive') <= MaxInactive
      BY Zenon, <1>3, <1>4
    <2> QED  BY Zenon, <1>4, <2>1 DEF SegmentsBounded, Distinct
  <1> QED  BY Zenon, <1>5, <1>6, <1>7, <1>8, <1>9, <1>10, <1>11 DEF TenantIInv

(* Every step keeps the invariant.                                         *)
LEMMA TenantNextKeeps ==
    ASSUME TenantIInv, [TenantNext]_tenantVars
    PROVE  TenantIInv'
  <1>1. ASSUME NEW r \in Requests, Lookup(r) PROVE TenantIInv'
    BY Zenon, <1>1, GetInactiveKeeps, AskKeeps, LeaveKeeps, DropKeeps, StoreKeeps DEF Lookup
  <1>2. ASSUME NEW r \in Requests, Arrive(r) PROVE TenantIInv'
    BY Zenon, <1>2, ArriveKeeps
  <1>3. ASSUME NEW t \in Operated, NEW s \in {"active", "inactive"}, SetStatus(t, s)
        PROVE  TenantIInv'
    <2>1. t \in Tenants  BY Zenon, TenantAssumption
    <2> QED  BY Zenon, <1>3, <2>1, SetStatusKeeps
  <1>4. ASSUME NEW t \in Operated, EnsureTenant(t) PROVE TenantIInv'
    <2>1. t \in Tenants  BY Zenon, TenantAssumption
    <2> QED  BY Zenon, <1>4, <2>1, EnsureTenantKeeps
  <1>5. CASE Tick  BY Zenon, <1>5, TickKeeps
  <1>6. CASE UNCHANGED tenantVars
    <2>1. cfg' = cfg /\ rows' = rows /\ slug' = slug /\ active' = active /\ inactive' = inactive
          /\ req' = req /\ since' = since /\ down' = down
      BY Zenon, <1>6 DEF tenantVars
    <2>2. SegmentsBounded' /\ TenantTypeOK'
      BY Zenon, <2>1 DEF TenantIInv, SegmentsBounded, TenantTypeOK
    <2>3. \A i \in 1..Len(active) : EntryOK(active[i])'
      BY Zenon, <2>1 DEF TenantIInv, EntryOK, Named
    <2>4. \A r \in Requests : RequestOK(req[r])'
      BY Zenon, <2>1 DEF TenantIInv, RequestOK, Named
    <2>5. \A i \in 1..Len(inactive) : RefusalOK(inactive[i])'
      BY Zenon, <2>1 DEF TenantIInv, RefusalOK
    <2>6. \A v \in Tenants : ~Active(v)' => down'[v] = 0
      BY Zenon, <2>1, ActiveSame DEF TenantIInv
    <2>7. \A t \in Tenants : rows'[t] = "active" => since'[t] = 0  BY Zenon, <2>1 DEF TenantIInv
    <2> QED  BY Zenon, <2>1, <2>2, <2>3, <2>4, <2>5, <2>6, <2>7 DEF TenantIInv
  <1> QED  BY Zenon, <1>1, <1>2, <1>3, <1>4, <1>5, <1>6 DEF TenantNext

(* The inductive invariant holds throughout.                               *)
THEOREM TenantInvariant == TenantSpec => []TenantIInv
  BY TenantInitIInv, TenantNextKeeps, PTL DEF TenantSpec

(* The invariant implies ServedTenantWasActive.                            *)
LEMMA IInvServed == TenantIInv => ServedTenantWasActive
  <1> SUFFICES ASSUME TenantIInv PROVE ServedTenantWasActive
    OBVIOUS
  <1>1. \A i \in 1..Len(active) :
          active[i].left >= 0 /\ active[i].lag < MaxLag =>
             since[active[i].id] <= (cfg.ttl - active[i].left) + active[i].lag
    BY Zenon DEF TenantIInv, EntryOK
  <1>2. \A r \in Requests : req[r].at = "done" /\ req[r].reply \in Tenants =>
          Named(req[r].reply, req[r].value)
    BY Zenon DEF TenantIInv, RequestOK
  <1> QED  BY Zenon, <1>1, <1>2 DEF ServedTenantWasActive, Named

(* A request is served as the tenant it named, and an entry serves its     *)
(* tenant only within a TTL, plus the delay of its lookup, of the time the *)
(* tenant was last active (ttlLRU, lookupTenant), for any number of        *)
(* tenants, requests and entries.                                          *)
THEOREM ServedTenantsWereActive == TenantSpec => []ServedTenantWasActive
  BY TenantInvariant, IInvServed, PTL

(* A request is refused for an entry of the inactive segment only within   *)
(* the shorter TTL of that segment, plus the delay of its lookup, of the   *)
(* time its tenant was last unknown or inactive (negativeTTL,              *)
(* lookupTenant), also for a key that overlapping puts left in both        *)
(* segments (validationCache.put).                                         *)
THEOREM RefusedTenantsWereInactive == TenantSpec => []RefusedTenantWasInactive
  <1>1. TenantIInv => RefusedTenantWasInactive
    BY Zenon DEF TenantIInv, RefusalOK, RefusedTenantWasInactive
  <1> QED  BY <1>1, TenantInvariant, PTL

EntryStays ==
  \A k \in KeysOf(active) \ KeysOf(active)' :
       \/ EntryOf(active, k).left < 0
       \/ KeysOf(active)' \ KeysOf(active) # {}
       \/ \E r \in Requests : req[r].value = k /\ req[r].at = "drop" /\ ~req[r].ok

(* A step takes a live entry out of the active segment only to make room   *)
(* for another active tenant, or because a lookup found its own tenant     *)
(* inactive.                                                               *)
LEMMA NextKeepsEntries ==
    ASSUME TenantIInv, TenantNext
    PROVE  EntryStays
  <1>1. active \in Seq(Entries) /\ Distinct(active) /\ Len(active) <= MaxActive
    BY Zenon, SegmentsAre
  <1>2. ASSUME active' = active PROVE EntryStays
    BY Zenon, <1>2 DEF EntryStays
  <1>3. ASSUME NEW r \in Requests, NEW v \in Tenants, GetActive(r, v) PROVE EntryStays
    <2>1. active' = AfterGet(active, v)  BY Zenon, <1>3 DEF GetActive
    <2>2. KeysOf(active') = IF Live(active, v) THEN KeysOf(active) ELSE KeysOf(active) \ {v}
      BY Zenon, <1>1, <2>1, AfterGetIs
    <2> SUFFICES ASSUME NEW k \in KeysOf(active) \ KeysOf(active') PROVE EntryOf(active, k).left < 0
      BY Zenon DEF EntryStays
    <2>3. k = v /\ ~Live(active, k)  BY Zenon, <2>2
    <2>4. ~(EntryOf(active, k).left >= 0)  BY Zenon, <2>3 DEF Live
    <2>5. EntryOf(active, k) \in Entries  BY Zenon, <1>1, EntryIs
    <2>6. EntryOf(active, k).left \in Int  BY <2>5 DEF Entries
    <2> QED  BY <2>4, <2>6
  <1>4. ASSUME NEW r \in Requests, Arrive(r) PROVE EntryStays
    BY Zenon, <1>2, <1>3, <1>4 DEF Arrive, ArriveUnnamed, ArriveUnchecked
  <1>5. ASSUME NEW r \in Requests, Drop(r) PROVE EntryStays
    <2>1. CASE req[r].ok
      <3>1. active' = active  BY Zenon, <1>5, <2>1 DEF Drop
      <3> QED  BY Zenon, <1>2, <3>1
    <2>2. CASE ~req[r].ok
      <3>1. active' = Without(active, req[r].value) /\ req[r].at = "drop"
        BY Zenon, <1>5, <2>2 DEF Drop
      <3>2. KeysOf(active') = KeysOf(active) \ {req[r].value}  BY Zenon, <1>1, <3>1, WithoutIs
      <3> QED  BY Zenon, <2>2, <3>1, <3>2 DEF EntryStays
    <2> QED  BY Zenon, <2>1, <2>2
  <1>6. ASSUME NEW r \in Requests, Store(r) PROVE EntryStays
    <2>1. CASE ~req[r].ok
      <3>1. active' = active  BY Zenon, <1>6, <2>1 DEF Store
      <3> QED  BY Zenon, <1>2, <3>1
    <2>2. CASE req[r].ok
      <3> DEFINE e == Fresh(r, cfg.ttl)
      <3>1. active' = AfterPut(active, e, MaxActive) /\ req[r].at = "store"
        BY Zenon, <1>6, <2>2 DEF Store
      <3>2. cfg.ttl \in Int
        <4>1. cfg.ttl \in Nat  BY Zenon, TenantBounds DEF TenantIInv, TenantTypeOK
        <4> QED  BY <4>1
      <3>3. e \in Entries  BY Zenon, <3>1, <3>2, FreshIs
      <3> HIDE DEF e
      <3>4. /\ e.key \in KeysOf(active')
            /\ e.key \in KeysOf(active) => KeysOf(active) \subseteq KeysOf(active')
        BY Zenon, <1>1, <3>1, <3>3, TenantNats, AfterPutIs
      <3> QED  BY Zenon, <3>4 DEF EntryStays
    <2> QED  BY Zenon, <2>1, <2>2
  <1>7. CASE Tick
    <2>1. KeysOf(active') = KeysOf(active)  BY Zenon, <1>1, <1>7, AgedIs DEF Tick
    <2> QED  BY Zenon, <2>1 DEF EntryStays
  <1>8. ASSUME NEW r \in Requests, Lookup(r) PROVE EntryStays
    BY Zenon, <1>2, <1>5, <1>6, <1>8 DEF Lookup, GetInactive, Ask, AskFails, Leave
  <1> QED
    BY Zenon, <1>2, <1>4, <1>7, <1>8 DEF TenantNext, SetStatus, EnsureTenant

(* Unknown tenants never push a real one out of the cache (the two         *)
(* segments of validationCache).                                           *)
THEOREM ActiveEntriesStay == TenantSpec => RealTenantsStay
  <1>1. TenantIInv /\ [TenantNext]_tenantVars => [EntryStays]_tenantVars
    BY Zenon, NextKeepsEntries
  <1>2. RealTenantsStay <=> [][EntryStays]_tenantVars
    BY DEF RealTenantsStay, EntryStays
  <1> QED  BY <1>1, <1>2, TenantInvariant, PTL DEF TenantSpec
=============================================================================
