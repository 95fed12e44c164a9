------------------------- MODULE RateLimiterProofs --------------------------
(* Proofs about RateLimiter.                                               *)
EXTENDS RateLimiter, TLAPS

LEMMA WindowNat == \A r \in Rules : WindowMS(r) \in Nat
  BY RateLimiterAssumption DEF WindowMS

(* normalizeKey leaves a scope and an identifier as they are in a key.     *)
Normal(who) == /\ normalizeScope(who[1]) = who[1]
               /\ sanitizeIdentifier(who[2]).kept = who[2].kept /\ who[2].kept # ""

LEMMA FirstIsNormal ==
  ASSUME NEW c \in Clients, NEW scopes
  PROVE  Normal(KeyByFirst(c, scopes))
<1>1. Normal(Anon)
  BY DEF Normal, Anon, normalizeScope, sanitizeIdentifier
<1>2. ASSUME NEW who PROVE Normal(normalizeKey(who))
  <2>1. CASE sanitizeIdentifier(who[2]).kept = ""
    BY <1>1, <2>1 DEF normalizeKey
  <2>2. CASE sanitizeIdentifier(who[2]).kept # ""
    BY <2>2 DEF normalizeKey, Normal, normalizeScope, sanitizeIdentifier
  <2> QED BY <2>1, <2>2
<1> QED BY <1>1, <1>2 DEF KeyByFirst

(* BuildKey keeps apart whom ResolveScopeAndIdentifier keeps apart.        *)
LEMMA IdentIsKey ==
  ASSUME NEW c \in Clients, NEW r \in Rules
  PROVE  /\ Ident[c][r] \in Idents /\ Key[c][r] = Ident[c][r]
         /\ Ident[c][r][1] = normalizeRoute(Pattern[r])
<1> DEFINE who == ResolveScopeAndIdentifier(c, r)
<1>1. Normal(who)
  <2>1. Normal(Anon)
    BY DEF Normal, Anon, normalizeScope, sanitizeIdentifier
  <2>2. Normal(ByScope(c, Scope[r]))
    BY <2>1, FirstIsNormal DEF ByScope
  <2> QED BY <2>2, FirstIsNormal DEF ResolveScopeAndIdentifier
<1>2. Ident[c][r] = <<normalizeRoute(Pattern[r]), who[1], who[2].kept>>
  BY DEF Ident
<1>3. Key[c][r] = BuildKey(Pattern[r], who)
  BY DEF Key
<1>4. Ident[c][r] \in Idents
  BY DEF Idents
<1> HIDE DEF who
<1>5. BuildKey(Pattern[r], who) = <<normalizeRoute(Pattern[r]), who[1], who[2].kept>>
  BY Zenon, <1>1 DEF Normal, BuildKey
<1>6. <<normalizeRoute(Pattern[r]), who[1], who[2].kept>>[1] = normalizeRoute(Pattern[r])
  OBVIOUS
<1> QED BY Zenon, <1>2, <1>3, <1>4, <1>5, <1>6

LEMMA KeysAreIdents == Keys = Idents
  BY IdentIsKey DEF Keys, Idents

(* A delay of t milliseconds, rounded up to seconds, is no shorter.        *)
LEMMA RoundsUp ==
  ASSUME NEW t \in Nat
  PROVE  Second * RetryAfterSeconds(t * Milli) >= t
<1> DEFINE n == Second * RetryAfterSeconds(t * Milli)
<1>1. n \in Nat /\ Milli * n >= t * Milli
  BY RateLimiterAssumption DEF RetryAfterSeconds
<1>2. Milli \in Nat \ {0}
  BY RateLimiterAssumption
<1> HIDE DEF n
<1>3. n >= t
  BY <1>1, <1>2
<1> QED BY <1>3 DEF n

LEMMA SecondsNat ==
  ASSUME NEW d \in Nat
  PROVE  RetryAfterSeconds(d) \in Nat
  BY RateLimiterAssumption DEF RetryAfterSeconds

LEMMA InitInv == Init => IInv
<1> SUFFICES ASSUME Init PROVE IInv
  OBVIOUS
<1>1. TypeOK
  <2>1. (CHOOSE r \in Rules : TRUE) \in Rules
    BY RateLimiterAssumption
  <2>2. NoReply \in [allowed : BOOLEAN, ttl : Nat, until : Nat, own : Nat]
    BY DEF NoReply
  <2>3. <<>> \in Seq(Nat)
    OBVIOUS
  <2> QED BY Zenon, <2>1, <2>2, <2>3, KeysAreIdents DEF Init, TypeOK
<1>2. CountsTheWindow /\ GrantsPerWindow
  BY RateLimiterAssumption, KeysAreIdents DEF Init, CountsTheWindow, GrantsPerWindow
<1>3. WindowsInOrder /\ TwiceInAnyInterval
  BY RateLimiterAssumption, KeysAreIdents DEF Init, WindowsInOrder, TwiceInAnyInterval
<1>4. RepliesHonest /\ DecidedByOwnRequests /\ RefusedInWindow /\ WaitIsLong
  BY DEF Init, RepliesHonest, DecidedByOwnRequests, RefusedInWindow, Refused, WaitIsLong
<1> QED BY <1>1, <1>2, <1>3, <1>4 DEF IInv

(* What one run of the script does to the counter and the history of its   *)
(* key, in terms of whether the key was gone.                              *)
Effect(c, r, k, n, e) ==
  /\ k = Ident[c][r] /\ k[1] = normalizeRoute(Pattern[r])
  /\ e >= now
  /\ Gone(k) => n = 1 /\ e = now + WindowMS(r)
  /\ ~Gone(k) => n = count[k] + 1 /\ n = hits[k] + 1 /\ e = expiry[k]
  /\ expiry' = [expiry EXCEPT ![k] = e]
  /\ count' = [count EXCEPT ![k] = IF Gone(k) /\ WindowMS(r) = 0 THEN 0 ELSE n]
  /\ opened' = [opened EXCEPT ![k] = IF Gone(k) THEN now ELSE @]
  /\ start' = [start EXCEPT ![k] =
       IF Gone(k) THEN [q \in Rules |-> Len(log[k][q])] ELSE @]
  /\ before' = [before EXCEPT ![k] = IF Gone(k) THEN start[k] ELSE @]
  /\ hits' = [hits EXCEPT ![k] = n]
  /\ log' = IF n <= Limit[r] THEN [log EXCEPT ![k][r] = Append(@, now)]
                             ELSE log
  /\ reply' = [reply EXCEPT ![c] =
       [allowed |-> n <= Limit[r], ttl |-> e - now, until |-> e, own |-> n]]
  /\ pc' = [pc EXCEPT ![c] = "ran"]
  /\ now' = now

LEMMA ScriptEffect ==
  ASSUME IInv, NEW c \in Clients, NEW r \in Rules, Script(c, r)
  PROVE  \E k \in Idents, n \in Nat \ {0}, e \in Nat : Effect(c, r, k, n, e)
<1> DEFINE k == Ident[c][r]
           n == Current(k)
           e == NewExpiry(k, r)
<1>1. k \in Idents /\ Key[c][r] = k /\ k[1] = normalizeRoute(Pattern[r])
  BY IdentIsKey
<1>2. TypeOK /\ CountsTheWindow
  BY DEF IInv
<1>3. /\ count[k] \in Nat /\ expiry[k] \in Nat /\ hits[k] \in Nat /\ now \in Nat
      /\ WindowMS(r) \in Nat
  BY <1>1, <1>2, WindowNat DEF TypeOK
<1>4. ~Gone(k) => count[k] = hits[k] /\ now <= expiry[k]
  BY <1>1, <1>2, <1>3 DEF Gone, CountsTheWindow
<1>5. /\ n \in Nat \ {0} /\ e \in Nat /\ e >= now
      /\ Gone(k) => n = 1 /\ e = now + WindowMS(r)
      /\ ~Gone(k) => n = count[k] + 1 /\ n = hits[k] + 1 /\ e = expiry[k]
  BY <1>3, <1>4 DEF Current, NewExpiry
<1>6. hits' = [hits EXCEPT ![k] = n]
  BY Zenon, <1>1, <1>2, <1>5 DEF Script, Record, TypeOK
<1>7. hits'[k] = n
  BY <1>1, <1>2, <1>6 DEF TypeOK
<1>8. expiry' = [expiry EXCEPT ![k] = e] /\ expiry'[k] = e
  BY <1>1, <1>2 DEF Script, TypeOK
<1>9. reply' = [reply EXCEPT ![c] =
         [allowed |-> n <= Limit[r], ttl |-> e - now, until |-> e, own |-> n]]
  BY Zenon, <1>1, <1>7, <1>8 DEF Script, Within
<1>10. /\ count' = [count EXCEPT ![k] = IF Gone(k) /\ WindowMS(r) = 0 THEN 0 ELSE n]
       /\ opened' = [opened EXCEPT ![k] = IF Gone(k) THEN now ELSE @]
       /\ start' = [start EXCEPT ![k] =
            IF Gone(k) THEN [q \in Rules |-> Len(log[k][q])] ELSE @]
       /\ before' = [before EXCEPT ![k] = IF Gone(k) THEN start[k] ELSE @]
       /\ log' = IF n <= Limit[r] THEN [log EXCEPT ![k][r] = Append(@, now)] ELSE log
       /\ pc' = [pc EXCEPT ![c] = "ran"]
       /\ now' = now
  BY <1>1 DEF Script, Record, Within
<1>11. k = Ident[c][r]
  BY DEF k
<1> HIDE DEF k, n, e
<1>12. Effect(c, r, k, n, e)
  BY <1>1, <1>5, <1>6, <1>8, <1>9, <1>10, <1>11 DEF Effect
<1> QED BY <1>1, <1>5, <1>12

(* The arithmetic of windows, for one key and rule. L holds the times of   *)
(* the m requests allowed so far, M those after the run of the script; the *)
(* window began at o with s of them, the one before with b.                *)
Windows(L, m, s, b, o, x, t, lim, w) ==
  /\ o <= t /\ s - b <= lim
  /\ \A i \in 1..s : L[i] < o
  /\ \A i \in 1..b : L[i] + w < o
  /\ \A i \in 1..m : L[i] <= x
  /\ x = o + w
  /\ \A i \in 1..m : i + 2 * lim <= m => L[i] + w < L[i + 2 * lim]

Logged(L, m, M, m1, t) ==
  /\ m1 = m \/ (m1 = m + 1 /\ M[m1] = t)
  /\ \A i \in 1..m : M[i] = L[i] /\ L[i] \in Nat

LEMMA FirstWindow ==
  ASSUME NEW L, NEW M, NEW m1 \in Nat, NEW t \in Nat, NEW lim \in Nat \ {0},
         NEW w \in Nat \ {0}, Logged(L, 0, M, m1, t)
  PROVE  Windows(M, m1, 0, 0, t, t + w, t, lim, w)
  BY DEF Logged, Windows

LEMMA NewWindow ==
  ASSUME NEW L, NEW M, NEW m \in Nat, NEW m1 \in Nat, NEW s \in Nat, NEW b \in Nat,
         NEW o \in Nat, NEW x \in Nat, NEW t \in Nat, NEW lim \in Nat \ {0},
         NEW w \in Nat \ {0},
         b <= s, s <= m, m - s <= lim, x < t, NEW y \in Nat, o <= y, y <= t,
         Windows(L, m, s, b, o, x, y, lim, w), Logged(L, m, M, m1, t)
  PROVE  Windows(M, m1, m, s, t, t + w, t, lim, w)
<1>1. t <= t /\ m - s <= lim /\ t + w = t + w
  OBVIOUS
<1>2. ASSUME NEW i \in 1..m PROVE M[i] < t
  BY DEF Windows, Logged
<1>3. ASSUME NEW i \in 1..s PROVE M[i] + w < t
  BY DEF Windows, Logged
<1>4. ASSUME NEW i \in 1..m1 PROVE M[i] <= t + w
  <2>1. CASE i \in 1..m
    BY <1>2, <2>1 DEF Logged
  <2>2. CASE i = m1 /\ M[m1] = t
    BY <2>2
  <2> QED BY <2>1, <2>2 DEF Logged
<1>5. ASSUME NEW i \in 1..m1, i + 2 * lim <= m1 PROVE M[i] + w < M[i + 2 * lim]
  <2>1. CASE i + 2 * lim <= m
    <3>1. i \in 1..m /\ i + 2 * lim \in 1..m
      BY <2>1
    <3> QED BY <2>1, <3>1 DEF Windows, Logged
  <2>2. CASE i + 2 * lim = m + 1 /\ m1 = m + 1 /\ M[m1] = t
    <3>1. i \in 1..s
      BY <2>2
    <3> QED BY <1>3, <2>2, <3>1
  <2> QED BY <1>5, <2>1, <2>2 DEF Logged
<1> QED BY <1>1, <1>2, <1>3, <1>4, <1>5 DEF Windows

LEMMA SameWindow ==
  ASSUME NEW L, NEW M, NEW m \in Nat, NEW m1 \in Nat, NEW s \in Nat, NEW b \in Nat,
         NEW o \in Nat, NEW x \in Nat, NEW t \in Nat, NEW lim \in Nat \ {0},
         NEW w \in Nat \ {0},
         b <= s, s <= m, m1 - s <= lim, t <= x,
         Windows(L, m, s, b, o, x, t, lim, w), Logged(L, m, M, m1, t)
  PROVE  Windows(M, m1, s, b, o, x, t, lim, w)
<1>1. o <= t /\ s - b <= lim /\ x = o + w
  BY DEF Windows
<1>2. ASSUME NEW i \in 1..s PROVE M[i] < o
  BY DEF Windows, Logged
<1>3. ASSUME NEW i \in 1..b PROVE M[i] + w < o
  BY DEF Windows, Logged
<1>4. ASSUME NEW i \in 1..m1 PROVE M[i] <= x
  <2>1. CASE i \in 1..m
    BY <2>1 DEF Logged, Windows
  <2>2. CASE i = m1 /\ M[m1] = t
    BY <2>2
  <2> QED BY <2>1, <2>2 DEF Logged
<1>5. ASSUME NEW i \in 1..m1, i + 2 * lim <= m1 PROVE M[i] + w < M[i + 2 * lim]
  <2>1. CASE i + 2 * lim <= m
    <3>1. i \in 1..m /\ i + 2 * lim \in 1..m
      BY <2>1
    <3> QED BY <2>1, <3>1 DEF Windows, Logged
  <2>2. CASE i + 2 * lim = m + 1 /\ m1 = m + 1 /\ M[m1] = t
    <3>1. i \in 1..b
      BY <1>1, <2>2
    <3>2. i \in 1..m /\ M[i] \in Nat
      BY <2>2 DEF Logged
    <3> QED BY <1>1, <1>3, <2>2, <3>1, <3>2
  <2> QED BY <1>5, <2>1, <2>2 DEF Logged
<1> QED BY <1>1, <1>2, <1>3, <1>4, <1>5 DEF Windows

(* A run of the script preserves what is known of its window, whether it   *)
(* opens the window or counts in it.                                       *)
LEMMA ScriptKeepsWindows ==
  ASSUME IInv, NEW c \in Clients, NEW r \in Rules, Script(c, r)
  PROVE  /\ CountsTheWindow' /\ GrantsPerWindow'
         /\ WindowsInOrder' /\ TwiceInAnyInterval'
<1>0. /\ TypeOK /\ CountsTheWindow /\ GrantsPerWindow
      /\ WindowsInOrder /\ TwiceInAnyInterval
  BY DEF IInv
<1>1. PICK k \in Idents, n \in Nat \ {0}, e \in Nat : Effect(c, r, k, n, e)
  BY SMTT(30), ScriptEffect
<1> DEFINE Fine(j, q) ==
      /\ opened[j] <= now
      /\ count[j] > 0 => count[j] = hits[j]
      /\ count[j] = 0 /\ hits[j] > 0 => expiry[j] = opened[j]
      /\ before[j][q] <= start[j][q]
      /\ start[j][q] <= Len(log[j][q])
      /\ Len(log[j][q]) - start[j][q] <= hits[j]
      /\ Len(log[j][q]) - start[j][q] <= Limit[q]
      /\ Steady(j, q) =>
           /\ start[j][q] - before[j][q] <= Limit[q]
           /\ \A i \in 1..start[j][q] : log[j][q][i] < opened[j]
           /\ \A i \in 1..before[j][q] : log[j][q][i] + WindowMS(q) < opened[j]
           /\ \A i \in 1..Len(log[j][q]) : log[j][q][i] <= expiry[j]
           /\ count[j] > 0 => expiry[j] = opened[j] + WindowMS(q)
           /\ count[j] = 0 => Len(log[j][q]) = 0
           /\ \A i \in 1..Len(log[j][q]) : i + 2 * Limit[q] <= Len(log[j][q]) =>
                log[j][q][i] + WindowMS(q) < log[j][q][i + 2 * Limit[q]]
<1>2. \A j \in Idents : \A q \in Rules : Fine(j, q)
  BY SMTT(30), <1>0 DEF CountsTheWindow, GrantsPerWindow, WindowsInOrder, TwiceInAnyInterval
<1>3. ASSUME NEW j \in Idents, NEW q \in Rules, j # k
      PROVE  Fine(j, q)'
  <2>1. /\ count'[j] = count[j] /\ hits'[j] = hits[j] /\ expiry'[j] = expiry[j]
        /\ opened'[j] = opened[j] /\ start'[j] = start[j] /\ before'[j] = before[j]
        /\ log'[j] = log[j] /\ now' = now
    BY SMTT(30), <1>0, <1>1, <1>3 DEF TypeOK, Effect
  <2>2. Fine(j, q)
    BY Zenon, <1>2
  <2> QED BY Zenon, <2>1, <2>2 DEF Steady, WindowMS
<1>4. ASSUME NEW q \in Rules
      PROVE  Fine(k, q)'
  <2> DEFINE L == log[k][q]
             M == log'[k][q]
             W == WindowMS(q)
             s == start[k][q]
             b == before[k][q]
  <2>1. /\ L \in Seq(Nat) /\ now \in Nat /\ count[k] \in Nat
        /\ hits[k] \in Nat /\ expiry[k] \in Nat /\ opened[k] \in Nat
        /\ start[k] \in [Rules -> Nat] /\ before[k] \in [Rules -> Nat]
        /\ s \in Nat /\ b \in Nat
    <3>1. /\ log \in [Idents -> [Rules -> Seq(Nat)]] /\ now \in Nat /\ count \in [Idents -> Nat]
          /\ hits \in [Idents -> Nat] /\ expiry \in [Idents -> Nat] /\ opened \in [Idents -> Nat]
          /\ start \in [Idents -> [Rules -> Nat]] /\ before \in [Idents -> [Rules -> Nat]]
      BY Zenon, <1>0 DEF TypeOK
    <3>2. k \in Idents /\ q \in Rules
      BY Zenon, <1>0
    <3> QED BY ONLY <3>1, <3>2, Zenon
  <2>2. Limit[q] \in Nat \ {0} /\ W \in Nat /\ WindowMS(r) \in Nat
    BY WindowNat, RateLimiterAssumption
  <2>3. /\ M \in Seq(Nat)
        /\ Len(L) \in Nat
        /\ Len(M) \in {Len(L), Len(L) + 1}
        /\ \A i \in 1..Len(L) : M[i] = L[i]
        /\ Len(M) = Len(L) + 1 => /\ q = r /\ n <= Limit[q]
                                  /\ M[Len(M)] = now
    <3>1. CASE q = r /\ n <= Limit[r]
      <4>1. M = Append(L, now)
        BY Zenon, <1>0, <1>1, <3>1 DEF TypeOK, Effect
      <4>2. L \in Seq(Nat) /\ now \in Nat /\ n <= Limit[q] /\ q = r
        BY Zenon, <2>1, <3>1
      <4> HIDE DEF M, L
      <4> QED BY ONLY <4>1, <4>2
    <3>2. CASE ~(q = r /\ n <= Limit[r])
      <4>1. M = L
        BY Zenon, <1>0, <1>1, <3>2 DEF TypeOK, Effect
      <4>2. L \in Seq(Nat)
        BY Zenon, <2>1
      <4> HIDE DEF M, L
      <4> QED BY ONLY <4>1, <4>2
    <3> QED BY Zenon, <3>1, <3>2
  <2>4. /\ hits'[k] = n /\ expiry'[k] = e /\ now' = now /\ e >= now
        /\ count'[k] = IF Gone(k) /\ WindowMS(r) = 0 THEN 0 ELSE n
    BY Zenon, <1>0, <1>1 DEF TypeOK, Effect
  <2>5. Gone(k) => /\ opened'[k] = now /\ start'[k][q] = Len(L)
                   /\ before'[k][q] = s /\ n = 1 /\ e = now + WindowMS(r)
                   /\ count[k] = 0 \/ now > expiry[k]
    BY Zenon, <1>0, <1>1 DEF TypeOK, Effect, Gone
  <2>6. ~Gone(k) => /\ opened'[k] = opened[k] /\ start'[k][q] = s
                    /\ before'[k][q] = b /\ n = hits[k] + 1 /\ e = expiry[k]
                    /\ count[k] > 0 /\ now <= expiry[k]
    <3>1. ~Gone(k) => /\ opened'[k] = opened[k] /\ start'[k][q] = s
                      /\ before'[k][q] = b /\ n = hits[k] + 1 /\ e = expiry[k]
      BY Zenon, <1>0, <1>1 DEF TypeOK, Effect
    <3>2. count[k] \in Nat /\ expiry[k] \in Nat /\ now \in Nat
      BY Zenon, <2>1
    <3>3. ~Gone(k) => count[k] > 0 /\ now <= expiry[k]
      BY ONLY <3>2 DEF Gone
    <3> QED BY ONLY <3>1, <3>3, Zenon
  <2>7. Fine(k, q)
    BY <1>2
  <2>8. Steady(k, q)' <=> Steady(k, q)
    BY DEF Steady, WindowMS
  <2>9. Steady(k, q) => WindowMS(r) = W /\ W > 0
    BY <1>1 DEF Steady, Effect
  <2>10. WindowMS(q)' = W
    BY DEF WindowMS
  <2>11. /\ opened[k] <= now
         /\ count[k] > 0 => count[k] = hits[k]
         /\ b <= s /\ s <= Len(L)
         /\ Len(L) - s <= hits[k] /\ Len(L) - s <= Limit[q]
    BY Zenon, <2>7
  <2>12. Steady(k, q) =>
           /\ s - b <= Limit[q]
           /\ \A i \in 1..s : L[i] < opened[k]
           /\ \A i \in 1..b : L[i] + W < opened[k]
           /\ \A i \in 1..Len(L) : L[i] <= expiry[k]
           /\ count[k] > 0 => expiry[k] = opened[k] + W
           /\ count[k] = 0 => Len(L) = 0
           /\ \A i \in 1..Len(L) : i + 2 * Limit[q] <= Len(L) =>
                L[i] + W < L[i + 2 * Limit[q]]
    BY Zenon, <2>7
  <2> DEFINE S == start'[k][q]
             B == before'[k][q]
             O == opened'[k]
  <2>13. /\ O = IF Gone(k) THEN now ELSE opened[k]
         /\ S = IF Gone(k) THEN Len(L) ELSE s
         /\ B = IF Gone(k) THEN s ELSE b
         /\ n = IF Gone(k) THEN 1 ELSE hits[k] + 1
         /\ e = IF Gone(k) THEN now + WindowMS(r) ELSE expiry[k]
         /\ IF Gone(k) THEN count[k] = 0 \/ now > expiry[k]
                       ELSE count[k] > 0 /\ now <= expiry[k]
    BY <2>5, <2>6
  <2> HIDE DEF Fine, M, L, W, s, b, S, B, O
  <2>14. Logged(L, Len(L), M, Len(M), now)
    <3>1. \A i \in 1..Len(L) : L[i] \in Nat
      BY SMTT(30), <2>1
    <3> QED BY <2>3, <3>1 DEF Logged
  <2>15. /\ O <= now'
         /\ count'[k] > 0 => count'[k] = hits'[k]
         /\ count'[k] = 0 /\ hits'[k] > 0 => expiry'[k] = O
    BY <2>1, <2>2, <2>4, <2>11, <2>13
  <2>16. B <= S /\ S <= Len(M) /\ Len(M) - S <= n /\ Len(M) - S <= Limit[q]
    <3>1. CASE Gone(k)
      <4>1. B = s /\ S = Len(L) /\ n = 1
        BY <2>13, <3>1
      <4>2. Len(L) \in Nat /\ Len(M) \in {Len(L), Len(L) + 1}
        BY Zenon, <2>3
      <4>3. Len(L) <= Len(M) /\ Len(M) - Len(L) <= 1
        BY <4>2
      <4>4. s <= Len(L) /\ Limit[q] \in Nat \ {0}
        BY Zenon, <2>2, <2>11
      <4> QED BY <4>1, <4>2, <4>3, <4>4
    <3>2. CASE ~Gone(k)
      <4>1. B = b /\ S = s /\ n = hits[k] + 1
        BY <2>13, <3>2
      <4>2. CASE Len(M) = Len(L)
        <5>1. Len(M) - S = Len(L) - s
          BY <4>1, <4>2
        <5> QED BY <2>1, <2>2, <2>3, <2>11, <4>1, <4>2, <5>1
      <4>3. CASE Len(M) = Len(L) + 1
        <5>1. n <= Limit[q]
          BY <2>3, <4>3
        <5>2. Len(L) - s <= hits[k] /\ b <= s /\ s <= Len(L)
          BY <2>11
        <5>3. s \in Nat /\ b \in Nat /\ hits[k] \in Nat /\ Len(L) \in Nat
              /\ Limit[q] \in Nat
          BY <2>1, <2>2, <2>3
        <5>4. B <= S /\ S <= Len(M)
          BY <4>1, <4>3, <5>2, <5>3
        <5>5. Len(M) - S <= n
          BY <4>1, <4>3, <5>2, <5>3
        <5>6. Len(M) - S <= Limit[q]
          BY SMTT(60), <4>1, <4>3, <5>1, <5>3, <5>5
        <5> QED BY <5>4, <5>5, <5>6
      <4> QED BY <2>3, <4>2, <4>3
    <3> QED BY <3>1, <3>2
  <2>17. ASSUME Steady(k, q)
         PROVE  /\ Windows(M, Len(M), S, B, O, e, now, Limit[q], W)
                /\ count'[k] > 0
    <3>0. /\ W \in Nat \ {0} /\ WindowMS(r) = W /\ Len(M) \in Nat
          /\ s \in Nat /\ b \in Nat
      BY <2>1, <2>2, <2>3, <2>9, <2>17
    <3>1. CASE count[k] = 0
      <4>1. Len(L) = 0 /\ s = 0
        BY <2>1, <2>11, <2>12, <2>17, <3>1
      <4>2. Gone(k)
        BY <3>1 DEF Gone
      <4>3. S = 0 /\ B = 0 /\ O = now /\ e = now + W
        BY <2>13, <3>0, <4>1, <4>2
      <4>4. Windows(M, Len(M), 0, 0, now, now + W, now, Limit[q], W)
        BY Zenon, <2>1, <2>2, <2>14, <3>0, <4>1, FirstWindow
      <4> QED BY SMTT(60), <2>4, <3>0, <4>3, <4>4
    <3>2. CASE count[k] # 0
      <4>1. Windows(L, Len(L), s, b, opened[k], expiry[k], now, Limit[q], W)
        <5>1. count[k] > 0
          BY <2>1, <3>2
        <5> QED BY <2>11, <2>12, <2>17, <5>1 DEF Windows
      <4>2. opened[k] <= now
        BY <2>11
      <4>3. CASE Gone(k)
        <5>1. S = Len(L) /\ B = s /\ O = now /\ e = now + W /\ expiry[k] < now
          BY SMTT(30), <2>1, <2>13, <3>0, <3>2, <4>3
        <5>2. Windows(M, Len(M), Len(L), s, now, now + W, now, Limit[q], W)
          <6>1. Windows(L, Len(L), s, b, opened[k], expiry[k], now, Limit[q], W)
            BY <4>1
          <6>2. Len(L) - s <= Limit[q] /\ b <= s /\ s <= Len(L) /\ now <= now
            BY SMTT(60), <2>1, <2>11
          <6> QED BY ZenonT(60), <2>1, <2>2, <2>3, <2>14, <3>0, <4>2, <5>1, <6>1, <6>2, NewWindow
        <5> QED BY <2>4, <3>0, <5>1, <5>2
      <4>4. CASE ~Gone(k)
        <5>1. S = s /\ B = b /\ O = opened[k] /\ e = expiry[k] /\ now <= expiry[k]
          BY Zenon, <2>13, <4>4
        <5>2. Windows(M, Len(M), s, b, opened[k], expiry[k], now, Limit[q], W)
          BY Zenon, <2>1, <2>2, <2>3, <2>11, <2>14, <2>16, <3>0, <4>1, <5>1, SameWindow
        <5> QED BY <2>4, <4>4, <5>1, <5>2
      <4> QED BY <4>3, <4>4
    <3> QED BY <3>1, <3>2
  <2>18. /\ B <= S /\ S <= Len(M) /\ Len(M) - S <= hits'[k]
         /\ Len(M) - S <= Limit[q]
    BY <2>4, <2>16
  <2>19. Steady(k, q) =>
           /\ S - B <= Limit[q]
           /\ \A i \in 1..S : M[i] < O
           /\ \A i \in 1..B : M[i] + W < O
           /\ \A i \in 1..Len(M) : M[i] <= expiry'[k]
           /\ count'[k] > 0 => expiry'[k] = O + W
           /\ count'[k] = 0 => Len(M) = 0
           /\ \A i \in 1..Len(M) : i + 2 * Limit[q] <= Len(M) =>
                M[i] + W < M[i + 2 * Limit[q]]
    BY <2>4, <2>17 DEF Windows
  <2> QED BY <2>8, <2>10, <2>15, <2>18, <2>19 DEF Fine, M, W, S, B, O
<1> QED
  <2> HIDE DEF Fine
  <2>1. \A j \in Idents : \A q \in Rules : Fine(j, q)'
    BY <1>3, <1>4
  <2> QED BY <2>1 DEF Fine, CountsTheWindow, GrantsPerWindow, WindowsInOrder,
                       TwiceInAnyInterval

(* A run of the script keeps the types and tells the client the truth.     *)
LEMMA ScriptKeepsReplies ==
  ASSUME IInv, NEW c \in Clients, NEW r \in Rules, Script(c, r),
         rule' = [rule EXCEPT ![c] = r],
         answer' = [answer EXCEPT ![c] = "none"],
         retryAt' \in [Clients -> Nat],
         \A d \in Clients : d # c => retryAt'[d] = retryAt[d]
  PROVE  /\ TypeOK' /\ RepliesHonest' /\ DecidedByOwnRequests'
         /\ RefusedInWindow' /\ WaitIsLong'
<1>0. /\ TypeOK /\ RepliesHonest /\ DecidedByOwnRequests
      /\ RefusedInWindow /\ WaitIsLong /\ CountsTheWindow
  BY Zenon DEF IInv
<1>1. PICK k \in Idents, n \in Nat \ {0}, e \in Nat : Effect(c, r, k, n, e)
  BY ScriptEffect
<1>2. TypeOK'
  <2>0. log \in [Idents -> [Rules -> Seq(Nat)]] /\ now \in Nat
    BY Zenon, <1>0 DEF TypeOK
  <2>1. /\ now' \in Nat /\ rule' \in [Clients -> Rules]
        /\ pc' \in [Clients -> {"idle", "ran", "answered"}]
        /\ answer' \in [Clients -> {"none", "handler", "429", "503"}]
    BY Zenon, <1>0, <1>1 DEF TypeOK, Effect
  <2>2. /\ count' \in [Idents -> Nat] /\ expiry' \in [Idents -> Nat]
        /\ hits' \in [Idents -> Nat] /\ opened' \in [Idents -> Nat]
    BY Zenon, <1>0, <1>1 DEF TypeOK, Effect
  <2>3. /\ start' \in [Idents -> [Rules -> Nat]] /\ before' \in [Idents -> [Rules -> Nat]]
    <3>1. [q \in Rules |-> Len(log[k][q])] \in [Rules -> Nat]
      BY <2>0
    <3> QED BY Zenon, <1>0, <1>1, <3>1 DEF TypeOK, Effect
  <2>4. log' \in [Idents -> [Rules -> Seq(Nat)]]
    <3>1. Append(log[k][r], now) \in Seq(Nat)
      BY <2>0
    <3> QED BY ZenonT(30), <1>0, <1>1, <3>1 DEF TypeOK, Effect
  <2>5. reply' \in [Clients -> [allowed : BOOLEAN, ttl : Nat, until : Nat, own : Nat]]
    <3>1. /\ e - now \in Nat /\ (n <= Limit[r]) \in BOOLEAN
      <4>1. e >= now
        BY Zenon, <1>1 DEF Effect
      <4> QED BY <2>0, <4>1
    <3> QED BY Zenon, <1>0, <1>1, <3>1 DEF TypeOK, Effect
  <2> QED BY Zenon, <2>1, <2>2, <2>3, <2>4, <2>5 DEF TypeOK
<1>3. ASSUME NEW d \in Clients, d # c
      PROVE  /\ pc'[d] = pc[d] /\ rule'[d] = rule[d] /\ reply'[d] = reply[d]
             /\ answer'[d] = answer[d] /\ retryAt'[d] = retryAt[d] /\ now' = now
  BY Zenon, <1>0, <1>1, <1>3 DEF TypeOK, Effect
<1>4. /\ rule'[c] = r /\ answer'[c] = "none" /\ pc'[c] = "ran" /\ now' = now
      /\ reply'[c] = [allowed |-> n <= Limit[r], ttl |-> e - now, until |-> e,
                      own |-> n]
  BY Zenon, <1>0, <1>1 DEF TypeOK, Effect
<1>5. /\ reply'[c].own = n /\ reply'[c].until = e /\ reply'[c].ttl = e - now
      /\ reply'[c].allowed = (n <= Limit[r])
      /\ reply'[c].until <= now + reply'[c].ttl
  <2>1. /\ reply'[c].own = n /\ reply'[c].until = e /\ reply'[c].ttl = e - now
        /\ reply'[c].allowed = (n <= Limit[r])
    BY SMTT(30), <1>4
  <2>2. now \in Nat
    BY Zenon, <1>0 DEF TypeOK
  <2> QED BY <2>1, <2>2
<1>6. RepliesHonest'
  <2> SUFFICES ASSUME NEW d \in Clients
               PROVE  /\ pc'[d] = "ran" =>
                           /\ reply'[d].own > 0
                           /\ reply'[d].allowed <=> reply'[d].own <= Limit[rule'[d]]
                           /\ reply'[d].until <= now' + reply'[d].ttl
                      /\ pc'[d] # "answered" => answer'[d] = "none"
    BY DEF RepliesHonest
  <2>1. CASE d = c
    <3>1. now' = now /\ rule'[d] = r /\ reply'[d].own = n /\ n > 0
      BY SMTT(30), <1>4, <1>5, <2>1
    <3> QED BY ZenonT(30), <1>4, <1>5, <2>1, <3>1
  <2>2. CASE d # c
    BY <1>0, <1>3, <2>2 DEF RepliesHonest
  <2> QED BY <2>1, <2>2
<1>7. DecidedByOwnRequests' /\ WaitIsLong'
  BY <1>0, <1>3, <1>4 DEF DecidedByOwnRequests, WaitIsLong
<1>8. /\ k = Ident[c][r] /\ k \in Idents /\ now \in Nat /\ opened[k] <= now
      /\ count[k] \in Nat /\ expiry[k] \in Nat /\ opened[k] \in Nat
      /\ Limit[r] \in Nat \ {0}
  BY Zenon, <1>0, <1>1, RateLimiterAssumption DEF TypeOK, CountsTheWindow, Effect
<1>9. /\ Gone(k) => n = 1 /\ opened'[k] = now
      /\ ~Gone(k) => n = count[k] + 1 /\ e = expiry[k] /\ opened'[k] = opened[k]
      /\ expiry'[k] = e
      /\ count'[k] = IF Gone(k) /\ WindowMS(r) = 0 THEN 0 ELSE n
  BY Zenon, <1>0, <1>1 DEF TypeOK, Effect
<1>10. \A j \in Idents : j # k =>
         count'[j] = count[j] /\ expiry'[j] = expiry[j] /\ opened'[j] = opened[j]
  BY Zenon, <1>0, <1>1 DEF TypeOK, Effect
<1>11. ASSUME NEW d \in Clients, Refused(d)', NEW j, j = Ident[d][rule'[d]]
       PROVE  (count'[j] > 0 /\ expiry'[j] = reply'[d].until) \/ opened'[j] > reply'[d].until
  <2>1. CASE d = c
    <3>1. j = k /\ ~(n <= Limit[r]) /\ reply'[d].until = e
      BY Zenon, <1>4, <1>5, <1>8, <1>11, <2>1 DEF Refused
    <3> QED BY <1>8, <1>9, <3>1
  <2>2. CASE d # c
    <3>1. /\ Refused(d) /\ reply'[d] = reply[d] /\ j = Ident[d][rule[d]]
          /\ rule[d] \in Rules
      BY Zenon, <1>0, <1>3, <1>11, <2>2 DEF Refused, TypeOK
    <3>2. (count[j] > 0 /\ expiry[j] = reply[d].until) \/ opened[j] > reply[d].until
      BY Zenon, <1>0, <3>1 DEF RefusedInWindow
    <3>3. j \in Idents
      BY Zenon, <3>1, IdentIsKey
    <3>4. CASE j # k
      BY Zenon, <1>10, <3>1, <3>2, <3>3, <3>4
    <3>5. CASE j = k
      <4>1. reply[d].until \in Nat
        BY <1>0 DEF TypeOK
      <4>2. CASE Gone(k)
        <5>1. count[k] = 0 \/ now > expiry[k]
          BY Zenon, <4>2 DEF Gone
        <5> QED BY <1>8, <1>9, <3>1, <3>2, <3>5, <4>1, <4>2, <5>1
      <4>3. CASE ~Gone(k)
        BY <1>8, <1>9, <3>1, <3>2, <3>5, <4>3
      <4> QED BY <4>2, <4>3
    <3> QED BY <3>4, <3>5
  <2> QED BY <2>1, <2>2
<1>12. RefusedInWindow'
  BY Zenon, <1>11 DEF RefusedInWindow
<1> QED BY <1>2, <1>6, <1>7, <1>12

(* An answer changes nothing but the client's own state.                   *)
LEMMA AnsweredKeeps ==
  ASSUME IInv, UNCHANGED <<now, redisVars, history>>
  PROVE  CountsTheWindow' /\ GrantsPerWindow' /\ WindowsInOrder' /\ TwiceInAnyInterval'
<1>1. UNCHANGED <<now, count, expiry, log, opened, start, before, hits>>
  BY Zenon DEF redisVars, history
<1>2. CountsTheWindow' /\ GrantsPerWindow'
  BY ZenonT(60), <1>1 DEF IInv, CountsTheWindow, GrantsPerWindow
<1>3. WindowsInOrder' /\ TwiceInAnyInterval'
  BY <1>1 DEF IInv, WindowsInOrder, TwiceInAnyInterval, Steady, WindowMS
<1> QED BY <1>2, <1>3

LEMMA AnswerKeeps ==
  ASSUME IInv, NEW c \in Clients,
         UNCHANGED <<now, redisVars, history>>,
         pc' = [pc EXCEPT ![c] = "answered"],
         rule' \in [Clients -> Rules],
         reply' \in [Clients -> [allowed : BOOLEAN, ttl : Nat, until : Nat, own : Nat]],
         answer' \in [Clients -> {"none", "handler", "429", "503"}],
         retryAt' \in [Clients -> Nat],
         \A d \in Clients : d # c =>
           /\ rule'[d] = rule[d] /\ reply'[d] = reply[d]
           /\ answer'[d] = answer[d] /\ retryAt'[d] = retryAt[d],
         answer'[c] = "429" => /\ reply'[c].own > Limit[rule'[c]]
                               /\ retryAt'[c] >= reply'[c].until
                               /\ Refused(c) /\ UNCHANGED <<rule, reply>>,
         answer'[c] = "handler" /\ ~FailOpen => reply'[c].own \in 1..Limit[rule'[c]]
  PROVE  IInv'
<1>0. /\ TypeOK /\ RepliesHonest /\ DecidedByOwnRequests
      /\ RefusedInWindow /\ WaitIsLong
  BY Zenon DEF IInv
<1>1. pc'[c] = "answered" /\ \A d \in Clients : d # c => pc'[d] = pc[d]
  BY <1>0 DEF TypeOK
<1>2. TypeOK'
  BY Zenon, <1>0 DEF TypeOK, redisVars, history
<1>3. RepliesHonest'
  BY <1>0, <1>1 DEF RepliesHonest
<1>4. DecidedByOwnRequests'
  BY <1>0 DEF DecidedByOwnRequests
<1>5. WaitIsLong'
  BY <1>0 DEF WaitIsLong
<1>6. UNCHANGED <<count, expiry, opened>>
  BY Zenon DEF redisVars, history
<1>7. \A d \in Clients : Refused(d)' =>
        Refused(d) /\ rule'[d] = rule[d] /\ reply'[d] = reply[d]
  BY Zenon, <1>1 DEF Refused
<1>8. RefusedInWindow'
  BY Zenon, <1>0, <1>6, <1>7 DEF RefusedInWindow
<1> QED BY Zenon, <1>2, <1>3, <1>4, <1>5, <1>8, AnsweredKeeps DEF IInv

LEMMA AnsweringKeeps ==
  ASSUME IInv, NEW c \in Clients,
         \/ Allowed(c) \/ Blocked(c) \/ Fails(c)
         \/ \E r \in Rules : Unreachable(c, r)
  PROVE  IInv'
<1>0. TypeOK /\ RepliesHonest
  BY DEF IInv
<1>1. NoReply \in [allowed : BOOLEAN, ttl : Nat, until : Nat, own : Nat]
  BY ZenonT(60) DEF NoReply
<1>2. /\ rule[c] \in Rules /\ Limit[rule[c]] \in Nat /\ now \in Nat
      /\ reply[c] \in [allowed : BOOLEAN, ttl : Nat, until : Nat, own : Nat]
  BY <1>0, RateLimiterAssumption DEF TypeOK
<1>3. CASE Allowed(c)
  <2>1. /\ UNCHANGED <<now, redisVars, history, rule, reply, retryAt>>
        /\ pc[c] = "ran" /\ reply[c].allowed
        /\ pc' = [pc EXCEPT ![c] = "answered"]
        /\ answer' = [answer EXCEPT ![c] = "handler"]
    BY Zenon, <1>3 DEF Allowed, Answered
  <2>2. reply[c].own \in 1..Limit[rule[c]]
    <3>1. reply[c].own > 0 /\ reply[c].own <= Limit[rule[c]]
      BY <1>0, <2>1 DEF RepliesHonest
    <3> QED BY <1>2, <3>1
  <2>3. answer'[c] = "handler"
    BY <1>0, <2>1 DEF TypeOK
  <2>4. /\ rule' \in [Clients -> Rules] /\ retryAt' \in [Clients -> Nat]
        /\ answer' \in [Clients -> {"none", "handler", "429", "503"}]
        /\ reply' \in [Clients -> [allowed : BOOLEAN, ttl : Nat, until : Nat, own : Nat]]
        /\ \A d \in Clients : d # c => answer'[d] = answer[d]
    BY <1>0, <2>1 DEF TypeOK
  <2> QED BY Zenon, <2>1, <2>2, <2>3, <2>4, AnswerKeeps
<1>4. CASE Blocked(c)
  <2>1. /\ UNCHANGED <<now, redisVars, history, rule, reply>>
        /\ pc[c] = "ran" /\ ~reply[c].allowed
        /\ pc' = [pc EXCEPT ![c] = "answered"]
        /\ answer' = [answer EXCEPT ![c] = "429"]
        /\ retryAt' = [retryAt EXCEPT ![c] =
                         now + Second * RetryAfterSeconds(RetryAfter(c))]
    BY Zenon, <1>4 DEF Blocked, Answered
  <2>2. reply[c].own > Limit[rule[c]] /\ reply[c].until <= now + reply[c].ttl
    BY SMTT(60), <1>0, <1>2, <2>1 DEF RepliesHonest
  <2>3. /\ RetryAfter(c) \in Nat
        /\ reply[c].ttl > 0 => RetryAfter(c) = reply[c].ttl * Milli
    BY <1>2, RateLimiterAssumption DEF RetryAfter
  <2> DEFINE wait == Second * RetryAfterSeconds(RetryAfter(c))
  <2>4. wait \in Nat
    BY SMTT(30), <2>3, SecondsNat, RateLimiterAssumption
  <2>5. wait >= reply[c].ttl
    <3>1. CASE reply[c].ttl > 0
      BY <1>2, <2>3, <3>1, RoundsUp
    <3>2. CASE ~(reply[c].ttl > 0)
      <4> HIDE DEF wait
      <4> QED BY <1>2, <2>4, <3>2
    <3> QED BY <3>1, <3>2
  <2>6. retryAt' = [retryAt EXCEPT ![c] = now + wait]
    BY Zenon, <2>1
  <2> HIDE DEF wait
  <2>7. now + wait \in Nat /\ now + wait >= reply[c].until
    BY <1>2, <2>2, <2>4, <2>5
  <2>8. answer'[c] = "429" /\ retryAt'[c] = now + wait
    BY <1>0, <2>1, <2>6 DEF TypeOK
  <2>9. /\ rule' \in [Clients -> Rules] /\ retryAt' \in [Clients -> Nat]
        /\ answer' \in [Clients -> {"none", "handler", "429", "503"}]
        /\ reply' \in [Clients -> [allowed : BOOLEAN, ttl : Nat, until : Nat, own : Nat]]
        /\ \A d \in Clients : d # c => /\ answer'[d] = answer[d]
                                       /\ retryAt'[d] = retryAt[d]
    BY <1>0, <2>1, <2>6, <2>7 DEF TypeOK
  <2>10. Refused(c) /\ UNCHANGED <<rule, reply>>
    BY Zenon, <2>1 DEF Refused
  <2> QED BY Zenon, <2>1, <2>2, <2>7, <2>8, <2>9, <2>10, AnswerKeeps
<1>5. CASE Fails(c) \/ \E r \in Rules : Unreachable(c, r)
  <2>1. PICK r \in Rules :
             /\ UNCHANGED <<now, redisVars, history>>
             /\ pc' = [pc EXCEPT ![c] = "answered"]
             /\ answer' = [answer EXCEPT ![c] = OnError]
             /\ rule' = [rule EXCEPT ![c] = r]
             /\ reply' = [reply EXCEPT ![c] = NoReply]
             /\ retryAt' \in [Clients -> Nat]
             /\ \A d \in Clients : d # c => retryAt'[d] = retryAt[d]
    <3>1. CASE Fails(c)
      <4>1. rule' = [rule EXCEPT ![c] = rule[c]] /\ retryAt' = retryAt
        BY <1>0, <3>1 DEF Fails, TypeOK
      <4> QED BY Zenon, <1>0, <1>2, <3>1, <4>1 DEF Fails, Answered, TypeOK
    <3>2. CASE \E r \in Rules : Unreachable(c, r)
      <4>1. PICK r \in Rules : Unreachable(c, r)
        BY <3>2
      <4>2. retryAt' \in [Clients -> Nat]
            /\ \A d \in Clients : d # c => retryAt'[d] = retryAt[d]
        BY <1>0, <4>1 DEF Unreachable, TypeOK
      <4>3. /\ UNCHANGED <<now, redisVars, history>>
            /\ pc' = [pc EXCEPT ![c] = "answered"]
            /\ answer' = [answer EXCEPT ![c] = OnError]
            /\ rule' = [rule EXCEPT ![c] = r]
            /\ reply' = [reply EXCEPT ![c] = NoReply]
        BY <4>1 DEF Unreachable, Answered
      <4> QED BY Zenon, <4>2, <4>3
    <3> QED BY <1>5, <3>1, <3>2
  <2>2. /\ OnError \in {"handler", "503"}
        /\ OnError = "handler" => FailOpen
    BY DEF OnError
  <2>3. answer'[c] = OnError
    BY <1>0, <2>1 DEF TypeOK
  <2>4. /\ rule' \in [Clients -> Rules]
        /\ answer' \in [Clients -> {"none", "handler", "429", "503"}]
        /\ reply' \in [Clients -> [allowed : BOOLEAN, ttl : Nat, until : Nat, own : Nat]]
        /\ \A d \in Clients : d # c => /\ answer'[d] = answer[d] /\ rule'[d] = rule[d]
                                       /\ reply'[d] = reply[d]
    BY SMTT(30), <1>0, <1>1, <2>1, <2>2 DEF TypeOK
  <2> QED BY Zenon, <2>1, <2>2, <2>3, <2>4, AnswerKeeps
<1> QED BY <1>3, <1>4, <1>5

LEMMA TickKeeps == IInv /\ Tick => IInv'
<1> SUFFICES ASSUME IInv, Tick PROVE IInv'
  OBVIOUS
<1>1. /\ now' = now + 1 /\ now \in Nat
      /\ UNCHANGED <<count, expiry, log, opened, start, before, hits,
                     pc, rule, reply, answer, retryAt>>
  BY Zenon DEF Tick, IInv, TypeOK, redisVars, history
<1>2. TypeOK' /\ CountsTheWindow' /\ GrantsPerWindow'
  BY SMTT(30), <1>1 DEF IInv, TypeOK, CountsTheWindow, GrantsPerWindow
<1>3. WindowsInOrder'
  <2>1. \A k \in Idents : opened[k] \in Nat
    BY SMTT(30) DEF IInv, TypeOK
  <2> QED BY <1>1, <2>1 DEF IInv, WindowsInOrder, Steady, WindowMS
<1>4. TwiceInAnyInterval'
  BY ZenonT(30), <1>1 DEF IInv, TwiceInAnyInterval, Steady, WindowMS
<1>5. RepliesHonest'
  <2>1. \A c \in Clients : reply[c].until \in Nat /\ reply[c].ttl \in Nat
    BY SMTT(30) DEF IInv, TypeOK
  <2>2. \A c \in Clients : reply[c].until <= now + reply[c].ttl =>
                            reply[c].until <= now' + reply[c].ttl
    BY <1>1, <2>1
  <2>3. RepliesHonest
    BY DEF IInv
  <2>4. UNCHANGED <<pc, rule, reply, answer>>
    BY <1>1
  <2> QED BY Zenon, <2>2, <2>3, <2>4 DEF RepliesHonest
<1>6. DecidedByOwnRequests' /\ WaitIsLong'
  BY <1>1 DEF IInv, DecidedByOwnRequests, WaitIsLong
<1>7. RefusedInWindow'
  BY Zenon, <1>1 DEF IInv, RefusedInWindow, Refused
<1> QED BY Zenon, <1>2, <1>3, <1>4, <1>5, <1>6, <1>7 DEF IInv

(* The inductive invariant of the limiter: the counter of a live key is    *)
(* the number of requests in its window, the windows of a key follow each  *)
(* other without overlap, and every reply is true of its window.           *)
THEOREM LimiterInvariant == Spec => []IInv
<1>1. Init => IInv
  BY InitInv
<1>2. IInv /\ [Next]_vars => IInv'
  <2> SUFFICES ASSUME IInv, [Next]_vars PROVE IInv'
    OBVIOUS
  <2>1. ASSUME NEW c \in Clients, NEW r \in Rules, Allow(c, r) PROVE IInv'
    <3>1. /\ Script(c, r) /\ rule' = [rule EXCEPT ![c] = r]
          /\ answer' = [answer EXCEPT ![c] = "none"]
          /\ retryAt' \in [Clients -> Nat]
          /\ \A d \in Clients : d # c => retryAt'[d] = retryAt[d]
      BY <2>1 DEF Allow, IInv, TypeOK
    <3> QED BY Zenon, <3>1, ScriptKeepsWindows, ScriptKeepsReplies DEF IInv
  <2>2. ASSUME NEW c \in Clients, Resend(c) PROVE IInv'
    <3>1. /\ Script(c, rule[c]) /\ rule[c] \in Rules
          /\ rule' = [rule EXCEPT ![c] = rule[c]]
          /\ answer' = [answer EXCEPT ![c] = "none"]
          /\ retryAt' \in [Clients -> Nat]
          /\ \A d \in Clients : d # c => retryAt'[d] = retryAt[d]
      BY <2>2 DEF Resend, IInv, TypeOK, RepliesHonest
    <3> QED BY Zenon, <3>1, ScriptKeepsWindows, ScriptKeepsReplies DEF IInv
  <2>3. ASSUME NEW c \in Clients,
               \/ Allowed(c) \/ Blocked(c) \/ Fails(c)
               \/ \E r \in Rules : Unreachable(c, r)
        PROVE  IInv'
    BY <2>3, AnsweringKeeps
  <2>4. CASE Tick
    BY <2>4, TickKeeps
  <2>5. CASE UNCHANGED vars
    <3>1. UNCHANGED <<now, count, expiry, log, opened, start, before, hits,
                      pc, rule, reply, answer, retryAt>>
      BY Zenon, <2>5 DEF vars, redisVars, history
    <3>2. TypeOK' /\ RepliesHonest' /\ DecidedByOwnRequests' /\ WaitIsLong'
      BY <3>1 DEF IInv, TypeOK, RepliesHonest, DecidedByOwnRequests, WaitIsLong
    <3>3. RefusedInWindow'
      BY Zenon, <3>1 DEF IInv, RefusedInWindow, Refused
    <3> QED BY Zenon, <3>1, <3>2, <3>3, AnsweredKeeps DEF IInv, redisVars, history
  <2> QED BY <2>1, <2>2, <2>3, <2>4, <2>5 DEF Next, Request
<1> QED BY <1>1, <1>2, PTL DEF Spec

(* The script allows at most Limit requests of a rule between the first    *)
(* request on a key and the key's expiry.                                  *)
THEOREM LimitHolds == Spec => []GrantsPerWindow
<1>1. IInv => GrantsPerWindow
  BY DEF IInv
<1> QED BY <1>1, LimiterInvariant, PTL

(* Any WindowMS + 1 consecutive milliseconds see at most twice Limit       *)
(* allowed requests, whatever the limits and windows.                      *)
THEOREM TwiceAtMost == Spec => []TwiceInAnyInterval
<1>1. IInv => TwiceInAnyInterval
  BY DEF IInv
<1> QED BY <1>1, LimiterInvariant, PTL

(* A client is refused only for more than Limit requests that the limiter  *)
(* takes for its own, and in fail-closed mode let in only within Limit.    *)
THEOREM OwnRequestsDecide == Spec => []DecidedByOwnRequests
<1>1. IInv => DecidedByOwnRequests
  BY DEF IInv
<1> QED BY <1>1, LimiterInvariant, PTL

(* Once Retry-After has passed, the window of the refusal is over.         *)
THEOREM RetryIsEnough == Spec => []RetryCoversWindow
<1>1. IInv => RetryCoversWindow
  <2> SUFFICES ASSUME IInv, NEW c \in Clients, answer[c] = "429", now > retryAt[c]
               PROVE  Gone(Key[c][rule[c]]) \/ opened[Ident[c][rule[c]]] > reply[c].until
    BY DEF RetryCoversWindow
  <2>1. TypeOK /\ RefusedInWindow /\ WaitIsLong
    BY Zenon DEF IInv
  <2> DEFINE k == Ident[c][rule[c]]
  <2>2. Key[c][rule[c]] = k /\ k \in Idents
    BY <2>1, IdentIsKey DEF TypeOK
  <2>3. (count[k] > 0 /\ expiry[k] = reply[c].until) \/ opened[k] > reply[c].until
    BY Zenon, <2>1 DEF RefusedInWindow, Refused
  <2>4. now \in Nat /\ retryAt[c] \in Nat /\ reply[c].until \in Nat
        /\ retryAt[c] >= reply[c].until
    BY <2>1 DEF TypeOK, WaitIsLong
  <2> HIDE DEF k
  <2>5. expiry[k] = reply[c].until => now > expiry[k]
    BY <2>4
  <2> QED BY <2>2, <2>3, <2>5 DEF Gone, k
<1> QED BY <1>1, LimiterInvariant, PTL
=============================================================================
