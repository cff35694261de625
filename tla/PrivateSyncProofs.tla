------------------------- MODULE PrivateSyncProofs ---------------------------
(* Theorems about PrivateSync, for any orders, assets, executions and bounds: *)
(* one reconciliation for each disconnect, projections that are the newest    *)
(* facts, and facts served that are the exchange's.                           *)
EXTENDS PrivateSync, SumTheorems

(***************************************************************************)
(* A batch is the fold of its facts from left to right: there is a chain   *)
(* of stores, each what PersistEvent makes of the one before.              *)
(***************************************************************************)
\* The equation of the fold: what a function g of the sets of positions returns for U.
After(db, s, g, U) ==
    IF U = {} THEN db ELSE PersistEvent(g[U \ {Max(U)}], s[Max(U)])
Persists(db, s, T, g) == g = [U \in SUBSET T |-> After(db, s, g, U)]

LEMMA FoldIsChosen ==
    ASSUME NEW db, NEW s
    PROVE  FoldLeft(PersistEvent, db, s)
              = (CHOOSE g : Persists(db, s, DOMAIN s, g))[DOMAIN s]
BY DEF FoldLeft, MapThenFoldSet, Persists, After

LEMMA PersistsUnique ==
    ASSUME NEW n \in Nat, NEW db, NEW s, NEW S, NEW T, NEW g, NEW h,
           Persists(db, s, S, g), Persists(db, s, T, h),
           NEW U, U \subseteq S, U \subseteq T, U \subseteq 1..n
    PROVE  g[U] = h[U]
<1> DEFINE W == {V \in SUBSET U : g[V] # h[V]}
<1>1. SUFFICES ASSUME W # {} PROVE FALSE
  OBVIOUS
<1>2. PICK V \in W : \A X \in W : ~(X \subseteq V /\ X # V)
  <2> DEFINE N == 1..n
  <2>1. IsFiniteSet(N)
    BY FS_Interval
  <2>2. W \subseteq SUBSET N
    <3> HIDE DEF N
    <3>1. U \subseteq N
      BY DEF N
    <3> QED
      BY <3>1
  <2> HIDE DEF W, N
  <2> QED
    BY <1>1, <2>1, <2>2, Smallest
<1>3. V \in SUBSET U /\ V \in SUBSET S /\ V \in SUBSET T /\ g[V] # h[V]
  OBVIOUS
<1>4. g[V] = After(db, s, g, V) /\ h[V] = After(db, s, h, V)
  BY <1>3 DEF Persists
<1>5. CASE V = {}
  BY <1>3, <1>4, <1>5 DEF After
<1>6. CASE V # {}
  <2> DEFINE x == Max(V)
  <2>1. x \in V
    BY <1>3, <1>6, Greatest
  <2>2. V \ {x} \subseteq V /\ V \ {x} # V /\ V \ {x} \in SUBSET U
    BY <2>1, <1>3
  <2>3. g[V \ {x}] = h[V \ {x}]
    BY <2>2, <1>2
  <2> QED
    BY <2>3, <1>3, <1>4, <1>6 DEF After
<1> QED
  BY <1>5, <1>6

LEMMA PersistsExist ==
    ASSUME NEW n \in Nat, NEW db, NEW s
    PROVE  \E g : Persists(db, s, 1..n, g)
<1> DEFINE N == 1..n
           W == {V \in SUBSET N : ~ \E g : Persists(db, s, V, g)}
<1>0. IsFiniteSet(N)
  BY FS_Interval
<1>1. SUFFICES ASSUME W # {} PROVE FALSE
  OBVIOUS
<1>2. PICK V \in W : \A X \in W : ~(X \subseteq V /\ X # V)
  <2> HIDE DEF W
  <2>1. W \subseteq SUBSET N
    BY DEF W
  <2> HIDE DEF N
  <2> QED
    BY <1>0, <1>1, <2>1, Smallest
<1>3. V \in SUBSET N /\ ~ \E g : Persists(db, s, V, g)
  OBVIOUS
<1> DEFINE H(U) == CHOOSE g : Persists(db, s, U, g)
           c(U) == U \ {Max(U)}
           G == [U \in SUBSET V |-> IF U = {} THEN db ELSE PersistEvent(H(c(U))[c(U)], s[Max(U)])]
<1>4. ASSUME NEW U \in SUBSET V, U # V
      PROVE  Persists(db, s, U, H(U))
  <2>1. U \in SUBSET N /\ U \notin W
    BY <1>2, <1>3, <1>4
  <2>2. \E g : Persists(db, s, U, g)
    BY <2>1
  <2> QED
    BY <2>2
<1>5. ASSUME NEW U \in SUBSET V, U # {}
      PROVE  c(U) \in SUBSET U /\ c(U) \in SUBSET V /\ c(U) # V
  <2>1. Max(U) \in U
    <3>1. U \subseteq 1..n
      BY <1>3
    <3> QED
      BY <1>5, <3>1, Greatest
  <2> QED
    BY <2>1
<1> HIDE DEF N, W
<1>6. ASSUME NEW U \in SUBSET V, U # V
      PROVE  H(U)[U] = G[U]
  <2>1. H(U)[U] = After(db, s, H(U), U)
    <3>1. Persists(db, s, U, H(U))
      BY <1>4, <1>6
    <3> HIDE DEF H
    <3>2. H(U) = [X \in SUBSET U |-> After(db, s, H(U), X)]
      BY <3>1 DEF Persists
    <3>3. U \in SUBSET U
      OBVIOUS
    <3> QED
      BY <3>2, <3>3
  <2>2. CASE U = {}
    BY <2>1, <2>2 DEF After
  <2>3. CASE U # {}
    <3>1. c(U) \in SUBSET U /\ c(U) \in SUBSET V /\ c(U) # V
      BY <1>5, <2>3
    <3>2. Persists(db, s, U, H(U)) /\ Persists(db, s, c(U), H(c(U)))
      <4> HIDE DEF H, c
      <4>1. \A X \in SUBSET V : X # V => Persists(db, s, X, H(X))
        BY <1>4
      <4> QED
        BY <3>1, <4>1, <1>6
    <3>3. H(U)[c(U)] = H(c(U))[c(U)]
      <4> HIDE DEF H, c
      <4>1. c(U) \subseteq U /\ c(U) \subseteq c(U) /\ c(U) \subseteq 1..n
        BY <1>3, <3>1 DEF N
      <4> QED
        BY <3>2, <4>1, PersistsUnique
    <3>5. H(U)[U] = PersistEvent(H(U)[c(U)], s[Max(U)])
      <4> HIDE DEF H
      <4> QED
        BY <2>1, <2>3 DEF After
    <3>6. G[U] = PersistEvent(H(c(U))[c(U)], s[Max(U)])
      <4> HIDE DEF H, c
      <4> QED
        BY <2>3
    <3> QED
      <4> HIDE DEF H, c, G
      <4> QED
        BY <3>3, <3>5, <3>6
  <2> QED
    BY <2>2, <2>3
<1>7. ASSUME NEW U \in SUBSET V
      PROVE  G[U] = After(db, s, G, U)
  <2>1. CASE U = {}
    <3> HIDE DEF H, c
    <3> QED
      BY <2>1 DEF After
  <2>2. CASE U # {}
    <3>1. c(U) \in SUBSET V /\ c(U) # V
      BY <1>5, <2>2
    <3>2. H(c(U))[c(U)] = G[c(U)]
      <4> HIDE DEF H, c, G
      <4>1. \A X \in SUBSET V : X # V => H(X)[X] = G[X]
        BY <1>6
      <4> QED
        BY <3>1, <4>1
    <3>3. G[U] = PersistEvent(H(c(U))[c(U)], s[Max(U)])
      <4> HIDE DEF H, c
      <4> QED
        BY <2>2
    <3>4. After(db, s, G, U) = PersistEvent(G[c(U)], s[Max(U)])
      <4> HIDE DEF G
      <4> QED
        BY <2>2 DEF After
    <3> QED
      <4> HIDE DEF H, c, G
      <4> QED
        BY <3>2, <3>3, <3>4
  <2> QED
    BY <2>1, <2>2
<1>8. Persists(db, s, V, G)
  <2>1. G = [U \in SUBSET V |-> G[U]]
    <3> HIDE DEF H, c
    <3> QED
      OBVIOUS
  <2> HIDE DEF G
  <2> QED
    BY <2>1, <1>7 DEF Persists
<1> QED
  BY <1>3, <1>8

\* The stores between the facts of a batch.
LEMMA BatchSteps ==
    ASSUME NEW X, NEW s \in Seq(X), NEW db
    PROVE  \E d : /\ d[0] = db
                  /\ \A n \in 1..Len(s) : d[n] = PersistEvent(d[n - 1], s[n])
                  /\ FoldLeft(PersistEvent, db, s) = d[Len(s)]
<1> DEFINE N == 1..Len(s)
           g == CHOOSE h : Persists(db, s, N, h)
           d == [n \in 0..Len(s) |-> g[1..n]]
<1>1. Len(s) \in Nat /\ DOMAIN s = N
  OBVIOUS
<1>2. Persists(db, s, N, g)
  BY <1>1, PersistsExist
<1>3. FoldLeft(PersistEvent, db, s) = g[N]
  BY <1>1, FoldIsChosen
<1> HIDE DEF g
<1>4. \A U \in SUBSET N : g[U] = After(db, s, g, U)
  BY <1>2 DEF Persists
<1>5. d[0] = db
  <2>1. 1..0 = {} /\ 0 \in 0..Len(s)
    BY <1>1
  <2>2. g[{}] = db
    BY <1>4 DEF After
  <2> QED
    BY <2>1, <2>2
<1>6. ASSUME NEW n \in 1..Len(s) PROVE d[n] = PersistEvent(d[n - 1], s[n])
  <2>1. /\ 1..n \in SUBSET N /\ 1..n # {} /\ n \in 1..n /\ n \in Nat
        /\ n - 1 \in 0..Len(s) /\ n \in 0..Len(s)
    <3>1. Len(s) \in Nat /\ n \in 1..Len(s)
      BY <1>1
    <3> HIDE DEF d
    <3>2. n \in 1..n /\ n \in Nat /\ n - 1 \in 0..Len(s) /\ n \in 0..Len(s)
      BY <3>1
    <3>3. \A i \in 1..n : i \in 1..Len(s)
      BY <3>1
    <3> QED
      BY <3>2, <3>3
  <2>2. Max(1..n) \in 1..n /\ n <= Max(1..n)
    BY <2>1, Greatest
  <2>3. Max(1..n) = n
    BY <2>1, <2>2
  <2>4. (1..n) \ {n} = 1..(n - 1)
    BY <2>1
  <2>5. g[1..n] = PersistEvent(g[1..(n - 1)], s[n])
    BY <1>4, <2>1, <2>3, <2>4 DEF After
  <2> QED
    BY <2>1, <2>5
<1>7. d[Len(s)] = g[N]
  BY <1>1
<1> HIDE DEF d
<1> QED
  BY <1>3, <1>5, <1>6, <1>7

(***************************************************************************)
(* What a batch leaves behind: its facts have different keys, so each of   *)
(* them meets the rows that the batch found.                               *)
(***************************************************************************)
Version == [at : Nat, rev : Nat]
Sent == [key : Keys, at : Nat, rev : Nat \ {0}]
Store(e, p, a, ok) == [events |-> e, facts |-> p, applied |-> a, ok |-> ok]
OneFactEach(s) == \A i, j \in DOMAIN s : s[i].key = s[j].key => i = j

\* The row that a fact leaves, given the row it finds.
Newer(row, f) == IF row # Absent /\ row.at > f.at THEN row ELSE Stored(f)

LEMMA ProjectedRow ==
    ASSUME NEW p \in [Keys -> Version], NEW f \in Sent
    PROVE  /\ Projected(p, f) \in [Keys -> Version]
           /\ Projected(p, f)[f.key] = Newer(p[f.key], f)
           /\ \A k \in Keys \ {f.key} : Projected(p, f)[k] = p[k]
<1>1. f.key \in Keys /\ Stored(f) \in Version
  BY DEF Sent, Stored, Version
<1> HIDE DEF Version
<1> QED
  BY <1>1 DEF Projected, Newer

LEMMA PersistedKnown ==
    ASSUME NEW db, NEW f, f \in db.events
    PROVE  PersistEvent(db, f) = db
BY Zenon DEF PersistEvent

Refuses(e, p, f) == (\E x \in e : SameEvent(x, f)) \/ FactConflict(p, f)
LEMMA PersistedConflict ==
    ASSUME NEW e, NEW p, NEW a, NEW ok, NEW f,
           f \notin e, Refuses(e, p, f), NEW r, r = PersistEvent(Store(e, p, a, ok), f)
    PROVE  r = Store(r.events, r.facts, r.applied, r.ok) /\ r.facts = p /\ ~r.ok
<1>0. PICK no : no = FALSE
  BY Zenon
<1> DEFINE db == Store(e, p, a, ok)
<1>1. db.events = e /\ db.facts = p
  BY DEF Store
<1>2. [db EXCEPT !.ok = FALSE] = Store(e, p, a, no)
  <2>1. ASSUME NEW v PROVE [db EXCEPT !.ok = v] = Store(e, p, a, v)
    BY DEF Store
  <2> HIDE DEF db
  <2> QED
    BY <1>0, <2>1, Zenon
<1> HIDE DEF db
<1>3. PersistEvent(db, f) = Store(e, p, a, no)
  BY <1>1, <1>2, Zenon DEF PersistEvent, Refuses
<1>4. r = Store(e, p, a, no)
  BY <1>3, Zenon DEF db
<1>5. r.events = e /\ r.facts = p /\ r.applied = a /\ r.ok = no
  BY <1>4 DEF Store
<1>6. r = Store(r.events, r.facts, r.applied, r.ok)
  BY <1>4, <1>5, Zenon
<1>7. ~r.ok
  BY <1>0, <1>5, Zenon
<1> QED
  BY <1>5, <1>6, <1>7, Zenon

LEMMA PersistedNew ==
    ASSUME NEW e, NEW p, NEW a, NEW ok, NEW f,
           f \notin e, ~(\E x \in e : SameEvent(x, f)), ~FactConflict(p, f)
    PROVE  PersistEvent(Store(e, p, a, ok), f)
              = Store(e \cup {f}, Projected(p, f), a \cup {f}, ok)
<1> DEFINE db == Store(e, p, a, ok)
           q == Projected(p, f)
<1>1. db.events = e /\ db.facts = p /\ db.applied = a
  BY DEF Store
<1>3. [db EXCEPT !.events = e \cup {f}] = Store(e \cup {f}, p, a, ok)
  BY DEF Store
<1> DEFINE d1 == Store(e \cup {f}, p, a, ok)
           d2 == Store(e \cup {f}, q, a, ok)
<1> HIDE DEF q
<1>4. d1.facts = p /\ [d1 EXCEPT !.facts = q] = d2
  BY DEF Store
<1>5. d2.applied = a /\ [d2 EXCEPT !.applied = a \cup {f}] = Store(e \cup {f}, q, a \cup {f}, ok)
  BY DEF Store
<1> HIDE DEF db, d1, d2
<1>6. [db EXCEPT !.events = @ \cup {f}, !.facts = Projected(@, f), !.applied = @ \cup {f}]
        = [[[db EXCEPT !.events = @ \cup {f}] EXCEPT !.facts = Projected(@, f)]
              EXCEPT !.applied = @ \cup {f}]
  OBVIOUS
<1>7. [db EXCEPT !.events = @ \cup {f}] = d1
  <2>1. [db EXCEPT !.events = @ \cup {f}] = [db EXCEPT !.events = db.events \cup {f}]
    OBVIOUS
  <2> QED
    BY <1>1, <1>3, <2>1 DEF d1
<1>8. [d1 EXCEPT !.facts = Projected(@, f)] = d2
  <2>1. [d1 EXCEPT !.facts = Projected(@, f)] = [d1 EXCEPT !.facts = Projected(d1.facts, f)]
    OBVIOUS
  <2> QED
    BY <1>4, <2>1 DEF q
<1>9. [d2 EXCEPT !.applied = @ \cup {f}] = Store(e \cup {f}, q, a \cup {f}, ok)
  <2>1. [d2 EXCEPT !.applied = @ \cup {f}] = [d2 EXCEPT !.applied = d2.applied \cup {f}]
    OBVIOUS
  <2> QED
    BY <1>5, <2>1
<1>10. [db EXCEPT !.events = @ \cup {f}, !.facts = Projected(@, f), !.applied = @ \cup {f}]
        = Store(e \cup {f}, q, a \cup {f}, ok)
  BY <1>6, <1>7, <1>8, <1>9
<1>11. PersistEvent(db, f)
        = [db EXCEPT !.events = @ \cup {f}, !.facts = Projected(@, f), !.applied = @ \cup {f}]
  BY <1>1, Zenon DEF PersistEvent
<1>12. PersistEvent(db, f) = Store(e \cup {f}, q, a \cup {f}, ok)
  BY <1>10, <1>11
<1> QED
  BY <1>12 DEF db, q

\* The first n facts of s, met by the rows p and the events e.
Meets(e, p, a, s, n, db) ==
    /\ db.events = e \cup {s[i] : i \in 1..n}
    /\ db.applied = a \cup {s[i] : i \in {j \in 1..n : s[j] \notin e}}
    /\ \A k \in Keys : (\A i \in 1..n : s[i].key # k) => db.facts[k] = p[k]
    /\ \A i \in 1..n : s[i] \in e => db.facts[s[i].key] = p[s[i].key]
    /\ \A i \in 1..n : s[i] \notin e => /\ ~FactConflict(p, s[i])
                                        /\ db.facts[s[i].key] = Newer(p[s[i].key], s[i])
BatchIs(e, p, a, ok, s, n, db) ==
    /\ db = Store(db.events, db.facts, db.applied, db.ok)
    /\ db.facts \in [Keys -> Version]
    /\ db.ok => ok /\ Meets(e, p, a, s, n, db)

LEMMA BatchStarts ==
    ASSUME NEW e, NEW p \in [Keys -> Version], NEW a, NEW ok, NEW s
    PROVE  BatchIs(e, p, a, ok, s, 0, Store(e, p, a, ok))
<1> DEFINE db == Store(e, p, a, ok)
<1>1. db.events = e /\ db.facts = p /\ db.applied = a
  BY DEF Store
<1>2. db.ok = ok
  BY DEF Store
<1> HIDE DEF db
<1>3. db = Store(db.events, db.facts, db.applied, db.ok)
  BY <1>1, <1>2, Zenon DEF db
<1>4. 1..0 = {}
  OBVIOUS
<1>5. Meets(e, p, a, s, 0, db)
  BY <1>1, <1>4 DEF Meets
<1>6. db.ok => ok /\ Meets(e, p, a, s, 0, db)
  BY <1>2, <1>5, Zenon
<1>7. db.facts \in [Keys -> Version]
  BY <1>1
<1>8. BatchIs(e, p, a, ok, s, 0, db)
  BY <1>3, <1>6, <1>7, Zenon DEF BatchIs
<1> QED
  BY <1>8 DEF db

LEMMA BatchGoesOn ==
    ASSUME NEW e, NEW p \in [Keys -> Version], NEW a, NEW ok, NEW s \in Seq(Sent), OneFactEach(s),
           NEW n \in Nat, n + 1 \in 1..Len(s), NEW db, BatchIs(e, p, a, ok, s, n, db)
    PROVE  BatchIs(e, p, a, ok, s, n + 1, PersistEvent(db, s[n + 1]))
<1> DEFINE f == s[n + 1]
           dc == PersistEvent(db, f)
<1>1. /\ db = Store(db.events, db.facts, db.applied, db.ok) /\ db.facts \in [Keys -> Version]
      /\ db.ok => ok /\ Meets(e, p, a, s, n, db)
  BY Zenon DEF BatchIs
<1>0. \A i \in 1..Len(s) : s[i] \in Sent /\ s[i].key \in Keys
  <2> SUFFICES ASSUME NEW i \in 1..Len(s) PROVE s[i] \in Sent /\ s[i].key \in Keys
    OBVIOUS
  <2>1. s[i] \in Sent
    OBVIOUS
  <2> QED
    BY <2>1 DEF Sent
<1>2. f \in Sent /\ f.key \in Keys
  BY <1>0
<1>3. /\ \A i \in 1..n : i \in 1..Len(s) /\ s[i] \in Sent /\ s[i].key \in Keys /\ i # n + 1
      /\ \A i \in 1..(n + 1) : i \in 1..n \/ i = n + 1
      /\ 1..(n + 1) = 1..n \cup {n + 1}
  <2>1. Len(s) \in Nat /\ n + 1 <= Len(s)
    OBVIOUS
  <2>2. \A i \in 1..n : i \in 1..Len(s) /\ i # n + 1
    BY <2>1
  <2> QED
    BY <1>0, <2>2
<1>4. \A i \in 1..n : s[i].key # f.key /\ s[i] # f
  <2>1. \A i, j \in 1..Len(s) : s[i].key = s[j].key => i = j
    BY DEF OneFactEach
  <2> QED
    BY <1>3, <2>1
<1> HIDE DEF f
<1>6. PICK ev, fa, ap, okay : /\ ev = db.events /\ fa = db.facts /\ ap = db.applied
                              /\ okay = db.ok /\ db = Store(ev, fa, ap, okay)
  BY <1>1, Zenon
<1> HIDE DEF dc
<1>7. CASE f \in db.events
  <2>1. dc = db
    BY <1>7, PersistedKnown, Zenon DEF dc
  <2>2. ASSUME Meets(e, p, a, s, n, db) PROVE Meets(e, p, a, s, n + 1, db)
    <3>1. f \in e
      <4>1. \A i \in 1..n : f # s[i]
        BY <1>4
      <4> QED
        BY <1>7, <2>2, <4>1 DEF Meets
    <3>2. {s[i] : i \in 1..(n + 1)} = {s[i] : i \in 1..n} \cup {f}
      BY <1>3 DEF f
    <3>3. {j \in 1..(n + 1) : s[j] \notin e} = {j \in 1..n : s[j] \notin e}
      BY <1>3, <3>1 DEF f
    <3>4. db.facts[f.key] = p[f.key]
      BY <1>2, <1>4, <2>2 DEF Meets
    <3>5. db.events = e \cup {s[i] : i \in 1..(n + 1)}
      BY <2>2, <3>1, <3>2 DEF Meets
    <3>6. db.applied = a \cup {s[i] : i \in {j \in 1..(n + 1) : s[j] \notin e}}
      BY <2>2, <3>3 DEF Meets
    <3> QED
      BY <1>3, <2>2, <3>1, <3>4, <3>5, <3>6 DEF Meets, f
  <2> QED
    BY <1>1, <2>1, <2>2, Zenon DEF BatchIs, dc, f
<1>8. CASE /\ f \notin db.events
           /\ (\E x \in db.events : SameEvent(x, f)) \/ FactConflict(db.facts, f)
  <2>3. f \notin ev /\ ((\E x \in ev : SameEvent(x, f)) \/ FactConflict(fa, f))
    BY <1>6, <1>8, Zenon
  <2>4. dc = PersistEvent(Store(ev, fa, ap, okay), f)
    BY <1>6, Zenon DEF dc
  <2>5. dc = Store(dc.events, dc.facts, dc.applied, dc.ok) /\ dc.facts = fa /\ ~dc.ok
    <3>1. f \notin ev
      BY <2>3
    <3>2. Refuses(ev, fa, f)
      BY <2>3 DEF Refuses
    <3> HIDE DEF dc
    <3> QED
      BY <2>4, <3>1, <3>2, PersistedConflict
  <2> QED
    BY <1>1, <1>6, <2>5, Zenon DEF BatchIs, dc, f
<1>9. CASE /\ f \notin db.events
           /\ ~((\E x \in db.events : SameEvent(x, f)) \/ FactConflict(db.facts, f))
  <2> DEFINE q == Projected(db.facts, f)
  <2>0. f \notin ev /\ ~(\E x \in ev : SameEvent(x, f)) /\ ~FactConflict(fa, f)
    BY <1>6, <1>9, Zenon
  <2>7. PersistEvent(Store(ev, fa, ap, okay), f)
           = Store(ev \cup {f}, Projected(fa, f), ap \cup {f}, okay)
    BY <2>0, PersistedNew
  <2>1. dc = Store(db.events \cup {f}, q, db.applied \cup {f}, db.ok)
    BY <1>6, <2>7, Zenon DEF dc
  <2>2. /\ q \in [Keys -> Version] /\ q[f.key] = Newer(db.facts[f.key], f)
        /\ \A k \in Keys \ {f.key} : q[k] = db.facts[k]
    BY <1>1, <1>2, ProjectedRow
  <2> HIDE DEF q
  <2>3. /\ dc.events = db.events \cup {f} /\ dc.facts = q /\ dc.applied = db.applied \cup {f}
        /\ dc.ok = db.ok
    <3>1. okay = db.ok
      BY <1>6, Zenon
    <3>2. dc = Store(db.events \cup {f}, q, db.applied \cup {f}, okay)
      BY <2>1, <3>1, Zenon
    <3>3. /\ dc.events = db.events \cup {f} /\ dc.facts = q /\ dc.applied = db.applied \cup {f}
          /\ dc.ok = okay
      BY <3>2 DEF Store
    <3> QED
      BY <3>1, <3>3, Zenon
  <2>4. dc = Store(dc.events, dc.facts, dc.applied, dc.ok)
    BY <2>1, <2>3, Zenon
  <2>5. ASSUME Meets(e, p, a, s, n, db) PROVE Meets(e, p, a, s, n + 1, dc)
    <3>1. f \notin e
      BY <1>9, <2>5 DEF Meets
    <3>2. {s[i] : i \in 1..(n + 1)} = {s[i] : i \in 1..n} \cup {f}
      BY <1>3 DEF f
    <3>3. {j \in 1..(n + 1) : s[j] \notin e} = {j \in 1..n : s[j] \notin e} \cup {n + 1}
      BY <1>3, <3>1 DEF f
    <3>4. db.facts[f.key] = p[f.key]
      BY <1>2, <1>4, <2>5 DEF Meets
    <3>5. dc.events = e \cup {s[i] : i \in 1..(n + 1)}
      BY <2>3, <2>5, <3>2 DEF Meets
    <3>6. dc.applied = a \cup {s[i] : i \in {j \in 1..(n + 1) : s[j] \notin e}}
      BY <2>3, <2>5, <3>3 DEF Meets, f
    <3>7. ~FactConflict(p, f) /\ dc.facts[f.key] = Newer(p[f.key], f)
      BY <1>9, <2>2, <2>3, <3>4 DEF FactConflict
    <3>8. \A i \in 1..n : dc.facts[s[i].key] = db.facts[s[i].key]
      BY <1>3, <1>4, <2>2, <2>3
    <3>9. \A k \in Keys : k # f.key => dc.facts[k] = db.facts[k]
      BY <2>2, <2>3
    <3>10. \A i \in 1..(n + 1) : s[i] \in e => dc.facts[s[i].key] = p[s[i].key]
      BY <1>3, <2>5, <3>1, <3>8 DEF Meets, f
    <3>11. \A i \in 1..(n + 1) : s[i] \notin e => /\ ~FactConflict(p, s[i])
                                                  /\ dc.facts[s[i].key] = Newer(p[s[i].key], s[i])
      BY <1>3, <2>5, <3>7, <3>8 DEF Meets, f
    <3>12. \A k \in Keys : (\A i \in 1..(n + 1) : s[i].key # k) => dc.facts[k] = p[k]
      BY <1>3, <2>5, <3>9 DEF Meets, f
    <3> QED
      BY <3>5, <3>6, <3>10, <3>11, <3>12 DEF Meets
  <2>6. dc.facts \in [Keys -> Version]
    BY <2>2, <2>3
  <2> QED
    BY <1>1, <2>3, <2>4, <2>5, <2>6, Zenon DEF BatchIs, dc, f
<1> QED
  BY <1>7, <1>8, <1>9

LEMMA Batch ==
    ASSUME NEW e, NEW p \in [Keys -> Version], NEW a, NEW ok, NEW s \in Seq(Sent), OneFactEach(s)
    PROVE  BatchIs(e, p, a, ok, s, Len(s), FoldLeft(PersistEvent, Store(e, p, a, ok), s))
<1>1. PICK d : /\ d[0] = Store(e, p, a, ok)
               /\ \A n \in 1..Len(s) : d[n] = PersistEvent(d[n - 1], s[n])
               /\ FoldLeft(PersistEvent, Store(e, p, a, ok), s) = d[Len(s)]
  BY BatchSteps
<1>2. Len(s) \in Nat
  OBVIOUS
<1> DEFINE B == {n \in 1..Len(s) : ~BatchIs(e, p, a, ok, s, n, d[n])}
<1>3. BatchIs(e, p, a, ok, s, 0, d[0])
  BY <1>1, BatchStarts
<1>4. B = {}
  <2> SUFFICES ASSUME B # {} PROVE FALSE
    OBVIOUS
  <2>1. PICK k \in B : \A j \in B : k <= j
    <3>1. B \subseteq 1..Len(s)
      OBVIOUS
    <3> HIDE DEF B
    <3> QED
      BY <1>2, <3>1, LeastOf
  <2>2. k \in 1..Len(s) /\ ~BatchIs(e, p, a, ok, s, k, d[k])
    OBVIOUS
  <2> DEFINE n == k - 1
  <2>3. n \in Nat /\ n + 1 = k /\ ~(k <= n) /\ (n = 0 \/ n \in 1..Len(s))
    BY <1>2, <2>2
  <2>4. n \notin B
    BY <2>1, <2>3
  <2> HIDE DEF n
  <2>5. BatchIs(e, p, a, ok, s, n, d[n])
    BY <1>3, <2>3, <2>4
  <2>6. d[k] = PersistEvent(d[n], s[k])
    BY <1>1, <2>2 DEF n
  <2>7. BatchIs(e, p, a, ok, s, n + 1, PersistEvent(d[n], s[n + 1]))
    BY <2>2, <2>3, <2>5, BatchGoesOn
  <2> QED
    BY <2>2, <2>3, <2>6, <2>7
<1>5. BatchIs(e, p, a, ok, s, Len(s), d[Len(s)])
  <2>1. Len(s) = 0 \/ Len(s) \in 1..Len(s)
    BY <1>2
  <2>2. Len(s) = 0 => BatchIs(e, p, a, ok, s, Len(s), d[Len(s)])
    BY <1>3
  <2>3. Len(s) \in 1..Len(s) => BatchIs(e, p, a, ok, s, Len(s), d[Len(s)])
    BY <1>4
  <2> QED
    BY <2>1, <2>2, <2>3
<1> QED
  BY <1>1, <1>5

(***************************************************************************)
(* What is stored, and what is on its way, comes from the exchange.        *)
(***************************************************************************)
IsHeld(s) == s = [at |-> s.at, facts |-> s.facts, sound |-> s.sound]
Row(k) == IF k \in DOMAIN snapshot.facts THEN snapshot.facts[k] ELSE Absent

\* A fact that the exchange once had: only the latest has its latest revision.
Told(f) ==
    /\ f.rev <= exchange[f.key].rev /\ f.at <= exchange[f.key].at
    /\ f.rev = exchange[f.key].rev => f.at = exchange[f.key].at
Possible(row, k) ==
    row \in Version /\ row.rev <= exchange[k].rev /\ row.at <= clock

ExchangeInv ==
    /\ clock \in Nat /\ exchange \in [Keys -> Version]
    /\ \A k \in Keys : /\ exchange[k].at <= clock
                       /\ exchange[k].rev = 0 => exchange[k] = Absent
InboxInv ==
    \A m \in inbox : /\ m.facts \in Seq(Sent) /\ OneFactEach(m.facts)
                     /\ \A i \in DOMAIN m.facts : Told(m.facts[i])
RowsInv == facts \in [Keys -> Version] /\ \A k \in Keys : Possible(facts[k], k)
KnownInv ==
    \A f \in events \cup applied : /\ f \in [key : Keys, at : Nat, rev : Nat]
                                  /\ f.rev <= exchange[f.key].rev
HeldInv ==
    /\ IsHeld(snapshot) /\ DOMAIN snapshot.facts \subseteq Keys
    /\ \A k \in Keys : Possible(Row(k), k)

SourceInv == ExchangeInv /\ InboxInv /\ RowsInv /\ KnownInv /\ HeldInv

LEMMA HeldOn ==
    ASSUME NEW a, NEW v, IsHeld(a), NEW b, b = [a EXCEPT !.sound = v]
    PROVE  IsHeld(b) /\ b.at = a.at /\ b.facts = a.facts /\ b.sound = v
<1>1. PICK x, y, z : a = [at |-> x, facts |-> y, sound |-> z]
  BY Zenon DEF IsHeld
<1>2. a.at = x /\ a.facts = y
  BY <1>1
<1>3. b = [at |-> x, facts |-> y, sound |-> v]
  BY <1>1
<1>4. b.at = x /\ b.facts = y /\ b.sound = v
  BY <1>3
<1> QED
  BY <1>2, <1>3, <1>4, Zenon DEF IsHeld

\* A set of facts as the sequence that a message carries.
LEMMA SetAsSeq ==
    ASSUME NEW S, IsFiniteSet(S)
    PROVE  /\ SetToSeq(S) \in Seq(S)
           /\ \A x \in S : \E i \in DOMAIN SetToSeq(S) : SetToSeq(S)[i] = x
           /\ \A i, j \in DOMAIN SetToSeq(S) : SetToSeq(S)[i] = SetToSeq(S)[j] => i = j
<1> DEFINE n == Cardinality(S)
           N == 1..n
           q == SetToSeq(S)
<1>1. n \in Nat /\ IsFiniteSet(N) /\ Cardinality(N) = n
  BY FS_CardinalityType, FS_Interval
<1>2. q \in [N -> S] /\ IsInjective(q)
  <2>1. \E f \in [N -> S] : IsInjective(f)
    <3>1. ExistsBijection(N, S)
      BY FS_CardinalityType
    <3> HIDE DEF N
    <3> QED
      BY <3>1 DEF ExistsBijection, Bijection, Injection
  <2> HIDE DEF N
  <2>2. q = CHOOSE f \in [N -> S] : IsInjective(f)
    BY DEF SetToSeq, N
  <2> HIDE DEF q
  <2> QED
    BY <2>1, <2>2
<1> HIDE DEF q
<1>3. q \in Surjection(N, S)
  <2> HIDE DEF N
  <2>1. q \in Injection(N, S)
    BY <1>2 DEF Injection
  <2>2. Cardinality(N) = Cardinality(S)
    BY <1>1
  <2> QED
    BY <2>1, <2>2, FS_Injection
<1>4. q \in Seq(S) /\ DOMAIN q = N
  BY <1>1, <1>2
<1>5. \A x \in S : \E i \in DOMAIN q : q[i] = x
  BY <1>3, <1>4 DEF Surjection
<1>6. \A i, j \in DOMAIN q : q[i] = q[j] => i = j
  BY <1>2 DEF IsInjective
<1> QED
  BY <1>4, <1>5, <1>6 DEF q

LEMMA FiniteFacts ==
    ASSUME NEW K, K \subseteq Keys, NEW v
    PROVE  IsFiniteSet({Fact(k, v[k]) : k \in K})
<1> DEFINE S == {Fact(k, v[k]) : k \in K}
           f == [k \in K |-> Fact(k, v[k])]
<1>1. IsFiniteSet(K)
  BY KeyAssumption, FS_Subset DEF KeyAssumption
<1>2. f \in Surjection(K, S)
  BY DEF Surjection
<1> HIDE DEF f, S
<1>3. IsFiniteSet(S)
  BY <1>1, <1>2, FS_Surjection
<1> QED
  BY <1>3 DEF S

\* A message of the exchange: a fact of each key, and no other.
Carries(q, K, v) ==
    /\ q \in Seq(Sent) /\ OneFactEach(q)
    /\ \A i \in DOMAIN q : q[i].key \in K /\ q[i] = Fact(q[i].key, v[q[i].key])
    /\ \A k \in K : \E i \in DOMAIN q : q[i] = Fact(k, v[k])

LEMMA MessageOf ==
    ASSUME NEW K, K \subseteq Keys, NEW v, \A k \in K : v[k] \in [at : Nat, rev : Nat \ {0}],
           NEW q, q = SetToSeq({Fact(k, v[k]) : k \in K})
    PROVE  Carries(q, K, v)
<1> DEFINE S == {Fact(k, v[k]) : k \in K}
<1>1. IsFiniteSet(S)
  BY FiniteFacts
<1>2. /\ q \in Seq(S) /\ \A x \in S : \E i \in DOMAIN q : q[i] = x
      /\ \A i, j \in DOMAIN q : q[i] = q[j] => i = j
  <2> HIDE DEF S
  <2> QED
    BY <1>1, SetAsSeq DEF S
<1>3. \A k \in K : Fact(k, v[k]) \in Sent /\ Fact(k, v[k]).key = k
  BY DEF Fact, Sent
<1>4. \A i \in DOMAIN q : q[i] \in S
  <2> HIDE DEF S
  <2> QED
    BY <1>2
<1>5. \A i \in DOMAIN q : q[i].key \in K /\ q[i] = Fact(q[i].key, v[q[i].key])
  BY <1>3, <1>4
<1>6. \A k \in K : \E i \in DOMAIN q : q[i] = Fact(k, v[k])
  BY <1>2
<1>7. OneFactEach(q)
  <2> SUFFICES ASSUME NEW i \in DOMAIN q, NEW j \in DOMAIN q, q[i].key = q[j].key PROVE i = j
    BY Zenon DEF OneFactEach
  <2>1. q[i] = Fact(q[i].key, v[q[i].key]) /\ q[j] = Fact(q[j].key, v[q[j].key])
    BY <1>5
  <2>2. q[i] = q[j]
    BY <2>1, Zenon
  <2> QED
    BY <1>2, <2>2, Zenon
<1>8. q \in Seq(Sent)
  <2>1. S \subseteq Sent
    BY <1>3
  <2> HIDE DEF S
  <2> QED
    BY <1>2, <2>1
<1> QED
  BY <1>5, <1>6, <1>7, <1>8 DEF Carries


(***************************************************************************)
(* Reconciliations.                                                        *)
(***************************************************************************)
SyncType ==
    /\ sync.generation \in Nat
    /\ sync.state \in {"NONE", "LIVE", "RECOVERY_REQUIRED", "RECONCILED"}
    /\ sync = [state |-> sync.state, generation |-> sync.generation]

\* A generation that is recovering has no reconciliation yet, and every later state has one.
EvidenceInv ==
    /\ SyncType
    /\ sync.state \in {"RECOVERY_REQUIRED", "RECONCILED"} => sync.generation > 0
    /\ sync.state = "NONE" => sync.generation = 0
    /\ \A m \in evidence : /\ m[1] \in Nat /\ m[1] <= sync.generation
                           /\ sync.state = "RECOVERY_REQUIRED" => m[1] < sync.generation
    /\ OneReconciliationPerDisconnect

\* A disconnect begins a generation that no reconciliation can name yet.
LEMMA DisconnectKeepsEvidence ==
    ASSUME EvidenceInv, sync' = AfterDisconnect, evidence' = evidence
    PROVE  EvidenceInv'
<1>1. CASE sync.state = "RECOVERY_REQUIRED"
  BY <1>1 DEF AfterDisconnect, EvidenceInv, SyncType, OneReconciliationPerDisconnect
<1>2. CASE sync.state # "RECOVERY_REQUIRED"
  <2>1. sync' = [state |-> "RECOVERY_REQUIRED", generation |-> sync.generation + 1]
    BY <1>2 DEF AfterDisconnect
  <2>2. sync.generation \in Nat
    BY DEF EvidenceInv, SyncType
  <2>3. SyncType'
    BY <2>1, <2>2 DEF SyncType
  <2>4. \A m \in evidence' : m[1] \in Nat /\ m[1] < sync'.generation
    BY <2>1, <2>2 DEF EvidenceInv
  <2>5. OneReconciliationPerDisconnect'
    BY <2>1 DEF EvidenceInv, OneReconciliationPerDisconnect
  <2> QED
    BY <2>1, <2>2, <2>3, <2>4, <2>5 DEF EvidenceInv
<1> QED
  BY <1>1, <1>2

LEMMA StateOnly ==
    ASSUME NEW a, a = [state |-> a.state, generation |-> a.generation], NEW v
    PROVE  [a EXCEPT !.state = v] = [state |-> v, generation |-> a.generation]
<1>1. PICK x, y : a = [state |-> x, generation |-> y] /\ a.generation = y
  BY Zenon
<1>2. [a EXCEPT !.state = v] = [state |-> v, generation |-> y]
  BY <1>1
<1> QED
  BY <1>1, <1>2

LEMMA ConnectKeepsEvidence ==
    ASSUME EvidenceInv, sync' = AfterConnect, evidence' = evidence
    PROVE  EvidenceInv'
<1>1. CASE sync' = sync
  BY <1>1 DEF EvidenceInv, SyncType, OneReconciliationPerDisconnect
<1>2. CASE sync' # sync
  <2>1. sync.state \notin {"RECOVERY_REQUIRED", "LIVE"} /\ sync' = [sync EXCEPT !.state = "LIVE"]
    BY <1>2 DEF AfterConnect
  <2>2. sync' = [state |-> "LIVE", generation |-> sync.generation]
    BY <2>1, StateOnly DEF EvidenceInv, SyncType
  <2>3. SyncType'
    BY <2>2 DEF EvidenceInv, SyncType
  <2>4. sync.generation > 0 => sync.state = "RECONCILED"
    BY <2>1 DEF EvidenceInv, SyncType
  <2> QED
    BY <2>1, <2>2, <2>3, <2>4 DEF EvidenceInv, SyncType, OneReconciliationPerDisconnect
<1> QED
  BY <1>1, <1>2


LEMMA ReconciliationKeepsEvidence ==
    ASSUME EvidenceInv, ApplyReconciliation
    PROVE  EvidenceInv'
<1>1. /\ sync.state = "RECOVERY_REQUIRED" /\ sync.generation > 0
      /\ sync' = [state |-> "RECONCILED", generation |-> sync.generation]
      /\ evidence' = evidence \cup {Manifest}
  BY StateOnly DEF EvidenceInv, SyncType, ApplyReconciliation, Reconciles
<1>2. Manifest[1] = sync.generation
  BY DEF Manifest
<1> HIDE DEF Manifest
<1>3. sync.generation \in Nat
  BY DEF EvidenceInv, SyncType
<1>4. SyncType'
  BY <1>1, <1>3 DEF SyncType
<1>5. \A m \in evidence' : m[1] \in Nat /\ m[1] <= sync'.generation
  BY <1>1, <1>2, <1>3 DEF EvidenceInv
<1>6. OneReconciliationPerDisconnect'
  <2>1. \A m \in evidence : m[1] \in Nat /\ m[1] < sync.generation
    BY <1>1 DEF EvidenceInv
  <2>2. \A m \in evidence : m[1] # Manifest[1]
    BY <1>2, <1>3, <2>1
  <2>3. \A m, n \in evidence' : m[1] = n[1] => m = n
    BY <1>1, <2>2 DEF EvidenceInv, OneReconciliationPerDisconnect
  <2>4. \E m \in evidence' : m[1] = sync'.generation
    BY <1>1, <1>2
  <2> QED
    BY <2>3, <2>4 DEF OneReconciliationPerDisconnect
<1> QED
  BY <1>1, <1>3, <1>4, <1>5, <1>6 DEF EvidenceInv

LEMMA EvidenceStep ==
    ASSUME EvidenceInv, [Next]_vars
    PROVE  EvidenceInv'
<1>1. ASSUME sync' = sync, evidence' = evidence PROVE EvidenceInv'
  BY <1>1 DEF EvidenceInv, SyncType, OneReconciliationPerDisconnect
<1>2. CASE Tick
  BY <1>1, <1>2 DEF Tick, store
<1>3. CASE \E topic \in Topics : \E keys \in SUBSET topic \ {{}}, foreign \in BOOLEAN :
               Change(keys, foreign)
  BY <1>1, <1>3 DEF Change, store
<1>4. CASE ConnectionLost
  BY <1>1, <1>4 DEF ConnectionLost, store
<1>5. CASE RecordDisconnect
  BY <1>5, DisconnectKeepsEvidence DEF RecordDisconnect
<1>6. CASE RecordConnected
  BY <1>6, ConnectKeepsEvidence DEF RecordConnected
<1>7. CASE \E m \in inbox : ParseError(m) \/ IngestTopic(m)
  <2>1. PICK m \in inbox : ParseError(m) \/ IngestTopic(m)
    BY <1>7
  <2>2. CASE ParseError(m)
    BY <2>2, DisconnectKeepsEvidence DEF ParseError
  <2>3. CASE IngestTopic(m)
    BY <1>1, <2>3 DEF IngestTopic
  <2> QED
    BY <2>1, <2>2, <2>3
<1>8. CASE FetchSnapshot
  BY <1>1, <1>8 DEF FetchSnapshot, store
<1>9. CASE StampSnapshot
  BY <1>1, <1>9 DEF StampSnapshot, store
<1>10. CASE ApplyReconciliation
  BY <1>10, ReconciliationKeepsEvidence
<1>11. CASE Restart
  BY <1>1, <1>11 DEF Restart, store
<1>12. CASE UNCHANGED vars
  BY <1>1, <1>12 DEF vars
<1> QED
  BY <1>2, <1>3, <1>4, <1>5, <1>6, <1>7, <1>8, <1>9, <1>10, <1>11, <1>12 DEF Next

\* A recorded disconnect is followed by exactly one reconciliation before facts are
\* served again: record_connected, record_disconnect and apply_reconciliation agree on
\* it through every restart and repeated snapshot.
THEOREM OneReconciliation == Spec => []OneReconciliationPerDisconnect
<1>1. Init => EvidenceInv
  BY DEF Init, EvidenceInv, SyncType, OneReconciliationPerDisconnect
<1>2. EvidenceInv /\ [Next]_vars => EvidenceInv'
  BY EvidenceStep
<1>3. EvidenceInv => OneReconciliationPerDisconnect
  BY DEF EvidenceInv
<1> QED
  BY <1>1, <1>2, <1>3, PTL DEF Spec


(***************************************************************************)
(* The exchange only goes on.                                              *)
(***************************************************************************)
Grows ==
    /\ clock' >= clock
    /\ \A k \in Keys : /\ exchange'[k].rev >= exchange[k].rev /\ exchange'[k].at >= exchange[k].at
                       /\ exchange'[k].rev = exchange[k].rev => exchange'[k] = exchange[k]

\* The keys of a topic are keys, and a change gives each of them a new revision.
LEMMA Changed ==
    ASSUME ExchangeInv, NEW topic \in Topics, NEW keys \in SUBSET topic, NEW foreign,
           Change(keys, foreign)
    PROVE  /\ keys \subseteq Keys /\ clock' = clock
           /\ \A k \in Keys \ keys : exchange'[k] = exchange[k]
           /\ \A k \in keys : exchange'[k] = [at |-> clock, rev |-> exchange[k].rev + 1]
           /\ exchange' \in [Keys -> Version]
<1>1. keys \subseteq Keys
  BY DEF Topics, Keys
<1> DEFINE x == [k \in Keys |-> IF k \in keys THEN [at |-> clock, rev |-> exchange[k].rev + 1]
                                ELSE exchange[k]]
<1>2. exchange' = x /\ clock' = clock
  BY DEF Change
<1>3. \A k \in Keys : exchange[k] \in Version /\ exchange[k].rev \in Nat
  BY DEF ExchangeInv, Version
<1>4. clock \in Nat
  BY DEF ExchangeInv
<1>5. \A k \in Keys : [at |-> clock, rev |-> exchange[k].rev + 1] \in Version
  BY <1>3, <1>4 DEF Version
<1>6. x \in [Keys -> Version]
  <2> HIDE DEF Version
  <2> QED
    BY <1>3, <1>5
<1> QED
  BY <1>1, <1>2, <1>6

LEMMA ExchangeStep ==
    ASSUME ExchangeInv, [Next]_vars
    PROVE  ExchangeInv' /\ Grows
<1>0. /\ clock \in Nat /\ exchange \in [Keys -> Version]
      /\ \A k \in Keys : /\ exchange[k] \in Version
                         /\ exchange[k].at \in Nat /\ exchange[k].rev \in Nat
  BY DEF ExchangeInv, Version
<1>1. ASSUME clock' = clock, exchange' = exchange PROVE ExchangeInv' /\ Grows
  BY <1>0, <1>1 DEF ExchangeInv, Grows
<1>2. CASE Tick
  <2>1. clock' = clock + 1 /\ exchange' = exchange
    BY <1>2 DEF Tick
  <2>2. \A k \in Keys : exchange[k].at <= clock + 1
    BY <1>0 DEF ExchangeInv
  <2> QED
    BY <1>0, <2>1, <2>2 DEF ExchangeInv, Grows
<1>3. CASE \E topic \in Topics : \E keys \in SUBSET topic \ {{}}, foreign \in BOOLEAN :
               Change(keys, foreign)
  <2>1. PICK topic \in Topics : \E keys \in SUBSET topic, foreign \in BOOLEAN :
                                    Change(keys, foreign)
    BY <1>3
  <2>2. PICK keys \in SUBSET topic, foreign \in BOOLEAN : Change(keys, foreign)
    BY <2>1
  <2>3. /\ keys \subseteq Keys /\ clock' = clock
        /\ \A k \in Keys \ keys : exchange'[k] = exchange[k]
        /\ \A k \in keys : exchange'[k] = [at |-> clock, rev |-> exchange[k].rev + 1]
        /\ exchange' \in [Keys -> Version]
    BY <2>2, Changed
  <2>4. ASSUME NEW k \in Keys
        PROVE  /\ exchange'[k].at <= clock
               /\ exchange'[k].rev = 0 => exchange'[k] = Absent
               /\ exchange'[k].rev >= exchange[k].rev /\ exchange'[k].at >= exchange[k].at
               /\ exchange'[k].rev = exchange[k].rev => exchange'[k] = exchange[k]
    <3>1. CASE k \in keys
      <4>0. exchange'[k] = [at |-> clock, rev |-> exchange[k].rev + 1]
        BY <2>3, <3>1, Zenon
      <4>1. exchange'[k].at = clock /\ exchange'[k].rev = exchange[k].rev + 1
        BY <4>0
      <4>2. exchange[k].at <= clock
        BY DEF ExchangeInv
      <4> QED
        BY <1>0, <4>1, <4>2
    <3>2. CASE k \notin keys
      <4>1. exchange'[k] = exchange[k]
        BY <2>3, <3>2
      <4> QED
        BY <1>0, <4>1 DEF ExchangeInv
    <3> QED
      BY <3>1, <3>2
  <2> QED
    BY <1>0, <2>3, <2>4 DEF ExchangeInv, Grows
<1>4. CASE ConnectionLost
  BY <1>1, <1>4 DEF ConnectionLost
<1>5. CASE RecordDisconnect
  BY <1>1, <1>5 DEF RecordDisconnect
<1>6. CASE RecordConnected
  BY <1>1, <1>6 DEF RecordConnected
<1>7. CASE \E m \in inbox : ParseError(m) \/ IngestTopic(m)
  BY <1>1, <1>7 DEF ParseError, IngestTopic
<1>8. CASE FetchSnapshot
  BY <1>1, <1>8 DEF FetchSnapshot, remote
<1>9. CASE StampSnapshot
  BY <1>1, <1>9 DEF StampSnapshot, remote
<1>10. CASE ApplyReconciliation
  BY <1>1, <1>10 DEF ApplyReconciliation, remote
<1>11. CASE Restart
  BY <1>1, <1>11 DEF Restart
<1>12. CASE UNCHANGED vars
  BY <1>1, <1>12 DEF vars
<1> QED
  BY <1>2, <1>3, <1>4, <1>5, <1>6, <1>7, <1>8, <1>9, <1>10, <1>11, <1>12 DEF Next

LEMMA StillTold ==
    ASSUME ExchangeInv, ExchangeInv', Grows, NEW f \in Sent, Told(f)
    PROVE  Told(f)'
<1> DEFINE k == f.key
<1>1. k \in Keys /\ f.at \in Nat /\ f.rev \in Nat
  BY DEF Sent
<1> HIDE DEF k
<1>2. /\ exchange[k].at \in Nat /\ exchange[k].rev \in Nat
      /\ exchange'[k].at \in Nat /\ exchange'[k].rev \in Nat
  <2>1. exchange[k] \in Version /\ exchange'[k] \in Version
    BY <1>1 DEF ExchangeInv
  <2> QED
    BY <2>1 DEF Version
<1>3. f.rev <= exchange[k].rev /\ f.at <= exchange[k].at
      /\ (f.rev = exchange[k].rev => f.at = exchange[k].at)
  BY DEF Told, k
<1>4. /\ exchange'[k].rev >= exchange[k].rev /\ exchange'[k].at >= exchange[k].at
      /\ exchange'[k].rev = exchange[k].rev => exchange'[k] = exchange[k]
  BY <1>1 DEF Grows
<1>5. f.rev <= exchange'[k].rev /\ f.at <= exchange'[k].at
      /\ (f.rev = exchange'[k].rev => f.at = exchange'[k].at)
  BY <1>1, <1>2, <1>3, <1>4
<1> QED
  BY <1>5 DEF Told, k

LEMMA StillPossible ==
    ASSUME ExchangeInv, ExchangeInv', Grows, NEW k \in Keys, NEW row, Possible(row, k)
    PROVE  row.rev <= exchange'[k].rev /\ row.at <= clock' /\ row \in Version
<1>1. exchange[k] \in Version /\ exchange'[k] \in Version /\ clock \in Nat /\ clock' \in Nat
  BY DEF ExchangeInv
<1>2. row \in Version /\ row.rev <= exchange[k].rev /\ row.at <= clock
  BY DEF Possible
<1>3. row.at \in Nat /\ row.rev \in Nat /\ exchange[k].rev \in Nat /\ exchange'[k].rev \in Nat
  BY <1>1, <1>2 DEF Version
<1>4. exchange'[k].rev >= exchange[k].rev /\ clock' >= clock
  BY DEF Grows
<1> QED
  BY <1>1, <1>2, <1>3, <1>4


(***************************************************************************)
(* What the steps do to the messages, the rows and the snapshot.           *)
(***************************************************************************)

\* A message of a change holds the latest fact of each of its keys, and no other.
NewMessage(m, keys) ==
    /\ m.facts \in Seq(Sent) /\ OneFactEach(m.facts)
    /\ \A i \in DOMAIN m.facts :
           m.facts[i].key \in keys /\ m.facts[i] = Fact(m.facts[i].key, exchange[m.facts[i].key])
    /\ \A k \in keys : \E i \in DOMAIN m.facts : m.facts[i] = Fact(k, exchange[k])

LEMMA ChangeSends ==
    ASSUME ExchangeInv, NEW topic \in Topics, NEW keys \in SUBSET topic, NEW foreign,
           Change(keys, foreign), stream = "up"
    PROVE  \E m : inbox' = inbox \cup {m} /\ NewMessage(m, keys)'
<1>1. /\ keys \subseteq Keys
      /\ \A k \in keys : exchange'[k] = [at |-> clock, rev |-> exchange[k].rev + 1]
  BY Changed
<1>2. PICK v : v = [k \in Keys |-> [at |-> clock, rev |-> exchange[k].rev + 1]]
  OBVIOUS
<1>3. \A k \in keys : /\ exchange'[k] = v[k]
                      /\ v[k] = [at |-> clock, rev |-> exchange[k].rev + 1]
  BY <1>1, <1>2
<1>4. ASSUME NEW k \in keys PROVE v[k] \in [at : Nat, rev : Nat \ {0}]
  <2>1. exchange[k] \in Version /\ clock \in Nat
    BY <1>1 DEF ExchangeInv
  <2>2. exchange[k].rev + 1 \in Nat \ {0}
    BY <2>1 DEF Version
  <2>3. v[k] = [at |-> clock, rev |-> exchange[k].rev + 1]
    BY <1>3
  <2> QED
    BY <2>1, <2>2, <2>3
<1>5. PICK q : q = SetToSeq({Fact(k, v[k]) : k \in keys})
  OBVIOUS
<1>6. PICK m : m = [facts |-> q, foreign |-> foreign]
  OBVIOUS
<1>7. inbox' = inbox \cup {m}
  <2>1. {Fact(k, [at |-> clock, rev |-> exchange[k].rev + 1]) : k \in keys}
          = {Fact(k, v[k]) : k \in keys}
    BY <1>3
  <2> QED
    BY <1>5, <1>6, <2>1 DEF Change
<1>8. Carries(q, keys, v)
  <2>1. \A k \in keys : v[k] \in [at : Nat, rev : Nat \ {0}]
    BY <1>4, Zenon
  <2> QED
    BY <1>1, <1>5, <2>1, MessageOf, Zenon
<1>9. NewMessage(m, keys)'
  <2>1. \A i \in DOMAIN q : q[i].key \in keys /\ q[i] = Fact(q[i].key, exchange'[q[i].key])
    BY <1>3, <1>8 DEF Carries
  <2>2. \A k \in keys : \E i \in DOMAIN q : q[i] = Fact(k, exchange'[k])
    BY <1>3, <1>8 DEF Carries
  <2>3. m.facts = q
    BY <1>6
  <2> QED
    BY <1>8, <2>1, <2>2, <2>3 DEF NewMessage, Carries
<1> QED
  BY <1>7, <1>9

\* A batch that is taken in: what it adds, and the rows it leaves.
Ingests(s) ==
    /\ events' = events \cup {s[i] : i \in DOMAIN s}
    /\ applied' = applied \cup {s[i] : i \in {j \in DOMAIN s : s[j] \notin events}}
    /\ facts' \in [Keys -> Version]
    /\ \A k \in Keys : (\A i \in DOMAIN s : s[i].key # k) => facts'[k] = facts[k]
    /\ \A i \in DOMAIN s : s[i] \in events => facts'[s[i].key] = facts[s[i].key]
    /\ \A i \in DOMAIN s : s[i] \notin events =>
           /\ ~FactConflict(facts, s[i])
           /\ facts'[s[i].key] = Newer(facts[s[i].key], s[i])
    /\ snapshot' = [snapshot EXCEPT !.sound = @ /\ applied' = applied]
    /\ sound' = sound
Rejects ==
    /\ UNCHANGED <<events, facts, applied>>
    /\ snapshot' = [snapshot EXCEPT !.sound = FALSE]
    /\ sound' = FALSE

LEMMA IngestIs ==
    ASSUME facts \in [Keys -> Version], NEW m, m.facts \in Seq(Sent), OneFactEach(m.facts),
           IngestTopic(m)
    PROVE  Ingests(m.facts) \/ Rejects
<1> DEFINE s == m.facts
           ok == ~m.foreign
           db == FoldLeft(PersistEvent, Store(events, facts, applied, ok), s)
<1>1. BatchIs(events, facts, applied, ok, s, Len(s), db)
  BY Batch
<1>2. Store(events, facts, applied, ok)
        = [events |-> events, facts |-> facts, applied |-> applied, ok |-> ~m.foreign]
  BY DEF Store
<1>3. IF db.ok
      THEN /\ events' = db.events /\ facts' = db.facts /\ applied' = db.applied
           /\ snapshot' = [snapshot EXCEPT !.sound = @ /\ db.applied = applied]
           /\ UNCHANGED sound
      ELSE /\ snapshot' = [snapshot EXCEPT !.sound = FALSE]
           /\ sound' = FALSE
           /\ UNCHANGED <<events, facts, applied>>
  BY <1>2 DEF IngestTopic
<1>4. DOMAIN s = 1..Len(s)
  OBVIOUS
<1> HIDE DEF db, ok
<1>5. CASE db.ok
  <2>1. /\ events' = db.events /\ facts' = db.facts /\ applied' = db.applied
        /\ snapshot' = [snapshot EXCEPT !.sound = @ /\ db.applied = applied]
        /\ sound' = sound
    BY <1>3, <1>5, Zenon
  <2>2. Meets(events, facts, applied, s, Len(s), db) /\ db.facts \in [Keys -> Version]
    BY <1>1, <1>5, Zenon DEF BatchIs
  <2>3. /\ events' = events \cup {s[i] : i \in DOMAIN s}
        /\ applied' = applied \cup {s[i] : i \in {j \in DOMAIN s : s[j] \notin events}}
        /\ facts' \in [Keys -> Version]
        /\ \A k \in Keys : (\A i \in DOMAIN s : s[i].key # k) => facts'[k] = facts[k]
        /\ \A i \in DOMAIN s : s[i] \in events => facts'[s[i].key] = facts[s[i].key]
        /\ \A i \in DOMAIN s : s[i] \notin events =>
               /\ ~FactConflict(facts, s[i])
               /\ facts'[s[i].key] = Newer(facts[s[i].key], s[i])
    BY <1>4, <2>1, <2>2 DEF Meets
  <2>4. snapshot' = [snapshot EXCEPT !.sound = @ /\ applied' = applied]
    BY <2>1, Zenon
  <2> QED
    BY <2>1, <2>3, <2>4, Zenon DEF Ingests
<1>6. CASE ~db.ok
  BY <1>3, <1>6, Zenon DEF Rejects
<1> QED
  BY <1>5, <1>6


LEMMA InboxStep ==
    ASSUME ExchangeInv, ExchangeInv', Grows, InboxInv, [Next]_vars
    PROVE  InboxInv'
<1>1. ASSUME NEW m \in inbox
      PROVE  /\ m.facts \in Seq(Sent) /\ OneFactEach(m.facts)
             /\ \A i \in DOMAIN m.facts : Told(m.facts[i])'
  <2>1. /\ m.facts \in Seq(Sent) /\ OneFactEach(m.facts)
        /\ \A i \in DOMAIN m.facts : Told(m.facts[i])
    BY <1>1, Zenon DEF InboxInv
  <2>2. ASSUME NEW i \in DOMAIN m.facts PROVE Told(m.facts[i])'
    <3>1. m.facts[i] \in Sent
      BY <2>1
    <3>2. PICK f : f = m.facts[i]
      OBVIOUS
    <3>3. Told(f)'
      BY <2>1, <3>1, <3>2, StillTold
    <3> QED
      BY <3>2, <3>3
  <2> QED
    BY <2>1, <2>2
<1>2. ASSUME inbox' \subseteq inbox PROVE InboxInv'
  BY <1>1, <1>2, Zenon DEF InboxInv
<1>3. CASE Tick
  BY <1>2, <1>3 DEF Tick
<1>4. CASE \E topic \in Topics : \E keys \in SUBSET topic \ {{}}, foreign \in BOOLEAN :
               Change(keys, foreign)
  <2>1. PICK topic \in Topics : \E keys \in SUBSET topic, foreign \in BOOLEAN :
                                    Change(keys, foreign)
    BY <1>4
  <2>2. PICK keys \in SUBSET topic, foreign \in BOOLEAN : Change(keys, foreign)
    BY <2>1
  <2>3. CASE stream # "up"
    BY <1>2, <2>2, <2>3 DEF Change
  <2>4. CASE stream = "up"
    <3>1. PICK m : inbox' = inbox \cup {m} /\ NewMessage(m, keys)'
      BY <2>2, <2>4, ChangeSends
    <3>2. /\ m.facts \in Seq(Sent) /\ OneFactEach(m.facts)
          /\ \A i \in DOMAIN m.facts : Told(m.facts[i])'
      <4>1. /\ m.facts \in Seq(Sent) /\ OneFactEach(m.facts)
            /\ \A i \in DOMAIN m.facts :
                   m.facts[i] = Fact(m.facts[i].key, exchange'[m.facts[i].key])
        BY <3>1, Zenon DEF NewMessage
      <4>2. ASSUME NEW i \in DOMAIN m.facts PROVE Told(m.facts[i])'
        <5>1. PICK f : f = m.facts[i]
          OBVIOUS
        <5>2. f \in Sent
          BY <4>1, <5>1
        <5>3. f = Fact(f.key, exchange'[f.key])
          BY <4>1, <5>1
        <5>4. f.rev = exchange'[f.key].rev /\ f.at = exchange'[f.key].at
          <6>1. \A k, row : Fact(k, row).rev = row.rev /\ Fact(k, row).at = row.at
            BY DEF Fact
          <6> QED
            BY <5>3, <6>1, Zenon
        <5>5. exchange'[f.key].rev \in Nat /\ exchange'[f.key].at \in Nat
          BY <5>2 DEF ExchangeInv, Version, Sent
        <5>6. Told(f)'
          BY <5>4, <5>5 DEF Told
        <5> QED
          BY <5>1, <5>6
      <4> QED
        BY <4>1, <4>2
    <3> QED
      BY <1>1, <3>1, <3>2, Zenon DEF InboxInv
  <2> QED
    BY <2>3, <2>4
<1>5. CASE ConnectionLost
  BY <1>2, <1>5 DEF ConnectionLost
<1>6. CASE RecordDisconnect
  BY <1>2, <1>6 DEF RecordDisconnect
<1>7. CASE RecordConnected
  BY <1>2, <1>7 DEF RecordConnected
<1>8. CASE \E m \in inbox : ParseError(m) \/ IngestTopic(m)
  BY <1>2, <1>8 DEF ParseError, IngestTopic
<1>9. CASE FetchSnapshot
  BY <1>2, <1>9 DEF FetchSnapshot, remote
<1>10. CASE StampSnapshot
  BY <1>2, <1>10 DEF StampSnapshot, remote
<1>11. CASE ApplyReconciliation
  BY <1>2, <1>11 DEF ApplyReconciliation, remote
<1>12. CASE Restart
  BY <1>2, <1>12 DEF Restart
<1>13. CASE UNCHANGED vars
  BY <1>2, <1>13 DEF vars
<1> QED
  BY <1>3, <1>4, <1>5, <1>6, <1>7, <1>8, <1>9, <1>10, <1>11, <1>12, <1>13 DEF Next


\* A batch leaves a row alone or gives it the one new fact of its key.
LEMMA RowLeft ==
    ASSUME NEW s, Ingests(s), NEW k \in Keys
    PROVE  \/ facts'[k] = facts[k] /\ \A i \in DOMAIN s : s[i].key = k => s[i] \in events
           \/ \E i \in DOMAIN s : /\ s[i].key = k /\ s[i] \notin events
                                  /\ ~FactConflict(facts, s[i])
                                  /\ facts'[k] = Newer(facts[k], s[i])
<1>1. CASE \E i \in DOMAIN s : s[i].key = k /\ s[i] \notin events
  BY <1>1 DEF Ingests
<1>2. CASE \A i \in DOMAIN s : s[i].key = k => s[i] \in events
  <2>1. CASE \E i \in DOMAIN s : s[i].key = k
    BY <1>2, <2>1 DEF Ingests
  <2>2. CASE \A i \in DOMAIN s : s[i].key # k
    BY <2>2 DEF Ingests
  <2> QED
    BY <1>2, <2>1, <2>2
<1> QED
  BY <1>1, <1>2

LEMMA NewerIs ==
    ASSUME NEW row, NEW f
    PROVE  /\ Newer(row, f) = row \/ Newer(row, f) = Stored(f)
           /\ Stored(f).at = f.at /\ Stored(f).rev = f.rev
BY DEF Newer, Stored

LEMMA IngestKeepsRows ==
    ASSUME ExchangeInv, RowsInv, NEW s \in Seq(Sent), \A i \in DOMAIN s : Told(s[i]),
           Ingests(s), clock' = clock, exchange' = exchange
    PROVE  RowsInv'
<1>1. ASSUME NEW k \in Keys
      PROVE  Possible(facts'[k], k)
  <2>0. Possible(facts[k], k)
    BY DEF RowsInv
  <2>1. CASE facts'[k] = facts[k]
    BY <2>0, <2>1
  <2>2. CASE \E i \in DOMAIN s : s[i].key = k /\ facts'[k] = Newer(facts[k], s[i])
    <3>1. PICK i \in DOMAIN s : s[i].key = k /\ facts'[k] = Newer(facts[k], s[i])
      BY <2>2
    <3>2. PICK f : f = s[i]
      OBVIOUS
    <3>3. f \in Sent /\ Told(f) /\ f.key = k /\ facts'[k] = Newer(facts[k], f)
      BY <3>1, <3>2
    <3>4. facts'[k] = facts[k] \/ (facts'[k] = Stored(f) /\ Stored(f).at = f.at
                                   /\ Stored(f).rev = f.rev)
      BY <3>3, NewerIs, Zenon
    <3>5. f.at \in Nat /\ f.rev \in Nat /\ f.rev <= exchange[k].rev /\ f.at <= exchange[k].at
      BY <3>3 DEF Sent, Told
    <3>6. exchange[k].at <= clock /\ exchange[k].at \in Nat /\ clock \in Nat
      BY DEF ExchangeInv, Version
    <3>7. f.at <= clock
      BY <3>5, <3>6
    <3>8. Stored(f) \in Version
      BY <3>5 DEF Stored, Version
    <3>9. CASE facts'[k] = Stored(f) /\ Stored(f).at = f.at /\ Stored(f).rev = f.rev
      BY <3>5, <3>7, <3>8, <3>9 DEF Possible
    <3> QED
      BY <2>0, <3>4, <3>9
  <2> QED
    BY <2>1, <2>2, RowLeft
<1>2. facts' \in [Keys -> Version]
  BY DEF Ingests
<1> QED
  BY <1>1, <1>2 DEF RowsInv, Possible

LEMMA RowsStep ==
    ASSUME SourceInv, ExchangeInv', Grows, [Next]_vars
    PROVE  RowsInv'
<1>1. ASSUME facts' = facts PROVE RowsInv'
  <2>1. ASSUME NEW k \in Keys PROVE Possible(facts[k], k)'
    <3>1. Possible(facts[k], k)
      BY DEF SourceInv, RowsInv
    <3>2. PICK row : row = facts[k]
      OBVIOUS
    <3>3. row.rev <= exchange'[k].rev /\ row.at <= clock' /\ row \in Version
      BY <3>1, <3>2, StillPossible DEF SourceInv
    <3> QED
      BY <1>1, <3>2, <3>3 DEF Possible
  <2> QED
    BY <1>1, <2>1 DEF SourceInv, RowsInv
<1>2. CASE Tick
  BY <1>1, <1>2 DEF Tick, store
<1>3. CASE \E topic \in Topics : \E keys \in SUBSET topic \ {{}}, foreign \in BOOLEAN :
               Change(keys, foreign)
  BY <1>1, <1>3 DEF Change, store
<1>4. CASE ConnectionLost
  BY <1>1, <1>4 DEF ConnectionLost, store
<1>5. CASE RecordDisconnect
  BY <1>1, <1>5 DEF RecordDisconnect
<1>6. CASE RecordConnected
  BY <1>1, <1>6 DEF RecordConnected
<1>7. CASE \E m \in inbox : ParseError(m) \/ IngestTopic(m)
  <2>1. PICK m \in inbox : ParseError(m) \/ IngestTopic(m)
    BY <1>7
  <2>2. CASE ParseError(m)
    BY <1>1, <2>2 DEF ParseError
  <2>3. CASE IngestTopic(m)
    <3>1. /\ m.facts \in Seq(Sent) /\ OneFactEach(m.facts)
          /\ \A i \in DOMAIN m.facts : Told(m.facts[i])
      BY DEF SourceInv, InboxInv
    <3>2. clock' = clock /\ exchange' = exchange
      BY <2>3 DEF IngestTopic
    <3>3. CASE Ingests(m.facts)
      BY <3>1, <3>2, <3>3, IngestKeepsRows DEF SourceInv
    <3>4. CASE Rejects
      BY <1>1, <3>4 DEF Rejects
    <3> QED
      BY <2>3, <3>1, <3>3, <3>4, IngestIs DEF SourceInv, RowsInv
  <2> QED
    BY <2>1, <2>2, <2>3
<1>8. CASE FetchSnapshot
  BY <1>1, <1>8 DEF FetchSnapshot, store
<1>9. CASE StampSnapshot
  BY <1>1, <1>9 DEF StampSnapshot, store
<1>10. CASE ApplyReconciliation
  <2>1. clock' = clock /\ exchange' = exchange
    BY <1>10 DEF ApplyReconciliation, remote
  <2>2. Absent \in Version /\ Absent.rev = 0 /\ Absent.at = 0
    BY DEF Absent, Version
  <2>3. ASSUME NEW k \in Keys
        PROVE  Possible(snapshot.facts[k], k) \/ k \notin DOMAIN snapshot.facts
    BY DEF SourceInv, HeldInv, Row
  <2>4. ASSUME NEW k \in Keys PROVE Possible(facts[k], k) /\ Possible(Absent, k)
    <3>1. exchange[k] \in Version /\ clock \in Nat
      BY DEF SourceInv, ExchangeInv
    <3>2. 0 <= exchange[k].rev /\ 0 <= clock
      BY <3>1 DEF Version
    <3>3. Possible(facts[k], k)
      BY DEF SourceInv, RowsInv
    <3> QED
      BY <2>2, <3>2, <3>3 DEF Possible
  <2>5. facts' = [k \in Keys |-> IF k \in DOMAIN snapshot.facts THEN snapshot.facts[k]
                                 ELSE IF k \in Execs THEN facts[k] ELSE Absent]
    BY <1>10 DEF ApplyReconciliation
  <2>6. ASSUME NEW k \in Keys PROVE Possible(facts'[k], k)
    BY <2>3, <2>4, <2>5
  <2>7. facts' \in [Keys -> Version]
    <3>1. \A k \in Keys : facts'[k] \in Version
      BY <2>6 DEF Possible
    <3> HIDE DEF Version
    <3> QED
      BY <2>5, <3>1
  <2>8. \A k \in Keys : facts'[k] \in Version /\ facts'[k].rev <= exchange'[k].rev
                        /\ facts'[k].at <= clock'
    BY <2>1, <2>6, Zenon DEF Possible
  <2> QED
    BY <2>7, <2>8 DEF RowsInv, Possible
<1>11. CASE Restart
  BY <1>1, <1>11 DEF Restart, store
<1>12. CASE UNCHANGED vars
  BY <1>1, <1>12 DEF vars
<1> QED
  BY <1>2, <1>3, <1>4, <1>5, <1>6, <1>7, <1>8, <1>9, <1>10, <1>11, <1>12 DEF Next


LEMMA KnownStep ==
    ASSUME SourceInv, ExchangeInv', Grows, RowsInv', [Next]_vars
    PROVE  KnownInv'
<1> DEFINE Of(f) == f \in [key : Keys, at : Nat, rev : Nat] /\ f.rev <= exchange'[f.key].rev
<1>1. ASSUME NEW f \in events \cup applied PROVE Of(f)
  <2>1. f \in [key : Keys, at : Nat, rev : Nat] /\ f.rev <= exchange[f.key].rev
    BY DEF SourceInv, KnownInv
  <2> DEFINE k == f.key
  <2>2. k \in Keys /\ f.rev \in Nat
    BY <2>1
  <2> HIDE DEF k
  <2>3. exchange[k].rev \in Nat /\ exchange'[k].rev \in Nat /\ exchange'[k].rev >= exchange[k].rev
    BY <2>2 DEF SourceInv, ExchangeInv, Version, Grows
  <2>4. f.rev <= exchange[k].rev
    BY <2>1 DEF k
  <2>5. f.rev <= exchange'[k].rev
    BY <2>2, <2>3, <2>4
  <2> QED
    BY <2>1, <2>5 DEF k
<1>2. ASSUME \A f \in events' \cup applied' : Of(f) PROVE KnownInv'
  BY <1>2 DEF KnownInv
<1> HIDE DEF Of
<1>3. ASSUME events' = events, applied' = applied PROVE KnownInv'
  BY <1>1, <1>2, <1>3
<1>4. CASE Tick
  BY <1>3, <1>4 DEF Tick, store
<1>5. CASE \E topic \in Topics : \E keys \in SUBSET topic \ {{}}, foreign \in BOOLEAN :
               Change(keys, foreign)
  BY <1>3, <1>5 DEF Change, store
<1>6. CASE ConnectionLost
  BY <1>3, <1>6 DEF ConnectionLost, store
<1>7. CASE RecordDisconnect
  BY <1>3, <1>7 DEF RecordDisconnect
<1>8. CASE RecordConnected
  BY <1>3, <1>8 DEF RecordConnected
<1>9. CASE \E m \in inbox : ParseError(m) \/ IngestTopic(m)
  <2>1. PICK m \in inbox : ParseError(m) \/ IngestTopic(m)
    BY <1>9
  <2>2. CASE ParseError(m)
    BY <1>3, <2>2 DEF ParseError
  <2>3. CASE IngestTopic(m)
    <3>1. /\ m.facts \in Seq(Sent) /\ OneFactEach(m.facts)
          /\ \A i \in DOMAIN m.facts : Told(m.facts[i])
      BY DEF SourceInv, InboxInv
    <3>2. exchange' = exchange
      BY <2>3 DEF IngestTopic
    <3>3. CASE Ingests(m.facts)
      <4>1. ASSUME NEW i \in DOMAIN m.facts PROVE Of(m.facts[i])
        <5>1. m.facts[i] \in Sent /\ Told(m.facts[i])
          BY <3>1
        <5> QED
          BY <3>2, <5>1 DEF Sent, Told, Of
      <4>2. /\ \A f \in events' : f \in events \/ \E i \in DOMAIN m.facts : f = m.facts[i]
            /\ \A f \in applied' : f \in applied \/ \E i \in DOMAIN m.facts : f = m.facts[i]
        BY <3>3 DEF Ingests
      <4> QED
        BY <1>1, <1>2, <4>1, <4>2
    <3>4. CASE Rejects
      BY <1>3, <3>4 DEF Rejects
    <3> QED
      BY <2>3, <3>1, <3>3, <3>4, IngestIs DEF SourceInv, RowsInv
  <2> QED
    BY <2>1, <2>2, <2>3
<1>10. CASE FetchSnapshot
  BY <1>3, <1>10 DEF FetchSnapshot, store
<1>11. CASE StampSnapshot
  BY <1>3, <1>11 DEF StampSnapshot, store
<1>12. CASE ApplyReconciliation
  <2>1. /\ events' = events
        /\ applied' = {Fact(k, facts'[k]) : k \in {j \in Keys : facts'[j] # Absent}}
    BY <1>12 DEF ApplyReconciliation
  <2>2. ASSUME NEW k \in Keys PROVE Of(Fact(k, facts'[k]))
    <3>1. PICK row : row = facts'[k]
      OBVIOUS
    <3>2. row \in Version /\ row.rev <= exchange'[k].rev
      BY <3>1 DEF RowsInv, Possible
    <3>3. Of(Fact(k, row))
      BY <3>2 DEF Of, Fact, Version
    <3> QED
      BY <3>1, <3>3
  <2>3. \A f \in applied' : Of(f)
    BY <2>1, <2>2
  <2> QED
    BY <1>1, <1>2, <2>1, <2>3
<1>13. CASE Restart
  BY <1>3, <1>13 DEF Restart, store
<1>14. CASE UNCHANGED vars
  BY <1>3, <1>14 DEF vars
<1> QED
  BY <1>4, <1>5, <1>6, <1>7, <1>8, <1>9, <1>10, <1>11, <1>12, <1>13, <1>14 DEF Next

\* A snapshot that is only marked keeps its rows.
LEMMA MarkedSnapshot ==
    ASSUME SourceInv, ExchangeInv', Grows, NEW v, snapshot' = [snapshot EXCEPT !.sound = v]
    PROVE  HeldInv' /\ snapshot'.facts = snapshot.facts /\ snapshot'.sound = v
<1>1. PICK b : b = snapshot'
  OBVIOUS
<1>2. IsHeld(b) /\ b.facts = snapshot.facts /\ b.sound = v
  <2>1. IsHeld(snapshot)
    BY Zenon DEF SourceInv, HeldInv
  <2>2. b = [snapshot EXCEPT !.sound = v]
    BY <1>1, Zenon
  <2> QED
    BY <2>1, <2>2, HeldOn
<1>3. ASSUME NEW k \in Keys PROVE Possible(Row(k), k)'
  <2>1. Row(k)' = Row(k)
    BY <1>1, <1>2 DEF Row
  <2>2. Possible(Row(k), k)
    BY DEF SourceInv, HeldInv
  <2>3. PICK row : row = Row(k)
    OBVIOUS
  <2>4. row.rev <= exchange'[k].rev /\ row.at <= clock' /\ row \in Version
    BY <2>2, <2>3, StillPossible DEF SourceInv
  <2> QED
    BY <2>1, <2>3, <2>4 DEF Possible
<1>4. IsHeld(snapshot)' /\ DOMAIN snapshot'.facts \subseteq Keys
  BY <1>1, <1>2 DEF SourceInv, HeldInv, IsHeld
<1> QED
  BY <1>1, <1>2, <1>3, <1>4, Zenon DEF HeldInv

LEMMA SameSnapshot ==
    ASSUME SourceInv, ExchangeInv', Grows, snapshot' = snapshot
    PROVE  HeldInv'
<1>1. ASSUME NEW k \in Keys PROVE Possible(Row(k), k)'
  <2>1. Row(k)' = Row(k)
    BY DEF Row
  <2>2. Possible(Row(k), k)
    BY DEF SourceInv, HeldInv
  <2>3. PICK row : row = Row(k)
    OBVIOUS
  <2>4. row.rev <= exchange'[k].rev /\ row.at <= clock' /\ row \in Version
    BY <2>2, <2>3, StillPossible DEF SourceInv
  <2> QED
    BY <2>1, <2>3, <2>4 DEF Possible
<1>2. IsHeld(snapshot)' /\ DOMAIN snapshot'.facts \subseteq Keys
  BY DEF SourceInv, HeldInv, IsHeld
<1> QED
  BY <1>1, <1>2 DEF HeldInv


LEMMA IngestMarks ==
    ASSUME SourceInv, ExchangeInv', Grows, NEW s, Ingests(s)
    PROVE  /\ HeldInv' /\ snapshot'.facts = snapshot.facts
           /\ snapshot'.sound = (snapshot.sound /\ applied' = applied)
<1>1. PICK v : v = (snapshot.sound /\ applied' = applied)
  BY Zenon
<1>2. snapshot' = [snapshot EXCEPT !.sound = @ /\ applied' = applied]
  BY DEF Ingests
<1>3. snapshot' = [snapshot EXCEPT !.sound = v]
  BY <1>1, <1>2, Zenon
<1>4. HeldInv' /\ snapshot'.facts = snapshot.facts /\ snapshot'.sound = v
  BY <1>3, MarkedSnapshot
<1> QED
  BY <1>1, <1>4, Zenon

LEMMA FetchHolds ==
    ASSUME SourceInv, FetchSnapshot
    PROVE  HeldInv'
<1>1. PICK keys \in SUBSET Existing :
          snapshot' = [at |-> 0, facts |-> [k \in keys |-> exchange[k]],
                       sound |-> stream = "up" /\ keys = Existing]
  BY Zenon DEF FetchSnapshot
<1>2. PICK v : v = (stream = "up" /\ keys = Existing)
  BY Zenon
<1>3. PICK x : x = [k \in keys |-> exchange[k]]
  OBVIOUS
<1>4. snapshot' = [at |-> 0, facts |-> x, sound |-> v]
  BY <1>1, <1>2, <1>3, Zenon
<1>5. snapshot'.at = 0 /\ snapshot'.facts = x /\ snapshot'.sound = v
  BY <1>4
<1>6. IsHeld(snapshot)'
  BY <1>4, <1>5, Zenon DEF IsHeld
<1>7. DOMAIN x \subseteq Keys
  BY <1>3 DEF Existing, Keys
<1>8. clock' = clock /\ exchange' = exchange
  BY DEF FetchSnapshot, remote
<1>9. ASSUME NEW k \in Keys PROVE Possible(Row(k), k)'
  <2>1. Row(k)' = exchange[k] \/ Row(k)' = Absent
    BY <1>3, <1>5 DEF Row
  <2>2. exchange[k] \in Version /\ exchange[k].at <= clock /\ clock \in Nat
    BY DEF SourceInv, ExchangeInv
  <2>3. exchange[k].rev \in Nat /\ exchange[k].rev <= exchange[k].rev /\ 0 <= exchange[k].rev
    BY <2>2 DEF Version
  <2>4. Absent \in Version /\ Absent.rev = 0 /\ Absent.at = 0
    BY DEF Absent, Version
  <2>5. ASSUME NEW row, row = exchange[k] \/ row = Absent
        PROVE  row \in Version /\ row.rev <= exchange[k].rev /\ row.at <= clock
    BY <2>2, <2>3, <2>4, <2>5
  <2> QED
    BY <1>8, <2>1, <2>5, Zenon DEF Possible
<1> QED
  BY <1>5, <1>6, <1>7, <1>9 DEF HeldInv

LEMMA StampHolds ==
    ASSUME SourceInv, StampSnapshot
    PROVE  /\ HeldInv'
           /\ DOMAIN snapshot'.facts = DOMAIN snapshot.facts
           /\ \A k \in DOMAIN snapshot.facts :
                  snapshot'.facts[k] = IF k \in Assets
                                       THEN [at |-> clock, rev |-> snapshot.facts[k].rev]
                                       ELSE snapshot.facts[k]
           /\ snapshot'.sound => snapshot.sound /\ \A k \in Assets : exchange[k].rev # 0 =>
                                     k \in DOMAIN snapshot.facts /\ exchange[k] = snapshot.facts[k]
<1>1. PICK v : v = (snapshot.sound /\ \A k \in Assets : exchange[k].rev # 0 =>
                        k \in DOMAIN snapshot.facts /\ exchange[k] = snapshot.facts[k])
  BY Zenon
<1>2. PICK x : x = [k \in DOMAIN snapshot.facts |->
                        IF k \in Assets THEN [snapshot.facts[k] EXCEPT !.at = clock]
                        ELSE snapshot.facts[k]]
  OBVIOUS
<1>3. snapshot' = [at |-> clock, facts |-> x, sound |-> v]
  <2>1. snapshot' =
          [at |-> clock,
           facts |-> [k \in DOMAIN snapshot.facts |->
                          IF k \in Assets THEN [snapshot.facts[k] EXCEPT !.at = clock]
                                          ELSE snapshot.facts[k]],
           sound |-> snapshot.sound /\ \A k \in Assets : exchange[k].rev # 0 =>
                                           k \in DOMAIN snapshot.facts
                                           /\ exchange[k] = snapshot.facts[k]]
    BY Zenon DEF StampSnapshot
  <2> QED
    BY <1>1, <1>2, <2>1, Zenon
<1>4. snapshot'.at = clock /\ snapshot'.facts = x /\ snapshot'.sound = v
  BY <1>3
<1>5. IsHeld(snapshot)'
  BY <1>3, <1>4, Zenon DEF IsHeld
<1>6. ASSUME NEW k \in DOMAIN snapshot.facts
      PROVE  /\ k \in Keys /\ Possible(snapshot.facts[k], k)
             /\ snapshot.facts[k] \in Version /\ snapshot.facts[k].rev \in Nat
             /\ snapshot.facts[k].rev <= exchange[k].rev /\ snapshot.facts[k].at <= clock
             /\ [snapshot.facts[k] EXCEPT !.at = clock]
                   = [at |-> clock, rev |-> snapshot.facts[k].rev]
  <2>1. k \in Keys
    BY DEF SourceInv, HeldInv
  <2>2. Row(k) = snapshot.facts[k]
    BY DEF Row
  <2>3. Possible(snapshot.facts[k], k)
    BY <2>1, <2>2 DEF SourceInv, HeldInv
  <2>4. PICK row : row = snapshot.facts[k]
    OBVIOUS
  <2>5. row \in Version
    BY <2>3, <2>4 DEF Possible
  <2>6. row.rev \in Nat /\ [row EXCEPT !.at = clock] = [at |-> clock, rev |-> row.rev]
    BY <2>5 DEF Version
  <2>7. row.rev <= exchange[k].rev /\ row.at <= clock
    BY <2>3, <2>4 DEF Possible
  <2> QED
    BY <2>1, <2>3, <2>4, <2>5, <2>6, <2>7
<1>7. /\ DOMAIN x = DOMAIN snapshot.facts
      /\ \A k \in DOMAIN snapshot.facts :
             x[k] = IF k \in Assets THEN [at |-> clock, rev |-> snapshot.facts[k].rev]
                    ELSE snapshot.facts[k]
  BY <1>2, <1>6
<1>8. DOMAIN x \subseteq Keys
  BY <1>6, <1>7
<1>9. clock' = clock /\ exchange' = exchange /\ clock \in Nat
  BY DEF StampSnapshot, remote, SourceInv, ExchangeInv
<1>10. ASSUME NEW k \in Keys PROVE Possible(Row(k), k)'
  <2>1. CASE k \in DOMAIN snapshot.facts
    <3>1. PICK row : row = IF k \in Assets THEN [at |-> clock, rev |-> snapshot.facts[k].rev]
                           ELSE snapshot.facts[k]
      OBVIOUS
    <3>2. Row(k)' = row
      BY <1>4, <1>7, <2>1, <3>1 DEF Row
    <3>3. row \in Version /\ row.rev <= exchange[k].rev /\ row.at <= clock
      <4>1. CASE k \in Assets
        <5>1. row = [at |-> clock, rev |-> snapshot.facts[k].rev]
          BY <3>1, <4>1
        <5>2. row.at = clock /\ row.rev = snapshot.facts[k].rev
          BY <5>1
        <5>3. row \in Version
          BY <1>6, <1>9, <2>1, <5>1 DEF Version
        <5>4. row.rev <= exchange[k].rev
          BY <1>6, <2>1, <5>2, Zenon
        <5>5. row.at <= clock
          BY <1>9, <5>2
        <5> QED
          BY <5>3, <5>4, <5>5
      <4>2. CASE k \notin Assets
        BY <1>6, <2>1, <3>1, <4>2
      <4> QED
        BY <4>1, <4>2
    <3> QED
      BY <1>9, <3>2, <3>3 DEF Possible
  <2>2. CASE k \notin DOMAIN snapshot.facts
    <3>1. Row(k)' = Absent
      BY <1>4, <1>7, <2>2 DEF Row
    <3>2. exchange[k] \in Version
      BY DEF SourceInv, ExchangeInv
    <3>3. Absent \in Version /\ Absent.rev <= exchange[k].rev /\ Absent.at <= clock
      BY <1>9, <3>2 DEF Absent, Version
    <3> QED
      BY <1>9, <3>1, <3>3 DEF Possible
  <2> QED
    BY <2>1, <2>2
<1>11. HeldInv'
  BY <1>4, <1>5, <1>8, <1>10 DEF HeldInv
<1> QED
  BY <1>1, <1>4, <1>7, <1>11, Zenon

LEMMA RestartHolds ==
    ASSUME SourceInv, ExchangeInv', snapshot' = NoSnapshot
    PROVE  HeldInv'
<1>0. PICK no : no = FALSE
  BY Zenon
<1>1. PICK x : x = [k \in {} |-> Absent]
  OBVIOUS
<1>2. snapshot' = [at |-> 0, facts |-> x, sound |-> no]
  BY <1>0, <1>1, Zenon DEF NoSnapshot
<1>3. snapshot'.at = 0 /\ snapshot'.facts = x /\ snapshot'.sound = no
  BY <1>2
<1>4. IsHeld(snapshot)'
  BY <1>2, <1>3, Zenon DEF IsHeld
<1>5. DOMAIN x = {}
  BY <1>1
<1>6. ASSUME NEW k \in Keys PROVE Possible(Row(k), k)'
  <2>1. Row(k)' = Absent
    BY <1>3, <1>5 DEF Row
  <2>2. exchange'[k] \in Version /\ clock' \in Nat
    BY DEF ExchangeInv
  <2>3. Absent \in Version /\ Absent.rev <= exchange'[k].rev /\ Absent.at <= clock'
    BY <2>2 DEF Absent, Version
  <2> QED
    BY <2>1, <2>3 DEF Possible
<1> QED
  BY <1>3, <1>4, <1>5, <1>6 DEF HeldInv

LEMMA HeldStep ==
    ASSUME SourceInv, ExchangeInv', Grows, [Next]_vars
    PROVE  HeldInv'
<1>1. ASSUME snapshot' = [snapshot EXCEPT !.sound = FALSE] PROVE HeldInv'
  <2>1. PICK no : no = FALSE
    BY Zenon
  <2>2. snapshot' = [snapshot EXCEPT !.sound = no]
    BY <1>1, <2>1, Zenon
  <2> QED
    BY <2>2, MarkedSnapshot
<1>2. CASE Tick
  BY <1>2, SameSnapshot DEF Tick
<1>3. CASE \E topic \in Topics : \E keys \in SUBSET topic \ {{}}, foreign \in BOOLEAN :
               Change(keys, foreign)
  BY <1>3, SameSnapshot DEF Change
<1>4. CASE ConnectionLost
  BY <1>1, <1>4, Zenon DEF ConnectionLost
<1>5. CASE RecordDisconnect
  BY <1>1, <1>5, Zenon DEF RecordDisconnect
<1>6. CASE RecordConnected
  BY <1>6, SameSnapshot DEF RecordConnected
<1>7. CASE \E m \in inbox : ParseError(m) \/ IngestTopic(m)
  <2>1. PICK m \in inbox : ParseError(m) \/ IngestTopic(m)
    BY <1>7
  <2>2. CASE ParseError(m)
    BY <1>1, <2>2, Zenon DEF ParseError
  <2>3. CASE IngestTopic(m)
    <3>1. /\ m.facts \in Seq(Sent) /\ OneFactEach(m.facts)
      BY DEF SourceInv, InboxInv
    <3>2. CASE Ingests(m.facts)
      BY <3>2, IngestMarks
    <3>3. CASE Rejects
      BY <1>1, <3>3, Zenon DEF Rejects
    <3> QED
      BY <2>3, <3>1, <3>2, <3>3, IngestIs DEF SourceInv, RowsInv
  <2> QED
    BY <2>1, <2>2, <2>3
<1>8. CASE FetchSnapshot
  BY <1>8, FetchHolds
<1>9. CASE StampSnapshot
  BY <1>9, StampHolds
<1>10. CASE ApplyReconciliation
  BY <1>10, SameSnapshot DEF ApplyReconciliation
<1>11. CASE Restart
  BY <1>11, RestartHolds DEF Restart
<1>12. CASE UNCHANGED vars
  BY <1>12, SameSnapshot DEF vars
<1> QED
  BY <1>2, <1>3, <1>4, <1>5, <1>6, <1>7, <1>8, <1>9, <1>10, <1>11, <1>12 DEF Next

LEMMA SourceInit == Init => SourceInv
<1> SUFFICES ASSUME Init PROVE SourceInv
  OBVIOUS
<1>1. Absent \in Version /\ Absent.at = 0 /\ Absent.rev = 0
  BY DEF Absent, Version
<1>2. exchange = [k \in Keys |-> Absent] /\ facts = [k \in Keys |-> Absent] /\ clock = 1
  BY DEF Init
<1>3. \A k \in Keys : exchange[k] = Absent /\ facts[k] = Absent
  BY <1>2
<1>4. ExchangeInv
  <2>1. exchange \in [Keys -> Version]
    <3> HIDE DEF Version
    <3> QED
      BY <1>1, <1>2
  <2> QED
    BY <1>1, <1>2, <1>3, <2>1 DEF ExchangeInv
<1>5. InboxInv /\ KnownInv
  BY DEF Init, InboxInv, KnownInv
<1>6. ASSUME NEW k \in Keys PROVE Possible(Absent, k)
  BY <1>1, <1>2, <1>3 DEF Possible
<1>7. RowsInv
  <2>1. facts \in [Keys -> Version]
    <3> HIDE DEF Version
    <3> QED
      BY <1>1, <1>2
  <2> QED
    BY <1>3, <1>6, <2>1 DEF RowsInv
<1>8. HeldInv
  <2>1. PICK no : no = FALSE
    BY Zenon
  <2>2. PICK x : x = [k \in {} |-> Absent]
    OBVIOUS
  <2>3. snapshot = [at |-> 0, facts |-> x, sound |-> no]
    BY <2>1, <2>2, Zenon DEF Init, NoSnapshot
  <2>4. snapshot.at = 0 /\ snapshot.facts = x /\ snapshot.sound = no /\ DOMAIN x = {}
    BY <2>2, <2>3
  <2>5. IsHeld(snapshot)
    BY <2>3, <2>4, Zenon DEF IsHeld
  <2>6. \A k \in Keys : Row(k) = Absent
    BY <2>4 DEF Row
  <2> QED
    BY <1>6, <2>4, <2>5, <2>6 DEF HeldInv
<1> QED
  BY <1>4, <1>5, <1>7, <1>8 DEF SourceInv

LEMMA SourceStep ==
    ASSUME SourceInv, [Next]_vars
    PROVE  SourceInv' /\ Grows
<1>1. ExchangeInv' /\ Grows
  BY ExchangeStep DEF SourceInv
<1>2. InboxInv'
  BY <1>1, InboxStep DEF SourceInv
<1>3. RowsInv'
  BY <1>1, RowsStep
<1>4. KnownInv'
  BY <1>1, <1>3, KnownStep
<1>5. HeldInv'
  BY <1>1, HeldStep
<1> QED
  BY <1>1, <1>2, <1>3, <1>4, <1>5 DEF SourceInv


(***************************************************************************)
(* The projections are the newest facts.                                   *)
(***************************************************************************)
Newest ==
    \A k \in Keys :
        \/ facts[k] = Absent /\ \A f \in applied : f.key # k
        \/ Fact(k, facts[k]) \in applied /\ \A f \in applied : f.key = k => f.at <= facts[k].at

LEMMA NewestHolds ==
    ASSUME Newest
    PROVE  ProjectionIsNewest
BY DEF Newest, ProjectionIsNewest, Fact

LEMMA IngestKeepsNewest ==
    ASSUME SourceInv, Newest, NEW s \in Seq(Sent), OneFactEach(s), Ingests(s)
    PROVE  Newest'
<1> SUFFICES ASSUME NEW k \in Keys
             PROVE  \/ facts'[k] = Absent /\ \A f \in applied' : f.key # k
                    \/ /\ Fact(k, facts'[k]) \in applied'
                       /\ \A f \in applied' : f.key = k => f.at <= facts'[k].at
  BY DEF Newest
<1>1. \/ facts[k] = Absent /\ \A f \in applied : f.key # k
      \/ Fact(k, facts[k]) \in applied /\ \A f \in applied : f.key = k => f.at <= facts[k].at
  BY DEF Newest
<1>2. /\ applied \subseteq applied'
      /\ \A f \in applied' : f \in applied \/ \E i \in DOMAIN s : f = s[i] /\ s[i] \notin events
      /\ \A i \in DOMAIN s : s[i] \notin events => s[i] \in applied'
  BY DEF Ingests
<1>3. CASE facts'[k] = facts[k] /\ \A i \in DOMAIN s : s[i].key = k => s[i] \in events
  <2>1. \A f \in applied' : f.key = k => f \in applied
    BY <1>2, <1>3
  <2> QED
    BY <1>1, <1>2, <1>3, <2>1
<1>4. CASE \E i \in DOMAIN s : /\ s[i].key = k /\ s[i] \notin events
                               /\ facts'[k] = Newer(facts[k], s[i])
  <2>1. PICK i \in DOMAIN s : /\ s[i].key = k /\ s[i] \notin events
                              /\ facts'[k] = Newer(facts[k], s[i])
    BY <1>4
  <2>2. PICK g : g = s[i]
    OBVIOUS
  <2>3. g \in Sent /\ g.key = k /\ g \in applied' /\ facts'[k] = Newer(facts[k], g)
    BY <1>2, <2>1, <2>2
  <2>4. \A f \in applied' : f.key = k => f \in applied \/ f = g
    <3>1. \A j \in DOMAIN s : s[j].key = k => s[j] = g
      BY <2>1, <2>2 DEF OneFactEach
    <3> QED
      BY <1>2, <3>1
  <2>5. g.at \in Nat /\ Fact(k, Stored(g)) = g /\ Stored(g).at = g.at
    BY <2>3 DEF Sent, Fact, Stored
  <2>6. facts[k].at \in Nat
    BY DEF SourceInv, RowsInv, Version
  <2>7. \A f \in applied : f.at \in Nat
    BY DEF SourceInv, KnownInv
  <2>8. CASE facts[k] # Absent /\ facts[k].at > g.at
    <3>1. facts'[k] = facts[k]
      BY <2>3, <2>8 DEF Newer
    <3>2. Fact(k, facts[k]) \in applied /\ \A f \in applied : f.key = k => f.at <= facts[k].at
      BY <1>1, <2>8
    <3>3. g.at <= facts[k].at
      BY <2>5, <2>6, <2>8
    <3> QED
      BY <1>2, <2>4, <3>1, <3>2, <3>3
  <2>9. CASE ~(facts[k] # Absent /\ facts[k].at > g.at)
    <3>1. facts'[k] = Stored(g)
      BY <2>3, <2>9 DEF Newer
    <3>2. Fact(k, facts'[k]) \in applied' /\ facts'[k].at = g.at
      BY <2>3, <2>5, <3>1
    <3>3. ASSUME NEW f \in applied, f.key = k PROVE f.at <= g.at
      <4>1. f.at <= facts[k].at
        BY <1>1, <3>3
      <4>2. facts[k].at = 0 \/ facts[k].at <= g.at
        BY <2>5, <2>6, <2>9 DEF Absent
      <4> QED
        BY <2>5, <2>6, <2>7, <4>1, <4>2
    <3>4. g.at <= g.at
      BY <2>5
    <3> QED
      BY <2>4, <3>2, <3>3, <3>4
  <2> QED
    BY <2>8, <2>9
<1> QED
  BY <1>3, <1>4, RowLeft

LEMMA NewestStep ==
    ASSUME SourceInv, Newest, [Next]_vars
    PROVE  Newest'
<1>1. ASSUME facts' = facts, applied' = applied PROVE Newest'
  BY <1>1 DEF Newest
<1>2. CASE Tick
  BY <1>1, <1>2 DEF Tick, store
<1>3. CASE \E topic \in Topics : \E keys \in SUBSET topic \ {{}}, foreign \in BOOLEAN :
               Change(keys, foreign)
  BY <1>1, <1>3 DEF Change, store
<1>4. CASE ConnectionLost
  BY <1>1, <1>4 DEF ConnectionLost, store
<1>5. CASE RecordDisconnect
  BY <1>1, <1>5 DEF RecordDisconnect
<1>6. CASE RecordConnected
  BY <1>1, <1>6 DEF RecordConnected
<1>7. CASE \E m \in inbox : ParseError(m) \/ IngestTopic(m)
  <2>1. PICK m \in inbox : ParseError(m) \/ IngestTopic(m)
    BY <1>7
  <2>2. CASE ParseError(m)
    BY <1>1, <2>2 DEF ParseError
  <2>3. CASE IngestTopic(m)
    <3>1. /\ m.facts \in Seq(Sent) /\ OneFactEach(m.facts)
      BY DEF SourceInv, InboxInv
    <3>2. CASE Ingests(m.facts)
      BY <3>1, <3>2, IngestKeepsNewest
    <3>3. CASE Rejects
      BY <1>1, <3>3 DEF Rejects
    <3> QED
      BY <2>3, <3>1, <3>2, <3>3, IngestIs DEF SourceInv, RowsInv
  <2> QED
    BY <2>1, <2>2, <2>3
<1>8. CASE FetchSnapshot
  BY <1>1, <1>8 DEF FetchSnapshot, store
<1>9. CASE StampSnapshot
  BY <1>1, <1>9 DEF StampSnapshot, store
<1>10. CASE ApplyReconciliation
  <2>1. applied' = {Fact(k, facts'[k]) : k \in {j \in Keys : facts'[j] # Absent}}
    BY <1>10 DEF ApplyReconciliation
  <2>2. \A k, row : Fact(k, row).key = k /\ Fact(k, row).at = row.at
    BY DEF Fact
  <2>3. \A f \in applied' : \E k \in Keys : facts'[k] # Absent /\ f = Fact(k, facts'[k])
    BY <2>1
  <2>4. ASSUME NEW k \in Keys
        PROVE  \/ facts'[k] = Absent /\ \A f \in applied' : f.key # k
               \/ /\ Fact(k, facts'[k]) \in applied'
                  /\ \A f \in applied' : f.key = k => f.at <= facts'[k].at
    <3>1. \A f \in applied' : f.key = k => facts'[k] # Absent /\ f.at = facts'[k].at
      BY <2>2, <2>3
    <3>2. CASE facts'[k] = Absent
      BY <3>1, <3>2
    <3>3. CASE facts'[k] # Absent
      <4>1. Fact(k, facts'[k]) \in applied'
        BY <2>1, <3>3
      <4>2. facts'[k].at \in Nat
        <5>1. RowsInv'
          BY SourceStep DEF SourceInv
        <5> QED
          BY <5>1 DEF RowsInv, Version
      <4> QED
        BY <3>1, <4>1, <4>2
    <3> QED
      BY <3>2, <3>3
  <2> QED
    BY <2>4 DEF Newest
<1>11. CASE Restart
  BY <1>1, <1>11 DEF Restart, store
<1>12. CASE UNCHANGED vars
  BY <1>1, <1>12 DEF vars
<1> QED
  BY <1>2, <1>3, <1>4, <1>5, <1>6, <1>7, <1>8, <1>9, <1>10, <1>11, <1>12 DEF Next

\* The projections do not depend on the order, the repetition or the batching of the
\* messages: persist_order_event, persist_wallet_event and persist_execution_event
\* leave in each row the newest fact recorded since the last reconciliation.
THEOREM NewestIsProjected == Spec => []ProjectionIsNewest
<1>1. Init => SourceInv /\ Newest
  BY SourceInit DEF Init, Newest
<1>2. SourceInv /\ Newest /\ [Next]_vars => SourceInv' /\ Newest'
  BY SourceStep, NewestStep
<1>3. SourceInv /\ Newest => ProjectionIsNewest
  BY NewestHolds
<1> QED
  BY <1>1, <1>2, <1>3, PTL DEF Spec


(***************************************************************************)
(* While nothing was missed, each row is current or its change is coming.  *)
(***************************************************************************)
Latest(k) == Fact(k, exchange[k])
OnItsWay(k) == \E m \in inbox : \E i \in DOMAIN m.facts : m.facts[i] = Latest(k)

Current(row, k) == row.rev = exchange[k].rev /\ row.at >= exchange[k].at
Coming(row, k, seen) ==
    /\ row.rev < exchange[k].rev /\ row.at <= exchange[k].at
    /\ Latest(k) \notin seen /\ OnItsWay(k)

Replaced == Orders \cup Assets
SoundInv ==
    sound => /\ stream = "up"
             /\ \A k \in Replaced : Current(facts[k], k) \/ Coming(facts[k], k, events)
SnapshotInv ==
    snapshot.sound =>
        /\ stream = "up"
        /\ \A k \in Replaced : Current(Row(k), k) \/ Coming(Row(k), k, events \cup applied)

LEMMA FactIs ==
    ASSUME NEW k, NEW row
    PROVE  Fact(k, row).key = k /\ Fact(k, row).at = row.at /\ Fact(k, row).rev = row.rev
BY DEF Fact

\* A change leaves a row as it was, or makes its latest fact a coming one.
LEMMA ChangeComes ==
    ASSUME SourceInv, NEW topic \in Topics, NEW keys \in SUBSET topic, NEW foreign,
           Change(keys, foreign), stream = "up",
           NEW k \in Keys, NEW row, Possible(row, k), NEW seen,
           \A f \in seen : f.key = k => f.rev <= exchange[k].rev,
           Current(row, k) \/ Coming(row, k, seen)
    PROVE  Current(row, k)' \/ Coming(row, k, seen)'
<1>0. ExchangeInv
  BY DEF SourceInv
<1>1. /\ keys \subseteq Keys
      /\ \A j \in Keys \ keys : exchange'[j] = exchange[j]
      /\ \A j \in keys : exchange'[j] = [at |-> clock, rev |-> exchange[j].rev + 1]
  BY <1>0, Changed
<1>2. PICK m : inbox' = inbox \cup {m} /\ NewMessage(m, keys)'
  BY <1>0, ChangeSends
<1>3. CASE k \notin keys
  <2>1. exchange'[k] = exchange[k] /\ inbox \subseteq inbox'
    BY <1>1, <1>2, <1>3
  <2> QED
    BY <2>1 DEF Current, Coming, Latest, OnItsWay
<1>4. CASE k \in keys
  <2>1. exchange'[k] = [at |-> clock, rev |-> exchange[k].rev + 1]
    BY <1>1, <1>4
  <2>2. exchange'[k].at = clock /\ exchange'[k].rev = exchange[k].rev + 1
    BY <2>1
  <2>3. row \in Version /\ row.rev <= exchange[k].rev /\ row.at <= clock
    BY DEF Possible
  <2>4. row.rev \in Nat /\ exchange[k].rev \in Nat
    BY <1>0, <2>3 DEF ExchangeInv, Version
  <2>5. row.rev < exchange'[k].rev /\ row.at <= exchange'[k].at
    BY <2>2, <2>3, <2>4
  <2>6. Latest(k)'.key = k /\ Latest(k)'.rev = exchange'[k].rev
    BY FactIs DEF Latest
  <2>7. Latest(k)' \notin seen
    <3>1. ~(exchange[k].rev + 1 <= exchange[k].rev)
      BY <2>4
    <3>2. ASSUME Latest(k)' \in seen PROVE FALSE
      <4>1. exchange'[k].rev <= exchange[k].rev
        BY <2>6, <3>2
      <4> QED
        BY <2>2, <3>1, <4>1
    <3> QED
      BY <3>2
  <2>8. OnItsWay(k)'
    <3>1. \E i \in DOMAIN m.facts : m.facts[i] = Fact(k, exchange'[k])
      BY <1>2, <1>4 DEF NewMessage
    <3> QED
      BY <1>2, <3>1 DEF OnItsWay, Latest
  <2> QED
    BY <2>5, <2>7, <2>8 DEF Coming
<1> QED
  BY <1>3, <1>4

\* A message that is taken in leaves those that hold another fact.
LEMMA StillComing ==
    ASSUME NEW m, inbox' = inbox \ {m} \/ inbox' = inbox, exchange' = exchange,
           NEW k, OnItsWay(k), \A i \in DOMAIN m.facts : m.facts[i] # Latest(k)
    PROVE  OnItsWay(k)'
<1>1. PICK n \in inbox : \E i \in DOMAIN n.facts : n.facts[i] = Latest(k)
  BY Zenon DEF OnItsWay
<1>2. n # m
  BY <1>1, Zenon
<1>3. n \in inbox'
  BY <1>1, <1>2
<1>4. Latest(k)' = Latest(k)
  BY Zenon DEF Latest
<1> QED
  BY <1>1, <1>3, <1>4, Zenon DEF OnItsWay

LEMMA IngestKeepsSound ==
    ASSUME SourceInv, NEW m \in inbox, Ingests(m.facts), exchange' = exchange,
           inbox' = inbox \ {m} \/ inbox' = inbox,
           NEW k \in Keys, Current(facts[k], k) \/ Coming(facts[k], k, events)
    PROVE  Current(facts[k], k)' \/ Coming(facts[k], k, events)'
<1> DEFINE s == m.facts
<1>1. s \in Seq(Sent) /\ OneFactEach(s) /\ \A i \in DOMAIN s : Told(s[i])
  BY DEF SourceInv, InboxInv
<1>2. /\ Latest(k).key = k /\ Latest(k).at = exchange[k].at /\ Latest(k).rev = exchange[k].rev
      /\ Latest(k)' = Latest(k)
  BY FactIs DEF Latest
<1>3. \A f \in events' : f \in events \/ \E i \in DOMAIN s : f = s[i]
  BY DEF Ingests
<1>4. /\ facts[k].at \in Nat /\ facts[k].rev \in Nat
      /\ exchange[k].at \in Nat /\ exchange[k].rev \in Nat
  <2>1. facts[k] \in Version /\ exchange[k] \in Version
    BY DEF SourceInv, RowsInv, ExchangeInv
  <2> QED
    BY <2>1 DEF Version
<1>5. CASE facts'[k] = facts[k] /\ \A i \in DOMAIN s : s[i].key = k => s[i] \in events
  <2>1. CASE Current(facts[k], k)
    BY <1>5, <2>1 DEF Current
  <2>2. CASE Coming(facts[k], k, events)
    <3>1. \A i \in DOMAIN s : s[i] # Latest(k)
      BY <1>2, <1>5, <2>2 DEF Coming
    <3>2. Latest(k) \notin events'
      BY <1>3, <2>2, <3>1 DEF Coming
    <3>3. OnItsWay(k)'
      BY <2>2, <3>1, StillComing DEF Coming
    <3> QED
      BY <1>2, <1>5, <2>2, <3>2, <3>3 DEF Coming
  <2> QED
    BY <2>1, <2>2
<1>6. CASE \E i \in DOMAIN s : /\ s[i].key = k /\ s[i] \notin events
                               /\ ~FactConflict(facts, s[i])
                               /\ facts'[k] = Newer(facts[k], s[i])
  <2>1. PICK i \in DOMAIN s : /\ s[i].key = k /\ s[i] \notin events
                              /\ ~FactConflict(facts, s[i])
                              /\ facts'[k] = Newer(facts[k], s[i])
    BY <1>6
  <2>2. PICK g : g = s[i]
    OBVIOUS
  <2>3. /\ g \in Sent /\ g.key = k /\ ~FactConflict(facts, g) /\ Told(g)
        /\ facts'[k] = Newer(facts[k], g)
    BY <1>1, <2>1, <2>2
  <2>4. \A j \in DOMAIN s : s[j].key = k => s[j] = g
    BY <1>1, <2>1, <2>2 DEF OneFactEach
  <2>5. /\ g.at \in Nat /\ g.rev \in Nat /\ Stored(g).at = g.at /\ Stored(g).rev = g.rev
        /\ g = [key |-> k, at |-> g.at, rev |-> g.rev]
    BY <2>3 DEF Sent, Stored
  <2>6. /\ g.rev <= exchange[k].rev /\ g.at <= exchange[k].at
        /\ g.rev = exchange[k].rev => g.at = exchange[k].at
    BY <2>3 DEF Told
  <2>7. facts'[k] = facts[k] \/ facts'[k] = Stored(g)
    BY <2>3 DEF Newer
  <2>8. CASE Current(facts[k], k)
    <3>1. facts[k].rev = exchange[k].rev /\ facts[k].at >= exchange[k].at
      BY <2>8 DEF Current
    <3>2. facts'[k] = facts[k]
      <4>1. CASE facts[k].at > g.at
        <5>1. facts[k] # Absent
          BY <1>4, <2>5, <4>1 DEF Absent
        <5> QED
          BY <2>3, <4>1, <5>1 DEF Newer
      <4>2. CASE ~(facts[k].at > g.at)
        <5>1. facts[k].at = g.at
          BY <1>4, <2>5, <2>6, <3>1, <4>2
        <5>2. facts[k] = Stored(g)
          BY <2>3, <5>1 DEF FactConflict
        <5> QED
          BY <2>7, <5>2
      <4> QED
        BY <4>1, <4>2
    <3> QED
      BY <2>8, <3>2 DEF Current
  <2>9. CASE Coming(facts[k], k, events)
    <3>1. facts[k].rev < exchange[k].rev /\ facts[k].at <= exchange[k].at
      BY <2>9 DEF Coming
    <3>2. CASE g = Latest(k)
      <4>1. g.rev = exchange[k].rev /\ g.at = exchange[k].at
        BY <1>2, <3>2
      <4>2. ~(facts[k].at > g.at)
        BY <1>4, <3>1, <4>1
      <4>3. facts'[k] = Stored(g)
        BY <2>3, <4>2 DEF Newer
      <4> QED
        BY <1>4, <2>5, <4>1, <4>3 DEF Current
    <3>3. CASE g # Latest(k)
      <4>1. g.rev # exchange[k].rev
        <5>1. ASSUME g.rev = exchange[k].rev PROVE FALSE
          <6>1. g = Fact(k, exchange[k])
            BY <2>5, <2>6, <5>1 DEF Fact
          <6> QED
            BY <3>3, <6>1 DEF Latest
        <5> QED
          BY <5>1
      <4>2. g.rev < exchange[k].rev
        BY <1>4, <2>5, <2>6, <4>1
      <4>3. facts'[k].rev < exchange[k].rev /\ facts'[k].at <= exchange[k].at
        BY <2>5, <2>6, <2>7, <3>1, <4>2
      <4>4. \A j \in DOMAIN s : s[j] # Latest(k)
        BY <1>2, <2>4, <3>3
      <4>5. Latest(k) \notin events'
        BY <1>3, <2>9, <4>4 DEF Coming
      <4>6. OnItsWay(k)'
        BY <2>9, <4>4, StillComing DEF Coming
      <4> QED
        BY <1>2, <4>3, <4>5, <4>6 DEF Coming
    <3> QED
      BY <3>2, <3>3
  <2> QED
    BY <2>8, <2>9
<1> QED
  BY <1>5, <1>6, RowLeft

LEMMA IngestKeepsSnapshot ==
    ASSUME NEW m \in inbox, Ingests(m.facts), applied' = applied, exchange' = exchange,
           inbox' = inbox \ {m} \/ inbox' = inbox,
           NEW k, NEW row, Current(row, k) \/ Coming(row, k, events \cup applied)
    PROVE  Current(row, k)' \/ Coming(row, k, events \cup applied)'
<1> DEFINE s == m.facts
<1>1. Latest(k)' = Latest(k)
  BY DEF Latest
<1>2. CASE Current(row, k)
  BY <1>2 DEF Current
<1>3. CASE Coming(row, k, events \cup applied)
  <2>1. \A i \in DOMAIN s : s[i] \in events \/ s[i] \in applied
    BY DEF Ingests
  <2>2. Latest(k) \notin events \cup applied /\ OnItsWay(k)
    BY <1>3 DEF Coming
  <2>3. \A i \in DOMAIN s : s[i] # Latest(k)
    BY <2>1, <2>2
  <2>4. \A f \in events' : f \in events \/ \E i \in DOMAIN s : f = s[i]
    BY DEF Ingests
  <2>5. Latest(k) \notin events' \cup applied'
    BY <2>2, <2>3, <2>4
  <2>6. OnItsWay(k)'
    BY <2>2, <2>3, StillComing
  <2> QED
    BY <1>1, <1>3, <2>5, <2>6 DEF Coming
<1> QED
  BY <1>2, <1>3


\* Steps that change neither a row nor what is on its way.
LEMMA SoundStands ==
    ASSUME SoundInv, sound' = sound, stream' = stream \/ ~sound,
           exchange' = exchange, inbox' = inbox, facts' = facts, events' = events
    PROVE  SoundInv'
BY DEF SoundInv, Current, Coming, Latest, OnItsWay

LEMMA SnapshotStands ==
    ASSUME SnapshotInv, snapshot' = snapshot, stream' = stream \/ ~snapshot.sound,
           exchange' = exchange, inbox' = inbox, events' = events, applied' = applied
    PROVE  SnapshotInv'
<1>1. \A k \in Replaced : Row(k)' = Row(k)
  BY DEF Row
<1> QED
  BY <1>1 DEF SnapshotInv, Current, Coming, Latest, OnItsWay

LEMMA Unsound ==
    ASSUME SourceInv, ExchangeInv', Grows, snapshot' = [snapshot EXCEPT !.sound = FALSE], ~sound'
    PROVE  SoundInv' /\ SnapshotInv'
<1>1. PICK no : no = FALSE
  BY Zenon
<1>2. snapshot' = [snapshot EXCEPT !.sound = no]
  BY <1>1, Zenon
<1>3. snapshot'.sound = no
  BY <1>2, MarkedSnapshot
<1>4. ~snapshot'.sound
  BY <1>1, <1>3, Zenon
<1> QED
  BY <1>4, Zenon DEF SoundInv, SnapshotInv

LEMMA ChangeKeepsSound ==
    ASSUME SourceInv, SoundInv, SnapshotInv, NEW topic \in Topics, NEW keys \in SUBSET topic,
           NEW foreign, Change(keys, foreign)
    PROVE  SoundInv' /\ SnapshotInv'
<1>1. /\ stream' = stream /\ facts' = facts /\ events' = events /\ applied' = applied
      /\ snapshot' = snapshot /\ sound' = (sound /\ stream = "up")
  BY Zenon DEF Change, store
<1>2. ASSUME NEW k \in Replaced
      PROVE  /\ k \in Keys /\ Possible(facts[k], k) /\ Possible(Row(k), k)
             /\ \A f \in events \cup applied : f.key = k => f.rev <= exchange[k].rev
             /\ Row(k)' = Row(k)
  <2>1. k \in Keys
    BY DEF Replaced, Keys
  <2>2. Row(k)' = Row(k)
    BY <1>1, Zenon DEF Row
  <2> QED
    BY <2>1, <2>2 DEF SourceInv, RowsInv, HeldInv, KnownInv
<1>3. SoundInv'
  <2> SUFFICES ASSUME sound'
               PROVE  /\ stream' = "up"
                      /\ \A k \in Replaced : (Current(facts[k], k) \/ Coming(facts[k], k, events))'
    BY Zenon DEF SoundInv, Replaced
  <2>1. sound /\ stream = "up"
    BY <1>1, Zenon
  <2>2. ASSUME NEW k \in Replaced
        PROVE  (Current(facts[k], k) \/ Coming(facts[k], k, events))'
    <3>1. PICK row, seen : row = facts[k] /\ seen = events
      OBVIOUS
    <3>2. Current(row, k) \/ Coming(row, k, seen)
      BY <2>1, <3>1, Zenon DEF SoundInv
    <3>3. k \in Keys /\ Possible(row, k) /\ \A f \in seen : f.key = k => f.rev <= exchange[k].rev
      BY <1>2, <3>1
    <3>4. Current(row, k)' \/ Coming(row, k, seen)'
      BY <2>1, <3>2, <3>3, ChangeComes
    <3>5. row = facts'[k] /\ seen = events'
      BY <1>1, <3>1, Zenon
    <3> QED
      BY <3>4, <3>5, Zenon DEF Current, Coming
  <2> QED
    BY <1>1, <2>1, <2>2, Zenon
<1>4. SnapshotInv'
  <2> SUFFICES ASSUME snapshot'.sound
               PROVE  /\ stream' = "up"
                      /\ \A k \in Replaced :
                             (Current(Row(k), k) \/ Coming(Row(k), k, events \cup applied))'
    BY Zenon DEF SnapshotInv, Replaced
  <2>1. snapshot.sound /\ stream = "up"
    BY <1>1, Zenon DEF SnapshotInv
  <2>2. ASSUME NEW k \in Replaced
        PROVE  (Current(Row(k), k) \/ Coming(Row(k), k, events \cup applied))'
    <3>1. PICK row, seen : row = Row(k) /\ seen = events \cup applied
      OBVIOUS
    <3>2. Current(row, k) \/ Coming(row, k, seen)
      BY <2>1, <3>1, Zenon DEF SnapshotInv
    <3>3. k \in Keys /\ Possible(row, k) /\ \A f \in seen : f.key = k => f.rev <= exchange[k].rev
      BY <1>2, <3>1
    <3>4. Current(row, k)' \/ Coming(row, k, seen)'
      BY <2>1, <3>2, <3>3, ChangeComes
    <3>5. row = Row(k)' /\ seen = events' \cup applied'
      BY <1>1, <1>2, <3>1, Zenon
    <3> QED
      BY <3>4, <3>5, Zenon DEF Current, Coming
  <2> QED
    BY <1>1, <2>1, <2>2, Zenon
<1> QED
  BY <1>3, <1>4

LEMMA IngestKeepsBoth ==
    ASSUME SourceInv, ExchangeInv', Grows, SoundInv, SnapshotInv, NEW m \in inbox, IngestTopic(m)
    PROVE  SoundInv' /\ SnapshotInv'
<1>1. m.facts \in Seq(Sent) /\ OneFactEach(m.facts)
  BY DEF SourceInv, InboxInv
<1>2. /\ exchange' = exchange /\ stream' = stream
      /\ inbox' = inbox \ {m} \/ inbox' = inbox
  BY Zenon DEF IngestTopic
<1>3. CASE Rejects
  BY <1>3, Unsound, Zenon DEF Rejects
<1>4. CASE Ingests(m.facts)
  <2>1. /\ snapshot'.facts = snapshot.facts
        /\ snapshot'.sound = (snapshot.sound /\ applied' = applied)
    BY <1>4, IngestMarks
  <2>2. sound' = sound
    BY <1>4, Zenon DEF Ingests
  <2>3. ASSUME NEW k \in Replaced PROVE k \in Keys /\ Row(k)' = Row(k)
    BY <2>1 DEF Replaced, Keys, Row
  <2>4. SoundInv'
    <3> SUFFICES ASSUME sound'
                 PROVE  /\ stream' = "up"
                        /\ \A k \in Replaced :
                               (Current(facts[k], k) \/ Coming(facts[k], k, events))'
      BY Zenon DEF SoundInv, Replaced
    <3>1. sound /\ stream = "up"
      BY <2>2, Zenon DEF SoundInv
    <3>2. ASSUME NEW k \in Replaced
          PROVE  (Current(facts[k], k) \/ Coming(facts[k], k, events))'
      <4>1. Current(facts[k], k) \/ Coming(facts[k], k, events)
        BY <3>1, Zenon DEF SoundInv
      <4> QED
        BY <1>2, <1>4, <2>3, <4>1, IngestKeepsSound
    <3> QED
      BY <1>2, <3>1, <3>2, Zenon
  <2>5. SnapshotInv'
    <3> SUFFICES ASSUME snapshot'.sound
                 PROVE  /\ stream' = "up"
                        /\ \A k \in Replaced :
                               (Current(Row(k), k) \/ Coming(Row(k), k, events \cup applied))'
      BY Zenon DEF SnapshotInv, Replaced
    <3>1. snapshot.sound /\ stream = "up" /\ applied' = applied
      BY <2>1, Zenon DEF SnapshotInv
    <3>2. ASSUME NEW k \in Replaced
          PROVE  (Current(Row(k), k) \/ Coming(Row(k), k, events \cup applied))'
      <4>1. PICK row : row = Row(k)
        OBVIOUS
      <4>2. Current(row, k) \/ Coming(row, k, events \cup applied)
        BY <3>1, <4>1, Zenon DEF SnapshotInv
      <4>3. Current(row, k)' \/ Coming(row, k, events \cup applied)'
        BY <1>2, <1>4, <3>1, <4>2, IngestKeepsSnapshot
      <4>4. row = Row(k)'
        BY <2>3, <4>1
      <4> QED
        BY <4>3, <4>4, Zenon DEF Current, Coming
    <3> QED
      BY <1>2, <3>1, <3>2, Zenon
  <2> QED
    BY <2>4, <2>5
<1> QED
  BY <1>1, <1>3, <1>4, IngestIs DEF SourceInv, RowsInv


\* A snapshot of everything that exists is what the exchange has.
LEMMA FetchIsSound ==
    ASSUME SourceInv, SoundInv, FetchSnapshot
    PROVE  SoundInv' /\ SnapshotInv'
<1>1. /\ clock' = clock /\ exchange' = exchange /\ stream' = stream /\ inbox' = inbox
      /\ events' = events /\ facts' = facts /\ sound' = sound
  BY DEF FetchSnapshot, remote, store
<1>2. SoundInv'
  BY <1>1, SoundStands
<1>3. PICK keys \in SUBSET Existing :
          snapshot' = [at |-> 0, facts |-> [k \in keys |-> exchange[k]],
                       sound |-> stream = "up" /\ keys = Existing]
  BY Zenon DEF FetchSnapshot
<1>4. PICK v : v = (stream = "up" /\ keys = Existing)
  BY Zenon
<1>5. PICK x : x = [k \in keys |-> exchange[k]]
  OBVIOUS
<1>6. snapshot' = [at |-> 0, facts |-> x, sound |-> v]
  BY <1>3, <1>4, <1>5, Zenon
<1>7. snapshot'.facts = x /\ snapshot'.sound = v
  BY <1>6
<1>8. SnapshotInv'
  <2> SUFFICES ASSUME snapshot'.sound
               PROVE  stream' = "up" /\ \A k \in Replaced : Current(Row(k), k)'
    BY Zenon DEF SnapshotInv, Replaced
  <2>1. stream = "up" /\ keys = Existing
    BY <1>4, <1>7, Zenon
  <2>2. ASSUME NEW k \in Replaced PROVE Current(Row(k), k)'
    <3>1. k \in Keys /\ exchange[k] \in Version
      BY DEF Replaced, Keys, SourceInv, ExchangeInv
    <3>2. Row(k)' = exchange[k]
      <4>1. CASE k \in Existing
        BY <1>5, <1>7, <2>1, <4>1 DEF Row
      <4>2. CASE k \notin Existing
        <5>1. exchange[k] = Absent
          BY <4>2 DEF Existing, Replaced
        <5>2. Row(k)' = Absent
          BY <1>5, <1>7, <2>1, <4>2 DEF Row
        <5> QED
          BY <5>1, <5>2
      <4> QED
        BY <4>1, <4>2
    <3> QED
      BY <1>1, <3>1, <3>2 DEF Current, Version
  <2> QED
    BY <1>1, <2>1, <2>2
<1> QED
  BY <1>2, <1>8

\* A stamp makes the wallet facts of a snapshot later, and they are current or it is unsound.
LEMMA StampIsSound ==
    ASSUME SourceInv, SoundInv, SnapshotInv, StampSnapshot
    PROVE  SoundInv' /\ SnapshotInv'
<1>1. /\ clock' = clock /\ exchange' = exchange /\ stream' = stream /\ inbox' = inbox
      /\ events' = events /\ facts' = facts /\ sound' = sound /\ applied' = applied
  BY DEF StampSnapshot, remote, store
<1>2. SoundInv'
  BY <1>1, SoundStands
<1>3. /\ DOMAIN snapshot'.facts = DOMAIN snapshot.facts
      /\ \A k \in DOMAIN snapshot.facts :
             snapshot'.facts[k] = IF k \in Assets
                                  THEN [at |-> clock, rev |-> snapshot.facts[k].rev]
                                  ELSE snapshot.facts[k]
      /\ snapshot'.sound => snapshot.sound /\ \A k \in Assets : exchange[k].rev # 0 =>
                                k \in DOMAIN snapshot.facts /\ exchange[k] = snapshot.facts[k]
  BY StampHolds
<1>4. SnapshotInv'
  <2> SUFFICES ASSUME snapshot'.sound
               PROVE  /\ stream' = "up"
                      /\ \A k \in Replaced :
                             (Current(Row(k), k) \/ Coming(Row(k), k, events \cup applied))'
    BY Zenon DEF SnapshotInv, Replaced
  <2>1. /\ snapshot.sound /\ stream = "up"
        /\ \A k \in Assets : exchange[k].rev # 0 =>
               k \in DOMAIN snapshot.facts /\ exchange[k] = snapshot.facts[k]
    BY <1>3, Zenon DEF SnapshotInv
  <2>2. ASSUME NEW k \in Replaced
        PROVE  (Current(Row(k), k) \/ Coming(Row(k), k, events \cup applied))'
    <3>1. CASE k \notin Assets
      <4>1. Row(k)' = Row(k)
        BY <1>3, <3>1 DEF Row
      <4>2. Current(Row(k), k) \/ Coming(Row(k), k, events \cup applied)
        BY <2>1, Zenon DEF SnapshotInv
      <4> QED
        BY <1>1, <4>1, <4>2 DEF Current, Coming, Latest, OnItsWay
    <3>2. CASE k \in Assets
      <4>1. /\ k \in Keys /\ exchange[k].at <= clock /\ exchange[k] \in Version /\ clock \in Nat
            /\ exchange[k].rev = 0 => exchange[k] = Absent
            /\ Possible(Row(k), k)
        BY <3>2 DEF Keys, SourceInv, ExchangeInv, HeldInv
      <4>2. Row(k).rev = exchange[k].rev
        <5>1. CASE exchange[k].rev # 0
          BY <2>1, <3>2, <5>1 DEF Row
        <5>2. CASE exchange[k].rev = 0
          <6>1. Row(k).rev \in Nat /\ Row(k).rev <= 0
            BY <4>1, <5>2 DEF Possible, Version
          <6> QED
            BY <5>2, <6>1
        <5> QED
          BY <5>1, <5>2
      <4>3. CASE k \in DOMAIN snapshot.facts
        <5>1. Row(k)' = [at |-> clock, rev |-> Row(k).rev]
          BY <1>3, <3>2, <4>3 DEF Row
        <5>2. Row(k)'.at = clock /\ Row(k)'.rev = exchange[k].rev
          BY <4>2, <5>1
        <5>3. exchange[k].at \in Nat
          BY <4>1 DEF Version
        <5>4. Row(k)'.rev = exchange'[k].rev /\ Row(k)'.at >= exchange'[k].at
          BY <1>1, <4>1, <5>2, <5>3
        <5> QED
          BY <5>4 DEF Current
      <4>4. CASE k \notin DOMAIN snapshot.facts
        <5>1. Row(k)' = Absent /\ Row(k) = Absent
          BY <1>3, <4>4 DEF Row
        <5>2. exchange[k] = Absent
          BY <4>1, <4>2, <5>1 DEF Absent
        <5>3. Row(k)'.rev = exchange'[k].rev /\ Row(k)'.at >= exchange'[k].at
          BY <1>1, <5>1, <5>2 DEF Absent
        <5> QED
          BY <5>3 DEF Current
      <4> QED
        BY <4>3, <4>4
    <3> QED
      BY <3>1, <3>2
  <2> QED
    BY <1>1, <2>1, <2>2
<1> QED
  BY <1>2, <1>4

\* The reconciliation makes the rows what the snapshot holds.
LEMMA ApplyIsSound ==
    ASSUME SourceInv, SnapshotInv, ApplyReconciliation
    PROVE  SoundInv' /\ SnapshotInv'
<1>1. /\ exchange' = exchange /\ stream' = stream /\ inbox' = inbox /\ events' = events
      /\ snapshot' = snapshot /\ sound' = snapshot.sound
      /\ applied' = {Fact(k, facts'[k]) : k \in {j \in Keys : facts'[j] # Absent}}
  BY Zenon DEF ApplyReconciliation, remote
<1>2. facts' = [k \in Keys |-> IF k \in DOMAIN snapshot.facts THEN snapshot.facts[k]
                               ELSE IF k \in Execs THEN facts[k] ELSE Absent]
  BY DEF ApplyReconciliation
<1>3. ASSUME NEW k \in Replaced PROVE k \in Keys /\ facts'[k] = Row(k) /\ Row(k)' = Row(k)
  <2>1. k \in Keys /\ k \notin Execs
    BY KeyAssumption DEF KeyAssumption, Replaced, Keys
  <2> QED
    BY <1>1, <1>2, <2>1 DEF Row
<1>4. ASSUME NEW k \in Replaced
      PROVE  Latest(k)' = Latest(k) /\ (OnItsWay(k)' <=> OnItsWay(k))
  BY <1>1 DEF Latest, OnItsWay
<1>5. ASSUME NEW k \in Replaced, Row(k).rev < exchange[k].rev
      PROVE  Latest(k) \notin applied'
  <2>1. exchange[k].rev \in Nat /\ Row(k).rev \in Nat
    BY <1>3 DEF SourceInv, ExchangeInv, HeldInv, Possible, Version
  <2>2. Row(k).rev # exchange[k].rev
    BY <1>5, <2>1
  <2>3. ASSUME Latest(k) \in applied' PROVE FALSE
    <3>1. PICK j \in Keys : Latest(k) = Fact(j, facts'[j])
      BY <1>1, <2>3
    <3>2. k = j /\ exchange[k].rev = facts'[j].rev
      BY <3>1, FactIs DEF Latest
    <3> QED
      BY <1>3, <2>2, <3>2
  <2> QED
    BY <2>3
<1>6. ASSUME snapshot.sound, NEW k \in Replaced
      PROVE  /\ (Current(facts[k], k) \/ Coming(facts[k], k, events))'
             /\ (Current(Row(k), k) \/ Coming(Row(k), k, events \cup applied))'
  <2>1. CASE Current(Row(k), k)
    BY <1>1, <1>3, <2>1 DEF Current
  <2>2. CASE Coming(Row(k), k, events \cup applied)
    BY <1>1, <1>3, <1>4, <1>5, <2>2 DEF Coming
  <2> QED
    BY <1>6, <2>1, <2>2, Zenon DEF SnapshotInv
<1>7. snapshot.sound => stream' = "up"
  BY <1>1, Zenon DEF SnapshotInv
<1>8. SoundInv'
  BY <1>1, <1>6, <1>7, Zenon DEF SoundInv, Replaced
<1>9. SnapshotInv'
  BY <1>1, <1>6, <1>7, Zenon DEF SnapshotInv, Replaced
<1> QED
  BY <1>8, <1>9

LEMMA SoundStep ==
    ASSUME SourceInv, SoundInv, SnapshotInv, [Next]_vars
    PROVE  SoundInv' /\ SnapshotInv'
<1>0. ExchangeInv' /\ Grows
  BY SourceStep DEF SourceInv
<1>1. ASSUME UNCHANGED <<exchange, stream, inbox, events, facts, snapshot, applied, sound>>
      PROVE  SoundInv' /\ SnapshotInv'
  BY <1>1, SoundStands, SnapshotStands
<1>2. CASE Tick
  BY <1>1, <1>2 DEF Tick, store
<1>3. CASE \E topic \in Topics : \E keys \in SUBSET topic \ {{}}, foreign \in BOOLEAN :
               Change(keys, foreign)
  <2>1. PICK topic \in Topics : \E keys \in SUBSET topic, foreign \in BOOLEAN :
                                    Change(keys, foreign)
    BY <1>3
  <2>2. PICK keys \in SUBSET topic, foreign \in BOOLEAN : Change(keys, foreign)
    BY <2>1
  <2> QED
    BY <2>2, ChangeKeepsSound
<1>4. CASE ConnectionLost
  BY <1>0, <1>4, Unsound, Zenon DEF ConnectionLost
<1>5. CASE RecordDisconnect
  BY <1>0, <1>5, Unsound, Zenon DEF RecordDisconnect
<1>6. CASE RecordConnected
  <2>1. /\ stream = "down"
        /\ UNCHANGED <<exchange, inbox, events, facts, snapshot, applied, sound>>
    BY <1>6 DEF RecordConnected
  <2>2. ~sound /\ ~snapshot.sound
    BY <2>1 DEF SoundInv, SnapshotInv
  <2>3. sound' = sound /\ snapshot' = snapshot
    BY <2>1
  <2> QED
    BY <2>2, <2>3, Zenon DEF SoundInv, SnapshotInv
<1>7. CASE \E m \in inbox : ParseError(m) \/ IngestTopic(m)
  <2>1. PICK m \in inbox : ParseError(m) \/ IngestTopic(m)
    BY <1>7
  <2>2. CASE ParseError(m)
    BY <1>0, <2>2, Unsound, Zenon DEF ParseError
  <2>3. CASE IngestTopic(m)
    BY <1>0, <2>3, IngestKeepsBoth
  <2> QED
    BY <2>1, <2>2, <2>3
<1>8. CASE FetchSnapshot
  BY <1>8, FetchIsSound
<1>9. CASE StampSnapshot
  BY <1>9, StampIsSound
<1>10. CASE ApplyReconciliation
  BY <1>10, ApplyIsSound
<1>11. CASE Restart
  <2>1. sound' = FALSE /\ snapshot' = NoSnapshot
    BY <1>11 DEF Restart
  <2>2. PICK no : no = FALSE
    BY Zenon
  <2>3. PICK x : x = [k \in {} |-> Absent]
    OBVIOUS
  <2>4. snapshot' = [at |-> 0, facts |-> x, sound |-> no]
    BY <2>1, <2>2, <2>3, Zenon DEF NoSnapshot
  <2>5. snapshot'.sound = no
    BY <2>4
  <2> QED
    BY <2>1, <2>2, <2>5, Zenon DEF SoundInv, SnapshotInv
<1>12. CASE UNCHANGED vars
  BY <1>1, <1>12 DEF vars
<1> QED
  BY <1>2, <1>3, <1>4, <1>5, <1>6, <1>7, <1>8, <1>9, <1>10, <1>11, <1>12 DEF Next


(***************************************************************************)
(* What is served, once every message is in.                               *)
(***************************************************************************)

\* New entries are allowed exactly when every asset has the balance that is expected of it.
LEMMA AllowedWhenExpected ==
    ASSUME NEW held, NEW local,
           \A a \in DOMAIN held : held[a].total \in Nat,
           \A a \in DOMAIN local : local[a].expected \in Nat
    PROVE  AllowsNewEntries(Reconcile(held, local)) <=>
               \A a \in DOMAIN held \cup DOMAIN local :
                   BalanceOf(held, a, NothingHeld).total
                      = BalanceOf(local, a, NothingExpected).expected
<1> DEFINE D == DOMAIN held \cup DOMAIN local
           h(a) == BalanceOf(held, a, NothingHeld)
           l(a) == BalanceOf(local, a, NothingExpected)
<1>1. ASSUME NEW a \in D
      PROVE  IsBalanced(AssetReconciliation(h(a), l(a))) <=> h(a).total = l(a).expected
  <2>1. h(a).total \in Nat
    BY DEF BalanceOf, NothingHeld, ExchangeAssetBalance
  <2>2. l(a).expected \in Nat
    BY DEF BalanceOf, NothingExpected
  <2> HIDE DEF h, l
  <2>3. PICK x, y : x = h(a).total /\ y = l(a).expected
    OBVIOUS
  <2>4. /\ AssetReconciliation(h(a), l(a)).unknown = IF x >= y THEN x - y ELSE 0
        /\ AssetReconciliation(h(a), l(a)).shortfall = IF x >= y THEN 0 ELSE y - x
    BY <2>3 DEF AssetReconciliation
  <2>5. /\ (IF x >= y THEN x - y ELSE 0) = 0 /\ (IF x >= y THEN 0 ELSE y - x) = 0 <=> x = y
    BY <2>1, <2>2, <2>3
  <2> QED
    BY <2>3, <2>4, <2>5 DEF IsBalanced
<1>2. Reconcile(held, local) = [a \in D |-> AssetReconciliation(h(a), l(a))]
  BY DEF Reconcile
<1> HIDE DEF h, l, D
<1>3. AllowsNewEntries(Reconcile(held, local)) <=> \A a \in D : h(a).total = l(a).expected
  BY <1>1, <1>2 DEF AllowsNewEntries
<1> QED
  BY <1>3 DEF h, l, D

\* The balance of a wallet is its revision, free and locked together.
LEMMA WalletTotal ==
    ASSUME NEW rows \in [Keys -> Version]
    PROVE  \A a \in Assets :
               /\ BalanceOf(Wallets(rows), a, NothingHeld).total = rows[a].rev
               /\ rows[a].rev \in Nat
               /\ a \notin DOMAIN Wallets(rows) => rows[a].rev = 0
<1> TAKE a \in Assets
<1> DEFINE W == {b \in Assets : rows[b] # Absent}
           w(b) == ExchangeAssetBalance(rows[b].rev - (rows[b].rev \div 2), rows[b].rev \div 2)
<1>1. rows[a] \in Version /\ rows[a].rev \in Nat
  BY DEF Keys, Version
<1>2. Wallets(rows) = [b \in W |-> w(b)]
  BY DEF Wallets
<1>3. w(a).total = rows[a].rev
  <2>1. rows[a].rev \div 2 \in Int
    BY <1>1
  <2>2. w(a).total = (rows[a].rev - (rows[a].rev \div 2)) + (rows[a].rev \div 2)
    BY DEF ExchangeAssetBalance
  <2>3. PICK r, q : r = rows[a].rev /\ q = rows[a].rev \div 2
    OBVIOUS
  <2>4. r \in Int /\ q \in Int /\ (r - q) + q = r
    BY <1>1, <2>1, <2>3
  <2> QED
    BY <2>2, <2>3, <2>4
<1> HIDE DEF w
<1>4. DOMAIN Wallets(rows) = W
  BY <1>2
<1>5. CASE a \in W
  <2>1. BalanceOf(Wallets(rows), a, NothingHeld) = w(a)
    BY <1>2, <1>4, <1>5 DEF BalanceOf
  <2> QED
    BY <1>1, <1>3, <1>4, <1>5, <2>1
<1>6. CASE a \notin W
  <2>1. rows[a] = Absent
    BY <1>6
  <2>2. rows[a].rev = 0
    BY <2>1 DEF Absent
  <2>3. BalanceOf(Wallets(rows), a, NothingHeld) = NothingHeld
    BY <1>4, <1>6 DEF BalanceOf
  <2>4. NothingHeld.total = 0
    BY DEF NothingHeld, ExchangeAssetBalance
  <2> QED
    BY <2>2, <2>3, <2>4
<1> QED
  BY <1>5, <1>6

LEMMA SoundIsServed ==
    ASSUME SourceInv, SoundInv
    PROVE  ServedFactsAreCurrent
<1> SUFFICES ASSUME sound, inbox = {}
             PROVE  /\ Served(facts) = Served(exchange)
                    /\ \A local \in LocalBalances :
                           AllowsNewEntries(ContextPortfolio(local)) <=>
                               \A a \in Assets :
                                   exchange[a].rev = BalanceOf(local, a, NothingExpected).expected
  BY Zenon DEF ServedFactsAreCurrent
<1>1. \A k \in Replaced : facts[k].rev = exchange[k].rev
  <2>1. \A k \in Replaced : Current(facts[k], k) \/ OnItsWay(k)
    BY Zenon DEF SoundInv, Coming
  <2>2. \A k \in Replaced : ~OnItsWay(k)
    BY DEF OnItsWay
  <2> QED
    BY <2>1, <2>2 DEF Current
<1>2. Served(facts) = Served(exchange)
  <2>1. OpenOrders(facts) = OpenOrders(exchange)
    BY <1>1 DEF OpenOrders, IsOpen, Replaced
  <2>2. \A k \in OpenOrders(exchange) \cup Assets : facts[k].rev = exchange[k].rev
    BY <1>1 DEF OpenOrders, Replaced
  <2> QED
    BY <2>1, <2>2 DEF Served
<1>3. ASSUME NEW local \in LocalBalances
      PROVE  AllowsNewEntries(ContextPortfolio(local)) <=>
                 \A a \in Assets :
                     exchange[a].rev = BalanceOf(local, a, NothingExpected).expected
  <2>1. PICK known \in SUBSET Assets :
            local \in [known -> {[expected |-> n, managed |-> n] : n \in Expected}]
    BY DEF LocalBalances
  <2>2. DOMAIN local = known /\ \A a \in known : local[a].expected \in Nat
    BY <2>1, BoundAssumption DEF BoundAssumption
  <2> DEFINE W == Wallets(facts)
  <2>3. facts \in [Keys -> Version]
    BY DEF SourceInv, RowsInv
  <2>4. \A a \in Assets : /\ BalanceOf(W, a, NothingHeld).total = facts[a].rev
                          /\ facts[a].rev \in Nat
                          /\ a \notin DOMAIN W => facts[a].rev = 0
    BY <2>3, WalletTotal
  <2>5. DOMAIN W \subseteq Assets
    BY DEF Wallets
  <2> HIDE DEF W
  <2>6. \A a \in DOMAIN W : W[a].total \in Nat
    <3>1. \A a \in DOMAIN W : BalanceOf(W, a, NothingHeld) = W[a]
      BY DEF BalanceOf
    <3> QED
      BY <2>4, <2>5, <3>1
  <2>7. AllowsNewEntries(Reconcile(W, local)) <=>
            \A a \in DOMAIN W \cup known :
                BalanceOf(W, a, NothingHeld).total = BalanceOf(local, a, NothingExpected).expected
    BY <2>2, <2>6, AllowedWhenExpected
  <2>8. \A a \in Assets : a \notin known =>
            BalanceOf(local, a, NothingExpected).expected = 0
    BY <2>2 DEF BalanceOf, NothingExpected
  <2>9. \A a \in Assets : facts[a].rev = exchange[a].rev
    BY <1>1 DEF Replaced
  <2>10. \A a \in Assets \ (DOMAIN W \cup known) :
             exchange[a].rev = BalanceOf(local, a, NothingExpected).expected
    BY <2>4, <2>8, <2>9
  <2>11. \A a \in DOMAIN W \cup known : a \in Assets
    BY <2>5
  <2>12. (\A a \in DOMAIN W \cup known :
             BalanceOf(W, a, NothingHeld).total = BalanceOf(local, a, NothingExpected).expected)
         <=> \A a \in Assets : exchange[a].rev = BalanceOf(local, a, NothingExpected).expected
    BY <2>4, <2>9, <2>10, <2>11, Zenon
  <2> QED
    BY <2>7, <2>12 DEF ContextPortfolio, W
<1> QED
  BY <1>2, <1>3

\* What load_context_facts serves once all messages are in is what the exchange has, and
\* the portfolio of the context allows new entries exactly when every balance is the one
\* the local ledger expects, as long as the stream and the snapshot missed nothing.
THEOREM ServedIsCurrent == Spec => []ServedFactsAreCurrent
<1>1. Init => SourceInv /\ SoundInv /\ SnapshotInv
  <2> SUFFICES ASSUME Init PROVE SoundInv /\ SnapshotInv
    BY SourceInit
  <2>1. PICK no : no = FALSE
    BY Zenon
  <2>2. PICK x : x = [k \in {} |-> Absent]
    OBVIOUS
  <2>3. snapshot = [at |-> 0, facts |-> x, sound |-> no]
    BY <2>1, <2>2, Zenon DEF Init, NoSnapshot
  <2>4. snapshot.sound = no
    BY <2>3
  <2> QED
    BY <2>1, <2>4, Zenon DEF Init, SoundInv, SnapshotInv
<1>2. SourceInv /\ SoundInv /\ SnapshotInv /\ [Next]_vars => SourceInv' /\ SoundInv' /\ SnapshotInv'
  BY SourceStep, SoundStep
<1>3. SourceInv /\ SoundInv => ServedFactsAreCurrent
  BY SoundIsServed
<1> QED
  BY <1>1, <1>2, <1>3, PTL DEF Spec

(***************************************************************************)
(* Types: everything that is stored or on its way is a revision of the     *)
(* exchange, none of them is revision 0, and none is of the future.        *)
(***************************************************************************)
Letter(m) == m = [facts |-> m.facts, foreign |-> m.foreign] /\ m.foreign \in BOOLEAN
Bounds ==
    /\ clock \in 1..MaxClock /\ stream \in {"up", "lost", "down"}
    /\ \A k \in Keys : exchange[k].rev <= MaxRev
    /\ \A m \in inbox : Letter(m)
    /\ sync.generation <= MaxGen
    /\ \A m \in evidence : m[1] \in 1..MaxGen /\ m[2] \in 1..MaxClock
HeldTypes ==
    /\ snapshot.at \in 0..MaxClock
    /\ \A k \in DOMAIN snapshot.facts : snapshot.facts[k].rev # 0
    /\ snapshot.sound \in BOOLEAN /\ sound \in BOOLEAN
RowTypes ==
    /\ \A k \in Keys : facts[k].rev = 0 => facts[k] = Absent
    /\ \A f \in events \cup applied : f \in Sent /\ f.at <= clock

TypeInv == Bounds /\ HeldTypes /\ RowTypes

LEMMA InitTypes == Init => TypeInv
<1> SUFFICES ASSUME Init PROVE TypeInv
  OBVIOUS
<1>1. \A k \in Keys : exchange[k] = Absent /\ facts[k] = Absent
  BY DEF Init
<1>2. Absent.rev = 0 /\ 0 <= MaxRev /\ 0 <= MaxGen /\ 1 \in 1..MaxClock /\ 0 \in 0..MaxClock
  BY BoundAssumption DEF Absent
<1>3. sync.generation = 0
  BY DEF Init
<1>4. Bounds
  BY <1>1, <1>2, <1>3 DEF Init, Bounds
<1>5. RowTypes
  BY <1>1, <1>2 DEF Init, RowTypes
<1>6. HeldTypes
  <2>1. PICK no : no = FALSE
    BY Zenon
  <2>2. PICK x : x = [k \in {} |-> Absent]
    OBVIOUS
  <2>3. snapshot = [at |-> 0, facts |-> x, sound |-> no]
    BY <2>1, <2>2, Zenon DEF Init, NoSnapshot
  <2>4. snapshot.at = 0 /\ snapshot.facts = x /\ snapshot.sound = no /\ DOMAIN x = {}
    BY <2>2, <2>3
  <2>5. sound = no
    BY <2>1, Zenon DEF Init
  <2>6. no \in BOOLEAN
    BY <2>1, Zenon
  <2> QED
    BY <1>2, <2>4, <2>5, <2>6, Zenon DEF HeldTypes
<1> QED
  BY <1>4, <1>5, <1>6 DEF TypeInv

\* A disconnect that is recorded was still within the bound.
LEMMA DisconnectBound ==
    ASSUME SyncType, sync.generation < MaxGen, sync' = AfterDisconnect
    PROVE  sync'.generation <= MaxGen
<1>1. sync'.generation = sync.generation \/ sync'.generation = sync.generation + 1
  BY DEF AfterDisconnect
<1> QED
  BY <1>1, BoundAssumption DEF SyncType

LEMMA ChangeBounds ==
    ASSUME ExchangeInv, Bounds, NEW topic \in Topics, NEW keys \in SUBSET topic,
           NEW foreign \in BOOLEAN, Change(keys, foreign)
    PROVE  Bounds'
<1>1. /\ clock' = clock /\ UNCHANGED <<stream, sync, evidence>>
      /\ \A k \in keys : exchange[k].rev < RevLimit(k)
  BY DEF Change, store
<1>2. /\ keys \subseteq Keys
      /\ \A k \in Keys \ keys : exchange'[k] = exchange[k]
      /\ \A k \in keys : exchange'[k] = [at |-> clock, rev |-> exchange[k].rev + 1]
  BY Changed
<1>3. ASSUME NEW k \in Keys PROVE exchange'[k].rev <= MaxRev
  <2>1. CASE k \in keys
    <3>0. exchange'[k] = [at |-> clock, rev |-> exchange[k].rev + 1]
      BY <1>2, <2>1, Zenon
    <3>1. exchange'[k].rev = exchange[k].rev + 1
      BY <3>0
    <3>2. exchange[k] \in Version
      BY DEF ExchangeInv
    <3>3. exchange[k].rev \in Nat
      BY <3>2 DEF Version
    <3>4. RevLimit(k) \in Nat /\ RevLimit(k) <= MaxRev
      BY BoundAssumption DEF RevLimit
    <3> QED
      BY <1>1, <2>1, <3>1, <3>3, <3>4, BoundAssumption
  <2>2. CASE k \notin keys
    BY <1>2, <2>2 DEF Bounds
  <2> QED
    BY <2>1, <2>2
<1>4. ASSUME NEW m \in inbox' PROVE Letter(m)
  <2>1. CASE m \in inbox
    BY <2>1 DEF Bounds
  <2>2. CASE m \notin inbox
    <3>1. \E s : m = [facts |-> s, foreign |-> foreign]
      BY <1>4, <2>2, Zenon DEF Change
    <3>2. PICK s : m = [facts |-> s, foreign |-> foreign]
      BY <3>1
    <3>3. m.facts = s /\ m.foreign = foreign
      BY <3>2
    <3> QED
      BY <3>2, <3>3, Zenon DEF Letter
  <2> QED
    BY <2>1, <2>2
<1>5. \A m \in inbox' : Letter(m)'
  BY <1>4 DEF Letter
<1> QED
  BY <1>1, <1>3, <1>5 DEF Bounds

LEMMA BoundsStep ==
    ASSUME SourceInv, EvidenceInv, TypeInv, [Next]_vars
    PROVE  Bounds'
<1>0. SyncType /\ ExchangeInv /\ Bounds /\ HeldTypes
  BY DEF EvidenceInv, SourceInv, TypeInv
<1>1. ASSUME clock' = clock, exchange' = exchange, stream' \in {"up", "lost", "down"},
             inbox' \subseteq inbox, sync'.generation <= MaxGen, evidence' = evidence
      PROVE  Bounds'
  BY <1>0, <1>1 DEF Bounds, Letter
<1>2. sync.generation <= MaxGen /\ stream \in {"up", "lost", "down"}
  BY <1>0 DEF Bounds
<1>3. CASE Tick
  <2>1. clock \in 1..MaxClock /\ clock' \in 1..MaxClock
    BY <1>0, <1>3, BoundAssumption DEF Tick, Bounds
  <2>2. UNCHANGED <<exchange, stream, inbox, sync, evidence>>
    BY <1>3 DEF Tick, store
  <2> QED
    BY <1>0, <2>1, <2>2 DEF Bounds, Letter
<1>4. CASE \E topic \in Topics : \E keys \in SUBSET topic \ {{}}, foreign \in BOOLEAN :
               Change(keys, foreign)
  BY <1>0, <1>4, ChangeBounds
<1>5. CASE ConnectionLost
  BY <1>1, <1>2, <1>5 DEF ConnectionLost, store
<1>6. CASE RecordDisconnect
  <2>1. sync.generation < MaxGen /\ sync' = AfterDisconnect
    BY <1>6 DEF RecordDisconnect
  <2>2. sync'.generation <= MaxGen
    BY <1>0, <2>1, DisconnectBound
  <2> QED
    BY <1>1, <1>6, <2>2 DEF RecordDisconnect
<1>7. CASE RecordConnected
  <2>1. sync'.generation = sync.generation
    BY <1>0, <1>7 DEF RecordConnected, AfterConnect, SyncType
  <2> QED
    BY <1>1, <1>2, <1>7, <2>1 DEF RecordConnected
<1>8. CASE \E m \in inbox : ParseError(m)
  <2>1. sync.generation < MaxGen /\ sync' = AfterDisconnect
    BY <1>8 DEF ParseError
  <2>2. sync'.generation <= MaxGen
    BY <1>0, <2>1, DisconnectBound
  <2> QED
    BY <1>1, <1>2, <1>8, <2>2 DEF ParseError
<1>9. CASE \E m \in inbox : IngestTopic(m)
  BY <1>1, <1>2, <1>9 DEF IngestTopic
<1>10. CASE FetchSnapshot
  BY <1>1, <1>2, <1>10 DEF FetchSnapshot, remote, store
<1>11. CASE StampSnapshot
  BY <1>1, <1>2, <1>11 DEF StampSnapshot, remote, store
<1>12. CASE ApplyReconciliation
  <2>1. /\ UNCHANGED <<clock, exchange, stream, inbox>>
        /\ sync' = [sync EXCEPT !.state = "RECONCILED"] /\ evidence' = evidence \cup {Manifest}
        /\ snapshot.at # 0 /\ sync.state = "RECOVERY_REQUIRED"
    BY <1>12 DEF ApplyReconciliation, remote, Reconciles
  <2>2. sync'.generation = sync.generation
    BY <1>0, <2>1 DEF SyncType
  <2>3. sync.generation \in 1..MaxGen
    BY <1>0, <2>1, BoundAssumption DEF EvidenceInv, SyncType, Bounds
  <2>4. snapshot.at \in 1..MaxClock
    BY <1>0, <2>1, BoundAssumption DEF HeldTypes
  <2>5. Manifest[1] = sync.generation /\ Manifest[2] = snapshot.at
    BY DEF Manifest
  <2>6. \A m \in evidence' : m[1] \in 1..MaxGen /\ m[2] \in 1..MaxClock
    BY <1>0, <2>1, <2>3, <2>4, <2>5 DEF Bounds
  <2> QED
    BY <1>0, <1>2, <2>1, <2>2, <2>6 DEF Bounds, Letter
<1>13. CASE Restart
  BY <1>1, <1>2, <1>13 DEF Restart, store
<1>14. CASE UNCHANGED vars
  BY <1>1, <1>2, <1>14 DEF vars
<1> QED
  BY <1>3, <1>4, <1>5, <1>6, <1>7, <1>8, <1>9, <1>10, <1>11, <1>12, <1>13, <1>14 DEF Next

LEMMA MarkedTypes ==
    ASSUME IsHeld(snapshot), HeldTypes, NEW v \in BOOLEAN, NEW w \in BOOLEAN,
           snapshot' = [snapshot EXCEPT !.sound = v], sound' = w
    PROVE  HeldTypes'
<1>1. PICK b : b = snapshot'
  OBVIOUS
<1>2. b = [snapshot EXCEPT !.sound = v]
  BY <1>1, Zenon
<1>3. b.at = snapshot.at /\ b.facts = snapshot.facts /\ b.sound = v
  BY <1>2, HeldOn
<1> QED
  BY <1>1, <1>3, Zenon DEF HeldTypes

\* What was fetched exists, and what is stamped is of now.
LEMMA FetchTypes ==
    ASSUME ExchangeInv, HeldTypes, FetchSnapshot
    PROVE  HeldTypes'
<1>1. PICK keys \in SUBSET Existing :
          snapshot' = [at |-> 0, facts |-> [k \in keys |-> exchange[k]],
                       sound |-> stream = "up" /\ keys = Existing]
  BY Zenon DEF FetchSnapshot
<1>2. PICK v \in BOOLEAN : v = (stream = "up" /\ keys = Existing)
  BY Zenon
<1>3. PICK x : x = [k \in keys |-> exchange[k]]
  OBVIOUS
<1>4. snapshot' = [at |-> 0, facts |-> x, sound |-> v]
  BY <1>1, <1>2, <1>3, Zenon
<1>5. snapshot'.at = 0 /\ snapshot'.facts = x /\ snapshot'.sound = v
  BY <1>4
<1>6. \A k \in DOMAIN x : x[k].rev # 0
  BY <1>3 DEF Existing, Keys, ExchangeInv
<1>7. 0 \in 0..MaxClock /\ sound' = sound
  BY BoundAssumption DEF FetchSnapshot
<1> QED
  BY <1>2, <1>5, <1>6, <1>7, Zenon DEF HeldTypes

LEMMA StampTypes ==
    ASSUME SourceInv, Bounds, HeldTypes, StampSnapshot
    PROVE  HeldTypes'
<1>1. PICK v \in BOOLEAN : v = (snapshot.sound /\ \A k \in Assets : exchange[k].rev # 0 =>
                        k \in DOMAIN snapshot.facts /\ exchange[k] = snapshot.facts[k])
  BY Zenon
<1>2. PICK x : x = [k \in DOMAIN snapshot.facts |->
                        IF k \in Assets THEN [snapshot.facts[k] EXCEPT !.at = clock]
                        ELSE snapshot.facts[k]]
  OBVIOUS
<1>3. snapshot' = [at |-> clock, facts |-> x, sound |-> v]
  <2>1. snapshot' =
          [at |-> clock,
           facts |-> [k \in DOMAIN snapshot.facts |->
                          IF k \in Assets THEN [snapshot.facts[k] EXCEPT !.at = clock]
                                          ELSE snapshot.facts[k]],
           sound |-> snapshot.sound /\ \A k \in Assets : exchange[k].rev # 0 =>
                                           k \in DOMAIN snapshot.facts
                                           /\ exchange[k] = snapshot.facts[k]]
    BY Zenon DEF StampSnapshot
  <2> QED
    BY <1>1, <1>2, <2>1, Zenon
<1>4. snapshot'.at = clock /\ snapshot'.sound = v
  BY <1>3
<1>5. ASSUME NEW k \in DOMAIN snapshot.facts PROVE snapshot'.facts[k].rev # 0
  <2>1. snapshot.facts[k].rev # 0
    BY DEF HeldTypes
  <2>2. snapshot'.facts[k] = IF k \in Assets
                             THEN [at |-> clock, rev |-> snapshot.facts[k].rev]
                             ELSE snapshot.facts[k]
    BY StampHolds
  <2> QED
    BY <2>1, <2>2
<1>6. DOMAIN snapshot'.facts = DOMAIN snapshot.facts
  BY StampHolds
<1>7. clock \in 0..MaxClock /\ sound' = sound
  BY BoundAssumption DEF StampSnapshot, Bounds
<1> QED
  BY <1>1, <1>4, <1>5, <1>6, <1>7, Zenon DEF HeldTypes

\* No snapshot, and nothing known.
LEMMA NothingHeldTypes ==
    ASSUME snapshot' = NoSnapshot, sound' = FALSE
    PROVE  HeldTypes'
<1>1. PICK no \in BOOLEAN : no = FALSE
  BY Zenon
<1>2. PICK x : x = [k \in {} |-> Absent]
  OBVIOUS
<1>3. snapshot' = [at |-> 0, facts |-> x, sound |-> no] /\ sound' = no
  BY <1>1, <1>2, Zenon DEF NoSnapshot
<1>4. snapshot'.at = 0 /\ snapshot'.facts = x /\ snapshot'.sound = no /\ DOMAIN x = {}
  BY <1>2, <1>3
<1>5. 0 \in 0..MaxClock
  BY BoundAssumption
<1> QED
  BY <1>1, <1>3, <1>4, <1>5, Zenon DEF HeldTypes

LEMMA HeldTypesStep ==
    ASSUME SourceInv, Bounds, HeldTypes, [Next]_vars
    PROVE  HeldTypes'
<1>0. IsHeld(snapshot) /\ ExchangeInv
  BY DEF SourceInv, HeldInv
<1>1. ASSUME snapshot' = [snapshot EXCEPT !.sound = FALSE], sound' = FALSE PROVE HeldTypes'
  <2>1. PICK no \in BOOLEAN : no = FALSE
    BY Zenon
  <2>2. snapshot' = [snapshot EXCEPT !.sound = no] /\ sound' = no
    BY <1>1, <2>1, Zenon
  <2> QED
    BY <1>0, <2>2, MarkedTypes
<1>2. ASSUME snapshot' = snapshot, sound' = sound PROVE HeldTypes'
  BY <1>2 DEF HeldTypes
<1>3. CASE Tick
  BY <1>2, <1>3 DEF Tick
<1>4. CASE \E topic \in Topics : \E keys \in SUBSET topic \ {{}}, foreign \in BOOLEAN :
               Change(keys, foreign)
  <2>1. PICK topic \in Topics : \E keys \in SUBSET topic, foreign \in BOOLEAN :
                                    Change(keys, foreign)
    BY <1>4
  <2>2. PICK keys \in SUBSET topic, foreign \in BOOLEAN : Change(keys, foreign)
    BY <2>1
  <2>3. snapshot' = snapshot /\ sound' = (sound /\ stream = "up")
    BY <2>2, Zenon DEF Change
  <2>4. PICK v \in BOOLEAN : v = (sound /\ stream = "up")
    BY Zenon
  <2>5. sound' = v
    BY <2>3, <2>4, Zenon
  <2> QED
    BY <2>3, <2>4, <2>5, Zenon DEF HeldTypes
<1>5. CASE ConnectionLost
  BY <1>1, <1>5, Zenon DEF ConnectionLost
<1>6. CASE RecordDisconnect
  BY <1>1, <1>6, Zenon DEF RecordDisconnect
<1>7. CASE RecordConnected
  BY <1>2, <1>7 DEF RecordConnected
<1>8. CASE \E m \in inbox : ParseError(m) \/ IngestTopic(m)
  <2>1. PICK m \in inbox : ParseError(m) \/ IngestTopic(m)
    BY <1>8
  <2>2. CASE ParseError(m)
    BY <1>1, <2>2, Zenon DEF ParseError
  <2>3. CASE IngestTopic(m)
    <3>1. m.facts \in Seq(Sent) /\ OneFactEach(m.facts)
      BY DEF SourceInv, InboxInv
    <3>2. CASE Ingests(m.facts)
      <4>1. PICK v \in BOOLEAN : v = (snapshot.sound /\ applied' = applied)
        BY Zenon
      <4>2. snapshot' = [snapshot EXCEPT !.sound = @ /\ applied' = applied] /\ sound' = sound
        BY <3>2 DEF Ingests
      <4>3. snapshot' = [snapshot EXCEPT !.sound = v]
        BY <4>1, <4>2, Zenon
      <4>4. PICK w \in BOOLEAN : w = sound
        BY Zenon DEF HeldTypes
      <4> QED
        BY <1>0, <4>2, <4>3, <4>4, MarkedTypes
    <3>3. CASE Rejects
      BY <1>1, <3>3, Zenon DEF Rejects
    <3> QED
      BY <2>3, <3>1, <3>2, <3>3, IngestIs DEF SourceInv, RowsInv
  <2> QED
    BY <2>1, <2>2, <2>3
<1>9. CASE FetchSnapshot
  BY <1>0, <1>9, FetchTypes
<1>10. CASE StampSnapshot
  BY <1>10, StampTypes
<1>11. CASE ApplyReconciliation
  <2>1. snapshot' = snapshot /\ sound' = snapshot.sound
    BY <1>11 DEF ApplyReconciliation
  <2> QED
    BY <2>1, Zenon DEF HeldTypes
<1>12. CASE Restart
  BY <1>12, NothingHeldTypes, Zenon DEF Restart
<1>13. CASE UNCHANGED vars
  BY <1>2, <1>13 DEF vars
<1> QED
  BY <1>3, <1>4, <1>5, <1>6, <1>7, <1>8, <1>9, <1>10, <1>11, <1>12, <1>13 DEF Next

\* A fact that the exchange told of is not of the future.
LEMMA ToldBefore ==
    ASSUME ExchangeInv, NEW f \in Sent, Told(f)
    PROVE  f.at <= clock
<1>1. f.key \in Keys /\ f.at \in Nat /\ f.at <= exchange[f.key].at
  BY DEF Sent, Told
<1>2. exchange[f.key] \in Version /\ exchange[f.key].at <= clock /\ clock \in Nat
  BY <1>1 DEF ExchangeInv
<1>3. PICK x : x = exchange[f.key].at
  OBVIOUS
<1>4. x \in Nat
  BY <1>2, <1>3 DEF Version
<1> QED
  BY <1>1, <1>2, <1>3, <1>4

LEMMA IngestTypes ==
    ASSUME ExchangeInv, RowTypes, NEW s \in Seq(Sent), \A i \in DOMAIN s : Told(s[i]),
           Ingests(s), clock' = clock
    PROVE  RowTypes'
<1>1. ASSUME NEW i \in DOMAIN s
      PROVE  s[i] \in Sent /\ s[i].at <= clock /\ Stored(s[i]).rev # 0
  <2>1. s[i] \in Sent
    OBVIOUS
  <2>2. Stored(s[i]).rev = s[i].rev
    BY NewerIs
  <2> QED
    BY <2>1, <2>2, ToldBefore DEF Sent
<1>2. ASSUME NEW k \in Keys, facts'[k].rev = 0 PROVE facts'[k] = Absent
  <2>1. facts'[k] = facts[k] \/ \E i \in DOMAIN s : facts'[k] = Newer(facts[k], s[i])
    BY RowLeft
  <2>2. CASE facts'[k] = facts[k]
    BY <1>2, <2>2 DEF RowTypes
  <2>3. CASE \E i \in DOMAIN s : facts'[k] = Newer(facts[k], s[i])
    <3>1. PICK i \in DOMAIN s : facts'[k] = Newer(facts[k], s[i])
      BY <2>3
    <3>2. facts'[k] = facts[k] \/ facts'[k] = Stored(s[i])
      BY <3>1, NewerIs, Zenon
    <3>3. facts'[k] # Stored(s[i])
      BY <1>1, <1>2
    <3> QED
      BY <2>2, <3>2, <3>3
  <2> QED
    BY <2>1, <2>2, <2>3
<1>3. ASSUME NEW f \in events' \cup applied' PROVE f \in Sent /\ f.at <= clock
  <2>1. f \in events \cup applied \/ \E i \in DOMAIN s : f = s[i]
    BY <1>3 DEF Ingests
  <2> QED
    BY <1>1, <2>1 DEF RowTypes
<1> QED
  BY <1>2, <1>3 DEF RowTypes

\* The rows that a reconciliation leaves are those of the snapshot, and its facts.
LEMMA ApplyTypes ==
    ASSUME SourceInv, SourceInv', HeldTypes, RowTypes, ApplyReconciliation
    PROVE  RowTypes'
<1>1. /\ facts' = [k \in Keys |-> IF k \in DOMAIN snapshot.facts THEN snapshot.facts[k]
                                  ELSE IF k \in Execs THEN facts[k] ELSE Absent]
      /\ applied' = {Fact(k, facts'[k]) : k \in {j \in Keys : facts'[j] # Absent}}
      /\ events' = events /\ clock' = clock
  BY DEF ApplyReconciliation, remote
<1>2. ASSUME NEW k \in Keys, facts'[k].rev = 0 PROVE facts'[k] = Absent
  <2>1. k \in DOMAIN snapshot.facts => facts'[k].rev # 0
    BY <1>1 DEF HeldTypes
  <2> QED
    BY <1>1, <1>2, <2>1 DEF RowTypes
<1>3. ASSUME NEW f \in applied' PROVE f \in Sent /\ f.at <= clock
  <2>1. PICK k \in Keys : facts'[k] # Absent /\ f = Fact(k, facts'[k])
    BY <1>1
  <2>2. PICK row : row = facts'[k]
    OBVIOUS
  <2>3. row \in Version /\ row.at <= clock
    BY <1>1, <2>2 DEF SourceInv, RowsInv, Possible
  <2>4. row.rev # 0
    BY <1>2, <2>1, <2>2
  <2>5. f = [key |-> k, at |-> row.at, rev |-> row.rev]
    BY <2>1, <2>2 DEF Fact
  <2> QED
    BY <2>3, <2>4, <2>5 DEF Sent, Version
<1> QED
  BY <1>1, <1>2, <1>3 DEF RowTypes

LEMMA RowTypesStep ==
    ASSUME SourceInv, SourceInv', Grows, HeldTypes, RowTypes, [Next]_vars
    PROVE  RowTypes'
<1>0. clock \in Nat /\ clock' \in Nat /\ clock' >= clock
  BY DEF SourceInv, ExchangeInv, Grows
<1>1. ASSUME facts' = facts, events' = events, applied' = applied PROVE RowTypes'
  <2>1. ASSUME NEW f \in events \cup applied PROVE f \in Sent /\ f.at <= clock'
    <3>1. f \in Sent /\ f.at <= clock /\ f.at \in Nat
      BY DEF RowTypes, Sent
    <3> QED
      BY <1>0, <3>1
  <2> QED
    BY <1>1, <2>1 DEF RowTypes
<1>2. CASE Tick
  BY <1>1, <1>2 DEF Tick, store
<1>3. CASE \E topic \in Topics : \E keys \in SUBSET topic \ {{}}, foreign \in BOOLEAN :
               Change(keys, foreign)
  BY <1>1, <1>3 DEF Change, store
<1>4. CASE ConnectionLost
  BY <1>1, <1>4 DEF ConnectionLost, store
<1>5. CASE RecordDisconnect
  BY <1>1, <1>5 DEF RecordDisconnect
<1>6. CASE RecordConnected
  BY <1>1, <1>6 DEF RecordConnected
<1>7. CASE \E m \in inbox : ParseError(m) \/ IngestTopic(m)
  <2>1. PICK m \in inbox : ParseError(m) \/ IngestTopic(m)
    BY <1>7
  <2>2. CASE ParseError(m)
    BY <1>1, <2>2 DEF ParseError
  <2>3. CASE IngestTopic(m)
    <3>1. /\ m.facts \in Seq(Sent) /\ OneFactEach(m.facts)
          /\ \A i \in DOMAIN m.facts : Told(m.facts[i])
      BY DEF SourceInv, InboxInv
    <3>2. clock' = clock
      BY <2>3 DEF IngestTopic
    <3>3. CASE Ingests(m.facts)
      BY <3>1, <3>2, <3>3, IngestTypes DEF SourceInv
    <3>4. CASE Rejects
      BY <1>1, <3>4 DEF Rejects
    <3> QED
      BY <2>3, <3>1, <3>3, <3>4, IngestIs DEF SourceInv, RowsInv
  <2> QED
    BY <2>1, <2>2, <2>3
<1>8. CASE FetchSnapshot
  BY <1>1, <1>8 DEF FetchSnapshot, store
<1>9. CASE StampSnapshot
  BY <1>1, <1>9 DEF StampSnapshot, store
<1>10. CASE ApplyReconciliation
  BY <1>10, ApplyTypes
<1>11. CASE Restart
  BY <1>1, <1>11 DEF Restart, store
<1>12. CASE UNCHANGED vars
  BY <1>1, <1>12 DEF vars
<1> QED
  BY <1>2, <1>3, <1>4, <1>5, <1>6, <1>7, <1>8, <1>9, <1>10, <1>11, <1>12 DEF Next

LEMMA TypesHold ==
    ASSUME SourceInv, EvidenceInv, TypeInv
    PROVE  TypeOK
<1>1. clock \in 1..MaxClock /\ clock \in Nat /\ MaxClock \in Nat /\ MaxRev \in Nat
  BY BoundAssumption DEF TypeInv, Bounds
<1>2. ASSUME NEW k \in Keys
      PROVE  /\ exchange[k] \in Rows /\ facts[k] \in Rows
             /\ exchange[k].rev \in 0..MaxRev /\ exchange[k].at \in 0..MaxClock
  <2>1. PICK e, r : e = exchange[k] /\ r = facts[k]
    OBVIOUS
  <2>2. /\ e \in Version /\ e.at <= clock /\ e.rev <= MaxRev
        /\ r \in Version /\ r.at <= clock /\ r.rev <= e.rev
    BY <2>1 DEF SourceInv, ExchangeInv, RowsInv, Possible, TypeInv, Bounds
  <2>3. e.at \in 0..MaxClock /\ e.rev \in 0..MaxRev /\ r.at \in 0..MaxClock /\ r.rev \in 0..MaxRev
    BY <1>1, <2>2 DEF Version
  <2>4. e = [at |-> e.at, rev |-> e.rev] /\ r = [at |-> r.at, rev |-> r.rev]
    BY <2>2 DEF Version
  <2>5. e \in Rows /\ r \in Rows
    BY <2>3, <2>4 DEF Rows
  <2> QED
    BY <2>1, <2>3, <2>5
<1>3. exchange \in [Keys -> Rows] /\ facts \in [Keys -> Rows]
  <2> HIDE DEF Rows
  <2> QED
    BY <1>2 DEF SourceInv, ExchangeInv, RowsInv
<1>4. ASSUME NEW f \in Sent, f.rev <= exchange[f.key].rev, f.at <= clock PROVE f \in Facts
  <2>1. /\ f.key \in Keys /\ f.at \in Nat /\ f.rev \in Nat /\ f.rev # 0
        /\ f = [key |-> f.key, at |-> f.at, rev |-> f.rev]
    BY DEF Sent
  <2>2. exchange[f.key].rev \in 0..MaxRev
    BY <1>2, <2>1
  <2>3. f.at \in 0..MaxClock /\ f.rev \in 1..MaxRev
    BY <1>1, <1>4, <2>1, <2>2
  <2> QED
    BY <2>1, <2>3 DEF Facts
<1>5. ASSUME NEW m \in inbox PROVE m \in [facts : Seq(Facts), foreign : BOOLEAN]
  <2>1. /\ m.facts \in Seq(Sent) /\ \A i \in DOMAIN m.facts : Told(m.facts[i])
        /\ m = [facts |-> m.facts, foreign |-> m.foreign] /\ m.foreign \in BOOLEAN
    BY DEF SourceInv, InboxInv, TypeInv, Bounds, Letter
  <2>2. PICK s : s = m.facts
    OBVIOUS
  <2>3. \A i \in DOMAIN s : s[i] \in Facts
    <3> SUFFICES ASSUME NEW i \in DOMAIN s PROVE s[i] \in Facts
      OBVIOUS
    <3>1. s[i] \in Sent /\ Told(s[i])
      BY <2>1, <2>2
    <3>2. s[i].at <= clock
      BY <3>1, ToldBefore DEF SourceInv
    <3> QED
      BY <1>4, <3>1, <3>2 DEF Told
  <2>4. s \in Seq(Facts)
    <3>1. s \in Seq(Sent)
      BY <2>1, <2>2
    <3>2. Len(s) \in Nat /\ DOMAIN s = 1..Len(s) /\ s = [i \in 1..Len(s) |-> s[i]]
      BY <3>1
    <3>3. s \in [1..Len(s) -> Facts]
      <4> HIDE DEF Facts
      <4> QED
        BY <2>3, <3>2
    <3> HIDE DEF Facts
    <3> QED
      BY <3>2, <3>3
  <2> QED
    BY <2>1, <2>2, <2>4, Zenon
<1>6. events \subseteq Facts /\ applied \subseteq Facts
  <2>1. ASSUME NEW f \in events \cup applied PROVE f \in Facts
    BY <1>4 DEF TypeInv, RowTypes, SourceInv, KnownInv
  <2> QED
    BY <2>1
<1>7. sync \in [state : {"NONE", "LIVE", "RECOVERY_REQUIRED", "RECONCILED"},
                generation : 0..MaxGen]
  <2>1. sync.generation \in 0..MaxGen
    BY BoundAssumption DEF EvidenceInv, SyncType, TypeInv, Bounds
  <2> QED
    BY <2>1 DEF EvidenceInv, SyncType
<1> QED
  BY <1>1, <1>3, <1>5, <1>6, <1>7, Zenon
  DEF TypeOK, TypeInv, Bounds, HeldTypes, SourceInv, HeldInv

\* Everything stored, held or on its way has its type for any bounds: the facts recorded and
\* the messages are revisions that the exchange reached, none is revision 0 and none is of the
\* future, through every reconciliation and restart.
THEOREM PrivateTypes == Spec => []TypeOK
<1>1. Init => SourceInv /\ EvidenceInv /\ TypeInv
  <2>1. Init => EvidenceInv
    BY DEF Init, EvidenceInv, SyncType, OneReconciliationPerDisconnect
  <2> QED
    BY <2>1, SourceInit, InitTypes
<1>2. SourceInv /\ EvidenceInv /\ TypeInv /\ [Next]_vars
          => SourceInv' /\ EvidenceInv' /\ TypeInv'
  BY SourceStep, EvidenceStep, BoundsStep, HeldTypesStep, RowTypesStep DEF TypeInv
<1>3. SourceInv /\ EvidenceInv /\ TypeInv => TypeOK
  BY TypesHold
<1> QED
  BY <1>1, <1>2, <1>3, PTL DEF Spec
=============================================================================
