-------------------------- MODULE KeyLoads_proofs ---------------------------
(***************************************************************************)
(* The loaders of keylib own what they load, count it right and keep what  *)
(* the headers promise, for containers of any size.                        *)
(***************************************************************************)
EXTENDS KeyLoads, Numbers_proofs, SequenceTheorems, TLAPS

-----------------------------------------------------------------------------
(* Heaps                                                                   *)

HeapOf(st, o, f) == [stores |-> st, objects |-> o, fault |-> f]
Full(k, d)       == [live |-> TRUE, keys |-> k, certs |-> d]

\* The stores that have a contents t at s, and are as in st elsewhere.
With(st, s, t) == [x \in Stores |-> IF x = s THEN t ELSE st[x]]

\* The heap that has one store, of contents t.
Only(t) == [x \in Stores |-> IF x = "main" THEN t ELSE Gone]

IsStores(st) == st = [x \in Stores |-> st[x]]

LEMMA StoresType ==
  ASSUME NEW s, NEW t, NEW st
  PROVE  IsStores(Only(t)) /\ IsStores(With(st, s, t))
BY DEF IsStores, Only, With

\* What an EXCEPT makes of such records.
WithKeys(t, l)         == [t EXCEPT !.keys = l]
WithCerts(t, g)        == [t EXCEPT !.certs = g]
WithArrays(t, l, g)    == [t EXCEPT !.keys = l, !.certs = g]
WithStores(h, st)      == [h EXCEPT !.stores = st]
WithAll(h, s, t, p, g) == [h EXCEPT !.stores[s] = t, !.objects = p, !.fault = g]

LEMMA KeysReplaced ==
  ASSUME NEW k, NEW d, NEW l
  PROVE  WithKeys(Full(k, d), l) = Full(l, d)
<1> SUFFICES ASSUME NEW t, t = [Full(k, d) EXCEPT !.keys = l] PROVE t = Full(l, d)
  BY DEF WithKeys
<1>1. t.live = TRUE /\ t.keys = l /\ t.certs = d
  BY DEF Full
<1>2. t = [live |-> t.live, keys |-> t.keys, certs |-> t.certs]
  BY DEF Full
<1> QED
  BY <1>1, <1>2 DEF Full

LEMMA CertsReplaced ==
  ASSUME NEW k, NEW d, NEW g
  PROVE  WithCerts(Full(k, d), g) = Full(k, g)
<1> SUFFICES ASSUME NEW t, t = [Full(k, d) EXCEPT !.certs = g] PROVE t = Full(k, g)
  BY DEF WithCerts
<1>1. t.live = TRUE /\ t.keys = k /\ t.certs = g
  BY DEF Full
<1>2. t = [live |-> t.live, keys |-> t.keys, certs |-> t.certs]
  BY DEF Full
<1> QED
  BY <1>1, <1>2 DEF Full

LEMMA ArraysReplaced ==
  ASSUME NEW k, NEW d, NEW l, NEW g
  PROVE  WithArrays(Full(k, d), l, g) = Full(l, g)
<1> SUFFICES ASSUME NEW t, t = [Full(k, d) EXCEPT !.keys = l, !.certs = g] PROVE t = Full(l, g)
  BY DEF WithArrays
<1>1. t.live = TRUE /\ t.keys = l /\ t.certs = g
  BY DEF Full
<1>2. t = [live |-> t.live, keys |-> t.keys, certs |-> t.certs]
  BY DEF Full
<1> QED
  BY <1>1, <1>2 DEF Full

LEMMA StoresReplaced ==
  ASSUME NEW st, NEW o, NEW f, NEW su
  PROVE  WithStores(HeapOf(st, o, f), su) = HeapOf(su, o, f)
<1> SUFFICES ASSUME NEW h, h = [HeapOf(st, o, f) EXCEPT !.stores = su] PROVE h = HeapOf(su, o, f)
  BY DEF WithStores
<1>1. h.stores = su /\ h.objects = o /\ h.fault = f
  BY DEF HeapOf
<1>2. h = [stores |-> h.stores, objects |-> h.objects, fault |-> h.fault]
  BY DEF HeapOf
<1> QED
  BY <1>1, <1>2 DEF HeapOf

LEMMA AllReplaced ==
  ASSUME NEW st, IsStores(st), NEW o, NEW f, NEW s, NEW t, NEW p, NEW g
  PROVE  WithAll(HeapOf(st, o, f), s, t, p, g) = HeapOf(With(st, s, t), p, g)
<1> SUFFICES ASSUME NEW h,
                    h = [HeapOf(st, o, f) EXCEPT !.stores[s] = t, !.objects = p, !.fault = g]
             PROVE  h = HeapOf(With(st, s, t), p, g)
  BY DEF WithAll
<1>1. h.stores = [st EXCEPT ![s] = t] /\ h.objects = p /\ h.fault = g
  BY DEF HeapOf
<1>2. [st EXCEPT ![s] = t] = With(st, s, t)
  BY DEF IsStores, With
<1>3. h = [stores |-> h.stores, objects |-> h.objects, fault |-> h.fault]
  BY DEF HeapOf
<1> QED
  BY <1>1, <1>2, <1>3 DEF HeapOf

WithTwo(h, s, u, t, v) == [h EXCEPT !.stores[s] = u, !.stores[t] = v]

LEMMA TwoReplaced ==
  ASSUME NEW st, IsStores(st), NEW o, NEW f, NEW s, NEW u, NEW t, NEW v, s # t
  PROVE  WithTwo(HeapOf(st, o, f), s, u, t, v) = HeapOf(With(With(st, s, u), t, v), o, f)
<1> SUFFICES ASSUME NEW h, h = [HeapOf(st, o, f) EXCEPT !.stores[s] = u, !.stores[t] = v]
             PROVE  h = HeapOf(With(With(st, s, u), t, v), o, f)
  BY DEF WithTwo
<1>1. h.stores = [[st EXCEPT ![s] = u] EXCEPT ![t] = v] /\ h.objects = o /\ h.fault = f
  BY DEF HeapOf
<1>2. [[st EXCEPT ![s] = u] EXCEPT ![t] = v] = With(With(st, s, u), t, v)
  BY DEF IsStores, With
<1>3. h = [stores |-> h.stores, objects |-> h.objects, fault |-> h.fault]
  BY DEF HeapOf
<1> QED
  BY <1>1, <1>2, <1>3 DEF HeapOf

LEMMA NewIs ==
  ASSUME NEW st, IsStores(st), NEW o, NEW f, NEW s \in Stores, NEW n, NEW m
  PROVE  KeyStoreNew(HeapOf(st, o, f), s, n, m)
           = HeapOf(With(st, s, Full(Empty(n), Empty(m))), o, f)
<1> DEFINE t == [live |-> TRUE, keys |-> Empty(n), certs |-> Empty(m)]
<1>1. [st EXCEPT ![s] = t] = With(st, s, t)
  BY DEF IsStores, With
<1> HIDE DEF t
<1>2. [HeapOf(st, o, f) EXCEPT !.stores[s] = t] = HeapOf([st EXCEPT ![s] = t], o, f)
  BY DEF HeapOf
<1> QED
  BY <1>1, <1>2 DEF t, KeyStoreNew, Full

LEMMA CreateIs ==
  ASSUME NEW st, NEW o, NEW f, NEW x
  PROVE  Create(HeapOf(st, o, f), x) = HeapOf(st, o \cup {x}, f)
BY DEF Create, HeapOf

LEMMA SetKeyIs ==
  ASSUME NEW st, IsStores(st), NEW o, NEW f, NEW s \in Stores, s # Null,
         NEW k, NEW d, st[s] = Full(k, d), NEW n, n < Len(k), NEW x
  PROVE  KeyStoreSetKey(HeapOf(st, o, f), s, n, x)
           = HeapOf(With(st, s, Full(Put(k, n, x), d)), o, f)
<1> DEFINE h  == HeapOf(st, o, f)
           k1 == Put(k, n, x)
           su == [st EXCEPT ![s] = WithKeys(@, k1)]
<1>1. h.stores = st /\ h.stores[s].live /\ h.stores[s].keys = k
  BY DEF HeapOf, Full
<1>2. KeyStoreSetKey(h, s, n, x) = [h EXCEPT !.stores[s].keys = Put(h.stores[s].keys, n, x)]
  BY <1>1 DEF KeyStoreSetKey, Deref
<1>3. KeyStoreSetKey(h, s, n, x) = [h EXCEPT !.stores[s].keys = k1]
  BY <1>1, <1>2
<1> HIDE DEF k1
<1>4. [h EXCEPT !.stores[s].keys = k1] = WithStores(h, su)
  BY <1>1 DEF WithStores, WithKeys
<1>5. su = With(st, s, Full(k1, d))
  BY KeysReplaced DEF IsStores, With
<1> HIDE DEF su
<1> QED
  BY <1>3, <1>4, <1>5, StoresReplaced DEF k1

LEMMA SetCertIs ==
  ASSUME NEW st, IsStores(st), NEW o, NEW f, NEW s \in Stores, s # Null,
         NEW k, NEW d, st[s] = Full(k, d), NEW n, n < Len(d), NEW x
  PROVE  KeyStoreSetCert(HeapOf(st, o, f), s, n, x)
           = HeapOf(With(st, s, Full(k, Put(d, n, x))), o, f)
<1> DEFINE h  == HeapOf(st, o, f)
           d1 == Put(d, n, x)
           su == [st EXCEPT ![s] = WithCerts(@, d1)]
<1>1. h.stores = st /\ h.stores[s].live /\ h.stores[s].certs = d
  BY DEF HeapOf, Full
<1>2. KeyStoreSetCert(h, s, n, x) = [h EXCEPT !.stores[s].certs = Put(h.stores[s].certs, n, x)]
  BY <1>1 DEF KeyStoreSetCert, Deref
<1>3. KeyStoreSetCert(h, s, n, x) = [h EXCEPT !.stores[s].certs = d1]
  BY <1>1, <1>2
<1> HIDE DEF d1
<1>4. [h EXCEPT !.stores[s].certs = d1] = WithStores(h, su)
  BY <1>1 DEF WithStores, WithCerts
<1>5. su = With(st, s, Full(k, d1))
  BY CertsReplaced DEF IsStores, With
<1> HIDE DEF su
<1> QED
  BY <1>3, <1>4, <1>5, StoresReplaced DEF d1

\* n is the number of a slot of q, counted from 0.
SlotOf(q, n) == n < Len(q)

LEMMA SlotSet ==
  ASSUME NEW st, IsStores(st), NEW o, NEW f, NEW s \in Stores, s # Null,
         NEW k, NEW d, st[s] = Full(k, d), NEW n, NEW x
  PROVE  /\ SlotOf(k, n) => KeyStoreSetKey(HeapOf(st, o, f), s, n, x)
                              = HeapOf(With(st, s, Full(Put(k, n, x), d)), o, f)
         /\ SlotOf(d, n) => KeyStoreSetCert(HeapOf(st, o, f), s, n, x)
                              = HeapOf(With(st, s, Full(k, Put(d, n, x))), o, f)
<1>1. SlotOf(k, n) => KeyStoreSetKey(HeapOf(st, o, f), s, n, x)
                       = HeapOf(With(st, s, Full(Put(k, n, x), d)), o, f)
  BY SetKeyIs DEF SlotOf
<1>2. SlotOf(d, n) => KeyStoreSetCert(HeapOf(st, o, f), s, n, x)
                       = HeapOf(With(st, s, Full(k, Put(d, n, x))), o, f)
  BY SetCertIs DEF SlotOf
<1> QED
  BY <1>1, <1>2

LEMMA AppendIs ==
  ASSUME NEW st, IsStores(st), NEW o, NEW f,
         NEW s \in Stores, s # Null, NEW t \in Stores, t # Null, s # t,
         NEW k, NEW d, st[s] = Full(k, d), NEW l, NEW g, st[t] = Full(l, g)
  PROVE  KeyStoreAppend(HeapOf(st, o, f), s, t)
           = HeapOf(With(With(st, s, Full(k \o l, d \o g)), t, Full(Empty(Len(l)), Empty(Len(g)))),
                    o, f)
<1> DEFINE h == HeapOf(st, o, f)
           u == Append1(Full(k, d), Full(l, g))
           v == Emptied(Full(l, g))
<1>1. h.stores = st /\ h.stores[s].live /\ h.stores[t].live
  BY DEF HeapOf, Full
<1> HIDE DEF h
<1>2. KeyStoreAppend(h, s, t)
        = [h EXCEPT !.stores[s] = Append1(h.stores[s], h.stores[t]), !.stores[t] = Emptied(h.stores[t])]
  BY <1>1 DEF KeyStoreAppend, Deref
<1>3. u = Full(k \o l, d \o g)
  <2>1. Full(k, d).keys = k /\ Full(k, d).certs = d /\ Full(l, g).keys = l /\ Full(l, g).certs = g
    BY DEF Full
  <2>2. u = WithArrays(Full(k, d), Full(k, d).keys \o Full(l, g).keys,
                                   Full(k, d).certs \o Full(l, g).certs)
    BY DEF Append1, WithArrays
  <2> QED
    BY <2>1, <2>2, ArraysReplaced
<1>4. v = Full(Empty(Len(l)), Empty(Len(g)))
  <2>1. Full(l, g).keys = l /\ Full(l, g).certs = g
    BY DEF Full
  <2>2. v = WithArrays(Full(l, g), Empty(Len(Full(l, g).keys)), Empty(Len(Full(l, g).certs)))
    BY DEF Emptied, WithArrays
  <2> QED
    BY <2>1, <2>2, ArraysReplaced
<1> HIDE DEF u, v
<1>5. KeyStoreAppend(h, s, t) = WithTwo(h, s, u, t, v)
  BY <1>1, <1>2 DEF u, v, WithTwo
<1> QED
  BY <1>3, <1>4, <1>5, TwoReplaced DEF h

\* What a store of contents t points to is there.
Points(t, o) == Owned(t) \subseteq o

Clear(f) == f = FALSE

LEMMA FreeIs ==
  ASSUME NEW st, IsStores(st), NEW o, NEW s \in Stores, s # Null,
         NEW k, NEW d, st[s] = Full(k, d), Unshared(Full(k, d)), Points(Full(k, d), o),
         NEW p, p = o \ Owned(Full(k, d)), NEW f, Clear(f)
  PROVE  KeyStoreFree(HeapOf(st, o, f), s) = HeapOf(With(st, s, Gone), p, f)
<1> DEFINE h == HeapOf(st, o, f)
           w == Owned(h.stores[s])
           b == h.fault \/ ~Unshared(h.stores[s]) \/ ~(w \subseteq h.objects)
<1>1. h.stores = st /\ h.stores[s].live /\ h.objects = o /\ h.fault = FALSE
  BY DEF HeapOf, Full, Clear
<1>2. h.objects \ w = p /\ b = FALSE
  BY <1>1 DEF Points
<1> HIDE DEF h
<1>3. KeyStoreFree(h, s) = WithAll(h, s, Gone, h.objects \ w, b)
  BY <1>1 DEF KeyStoreFree, Deref, WithAll
<1> HIDE DEF w, b
<1>4. KeyStoreFree(h, s) = WithAll(h, s, Gone, p, f)
  BY <1>2, <1>3 DEF Clear
<1> QED
  BY <1>4, AllReplaced DEF h

-----------------------------------------------------------------------------
(* The loaders have the same store.                                        *)

LEMMA JksStore ==
  ASSUME NEW h, NEW s, NEW t, NEW n, NEW m, NEW x
  PROVE  /\ Jks!KeyStoreNew(h, s, n, m) = KeyStoreNew(h, s, n, m)
         /\ Jks!KeyStoreSetKey(h, s, n, x) = KeyStoreSetKey(h, s, n, x)
         /\ Jks!KeyStoreSetCert(h, s, n, x) = KeyStoreSetCert(h, s, n, x)
         /\ Jks!KeyStoreAppend(h, s, t) = KeyStoreAppend(h, s, t)
         /\ Jks!KeyStoreFree(h, s) = KeyStoreFree(h, s)
         /\ Jks!Create(h, x) = Create(h, x)
<1>1. \A f, p, q : Jks!Put(f, p, q) = Put(f, p, q)
  BY DEF Jks!Put, Put
<1>2. \A f : Jks!Fault(f) = Fault(f)
  BY DEF Jks!Fault, Fault
<1>3. \A f, p, q : Jks!Deref(f, p, q) = Deref(f, p, q)
  BY <1>2 DEF Jks!Deref, Deref
<1>4. \A p : Jks!Empty(p) = Empty(p)
  BY DEF Jks!Empty, Empty
<1>5. \A f : Jks!Emptied(f) = Emptied(f)
  BY <1>4 DEF Jks!Emptied, Emptied
<1>6. \A f, p : Jks!Append1(f, p) = Append1(f, p)
  BY DEF Jks!Append1, Append1
<1>7. \A q : Jks!Held(q) = Held(q)
  BY DEF Jks!Held, Held
<1>8. \A q : Jks!Owned(q) = Owned(q)
  BY <1>7 DEF Jks!Owned, Owned
<1>9. \A q : Jks!Unshared(q) <=> Unshared(q)
  BY <1>7 DEF Jks!Unshared, Unshared, Jks!Distinct, Distinct
<1>10. Jks!KeyStoreNew(h, s, n, m) = KeyStoreNew(h, s, n, m)
  BY <1>4 DEF Jks!KeyStoreNew, KeyStoreNew
<1>11. Jks!KeyStoreSetKey(h, s, n, x) = KeyStoreSetKey(h, s, n, x)
  BY <1>1, <1>2, <1>3 DEF Jks!KeyStoreSetKey, KeyStoreSetKey
<1>12. Jks!KeyStoreSetCert(h, s, n, x) = KeyStoreSetCert(h, s, n, x)
  BY <1>1, <1>2, <1>3 DEF Jks!KeyStoreSetCert, KeyStoreSetCert
<1>13. Jks!KeyStoreAppend(h, s, t) = KeyStoreAppend(h, s, t)
  BY <1>3, <1>5, <1>6 DEF Jks!KeyStoreAppend, KeyStoreAppend
<1>14. Jks!KeyStoreFree(h, s) = KeyStoreFree(h, s)
  BY <1>3, <1>8, <1>9 DEF Jks!KeyStoreFree, KeyStoreFree, Jks!Gone, Gone
<1>15. Jks!Create(h, x) = Create(h, x)
  BY DEF Jks!Create, Create
<1> QED
  BY <1>10, <1>11, <1>12, <1>13, <1>14, <1>15

LEMMA Pkcs12Store ==
  ASSUME NEW h, NEW s, NEW n, NEW m, NEW x
  PROVE  /\ Pkcs12!KeyStoreNew(h, s, n, m) = KeyStoreNew(h, s, n, m)
         /\ Pkcs12!KeyStoreSetKey(h, s, n, x) = KeyStoreSetKey(h, s, n, x)
         /\ Pkcs12!KeyStoreSetCert(h, s, n, x) = KeyStoreSetCert(h, s, n, x)
         /\ Pkcs12!KeyStoreFree(h, s) = KeyStoreFree(h, s)
         /\ Pkcs12!Create(h, x) = Create(h, x)
<1>1. \A f, p, q : Pkcs12!Put(f, p, q) = Put(f, p, q)
  BY DEF Pkcs12!Put, Put
<1>2. \A f : Pkcs12!Fault(f) = Fault(f)
  BY DEF Pkcs12!Fault, Fault
<1>3. \A f, p, q : Pkcs12!Deref(f, p, q) = Deref(f, p, q)
  BY <1>2 DEF Pkcs12!Deref, Deref
<1>4. \A p : Pkcs12!Empty(p) = Empty(p)
  BY DEF Pkcs12!Empty, Empty
<1>7. \A q : Pkcs12!Held(q) = Held(q)
  BY DEF Pkcs12!Held, Held
<1>8. \A q : Pkcs12!Owned(q) = Owned(q)
  BY <1>7 DEF Pkcs12!Owned, Owned
<1>9. \A q : Pkcs12!Unshared(q) <=> Unshared(q)
  BY <1>7 DEF Pkcs12!Unshared, Unshared, Pkcs12!Distinct, Distinct
<1>10. Pkcs12!KeyStoreNew(h, s, n, m) = KeyStoreNew(h, s, n, m)
  BY <1>4 DEF Pkcs12!KeyStoreNew, KeyStoreNew
<1>11. Pkcs12!KeyStoreSetKey(h, s, n, x) = KeyStoreSetKey(h, s, n, x)
  BY <1>1, <1>2, <1>3 DEF Pkcs12!KeyStoreSetKey, KeyStoreSetKey
<1>12. Pkcs12!KeyStoreSetCert(h, s, n, x) = KeyStoreSetCert(h, s, n, x)
  BY <1>1, <1>2, <1>3 DEF Pkcs12!KeyStoreSetCert, KeyStoreSetCert
<1>14. Pkcs12!KeyStoreFree(h, s) = KeyStoreFree(h, s)
  BY <1>3, <1>8, <1>9 DEF Pkcs12!KeyStoreFree, KeyStoreFree, Pkcs12!Gone, Gone
<1>15. Pkcs12!Create(h, x) = Create(h, x)
  BY DEF Pkcs12!Create, Create
<1> QED
  BY <1>10, <1>11, <1>12, <1>14, <1>15

LEMMA Key6Store ==
  ASSUME NEW h, NEW s, NEW n, NEW m, NEW x
  PROVE  /\ Key6!KeyStoreNew(h, s, n, m) = KeyStoreNew(h, s, n, m)
         /\ Key6!KeyStoreSetKey(h, s, n, x) = KeyStoreSetKey(h, s, n, x)
         /\ Key6!KeyStoreFree(h, s) = KeyStoreFree(h, s)
         /\ Key6!Create(h, x) = Create(h, x)
<1>1. \A f, p, q : Key6!Put(f, p, q) = Put(f, p, q)
  BY DEF Key6!Put, Put
<1>2. \A f : Key6!Fault(f) = Fault(f)
  BY DEF Key6!Fault, Fault
<1>3. \A f, p, q : Key6!Deref(f, p, q) = Deref(f, p, q)
  BY <1>2 DEF Key6!Deref, Deref
<1>4. \A p : Key6!Empty(p) = Empty(p)
  BY DEF Key6!Empty, Empty
<1>7. \A q : Key6!Held(q) = Held(q)
  BY DEF Key6!Held, Held
<1>8. \A q : Key6!Owned(q) = Owned(q)
  BY <1>7 DEF Key6!Owned, Owned
<1>9. \A q : Key6!Unshared(q) <=> Unshared(q)
  BY <1>7 DEF Key6!Unshared, Unshared, Key6!Distinct, Distinct
<1>10. Key6!KeyStoreNew(h, s, n, m) = KeyStoreNew(h, s, n, m)
  BY <1>4 DEF Key6!KeyStoreNew, KeyStoreNew
<1>11. Key6!KeyStoreSetKey(h, s, n, x) = KeyStoreSetKey(h, s, n, x)
  BY <1>1, <1>2, <1>3 DEF Key6!KeyStoreSetKey, KeyStoreSetKey
<1>14. Key6!KeyStoreFree(h, s) = KeyStoreFree(h, s)
  BY <1>3, <1>8, <1>9 DEF Key6!KeyStoreFree, KeyStoreFree, Key6!Gone, Gone
<1>15. Key6!Create(h, x) = Create(h, x)
  BY DEF Key6!Create, Create
<1> QED
  BY <1>10, <1>11, <1>14, <1>15

-----------------------------------------------------------------------------
(* Sequences of sequences                                                  *)

\* The first n sequences of qs put together.
Front(qs, n) == SX!FlattenSeq(SubSeq(qs, 1, n))

LEMMA FrontIs ==
  ASSUME NEW S, NEW qs \in Seq(Seq(S))
  PROVE  /\ Front(qs, 0) = <<>> /\ Front(qs, Len(qs)) = SX!FlattenSeq(qs)
         /\ \A n \in 0 .. Len(qs) : Front(qs, n) \in Seq(S)
         /\ \A n \in 1 .. Len(qs) : Front(qs, n) = Front(qs, n - 1) \o qs[n]
<1> DEFINE m == Len(qs)
<1>1. m \in Nat /\ \A n \in 1 .. m : qs[n] \in Seq(S)
  BY LenProperties, ElementOfSeq
<1>2. PICK g \in [0 .. m -> Seq(S)] : IsJoin(g, qs)
  BY JoinExists
<1>3. ASSUME NEW n \in 0 .. m PROVE Front(qs, n) = g[n]
  <2> DEFINE rs == SubSeq(qs, 1, n)
  <2>1. rs \in Seq(Seq(S)) /\ Len(rs) = n /\ \A k \in 1 .. n : qs[k] = rs[k]
    <3>1. \A k \in 1 .. n : qs[k] \in Seq(S)
      BY <1>1, SMT
    <3>2. n \in Int /\ 1 \in Int
      BY <1>1, SMT
    <3>3. rs \in Seq(Seq(S)) /\ Len(rs) = (IF 1 <= n THEN n - 1 + 1 ELSE 0)
          /\ \A k \in 1 .. n - 1 + 1 : rs[k] = qs[1 + k - 1]
      BY <3>1, <3>2, SubSeqProperties
    <3>4. n - 1 + 1 = n /\ (IF 1 <= n THEN n ELSE 0) = n /\ \A k \in 1 .. n : 1 + k - 1 = k
      BY <1>1, SMT
    <3> QED
      BY <3>3, <3>4
  <2> HIDE DEF rs
  <2>2. PICK h \in [0 .. Len(rs) -> Seq(S)] : IsJoin(h, rs) /\ SX!FlattenSeq(rs) = h[Len(rs)]
    BY <2>1, FlattenIs
  <2>3. n \in Nat /\ n <= m /\ n <= Len(rs) /\ Len(rs) \in Nat /\ n \in 0 .. n
    BY <1>1, <2>1, SMT
  <2>4. g[n] = h[n]
    <3>1. IsJoin(g, qs) /\ IsJoin(h, rs) /\ m \in Nat
      BY <1>1, <1>2, <2>2
    <3>2. Alike(qs, rs, n)
      BY <2>1 DEF Alike
    <3> QED
      BY <2>3, <3>1, <3>2, JoinsAgree
  <2> QED
    BY <2>1, <2>2, <2>3, <2>4 DEF rs, Front
<1>4. SubSeq(qs, 1, m) = qs
  BY SubSeqFull
<1>5. 0 \in 0 .. m /\ m \in 0 .. m /\ \A n \in 1 .. m : n \in 0 .. m /\ n - 1 \in 0 .. m
  BY <1>1, SMT
<1> QED
  BY <1>2, <1>3, <1>4, <1>5 DEF IsJoin, Front

LEMMA FrontNext ==
  ASSUME NEW S, NEW qs \in Seq(Seq(S)), NEW n \in Int, 0 <= n, n < Len(qs)
  PROVE  Front(qs, n + 1) = Front(qs, n) \o qs[n + 1]
<1> DEFINE x == n + 1
<1>1. x \in 1 .. Len(qs) /\ x - 1 = n
  BY LenProperties, SMT
<1> HIDE DEF x
<1>2. Front(qs, x) = Front(qs, x - 1) \o qs[x]
  BY <1>1, FrontIs
<1>3. Front(qs, x) = Front(qs, n) \o qs[x]
  BY <1>1, <1>2, Zenon
<1> QED
  BY <1>3 DEF x

LEMMA FrontPrefix ==
  ASSUME NEW S, NEW qs \in Seq(Seq(S)), NEW k \in 0 .. Len(qs)
  PROVE  /\ Len(Front(qs, k)) <= Len(Front(qs, Len(qs)))
         /\ \A p \in 1 .. Len(Front(qs, k)) : Front(qs, Len(qs))[p] = Front(qs, k)[p]
<1> DEFINE m == Len(qs)
           q == Front(qs, k)
           r(n) == Front(qs, k + n)
           P == {n \in Nat : Len(q) <= Len(r(n)) /\ \A p \in 1 .. Len(q) : r(n)[p] = q[p]}
<1>1. m \in Nat /\ k \in Nat /\ k <= m /\ \A n \in 1 .. m : qs[n] \in Seq(S)
  BY LenProperties, ElementOfSeq
<1>2. q \in Seq(S) /\ Len(q) \in Nat
  BY FrontIs, LenProperties
<1>3. 0 \in P
  <2>1. k + 0 = k
    BY <1>1
  <2> QED
    BY <1>2, <2>1
<1>4. ASSUME NEW n \in 0 .. m - k - 1, n \in P PROVE n + 1 \in P
  <2>1. n + 1 \in Nat /\ k + n \in 0 .. m /\ k + (n + 1) \in 1 .. m /\ k + (n + 1) - 1 = k + n
    BY <1>1, SMT
  <2>2. r(n) \in Seq(S) /\ Len(r(n)) \in Nat
    BY <2>1, FrontIs, LenProperties
  <2>3. r(n + 1) = r(n) \o qs[k + (n + 1)]
    <3> DEFINE x == k + n
    <3>1. x \in Int /\ 0 <= x /\ x < m /\ k + (n + 1) = x + 1
      BY <1>1, SMT
    <3> HIDE DEF x
    <3>2. Front(qs, x + 1) = Front(qs, x) \o qs[x + 1]
      BY <3>1, FrontNext
    <3> QED
      BY <3>1, <3>2, Zenon DEF x
  <2> DEFINE t == qs[k + (n + 1)]
             u == r(n)
  <2>4. t \in Seq(S) /\ Len(t) \in Nat
    BY <1>1, <2>1, LenProperties
  <2>5. Len(q) <= Len(u) /\ \A p \in 1 .. Len(q) : u[p] = q[p]
    BY <1>4
  <2> HIDE DEF t, u, q
  <2>6. Len(q) <= Len(u \o t) /\ \A p \in 1 .. Len(q) : (u \o t)[p] = q[p]
    BY <1>2, <2>2, <2>4, <2>5, ConcatProperties, SMT DEF u
  <2> QED
    BY <2>1, <2>3, <2>6 DEF t, u, q
<1>5. m - k \in Nat /\ m - k \in 0 .. m - k /\ k + (m - k) = m
  BY <1>1, SMT
<1>6. m - k \in P
  <2> HIDE DEF P
  <2> QED
    BY <1>3, <1>4, <1>5, UpTo
<1> QED
  BY <1>5, <1>6

LEMMA FlattenConcat ==
  ASSUME NEW S, NEW ps \in Seq(Seq(S)), NEW qs \in Seq(Seq(S))
  PROVE  /\ SX!FlattenSeq(ps) \in Seq(S) /\ SX!FlattenSeq(qs) \in Seq(S)
         /\ SX!FlattenSeq(ps \o qs) = SX!FlattenSeq(ps) \o SX!FlattenSeq(qs)
<1> DEFINE m == Len(ps)
           k == Len(qs)
           rs == ps \o qs
           f == Front(ps, m)
<1>1. m \in Nat /\ k \in Nat /\ \A n \in 1 .. k : qs[n] \in Seq(S)
  BY LenProperties, ElementOfSeq
<1>2. /\ rs \in Seq(Seq(S)) /\ Len(rs) = m + k
      /\ \A n \in 1 .. m + k : rs[n] = IF n <= m THEN ps[n] ELSE qs[n - m]
  BY ConcatProperties
<1>3. f \in Seq(S) /\ f = SX!FlattenSeq(ps) /\ Front(qs, k) = SX!FlattenSeq(qs) /\ Front(qs, k) \in Seq(S)
  <2>1. m \in 0 .. m /\ k \in 0 .. k
    BY <1>1, SMT
  <2> QED
    BY <2>1, FrontIs
<1>4. Front(rs, m) = f
  <2> DEFINE P == {n \in Nat : Front(rs, n) = Front(ps, n)}
  <2>1. 0 \in P
    BY <1>2, FrontIs
  <2>2. ASSUME NEW n \in 0 .. m - 1, n \in P PROVE n + 1 \in P
    <3>1. n + 1 \in Nat /\ n + 1 \in 1 .. m /\ n + 1 \in 1 .. Len(rs) /\ n + 1 - 1 = n /\ n + 1 <= m
          /\ n + 1 \in 1 .. m + k
      BY <1>1, <1>2, SMT
    <3>2. Front(rs, n + 1) = Front(rs, n) \o rs[n + 1] /\ Front(ps, n + 1) = Front(ps, n) \o ps[n + 1]
      <4>1. n \in Int /\ 0 <= n /\ n < m /\ n < Len(rs)
        BY <1>1, <1>2, SMT
      <4> QED
        BY <1>2, <4>1, FrontNext
    <3>3. rs[n + 1] = ps[n + 1]
      BY <1>2, <3>1
    <3> QED
      BY <2>2, <3>1, <3>2, <3>3
  <2> HIDE DEF P
  <2>3. m \in P
    <3>1. m \in 0 .. m
      BY <1>1, SMT
    <3> QED
      BY <1>1, <2>1, <2>2, <3>1, UpTo
  <2> QED
    BY <2>3 DEF P
<1> DEFINE P == {n \in Nat : Front(rs, m + n) = f \o Front(qs, n)}
<1>5. 0 \in P
  <2>1. m + 0 = m
    BY <1>1
  <2>2. Front(qs, 0) = <<>>
    BY FrontIs
  <2>3. f \o <<>> = f
    BY <1>3, ConcatEmptySeq
  <2> QED
    BY <1>4, <2>1, <2>2, <2>3
<1>6. ASSUME NEW n \in 0 .. k - 1, n \in P PROVE n + 1 \in P
  <2>1. /\ n + 1 \in Nat /\ n + 1 \in 1 .. k /\ n \in 0 .. k /\ n + 1 - 1 = n
        /\ m + (n + 1) \in 1 .. m + k /\ m + (n + 1) - 1 = m + n /\ ~(m + (n + 1) <= m)
        /\ m + (n + 1) - m = n + 1
    BY <1>1, <1>2, SMT
  <2>2. Front(rs, m + (n + 1)) = Front(rs, m + n) \o rs[m + (n + 1)]
    <3> DEFINE x == m + n
    <3>1. x \in Int /\ 0 <= x /\ x < Len(rs) /\ m + (n + 1) = x + 1
      BY <1>1, <1>2, SMT
    <3> HIDE DEF x
    <3>2. Front(rs, x + 1) = Front(rs, x) \o rs[x + 1]
      BY <1>2, <3>1, FrontNext
    <3> QED
      BY <3>1, <3>2, Zenon DEF x
  <2>3. rs[m + (n + 1)] = qs[n + 1]
    BY <1>2, <2>1
  <2>4. Front(qs, n + 1) = Front(qs, n) \o qs[n + 1] /\ Front(qs, n) \in Seq(S)
    <3>1. n \in Int /\ 0 <= n /\ n < k
      BY <1>1, SMT
    <3> QED
      BY <2>1, <3>1, FrontIs, FrontNext
  <2>5. (f \o Front(qs, n)) \o qs[n + 1] = f \o (Front(qs, n) \o qs[n + 1])
    <3> DEFINE g == Front(qs, n)
               t == qs[n + 1]
    <3>1. f \in Seq(S) /\ g \in Seq(S) /\ t \in Seq(S)
      BY <1>1, <1>3, <2>1, <2>4
    <3> HIDE DEF f, g, t
    <3>2. (f \o g) \o t = f \o (g \o t)
      BY <3>1, ConcatAssociative
    <3> QED
      BY <3>2 DEF g, t
  <2> QED
    BY <1>6, <2>1, <2>2, <2>3, <2>4, <2>5
<1>7. k \in P
  <2> HIDE DEF P
  <2>1. k \in 0 .. k
    BY <1>1, SMT
  <2> QED
    BY <1>1, <1>5, <1>6, <2>1, UpTo
<1>8. Front(rs, m + k) = SX!FlattenSeq(rs)
  BY <1>2, FrontIs
<1> QED
  BY <1>3, <1>7, <1>8

LEMMA IsSequence ==
  ASSUME NEW S, NEW n \in Nat, NEW q \in [1 .. n -> S]
  PROVE  q \in Seq(S) /\ Len(q) = n
BY SMT

LEMMA FlattenOne ==
  ASSUME NEW S, NEW q \in Seq(S)
  PROVE  SX!FlattenSeq(<<q>>) = q
<1> DEFINE qs == <<q>>
<1>1. qs \in Seq(Seq(S)) /\ Len(qs) = 1 /\ qs[1] = q
  BY SMT
<1> HIDE DEF qs
<1>2. 0 \in Int /\ 0 <= 0 /\ 0 < Len(qs) /\ 0 + 1 = 1
  BY <1>1
<1>3. Front(qs, 0 + 1) = Front(qs, 0) \o qs[0 + 1]
  BY <1>1, <1>2, FrontNext
<1>4. Front(qs, 1) = SX!FlattenSeq(qs) /\ Front(qs, 0) = <<>>
  BY <1>1, FrontIs
<1>5. <<>> \o q = q
  BY ConcatEmptySeq
<1> QED
  BY <1>1, <1>2, <1>3, <1>4, <1>5 DEF qs

LEMMA FlattenNone == SX!FlattenSeq(<<>>) = <<>>
<1> DEFINE qs == <<>>
<1>1. qs \in Seq(Seq({})) /\ Len(qs) = 0
  BY EmptySeq
<1> HIDE DEF qs
<1>2. Front(qs, 0) = <<>> /\ Front(qs, 0) = SX!FlattenSeq(qs)
  BY <1>1, FrontIs
<1> QED
  BY <1>2 DEF qs

LEMMA FlattenTwo ==
  ASSUME NEW S, NEW a \in Seq(S), NEW b \in Seq(S)
  PROVE  SX!FlattenSeq(<<a, b>>) = a \o b
<1> DEFINE qs == <<a, b>>
<1>1. qs \in Seq(Seq(S)) /\ Len(qs) = 2 /\ qs[1] = a /\ qs[2] = b
  BY SMT
<1> HIDE DEF qs
<1>2. Front(qs, 0) = <<>> /\ Front(qs, 2) = SX!FlattenSeq(qs)
  BY <1>1, FrontIs
<1>3. Front(qs, 1) = Front(qs, 0) \o qs[1]
  <2>1. 1 \in 1 .. Len(qs) /\ 1 - 1 = 0
    BY <1>1
  <2>2. Front(qs, 1) = Front(qs, 1 - 1) \o qs[1]
    BY <1>1, <2>1, FrontIs
  <2> QED
    BY <2>1, <2>2
<1>4. Front(qs, 2) = Front(qs, 1) \o qs[2]
  <2>1. 2 \in 1 .. Len(qs) /\ 2 - 1 = 1
    BY <1>1
  <2>2. Front(qs, 2) = Front(qs, 2 - 1) \o qs[2]
    BY <1>1, <2>1, FrontIs
  <2> QED
    BY <2>1, <2>2
<1>5. <<>> \o a = a
  BY ConcatEmptySeq
<1>6. Front(qs, 1) = a
  BY <1>1, <1>2, <1>3, <1>5
<1>7. Front(qs, 2) = a \o b
  BY <1>1, <1>4, <1>6
<1> QED
  BY <1>2, <1>7 DEF qs

\* All that put sequences together do it with the same operator.
LEMMA SameFlatten ==
  ASSUME NEW qs
  PROVE  /\ Jks!SE!FlattenSeq(qs) = SX!FlattenSeq(qs)
         /\ Pkcs12!SE!FlattenSeq(qs) = SX!FlattenSeq(qs)
         /\ Promise!SE!FlattenSeq(qs) = SX!FlattenSeq(qs)
BY DEF Jks!SE!FlattenSeq, Pkcs12!SE!FlattenSeq, Promise!SE!FlattenSeq, SX!FlattenSeq

-----------------------------------------------------------------------------
(* What slots hold                                                         *)

LEMMA DistinctConcat ==
  ASSUME NEW S, NEW a \in Seq(S), NEW b \in Seq(S), Distinct(a), Distinct(b),
         \A p \in 1 .. Len(a), q \in 1 .. Len(b) : a[p] # b[q]
  PROVE  Distinct(a \o b)
<1> DEFINE j == Len(a)
           k == Len(b)
           s == a \o b
<1>1. j \in Nat /\ k \in Nat
  BY LenProperties
<1>2. Len(s) = j + k /\ \A n \in 1 .. j + k : s[n] = IF n <= j THEN a[n] ELSE b[n - j]
  BY ConcatProperties
<1> SUFFICES ASSUME NEW m \in 1 .. j + k, NEW n \in 1 .. j + k, s[m] = s[n], s[m] # Null
             PROVE  m = n
  BY <1>2 DEF Distinct
<1> HIDE DEF s
<1>3. \A x \in 1 .. j + k : x \in 1 .. j \/ (~(x <= j) /\ x - j \in 1 .. k)
  BY <1>1, SMT
<1>4. CASE m \in 1 .. j /\ n \in 1 .. j
  <2>1. m <= j /\ n <= j
    BY <1>1, <1>4, SMT
  <2> QED
    BY <1>2, <1>4, <2>1 DEF Distinct
<1>5. CASE m \in 1 .. j /\ ~(n \in 1 .. j)
  <2>1. m <= j
    BY <1>1, <1>5, SMT
  <2> QED
    BY <1>2, <1>3, <1>5, <2>1
<1>6. CASE ~(m \in 1 .. j) /\ n \in 1 .. j
  <2>1. n <= j
    BY <1>1, <1>6, SMT
  <2> QED
    BY <1>2, <1>3, <1>6, <2>1
<1>7. CASE ~(m \in 1 .. j) /\ ~(n \in 1 .. j)
  <2>1. m - j = n - j
    BY <1>2, <1>3, <1>7 DEF Distinct
  <2> QED
    BY <1>1, <2>1, SMT
<1> QED
  BY <1>4, <1>5, <1>6, <1>7

LEMMA HeldConcat ==
  ASSUME NEW S, NEW a \in Seq(S), NEW b \in Seq(S)
  PROVE  Held(a \o b) = Held(a) \cup Held(b)
<1> DEFINE j == Len(a)
           k == Len(b)
           s == a \o b
<1>1. j \in Nat /\ k \in Nat
  BY LenProperties
<1>2. Len(s) = j + k /\ \A n \in 1 .. j + k : s[n] = IF n <= j THEN a[n] ELSE b[n - j]
  BY ConcatProperties
<1> HIDE DEF s
<1>3. \A x \in 1 .. j + k : x \in 1 .. j \/ (~(x <= j) /\ x - j \in 1 .. k)
  BY <1>1, SMT
<1>4. \A x \in 1 .. j : x \in 1 .. j + k /\ x <= j
  BY <1>1, SMT
<1>5. \A x \in 1 .. k : j + x \in 1 .. j + k /\ ~(j + x <= j) /\ j + x - j = x
  BY <1>1, SMT
<1>6. ASSUME NEW o \in Held(s) PROVE o \in Held(a) \cup Held(b)
  <2>1. PICK n \in 1 .. j + k : o = s[n] /\ o # Null
    BY <1>2, <1>6 DEF Held
  <2> QED
    BY <1>2, <1>3, <2>1 DEF Held
<1>7. ASSUME NEW o \in Held(a) PROVE o \in Held(s)
  BY <1>2, <1>4, <1>7 DEF Held
<1>8. ASSUME NEW o \in Held(b) PROVE o \in Held(s)
  <2>1. PICK n \in 1 .. k : o = b[n] /\ o # Null
    BY <1>8 DEF Held
  <2>2. o = s[j + n]
    BY <1>2, <1>5, <2>1
  <2> QED
    BY <1>2, <1>5, <2>1, <2>2 DEF Held
<1> QED
  BY <1>6, <1>7, <1>8 DEF s

\* The empty slots, and those of no objects at all.
LEMMA EmptyHolds ==
  ASSUME NEW n \in Nat
  PROVE  Len(Empty(n)) = n /\ Held(Empty(n)) = {} /\ Distinct(Empty(n))
BY DEF Empty, Held, Distinct

LEMMA NoSlots == Held(<<>>) = {} /\ Distinct(<<>>) /\ Empty(0) = <<>> /\ Len(<<>>) = 0
BY DEF Held, Distinct, Empty

-----------------------------------------------------------------------------
(* What the loaders have built at every point                              *)

Nothing == heap = HeapOf(Only(Gone), {}, FALSE)

\* The caller's pointer is to a store of contents k and d, which owns all there is.
Built(k, d) ==
  /\ ks = "main"
  /\ heap = HeapOf(Only(Full(k, d)), Owned(Full(k, d)), heap.fault)

JksKeysTo(f, n)  == Front([m \in 1 .. Len(f.entries) |-> Jks!KeptKeys(f, m)], n)
JksCertsTo(f, n) == Front([m \in 1 .. Len(f.entries) |-> Jks!EntryCerts(f, m)], n)
ChainTo(f, m, n) == [k \in 1 .. n |-> Jks!Cert(m, k)]

\* The certificates when n of entry m have been parsed.
JksCertsAt(f, m, n) == JksCertsTo(f, m - 1) \o ChainTo(f, m, n)

JksBuilt(k, d) == Built(k, d) /\ ret = 0 /\ keyPos = Len(k) /\ certPos = Len(d)

\* What C leaves undefined is the last thing that happens, and happens here.
JksFaultKnown == Jks!AtCut \/ Jks!DecryptsShort \/ Jks!FreesNull
JksSound      == heap.fault = FALSE \/ (heap.fault = TRUE /\ JksFaultKnown)

JksInv ==
  /\ file \in JksFiles
  /\ pc \in {"start", "entry", "certs", "returned", "done"} /\ ret \in {0, 1}
  /\ pc = "start" =>
       /\ heap = HeapOf(Only(Gone), {}, heap.fault) /\ JksSound
       /\ ret = 0 /\ e = 1 /\ c = 0 /\ keyPos = 0 /\ certPos = 0
  /\ pc = "entry" =>
       /\ e \in 1 .. Len(file.entries) + 1 /\ c = 0 /\ JksSound
       /\ JksBuilt(JksKeysTo(file, e - 1), JksCertsTo(file, e - 1))
  /\ pc = "certs" =>
       /\ e \in 1 .. Len(file.entries) /\ c \in 0 .. Len(file.entries[e].certs) /\ JksSound
       /\ JksBuilt(JksKeysTo(file, e), JksCertsAt(file, e, c))
  /\ pc = "returned" /\ ret = 1 =>
       Built(Jks!FileKeys(file), Jks!FileCerts(file)) /\ heap.fault = FALSE
  /\ pc = "returned" /\ ret = 0 => Nothing
  /\ pc = "done" => Nothing

KeyKinds  == {"key", "shrouded"}
CertKinds == {"cert"}

SafesTo(f, kinds, n) ==
  Front([m \in 1 .. Len(f.safes) |-> Pkcs12!SafeContents(f.safes[m], kinds)], n)

\* What is left of q after n elements is r.
Left(q, n, r) == n + Len(r) = Len(q) /\ \A m \in 1 .. Len(r) : r[m] = q[n + m]

Filled(q, n) == [m \in 1 .. Len(q) |-> IF m <= n THEN q[m] ELSE Null]

\* The store of the second pass, when it has come so far.
Pkcs12Built ==
  /\ numKeys = Len(Pkcs12!FileKeys(file)) /\ numCerts = Len(Pkcs12!FileCerts(file))
  /\ Built(Filled(Pkcs12!FileKeys(file), keyPos), Filled(Pkcs12!FileCerts(file), certPos))
  /\ heap.fault = FALSE

SeenKeys  == IF pass = "count" THEN numKeys ELSE keyPos
SeenCerts == IF pass = "count" THEN numCerts ELSE certPos

Pkcs12Inv ==
  /\ file \in Pkcs12Files
  /\ pc \in {"start", "safes", "bags", "returned", "done"} /\ ret \in {0, 1}
  /\ pass \in {"count", "fill"}
  /\ pc = "start" =>
       /\ Nothing /\ ret = 0 /\ pass = "count" /\ i = 1 /\ todo = <<>>
       /\ numKeys = 0 /\ numCerts = 0 /\ keyPos = 0 /\ certPos = 0
  /\ pc = "safes" =>
       /\ ret = 0 /\ held = {"pkcs12", "safes"} /\ i \in 1 .. Len(file.safes) + 1
       /\ SeenKeys = Len(SafesTo(file, KeyKinds, i - 1))
       /\ SeenCerts = Len(SafesTo(file, CertKinds, i - 1))
  /\ pc = "bags" =>
       /\ ret = 0 /\ held = {"pkcs12", "safes", "bags"} /\ i \in 1 .. Len(file.safes)
       /\ todo \in Seq(Bag)
       /\ Left(SafesTo(file, KeyKinds, i), SeenKeys, Pkcs12!Contents(todo, KeyKinds))
       /\ Left(SafesTo(file, CertKinds, i), SeenCerts, Pkcs12!Contents(todo, CertKinds))
  /\ pc \in {"safes", "bags"} =>
       /\ numKeys \in Nat /\ numCerts \in Nat /\ keyPos \in Nat /\ certPos \in Nat
       /\ pass = "count" => Nothing /\ keyPos = 0 /\ certPos = 0
       /\ pass = "fill" => Pkcs12Built
  /\ pc \in {"returned", "done"} => held = {}
  /\ pc = "returned" /\ ret = 1 => Pkcs12Built /\ keyPos = numKeys /\ certPos = numCerts
  /\ pc = "returned" /\ ret = 0 => Nothing
  /\ pc = "done" => Nothing

Key6Inv ==
  /\ file \in Key6Files
  /\ pc \in {"read", "parse", "returned", "done"} /\ ret \in {0, 1}
  /\ pc \in {"read", "parse"} => ret = 0
  /\ pc # "returned" \/ ret = 0 => Nothing
  /\ pc = "returned" /\ ret = 1 =>
       Built(Key6!FileKeys(file), Key6!FileCerts(file)) /\ heap.fault = FALSE

LoadInv ==
  /\ format \in {"jks", "pkcs12", "key6"}
  /\ format = "jks" => JksInv
  /\ format = "pkcs12" => Pkcs12Inv
  /\ format = "key6" => Key6Inv

-----------------------------------------------------------------------------
(* What a JKS file holds                                                   *)

\* All in q is of the first n entries.
NamedTo(q, kind, n) == \A p \in 1 .. Len(q) : \E m \in 1 .. n, k \in Nat : q[p] = <<m, kind, k>>

LEMMA JksFileIs ==
  ASSUME NEW f \in JksFiles
  PROVE  /\ Stores = {"main", "temp"} /\ "main" # Null /\ "temp" # Null
         /\ Len(f.entries) \in Nat
         /\ \A m \in 1 .. Len(f.entries) :
              /\ f.entries[m].keys \in 1 .. 2
              /\ Len(f.entries[m].certs) \in Nat
              /\ \A n \in 1 .. Len(f.entries[m].certs) : Jks!Cert(m, n) \in Objects
              /\ \A n \in 1 .. 2 : Jks!Key(m, n) \in Objects
<1>1. /\ Stores = {"main", "temp"} /\ JksFiles \subseteq Jks!File
      /\ \A m \in 1 .. Len(f.entries) :
           /\ \A n \in 1 .. 2 : Jks!Key(m, n) \in Objects
           /\ \A n \in 1 .. Len(f.entries[m].certs) : Jks!Cert(m, n) \in Objects
  BY JksAssumption DEF Jks!FileAssumption, Jks!Main, Jks!Temp
<1>2. Null \notin Stores
  BY PointerAssumption DEF NullAssumption
<1>3. f \in Jks!File
  BY <1>1
<1>4. f.entries \in Seq(Jks!Entry)
  BY <1>3 DEF Jks!File
<1>5. Len(f.entries) \in Nat /\ \A m \in 1 .. Len(f.entries) : f.entries[m] \in Jks!Entry
  BY <1>4, LenProperties, ElementOfSeq
<1>6. ASSUME NEW x \in Jks!Entry
      PROVE  x.keys \in 1 .. 2 /\ Len(x.certs) \in Nat
  <2>1. x.keys \in 1 .. 2 /\ x.certs \in Seq({"good", "bad", "cut"})
    BY DEF Jks!Entry
  <2>2. Len(x.certs) \in Nat
    BY <2>1, LenProperties
  <2> QED
    BY <2>1, <2>2
<1> QED
  BY <1>1, <1>2, <1>4, <1>5, <1>6

\* What one entry gives: a sequence of objects of its own, all different.
LEMMA JksEntryIs ==
  ASSUME NEW f \in JksFiles, NEW m \in 1 .. Len(f.entries)
  PROVE  /\ Jks!KeptKeys(f, m) \in Seq(Objects) /\ Jks!EntryCerts(f, m) \in Seq(Objects)
         /\ Len(Jks!EntryCerts(f, m)) = Len(f.entries[m].certs)
         /\ Jks!EntryCerts(f, m) = ChainTo(f, m, Len(f.entries[m].certs))
         /\ Distinct(Jks!KeptKeys(f, m)) /\ Distinct(Jks!EntryCerts(f, m))
         /\ \A p \in 1 .. Len(Jks!KeptKeys(f, m)) :
              \E k \in Nat : Jks!KeptKeys(f, m)[p] = <<m, "key", k>>
         /\ \A p \in 1 .. Len(Jks!EntryCerts(f, m)) :
              \E k \in Nat : Jks!EntryCerts(f, m)[p] = <<m, "cert", k>>
<1> DEFINE x == f.entries[m]
           n == IF x.tag = "key" /\ x.blob # "unknown" THEN x.keys ELSE 0
           q == [k \in 1 .. n |-> Jks!Key(m, k)]
           j == Len(x.certs)
           r == [k \in 1 .. j |-> Jks!Cert(m, k)]
<1>1. /\ x.keys \in 1 .. 2 /\ j \in Nat /\ (\A k \in 1 .. 2 : Jks!Key(m, k) \in Objects)
      /\ \A k \in 1 .. j : Jks!Cert(m, k) \in Objects
  BY JksFileIs
<1>2. n \in Nat /\ n <= 2
  BY <1>1, SMT
<1>3. Jks!KeptKeys(f, m) = q
  <2>1. CASE x.tag = "key" /\ x.blob # "unknown"
    BY <2>1 DEF Jks!KeptKeys, Jks!PassedOver, Jks!EntryKeys
  <2>2. CASE ~(x.tag = "key" /\ x.blob # "unknown")
    <3>1. Jks!KeptKeys(f, m) = <<>>
      BY <2>2 DEF Jks!KeptKeys, Jks!PassedOver, Jks!EntryKeys
    <3>2. q = [k \in 1 .. 0 |-> Jks!Key(m, k)]
      BY <2>2
    <3>3. [k \in 1 .. 0 |-> Jks!Key(m, k)] = <<>>
      BY SMT
    <3> QED
      BY <3>1, <3>2, <3>3
  <2> QED
    BY <2>1, <2>2
<1>4. Jks!EntryCerts(f, m) = r /\ r = ChainTo(f, m, j)
  BY DEF Jks!EntryCerts, ChainTo
<1> HIDE DEF n, x, j
<1>5. q \in Seq(Objects) /\ Len(q) = n
  <2>1. \A k \in 1 .. n : Jks!Key(m, k) \in Objects
    BY <1>1, <1>2, SMT
  <2>2. q \in [1 .. n -> Objects]
    BY <2>1
  <2> QED
    BY <1>2, <2>2, SMT
<1>6. r \in Seq(Objects) /\ Len(r) = j
  <2>1. r \in [1 .. j -> Objects]
    BY <1>1
  <2> QED
    BY <1>1, <2>1, SMT
<1>7. Distinct(q) /\ \A p \in 1 .. n : \E k \in Nat : q[p] = <<m, "key", k>>
  BY <1>2, <1>5, SMT DEF Distinct, Jks!Key
<1>8. Distinct(r) /\ \A p \in 1 .. j : \E k \in Nat : r[p] = <<m, "cert", k>>
  BY <1>1, <1>6, SMT DEF Distinct, Jks!Cert
<1> QED
  BY <1>3, <1>4, <1>5, <1>6, <1>7, <1>8 DEF j, x

LEMMA NamedFronts ==
  ASSUME NEW qs \in Seq(Seq(Objects)), NEW kind,
         \A m \in 1 .. Len(qs) :
           Distinct(qs[m]) /\ \A p \in 1 .. Len(qs[m]) : \E k \in Nat : qs[m][p] = <<m, kind, k>>
  PROVE  \A n \in 0 .. Len(qs) : Distinct(Front(qs, n)) /\ NamedTo(Front(qs, n), kind, n)
<1> DEFINE L == Len(qs)
           P == {n \in Nat : Distinct(Front(qs, n)) /\ NamedTo(Front(qs, n), kind, n)}
<1>1. L \in Nat /\ \A m \in 1 .. L : qs[m] \in Seq(Objects)
  BY LenProperties, ElementOfSeq
<1>2. 0 \in P
  <2>1. Front(qs, 0) = <<>>
    BY FrontIs
  <2> QED
    BY <2>1, NoSlots DEF NamedTo
<1>3. ASSUME NEW n \in 0 .. L - 1, n \in P PROVE n + 1 \in P
  <2> DEFINE x == n + 1
             a == Front(qs, n)
             b == qs[x]
  <2>1. x \in Nat /\ x \in 1 .. L /\ n \in Int /\ 0 <= n /\ n < L /\ n \in 0 .. L
    BY <1>1, SMT
  <2>2. Front(qs, x) = a \o b
    BY <2>1, FrontNext
  <2>3. a \in Seq(Objects) /\ b \in Seq(Objects)
    BY <1>1, <2>1, FrontIs
  <2>4. Len(a) \in Nat /\ Len(b) \in Nat
    BY <2>3, LenProperties
  <2>5. Distinct(a) /\ NamedTo(a, kind, n)
    BY <1>3
  <2>6. Distinct(b) /\ \A p \in 1 .. Len(b) : \E k \in Nat : b[p] = <<x, kind, k>>
    BY <2>1
  <2>7. \A m \in 1 .. n : m # x /\ m \in 1 .. x
    BY <2>1, SMT
  <2>8. x \in 1 .. x
    BY <2>1, SMT
  <2>9. /\ Len(a \o b) = Len(a) + Len(b)
        /\ \A p \in 1 .. Len(a) + Len(b) : (a \o b)[p] = IF p <= Len(a) THEN a[p] ELSE b[p - Len(a)]
    BY <2>3, ConcatProperties
  <2> HIDE DEF a, b, x
  <2>10. \A p \in 1 .. Len(a), q \in 1 .. Len(b) : a[p] # b[q]
    <3> SUFFICES ASSUME NEW p \in 1 .. Len(a), NEW q \in 1 .. Len(b) PROVE a[p] # b[q]
      OBVIOUS
    <3>1. PICK m \in 1 .. n, k \in Nat : a[p] = <<m, kind, k>>
      BY <2>5 DEF NamedTo
    <3>2. PICK k2 \in Nat : b[q] = <<x, kind, k2>>
      BY <2>6
    <3> QED
      BY <2>7, <3>1, <3>2
  <2>11. Distinct(a \o b)
    BY <2>3, <2>5, <2>6, <2>10, DistinctConcat
  <2>12. NamedTo(a \o b, kind, x)
    <3> SUFFICES ASSUME NEW p \in 1 .. Len(a) + Len(b)
                 PROVE  \E m \in 1 .. x, k \in Nat : (a \o b)[p] = <<m, kind, k>>
      BY <2>9 DEF NamedTo
    <3>1. CASE p <= Len(a)
      <4>1. p \in 1 .. Len(a) /\ (a \o b)[p] = a[p]
        BY <2>4, <2>9, <3>1, SMT
      <4>2. PICK m \in 1 .. n, k \in Nat : a[p] = <<m, kind, k>>
        BY <2>5, <4>1 DEF NamedTo
      <4> QED
        BY <2>7, <4>1, <4>2
    <3>2. CASE ~(p <= Len(a))
      <4>1. p - Len(a) \in 1 .. Len(b) /\ (a \o b)[p] = b[p - Len(a)]
        BY <2>4, <2>9, <3>2, SMT
      <4>2. PICK k \in Nat : b[p - Len(a)] = <<x, kind, k>>
        BY <2>6, <4>1
      <4> QED
        BY <2>8, <4>1, <4>2
    <3> QED
      BY <3>1, <3>2
  <2> QED
    BY <2>1, <2>2, <2>11, <2>12 DEF a, b, x
<1>4. \A n \in 0 .. L : n \in P
  <2> HIDE DEF P
  <2> QED
    BY <1>1, <1>2, <1>3, UpTo
<1> QED
  BY <1>4

LEMMA JksFronts ==
  ASSUME NEW f \in JksFiles
  PROVE  /\ JksKeysTo(f, 0) = <<>> /\ JksKeysTo(f, Len(f.entries)) = Jks!FileKeys(f)
         /\ JksCertsTo(f, 0) = <<>> /\ JksCertsTo(f, Len(f.entries)) = Jks!FileCerts(f)
         /\ \A n \in 0 .. Len(f.entries) :
              /\ JksKeysTo(f, n) \in Seq(Objects) /\ JksCertsTo(f, n) \in Seq(Objects)
              /\ Distinct(JksKeysTo(f, n)) /\ NamedTo(JksKeysTo(f, n), "key", n)
              /\ Distinct(JksCertsTo(f, n)) /\ NamedTo(JksCertsTo(f, n), "cert", n)
         /\ \A n \in 1 .. Len(f.entries) :
              /\ JksKeysTo(f, n) = JksKeysTo(f, n - 1) \o Jks!KeptKeys(f, n)
              /\ JksCertsTo(f, n) = JksCertsTo(f, n - 1) \o Jks!EntryCerts(f, n)
<1> DEFINE L == Len(f.entries)
           ps == [m \in 1 .. L |-> Jks!KeptKeys(f, m)]
           qs == [m \in 1 .. L |-> Jks!EntryCerts(f, m)]
<1>1. L \in Nat
  BY JksFileIs
<1>2. ps \in Seq(Seq(Objects)) /\ Len(ps) = L /\ qs \in Seq(Seq(Objects)) /\ Len(qs) = L
  <2>1. ps \in [1 .. L -> Seq(Objects)] /\ qs \in [1 .. L -> Seq(Objects)]
    BY JksEntryIs
  <2> HIDE DEF ps, qs
  <2> QED
    BY <1>1, <2>1, IsSequence
<1>3. \A m \in 1 .. L : ps[m] = Jks!KeptKeys(f, m) /\ qs[m] = Jks!EntryCerts(f, m)
  OBVIOUS
<1>4. \A n \in 0 .. L : JksKeysTo(f, n) = Front(ps, n) /\ JksCertsTo(f, n) = Front(qs, n)
  BY DEF JksKeysTo, JksCertsTo
<1>5. Jks!FileKeys(f) = SX!FlattenSeq(ps) /\ Jks!FileCerts(f) = SX!FlattenSeq(qs)
  BY SameFlatten DEF Jks!FileKeys, Jks!FileCerts, Jks!CertParts
<1> HIDE DEF ps, qs
<1>6. \A m \in 1 .. L :
        /\ Distinct(ps[m]) /\ \A p \in 1 .. Len(ps[m]) : \E k \in Nat : ps[m][p] = <<m, "key", k>>
        /\ Distinct(qs[m]) /\ \A p \in 1 .. Len(qs[m]) : \E k \in Nat : qs[m][p] = <<m, "cert", k>>
  <2> SUFFICES ASSUME NEW m \in 1 .. L
               PROVE  /\ Distinct(ps[m]) /\ \A p \in 1 .. Len(ps[m]) : \E k \in Nat : ps[m][p] = <<m, "key", k>>
                      /\ Distinct(qs[m]) /\ \A p \in 1 .. Len(qs[m]) : \E k \in Nat : qs[m][p] = <<m, "cert", k>>
    OBVIOUS
  <2> DEFINE p1 == Jks!KeptKeys(f, m)
             q1 == Jks!EntryCerts(f, m)
  <2>1. ps[m] = p1 /\ qs[m] = q1
    BY <1>3
  <2>2. /\ Distinct(p1) /\ \A p \in 1 .. Len(p1) : \E k \in Nat : p1[p] = <<m, "key", k>>
        /\ Distinct(q1) /\ \A p \in 1 .. Len(q1) : \E k \in Nat : q1[p] = <<m, "cert", k>>
    BY JksEntryIs
  <2> HIDE DEF p1, q1
  <2> QED
    BY <2>1, <2>2
<1>7. \A n \in 0 .. L : Distinct(Front(ps, n)) /\ NamedTo(Front(ps, n), "key", n)
  BY <1>2, <1>6, NamedFronts
<1>8. \A n \in 0 .. L : Distinct(Front(qs, n)) /\ NamedTo(Front(qs, n), "cert", n)
  BY <1>2, <1>6, NamedFronts
<1>9. /\ Front(ps, 0) = <<>> /\ Front(ps, L) = SX!FlattenSeq(ps)
      /\ Front(qs, 0) = <<>> /\ Front(qs, L) = SX!FlattenSeq(qs)
      /\ \A n \in 0 .. L : Front(ps, n) \in Seq(Objects) /\ Front(qs, n) \in Seq(Objects)
      /\ \A n \in 1 .. L : /\ Front(ps, n) = Front(ps, n - 1) \o ps[n]
                           /\ Front(qs, n) = Front(qs, n - 1) \o qs[n]
  BY <1>2, FrontIs
<1>10. 0 \in 0 .. L /\ L \in 0 .. L /\ \A n \in 1 .. L : n \in 0 .. L /\ n - 1 \in 0 .. L
  BY <1>1, SMT
<1> QED
  BY <1>3, <1>4, <1>5, <1>7, <1>8, <1>9, <1>10

-----------------------------------------------------------------------------
(* Parsing an entry of a JKS file                                          *)

LEMMA FullIs ==
  ASSUME NEW k, NEW d
  PROVE  /\ Full(k, d).live = TRUE /\ Full(k, d).keys = k /\ Full(k, d).certs = d
         /\ Owned(Full(k, d)) = Held(k) \cup Held(d)
         /\ Unshared(Full(k, d)) <=> Distinct(k) /\ Distinct(d) /\ Held(k) \cap Held(d) = {}
BY DEF Full, Owned, Unshared

LEMMA OwnedFull ==
  ASSUME NEW k, NEW d
  PROVE  Owned(Full(k, d)) = Held(k) \cup Held(d)
  BY FullIs

LEMMA UnsharedFull ==
  ASSUME NEW k, NEW d, Distinct(k), Distinct(d), Held(k) \cap Held(d) = {}
  PROVE  Unshared(Full(k, d))
  BY FullIs

\* The store of an entry is appended to the caller's and freed.
Appended(k, d, l, g, o, f) ==
  KeyStoreAppend(HeapOf(With(Only(Full(k, d)), "temp", Full(l, g)), o, f), "main", "temp")

LEMMA AppendedIs ==
  ASSUME Stores = {"main", "temp"}, "main" # Null, "temp" # Null,
         NEW k \in Seq(Objects), NEW d \in Seq(Objects),
         NEW l \in Seq(Objects), NEW g \in Seq(Objects), NEW o, NEW f, Clear(f)
  PROVE  /\ KeyStoreFree(Appended(k, d, l, g, o, f), "temp")
               = HeapOf(Only(Full(k \o l, d \o g)), o, f)
         /\ KeyStoreKeyNum(Appended(k, d, l, g, o, f), "temp") = Len(l)
         /\ KeyStoreCertNum(Appended(k, d, l, g, o, f), "temp") = Len(g)
<1> DEFINE st == With(Only(Full(k, d)), "temp", Full(l, g))
           v  == Full(k \o l, d \o g)
           w  == Full(Empty(Len(l)), Empty(Len(g)))
           su == With(With(st, "main", v), "temp", w)
           h  == Appended(k, d, l, g, o, f)
<1>1. IsStores(st) /\ IsStores(su)
  BY StoresType
<1>2. st["main"] = Full(k, d) /\ st["temp"] = Full(l, g) /\ su["temp"] = w
  BY DEF With, Only
<1>3. h = HeapOf(su, o, f)
  <2>1. h = KeyStoreAppend(HeapOf(st, o, f), "main", "temp")
    BY DEF Appended
  <2> HIDE DEF st, h
  <2> QED
    BY <1>1, <1>2, <2>1, AppendIs
<1>4. Len(l) \in Nat /\ Len(g) \in Nat
  BY LenProperties
<1>5. Unshared(w) /\ Owned(w) = {} /\ w.keys = Empty(Len(l)) /\ w.certs = Empty(Len(g))
  <2> DEFINE p == Empty(Len(l))
             q == Empty(Len(g))
  <2>1. Distinct(p) /\ Distinct(q) /\ Held(p) = {} /\ Held(q) = {}
    BY <1>4, EmptyHolds
  <2> HIDE DEF p, q
  <2>2. Unshared(Full(p, q)) /\ Owned(Full(p, q)) = {} /\ Full(p, q).keys = p /\ Full(p, q).certs = q
    <3>1. Held(p) \cap Held(q) = {} /\ Held(p) \cup Held(q) = {}
      BY <2>1
    <3>4. Full(p, q).keys = p /\ Full(p, q).certs = q
      BY DEF Full
    <3>5. Owned(Full(p, q)) = Held(p) \cup Held(q)
      BY OwnedFull, Zenon
    <3>2. Owned(Full(p, q)) = {} /\ Full(p, q).keys = p /\ Full(p, q).certs = q
      BY <3>1, <3>4, <3>5, Zenon
    <3>3. Unshared(Full(p, q)) <=> Distinct(p) /\ Distinct(q) /\ Held(p) \cap Held(q) = {}
      BY FullIs
    <3> QED
      BY <2>1, <3>1, <3>2, <3>3
  <2> QED
    BY <2>2 DEF p, q
<1>6. KeyStoreFree(HeapOf(su, o, f), "temp") = HeapOf(With(su, "temp", Gone), o, f)
  <2> DEFINE p == Empty(Len(l))
             q == Empty(Len(g))
  <2>1. su["temp"] = Full(p, q) /\ Unshared(Full(p, q)) /\ Points(Full(p, q), o)
        /\ "temp" \in Stores /\ IsStores(su) /\ "temp" # Null
    BY <1>1, <1>2, <1>5 DEF Points
  <2>2. o = o \ Owned(Full(p, q)) /\ Clear(f)
    BY <1>5
  <2> HIDE DEF su, p, q
  <2> QED
    BY ONLY <2>1, <2>2, FreeIs
<1>7. With(su, "temp", Gone) = Only(v)
  <2> HIDE DEF v, w
  <2> QED
    BY DEF With, Only
<1>9. KeyStoreKeyNum(h, "temp") = Len(l) /\ KeyStoreCertNum(h, "temp") = Len(g)
  <2>1. KeyStoreKeyNum(h, "temp") = Len(w.keys) /\ KeyStoreCertNum(h, "temp") = Len(w.certs)
    BY <1>2, <1>3 DEF KeyStoreKeyNum, KeyStoreCertNum, HeapOf
  <2> QED
    BY <1>4, <1>5, <2>1, EmptyHolds
<1> QED
  BY <1>3, <1>6, <1>7, <1>9

\* keysFromPKCS8 makes a store of the keys of the entry.
LEMMA KeysMadeIs ==
  ASSUME file \in JksFiles, e \in 1 .. Len(file.entries),
         file.entries[e].tag = "key", file.entries[e].blob = "good", NEW t, NEW o, NEW f
  PROVE  Jks!KeysFromPKCS8(HeapOf(Only(t), o, f))
           = HeapOf(With(Only(t), "temp", Full(Jks!KeptKeys(file, e), <<>>)),
                    o \cup Held(Jks!KeptKeys(file, e)), f)
<1> DEFINE x  == file.entries[e]
           o1 == Jks!Key(e, 1)
           o2 == Jks!Key(e, 2)
           q  == Jks!KeptKeys(file, e)
           h  == HeapOf(Only(t), o, f)
           ha == Jks!Create(h, o1)
           hb == Jks!KeyStoreNew(ha, "temp", x.keys, 0)
           hc == Jks!KeyStoreSetKey(hb, "temp", 0, o1)
           hd == Jks!Create(hc, o2)
           he == Jks!KeyStoreSetKey(hd, "temp", 1, o2)
           st(r) == With(Only(t), "temp", Full(r, <<>>))
<1>1. "temp" \in Stores /\ "temp" # Null /\ x.keys \in 1 .. 2 /\ o1 \in Objects /\ o2 \in Objects
  BY JksFileIs
<1>2. Null \notin Objects
  BY PointerAssumption DEF NullAssumption
<1>3. Jks!KeysFromPKCS8(h) = IF x.keys = 1 THEN hc ELSE he
  BY DEF Jks!KeysFromPKCS8, Jks!Temp, Jks!Current
<1>4. ha = HeapOf(Only(t), o \cup {o1}, f)
  <2> HIDE DEF o1
  <2> QED
    BY JksStore, CreateIs
<1>5. q = [k \in 1 .. x.keys |-> Jks!Key(e, k)]
  BY DEF Jks!KeptKeys, Jks!PassedOver, Jks!EntryKeys
<1> HIDE DEF x, o1, o2, q, h, ha
<1>6. IsStores(Only(t)) /\ \A r : IsStores(st(r))
  BY StoresType
<1>7. Empty(0) = <<>> /\ Len(Empty(x.keys)) = x.keys
  BY <1>1, NoSlots, EmptyHolds
<1>8. hb = HeapOf(st(Empty(x.keys)), o \cup {o1}, f)
  <2> DEFINE u == Only(t)
             p == o \cup {o1}
  <2>1. IsStores(u) /\ ha = HeapOf(u, p, f)
    BY <1>4, <1>6
  <2> HIDE DEF u, p
  <2> DEFINE n == x.keys
  <2> HIDE DEF n
  <2>2. KeyStoreNew(HeapOf(u, p, f), "temp", n, 0)
          = HeapOf(With(u, "temp", Full(Empty(n), Empty(0))), p, f)
    BY <1>1, <2>1, NewIs
  <2>3. hb = KeyStoreNew(HeapOf(u, p, f), "temp", n, 0)
    BY <2>1, JksStore DEF n
  <2> QED
    BY <1>7, <2>2, <2>3 DEF u, p, n
<1>9. ASSUME NEW r, NEW n, n < Len(r), NEW p, NEW y
      PROVE  KeyStoreSetKey(HeapOf(st(r), p, f), "temp", n, y) = HeapOf(st(Put(r, n, y)), p, f)
  <2> DEFINE u == st(r)
  <2>1. IsStores(u) /\ u["temp"] = Full(r, <<>>)
    BY <1>1, <1>6 DEF With
  <2> HIDE DEF u
  <2>2. KeyStoreSetKey(HeapOf(u, p, f), "temp", n, y)
          = HeapOf(With(u, "temp", Full(Put(r, n, y), <<>>)), p, f)
    BY <1>1, <1>9, <2>1, SetKeyIs
  <2>3. With(u, "temp", Full(Put(r, n, y), <<>>)) = st(Put(r, n, y))
    BY DEF u, With
  <2> QED
    BY <2>2, <2>3 DEF u
<1> HIDE DEF hb, st
<1>10. hc = HeapOf(st(Put(Empty(x.keys), 0, o1)), o \cup {o1}, f)
  <2>1. 0 < Len(Empty(x.keys))
    BY <1>1, <1>7, SMT
  <2> QED
    BY <1>8, <1>9, <2>1, JksStore
<1> HIDE DEF hc
<1>11. CASE x.keys = 1
  <2>1. Put(Empty(1), 0, o1) = q
    <3>1. Len(Empty(1)) = 1
      BY <1>7, <1>11
    <3>2. Put(Empty(1), 0, o1) = [p \in 1 .. 1 |-> o1]
      <4> DEFINE r == Empty(1)
      <4>1. Len(r) = 1
        BY <3>1
      <4> HIDE DEF r
      <4>2. Put(r, 0, o1) = [p \in 1 .. 1 |-> IF p = 0 + 1 THEN o1 ELSE r[p]]
        BY <4>1 DEF Put
      <4>3. \A p \in 1 .. 1 : p = 0 + 1
        BY SMT
      <4> QED
        BY <4>2, <4>3 DEF r
    <3>3. q = [p \in 1 .. 1 |-> o1]
      BY <1>5, <1>11 DEF o1
    <3> QED
      BY <3>2, <3>3
  <2>2. Held(q) = {o1}
    <3>1. q = <<o1>>
      BY <1>5, <1>11, SMT DEF o1
    <3> QED
      BY <1>1, <1>2, <3>1 DEF Held
  <2> QED
    BY <1>3, <1>10, <1>11, <2>1, <2>2 DEF st, h, q
<1>12. CASE x.keys = 2
  <2>1. hd = HeapOf(st(Put(Empty(2), 0, o1)), (o \cup {o1}) \cup {o2}, f)
    <3> DEFINE u == st(Put(Empty(2), 0, o1))
               p == o \cup {o1}
    <3>1. hc = HeapOf(u, p, f)
      BY <1>10, <1>12
    <3> HIDE DEF u, p
    <3> QED
      BY <3>1, JksStore, CreateIs DEF u, p
  <2>2. Len(Empty(2)) = 2
    BY <1>7, <1>12
  <2>3. Len(Put(Empty(2), 0, o1)) = 2
    BY <2>2, SMT DEF Put
  <2>4. he = HeapOf(st(Put(Put(Empty(2), 0, o1), 1, o2)), (o \cup {o1}) \cup {o2}, f)
    <3> DEFINE z == Put(Empty(2), 0, o1)
               p == (o \cup {o1}) \cup {o2}
    <3>1. 1 < Len(z) /\ hd = HeapOf(st(z), p, f)
      BY <2>1, <2>3
    <3> HIDE DEF hd, z, p
    <3>2. KeyStoreSetKey(HeapOf(st(z), p, f), "temp", 1, o2) = HeapOf(st(Put(z, 1, o2)), p, f)
      BY <1>9, <3>1
    <3>3. he = KeyStoreSetKey(hd, "temp", 1, o2)
      BY JksStore
    <3> QED
      BY <3>1, <3>2, <3>3 DEF z, p
  <2>5. Put(Put(Empty(2), 0, o1), 1, o2) = [p \in 1 .. 2 |-> IF p = 1 THEN o1 ELSE o2]
    <3> DEFINE r == Empty(2)
               t1 == Put(r, 0, o1)
               t2 == Put(t1, 1, o2)
               v  == [p \in 1 .. 2 |-> IF p = 1 THEN o1 ELSE o2]
    <3>1. Len(r) = 2 /\ Len(t1) = 2
      BY <2>2, <2>3
    <3> HIDE DEF r
    <3>2. t1 = [p \in 1 .. 2 |-> IF p = 0 + 1 THEN o1 ELSE r[p]]
      BY <3>1 DEF Put
    <3> HIDE DEF t1
    <3>3. t2 = [p \in 1 .. 2 |-> IF p = 1 + 1 THEN o2 ELSE t1[p]]
      BY <3>1 DEF Put
    <3>4. \A p \in 1 .. 2 : (IF p = 1 + 1 THEN o2 ELSE t1[p]) = IF p = 1 THEN o1 ELSE o2
      BY <3>2, SMT
    <3>5. t2 = v
      BY <3>3, <3>4
    <3> QED
      BY <3>5 DEF r, t1
  <2>6. q = [p \in 1 .. 2 |-> IF p = 1 THEN o1 ELSE o2]
    <3>1. \A p \in 1 .. 2 : Jks!Key(e, p) = IF p = 1 THEN o1 ELSE o2
      BY SMT DEF o1, o2
    <3> QED
      BY <1>5, <1>12, <3>1
  <2>7. Held(q) = {o1, o2}
    <3>1. q \in [1 .. 2 -> Objects]
      BY <1>1, <2>6
    <3>2. Len(q) = 2
      BY <3>1, SMT
    <3> HIDE DEF q
    <3>3. q[1] = o1 /\ q[2] = o2 /\ 1 \in 1 .. 2 /\ 2 \in 1 .. 2
      BY <2>6, SMT
    <3>4. \A p \in 1 .. 2 : p = 1 \/ p = 2
      BY SMT
    <3> QED
      BY <1>1, <1>2, <3>2, <3>3, <3>4 DEF Held
  <2>8. (o \cup {o1}) \cup {o2} = o \cup {o1, o2}
    OBVIOUS
  <2>9. Jks!KeysFromPKCS8(h) = he
    BY <1>3, <1>12
  <2> HIDE DEF he
  <2>10. he = HeapOf(st(q), o \cup Held(q), f)
    <3>1. Put(Put(Empty(2), 0, o1), 1, o2) = q
      BY <2>5, <2>6
    <3> HIDE DEF q
    <3> QED
      BY <2>4, <2>7, <2>8, <3>1
  <2> QED
    BY <2>9, <2>10 DEF st, h, q
<1>13. x.keys = 1 \/ x.keys = 2
  BY <1>1, SMT
<1> QED
  BY <1>11, <1>12, <1>13

\* parseCert makes a store of one certificate.
LEMMA CertMadeIs ==
  ASSUME Stores = {"main", "temp"}, "temp" # Null, NEW y \in Objects, NEW t, NEW o, NEW f
  PROVE  Jks!KeyStoreSetCert(
           Jks!KeyStoreNew(Jks!Create(HeapOf(Only(t), o, f), y), "temp", 0, 1), "temp", 0, y)
           = HeapOf(With(Only(t), "temp", Full(<<>>, <<y>>)), o \cup {y}, f)
<1> DEFINE st(r) == With(Only(t), "temp", Full(<<>>, r))
           u  == Only(t)
           p  == o \cup {y}
           ha == Jks!Create(HeapOf(u, o, f), y)
           hb == Jks!KeyStoreNew(ha, "temp", 0, 1)
           hc == Jks!KeyStoreSetCert(hb, "temp", 0, y)
           r0 == Empty(1)
           v  == st(r0)
<1>1. "temp" \in Stores /\ Null \notin Objects
  BY PointerAssumption DEF NullAssumption
<1>2. IsStores(u) /\ IsStores(v)
  BY StoresType
<1>3. Empty(0) = <<>> /\ Len(r0) = 1
  BY NoSlots, EmptyHolds
<1>4. ha = HeapOf(u, p, f)
  BY JksStore, CreateIs
<1>5. v["temp"] = Full(<<>>, r0)
  BY <1>1 DEF With
<1>6. With(v, "temp", Full(<<>>, Put(r0, 0, y))) = st(Put(r0, 0, y))
  BY DEF With
<1> HIDE DEF u, p, ha
<1>7. KeyStoreNew(HeapOf(u, p, f), "temp", 0, 1) = HeapOf(With(u, "temp", Full(Empty(0), Empty(1))), p, f)
  BY <1>1, <1>2, NewIs
<1>8. hb = HeapOf(v, p, f)
  BY <1>3, <1>4, <1>7, JksStore DEF u
<1> HIDE DEF v, hb, r0
<1>9. KeyStoreSetCert(HeapOf(v, p, f), "temp", 0, y) = HeapOf(With(v, "temp", Full(<<>>, Put(r0, 0, y))), p, f)
  <2>1. 0 < Len(r0)
    BY <1>3
  <2> QED
    BY <1>1, <1>2, <1>5, <2>1, SetCertIs
<1>10. Put(r0, 0, y) = <<y>>
  <2>1. Put(r0, 0, y) = [q \in 1 .. 1 |-> IF q = 0 + 1 THEN y ELSE r0[q]]
    BY <1>3 DEF Put
  <2>2. \A q \in 1 .. 1 : q = 0 + 1
    BY SMT
  <2>3. [q \in 1 .. 1 |-> y] = <<y>>
    BY SMT
  <2> QED
    BY <2>1, <2>2, <2>3
<1>11. hc = KeyStoreSetCert(HeapOf(v, p, f), "temp", 0, y)
  BY <1>8, JksStore
<1> HIDE DEF hc
<1>12. hc = HeapOf(st(<<y>>), p, f)
  BY <1>6, <1>9, <1>10, <1>11 DEF v
<1> QED
  BY <1>12 DEF hc, hb, ha, u, p

-----------------------------------------------------------------------------
(* A heap with one store in it, or none                                    *)

LEMMA HeapIs ==
  ASSUME NEW st, NEW o, NEW f
  PROVE  /\ HeapOf(st, o, f).stores = st
         /\ HeapOf(st, o, f).objects = o
         /\ HeapOf(st, o, f).fault = f
BY DEF HeapOf

LEMMA OnlyIs ==
  ASSUME NEW t, NEW s \in Stores
  PROVE  Only(t)[s] = IF s = "main" THEN t ELSE Gone
BY DEF Only

LEMMA GoneIs ==
  /\ Gone.live = FALSE /\ Gone.keys = <<>> /\ Gone.certs = <<>>
  /\ Owned(Gone) = {} /\ Unshared(Gone)
<1>1. Gone.live = FALSE /\ Gone.keys = <<>> /\ Gone.certs = <<>>
  BY DEF Gone
<1>2. Held(<<>>) = {} /\ Distinct(<<>>)
  BY NoSlots
<1> QED
  BY <1>1, <1>2 DEF Owned, Unshared

LEMMA NothingOwned ==
  ASSUME NEW f
  PROVE  OwnedOnce(HeapOf(Only(Gone), {}, f))
<1> DEFINE h == HeapOf(Only(Gone), {}, f)
<1>1. h.objects = {} /\ \A s \in Stores : h.stores[s] = Gone
  BY HeapIs, OnlyIs
<1> HIDE DEF h
<1>2. \A s \in Stores : Unshared(h.stores[s]) /\ Owned(h.stores[s]) = {}
  BY <1>1, GoneIs
<1>3. UNION {Owned(h.stores[s]) : s \in Stores} = {}
  BY <1>2
<1> QED
  BY <1>1, <1>2, <1>3 DEF OwnedOnce, h

LEMMA BuiltOwned ==
  ASSUME "main" \in Stores, NEW t, Unshared(t), NEW f
  PROVE  OwnedOnce(HeapOf(Only(t), Owned(t), f))
<1> DEFINE h == HeapOf(Only(t), Owned(t), f)
<1>1. h.objects = Owned(t) /\ \A s \in Stores : h.stores[s] = IF s = "main" THEN t ELSE Gone
  BY HeapIs, OnlyIs
<1> HIDE DEF h
<1>2. \A s \in Stores : Unshared(h.stores[s]) /\ Owned(h.stores[s]) = IF s = "main" THEN Owned(t) ELSE {}
  BY <1>1, GoneIs
<1>3. UNION {Owned(h.stores[s]) : s \in Stores} = Owned(t)
  BY <1>2
<1>4. \A s, u \in Stores : s # u => Owned(h.stores[s]) \cap Owned(h.stores[u]) = {}
  BY <1>2
<1> QED
  BY <1>1, <1>2, <1>3, <1>4 DEF OwnedOnce, h

LEMMA BuiltFreed ==
  ASSUME "main" \in Stores, "main" # Null, NEW k, NEW d, Unshared(Full(k, d)), NEW f, Clear(f)
  PROVE  KeyStoreFree(HeapOf(Only(Full(k, d)), Owned(Full(k, d)), f), "main") = HeapOf(Only(Gone), {}, f)
<1> DEFINE o  == Owned(Full(k, d))
           st == Only(Full(k, d))
<1>1. IsStores(st) /\ st["main"] = Full(k, d)
  BY StoresType DEF Only
<1>2. Points(Full(k, d), o) /\ {} = o \ o
  BY DEF Points
<1>3. With(st, "main", Gone) = Only(Gone)
  BY DEF With, Only
<1> HIDE DEF st
<1>4. KeyStoreFree(HeapOf(st, o, f), "main") = HeapOf(With(st, "main", Gone), {}, f)
  BY <1>1, <1>2, FreeIs
<1> QED
  BY <1>3, <1>4 DEF st

LEMMA EmptyHeapIs ==
  /\ EmptyHeap = HeapOf(Only(Gone), {}, FALSE)
  /\ Jks!EmptyHeap = EmptyHeap /\ Pkcs12!EmptyHeap = EmptyHeap /\ Key6!EmptyHeap = EmptyHeap
<1>1. \A s \in Stores : (IF s = "main" THEN Gone ELSE Gone) = Gone
  OBVIOUS
<1>2. [s \in Stores |-> Gone] = Only(Gone)
  BY <1>1 DEF Only
<1>3. EmptyHeap = HeapOf(Only(Gone), {}, FALSE)
  BY <1>2 DEF EmptyHeap, HeapOf
<1> QED
  BY <1>3 DEF EmptyHeap, Gone, Jks!EmptyHeap, Jks!Gone, Pkcs12!EmptyHeap, Pkcs12!Gone, Key6!EmptyHeap, Key6!Gone

-----------------------------------------------------------------------------
(* The JKS loader                                                          *)

LEMMA NamedApart ==
  ASSUME NEW a, NEW b, NEW n, NEW m, NamedTo(a, "key", n), NamedTo(b, "cert", m)
  PROVE  Held(a) \cap Held(b) = {}
<1> SUFFICES ASSUME NEW p \in 1 .. Len(a), NEW q \in 1 .. Len(b), a[p] = b[q] PROVE FALSE
  BY DEF Held
<1>1. PICK x \in 1 .. n, k \in Nat : a[p] = <<x, "key", k>>
  BY DEF NamedTo
<1>2. PICK y \in 1 .. m, j \in Nat : b[q] = <<y, "cert", j>>
  BY DEF NamedTo
<1>3. <<x, "key", k>> # <<y, "cert", j>>
  BY SMT
<1> QED
  BY <1>1, <1>2, <1>3

LEMMA ChainIs ==
  ASSUME NEW f \in JksFiles, NEW m \in 1 .. Len(f.entries),
         NEW n \in 0 .. Len(f.entries[m].certs)
  PROVE  /\ ChainTo(f, m, n) \in Seq(Objects) /\ Len(ChainTo(f, m, n)) = n
         /\ Distinct(ChainTo(f, m, n)) /\ ChainTo(f, m, 0) = <<>>
         /\ \A p \in 1 .. n : ChainTo(f, m, n)[p] = <<m, "cert", p>>
<1> DEFINE q == ChainTo(f, m, n)
<1>1. Len(f.entries[m].certs) \in Nat
      /\ \A p \in 1 .. Len(f.entries[m].certs) : Jks!Cert(m, p) \in Objects
  BY JksFileIs
<1>2. n \in Nat /\ \A p \in 1 .. n : p \in 1 .. Len(f.entries[m].certs)
  BY <1>1, SMT
<1>3. q = [p \in 1 .. n |-> <<m, "cert", p>>] /\ \A p \in 1 .. n : <<m, "cert", p>> \in Objects
  BY <1>1, <1>2 DEF ChainTo, Jks!Cert
<1>4. q \in [1 .. n -> Objects]
  BY <1>3
<1>5. q \in Seq(Objects) /\ Len(q) = n
  <2> HIDE DEF q
  <2> QED
    BY <1>2, <1>4, IsSequence
<1>6. \A p \in 1 .. n : q[p] = <<m, "cert", p>>
  BY <1>3
<1> HIDE DEF q
<1>7. Distinct(q)
  BY <1>5, <1>6 DEF Distinct
<1>8. ChainTo(f, m, 0) = <<>>
  BY SMT DEF ChainTo
<1> QED
  BY <1>5, <1>6, <1>7, <1>8 DEF q

LEMMA ChainNext ==
  ASSUME NEW f \in JksFiles, NEW m \in 1 .. Len(f.entries),
         NEW n \in 0 .. Len(f.entries[m].certs) - 1
  PROVE  JksCertsAt(f, m, n + 1) = JksCertsAt(f, m, n) \o <<Jks!Cert(m, n + 1)>>
<1> DEFINE a == JksCertsTo(f, m - 1)
           q == ChainTo(f, m, n)
           r == ChainTo(f, m, n + 1)
           y == Jks!Cert(m, n + 1)
<1>1. Len(f.entries[m].certs) \in Nat /\ Len(f.entries) \in Nat
      /\ \A p \in 1 .. Len(f.entries[m].certs) : Jks!Cert(m, p) \in Objects
  BY JksFileIs
<1>2. /\ n \in Nat /\ n + 1 \in Nat /\ n \in 0 .. Len(f.entries[m].certs)
      /\ n + 1 \in 0 .. Len(f.entries[m].certs) /\ n + 1 \in 1 .. Len(f.entries[m].certs)
      /\ m - 1 \in 0 .. Len(f.entries)
  BY <1>1, SMT
<1>3. /\ q \in Seq(Objects) /\ Len(q) = n /\ \A p \in 1 .. n : q[p] = <<m, "cert", p>>
      /\ r \in Seq(Objects) /\ Len(r) = n + 1 /\ \A p \in 1 .. n + 1 : r[p] = <<m, "cert", p>>
  BY <1>2, ChainIs
<1>4. y \in Objects /\ y = <<m, "cert", n + 1>>
  BY <1>1, <1>2 DEF Jks!Cert
<1>5. a \in Seq(Objects)
  BY <1>2, JksFronts
<1> HIDE DEF a, q, r, y
<1>6. r = q \o <<y>>
  <2>1. <<y>> \in Seq(Objects) /\ Len(<<y>>) = 1 /\ <<y>>[1] = y
    BY <1>4, SMT
  <2> DEFINE s == <<y>>
  <2> HIDE DEF s
  <2>2. /\ q \o s \in Seq(Objects) /\ Len(q \o s) = n + 1
        /\ \A p \in 1 .. n + 1 : (q \o s)[p] = IF p <= n THEN q[p] ELSE s[p - n]
    BY <1>2, <1>3, <2>1, ConcatProperties DEF s
  <2>3. \A p \in 1 .. n + 1 : p \in 1 .. n \/ (~(p <= n) /\ p = n + 1 /\ p - n = 1)
    BY <1>2, SMT
  <2>4. \A p \in 1 .. n : p <= n
    BY <1>2, SMT
  <2>5. \A p \in 1 .. n + 1 : r[p] = (q \o s)[p]
    <3>1. ASSUME NEW p \in 1 .. n + 1, p \in 1 .. n PROVE r[p] = (q \o s)[p]
      BY <1>3, <2>2, <2>4, <3>1, Zenon
    <3>2. ASSUME NEW p \in 1 .. n + 1, ~(p <= n), p = n + 1, p - n = 1
          PROVE  r[p] = (q \o s)[p]
      <4>1. (q \o s)[p] = s[p - n] /\ s[p - n] = y
        BY <2>1, <2>2, <3>2, Zenon DEF s
      <4>2. r[p] = <<m, "cert", p>>
        BY <1>3, Zenon
      <4> QED
        BY <1>4, <3>2, <4>1, <4>2, Zenon
    <3> QED
      BY <2>3, <3>1, <3>2, Zenon
  <2> QED
    BY <1>3, <2>2, <2>5, SeqEqual DEF s
<1>7. <<y>> \in Seq(Objects)
  BY <1>4, SMT
<1>8. (a \o q) \o <<y>> = a \o (q \o <<y>>)
  <2> DEFINE s == <<y>>
  <2>1. s \in Seq(Objects)
    BY <1>7
  <2> HIDE DEF s
  <2>2. (a \o q) \o s = a \o (q \o s)
    <3>1. a \in Seq(Objects) /\ q \in Seq(Objects)
      BY <1>3, <1>5
    <3> QED
      BY ONLY <2>1, <3>1, ConcatAssociative
  <2> QED
    BY <2>2 DEF s
<1> QED
  BY <1>6, <1>8 DEF JksCertsAt, a, q, r, y

LEMMA JksCertsAtIs ==
  ASSUME NEW f \in JksFiles, NEW m \in 1 .. Len(f.entries),
         NEW n \in 0 .. Len(f.entries[m].certs)
  PROVE  /\ JksCertsAt(f, m, n) \in Seq(Objects) /\ Distinct(JksCertsAt(f, m, n))
         /\ NamedTo(JksCertsAt(f, m, n), "cert", m)
         /\ JksCertsAt(f, m, 0) = JksCertsTo(f, m - 1)
         /\ JksCertsAt(f, m, Len(f.entries[m].certs)) = JksCertsTo(f, m)
<1> DEFINE a == JksCertsTo(f, m - 1)
           q == ChainTo(f, m, n)
<1>1. Len(f.entries[m].certs) \in Nat /\ Len(f.entries) \in Nat
  BY JksFileIs
<1>2. m - 1 \in 0 .. Len(f.entries) /\ n \in Nat /\ m \in 1 .. m
      /\ \A x \in 1 .. m - 1 : x # m /\ x \in 1 .. m
  BY <1>1, SMT
<1>3. a \in Seq(Objects) /\ Distinct(a) /\ NamedTo(a, "cert", m - 1)
  BY <1>2, JksFronts
<1>4. q \in Seq(Objects) /\ Len(q) = n /\ Distinct(q) /\ \A p \in 1 .. n : q[p] = <<m, "cert", p>>
  BY ChainIs
<1>5. JksCertsAt(f, m, 0) = a
  <2>1. ChainTo(f, m, 0) = <<>>
    BY ChainIs
  <2>2. a \o <<>> = a
    BY <1>3, ConcatEmptySeq
  <2> QED
    BY <2>1, <2>2 DEF JksCertsAt
<1>6. JksCertsAt(f, m, Len(f.entries[m].certs)) = JksCertsTo(f, m)
  <2>1. Jks!EntryCerts(f, m) = ChainTo(f, m, Len(f.entries[m].certs))
    BY JksEntryIs
  <2>2. JksCertsTo(f, m) = a \o Jks!EntryCerts(f, m)
    BY JksFronts
  <2> QED
    BY <2>1, <2>2 DEF JksCertsAt
<1> HIDE DEF a, q
<1>7. Len(a) \in Nat
  BY <1>3, LenProperties
<1>8. \A p \in 1 .. Len(a), k \in 1 .. Len(q) : a[p] # q[k]
  <2> SUFFICES ASSUME NEW p \in 1 .. Len(a), NEW k \in 1 .. n PROVE a[p] # q[k]
    BY <1>4
  <2>1. PICK x \in 1 .. m - 1, j \in Nat : a[p] = <<x, "cert", j>>
    BY <1>3 DEF NamedTo
  <2> QED
    BY <1>2, <1>4, <2>1
<1>9. Distinct(a \o q)
  BY <1>3, <1>4, <1>8, DistinctConcat
<1>10. NamedTo(a \o q, "cert", m)
  <2>1. a \o q \in Seq(Objects) /\ Len(a \o q) = Len(a) + n
        /\ \A p \in 1 .. Len(a) + n : (a \o q)[p] = IF p <= Len(a) THEN a[p] ELSE q[p - Len(a)]
    BY <1>3, <1>4, ConcatProperties
  <2> SUFFICES ASSUME NEW p \in 1 .. Len(a) + n
               PROVE  \E x \in 1 .. m, k \in Nat : (a \o q)[p] = <<x, "cert", k>>
    BY <2>1 DEF NamedTo
  <2>2. CASE p <= Len(a)
    <3>1. p \in 1 .. Len(a) /\ (a \o q)[p] = a[p]
      BY <1>7, <2>1, <2>2, SMT
    <3>2. PICK x \in 1 .. m - 1, j \in Nat : a[p] = <<x, "cert", j>>
      BY <1>3, <3>1 DEF NamedTo
    <3> QED
      BY <1>2, <3>1, <3>2
  <2>3. CASE ~(p <= Len(a))
    <3>1. p - Len(a) \in 1 .. n /\ p - Len(a) \in Nat /\ (a \o q)[p] = q[p - Len(a)]
      BY <1>2, <1>7, <2>1, <2>3, SMT
    <3> QED
      BY <1>2, <1>4, <3>1
  <2> QED
    BY <2>2, <2>3
<1>11. a \o q \in Seq(Objects)
  BY <1>3, <1>4, ConcatProperties
<1> QED
  BY <1>5, <1>6, <1>9, <1>10, <1>11 DEF JksCertsAt, a, q

LEMMA JksUnshared ==
  ASSUME NEW k, NEW d, NEW n, NEW m, Distinct(k), Distinct(d),
         NamedTo(k, "key", n), NamedTo(d, "cert", m)
  PROVE  Unshared(Full(k, d))
<1>1. Held(k) \cap Held(d) = {}
  BY NamedApart
<1> QED
  BY <1>1, FullIs

LEMMA FreesAll ==
  ASSUME "main" \in Stores, "main" # Null, NEW k, NEW d, Built(k, d), Unshared(Full(k, d)),
         heap.fault = FALSE
  PROVE  KeyStoreFree(heap, ks) = HeapOf(Only(Gone), {}, FALSE)
<1> DEFINE no == heap.fault
           t  == Full(k, d)
           h  == HeapOf(Only(t), Owned(t), no)
<1>1. heap = h /\ ks = "main"
  BY DEF Built
<1>2. Clear(no)
  BY DEF Clear
<1>3. KeyStoreFree(h, "main") = HeapOf(Only(Gone), {}, no)
  <2> HIDE DEF no
  <2> QED
    BY <1>2, BuiltFreed
<1> HIDE DEF h
<1> QED
  BY <1>1, <1>3

\* What a JKS load has built, at every point where it has built anything.
LEMMA JksHas ==
  ASSUME JksInv, pc \in {"entry", "certs"} \/ (pc = "returned" /\ ret = 1)
  PROVE  /\ "main" \in Stores /\ "main" # Null
         /\ \E k, d \in Seq(Objects) : Built(k, d) /\ Unshared(Full(k, d))
<1>1. file \in JksFiles
  BY DEF JksInv
<1>2. "main" \in Stores /\ "main" # Null /\ Len(file.entries) \in Nat
  BY <1>1, JksFileIs
<1>3. CASE pc = "entry"
  <2> DEFINE k == JksKeysTo(file, e - 1)
             d == JksCertsTo(file, e - 1)
  <2>1. Built(k, d) /\ e \in 1 .. Len(file.entries) + 1
    BY <1>3 DEF JksInv, JksBuilt
  <2>2. e - 1 \in 0 .. Len(file.entries)
    BY <1>2, <2>1, SMT
  <2>3. /\ k \in Seq(Objects) /\ Distinct(k) /\ NamedTo(k, "key", e - 1)
        /\ d \in Seq(Objects) /\ Distinct(d) /\ NamedTo(d, "cert", e - 1)
    BY <1>1, <2>2, JksFronts
  <2> HIDE DEF k, d
  <2>4. Unshared(Full(k, d))
    BY <2>3, JksUnshared
  <2> QED
    BY <1>2, <2>1, <2>3, <2>4
<1>4. CASE pc = "certs"
  <2> DEFINE k == JksKeysTo(file, e)
             d == JksCertsAt(file, e, c)
  <2>1. Built(k, d) /\ e \in 1 .. Len(file.entries) /\ c \in 0 .. Len(file.entries[e].certs)
    BY <1>4 DEF JksInv, JksBuilt
  <2>2. e \in 0 .. Len(file.entries)
    BY <1>2, <2>1, SMT
  <2>3. k \in Seq(Objects) /\ Distinct(k) /\ NamedTo(k, "key", e)
    BY <1>1, <2>2, JksFronts
  <2>4. d \in Seq(Objects) /\ Distinct(d) /\ NamedTo(d, "cert", e)
    BY <1>1, <2>1, JksCertsAtIs
  <2> HIDE DEF k, d
  <2>5. Unshared(Full(k, d))
    BY <2>3, <2>4, JksUnshared
  <2> QED
    BY <1>2, <2>1, <2>3, <2>4, <2>5
<1>5. CASE pc = "returned" /\ ret = 1
  <2> DEFINE k == Jks!FileKeys(file)
             d == Jks!FileCerts(file)
             L == Len(file.entries)
  <2>1. Built(k, d)
    BY <1>5 DEF JksInv
  <2>2. L \in 0 .. L
    BY <1>2, SMT
  <2>3. /\ k \in Seq(Objects) /\ Distinct(k) /\ NamedTo(k, "key", L)
        /\ d \in Seq(Objects) /\ Distinct(d) /\ NamedTo(d, "cert", L)
    <3>1. k = JksKeysTo(file, L) /\ d = JksCertsTo(file, L)
      BY <1>1, JksFronts
    <3> HIDE DEF k, d
    <3> QED
      BY <1>1, <2>2, <3>1, JksFronts
  <2> HIDE DEF k, d
  <2>4. Unshared(Full(k, d))
    BY <2>3, JksUnshared
  <2> QED
    BY <1>2, <2>1, <2>3, <2>4
<1> QED
  BY <1>3, <1>4, <1>5

\* Wherever it gives up, nothing is left.
LEMMA JksFrees ==
  ASSUME JksInv, pc \in {"entry", "certs"} \/ (pc = "returned" /\ ret = 1), heap.fault = FALSE
  PROVE  Jks!KeyStoreFree(heap, ks) = HeapOf(Only(Gone), {}, FALSE)
<1>1. "main" \in Stores /\ "main" # Null
  BY JksHas
<1>2. PICK k, d \in Seq(Objects) : Built(k, d) /\ Unshared(Full(k, d))
  BY JksHas
<1>3. KeyStoreFree(heap, ks) = HeapOf(Only(Gone), {}, FALSE)
  BY <1>1, <1>2, FreesAll
<1> QED
  BY <1>3, JksStore

LEMMA JksInit == ASSUME Jks!Init PROVE JksInv
<1> DEFINE no == FALSE
<1>1. heap = HeapOf(Only(Gone), {}, no)
  BY EmptyHeapIs DEF Jks!Init
<1>2. heap.fault = no
  BY <1>1 DEF HeapOf
<1> QED
  BY <1>1, <1>2 DEF Jks!Init, JksInv, JksSound

LEMMA JksClear ==
  ASSUME JksInv, ~heap.fault
  PROVE  heap.fault = FALSE
<1>1. CASE Nothing
  BY <1>1 DEF Nothing, HeapOf
<1>2. CASE pc \in {"start", "entry", "certs"} \/ (pc = "returned" /\ ret = 1)
  BY <1>2 DEF JksInv, JksSound
<1> QED
  BY <1>1, <1>2 DEF JksInv

LEMMA JksGivesUp ==
  ASSUME JksInv, pc \in {"entry", "certs"}, ~heap.fault, Jks!GiveUp
  PROVE  JksInv'
<1>1. heap' = HeapOf(Only(Gone), {}, FALSE)
  BY JksClear, JksFrees DEF Jks!GiveUp
<1>2. file \in JksFiles
  BY DEF JksInv
<1> QED
  BY <1>1, <1>2 DEF Jks!GiveUp, JksInv, Nothing

LEMMA JksBegins ==
  ASSUME JksInv, Jks!Begin
  PROVE  JksInv'
<1> DEFINE no == FALSE
           g  == Only(Gone)
           t  == Full(<<>>, <<>>)
<1>1. /\ pc = "start" /\ ret = 0 /\ e = 1 /\ c = 0 /\ keyPos = 0 /\ certPos = 0
      /\ file \in JksFiles /\ ~heap.fault /\ heap = HeapOf(Only(Gone), {}, heap.fault)
  BY DEF Jks!Begin, Jks!At, JksInv
<1>2. "main" \in Stores /\ Len(file.entries) \in Nat
  BY <1>1, JksFileIs
<1>3. heap = HeapOf(g, {}, no)
  BY <1>1, JksClear
<1>4. KeyStoreNew(heap, "main", 0, 0) = HeapOf(Only(t), {}, no)
  <2>1. IsStores(g)
    BY StoresType
  <2> HIDE DEF g, no
  <2>2. KeyStoreNew(heap, "main", 0, 0) = HeapOf(With(g, "main", Full(Empty(0), Empty(0))), {}, no)
    BY <1>2, <1>3, <2>1, NewIs
  <2>3. Empty(0) = <<>>
    BY NoSlots
  <2>4. With(g, "main", t) = Only(t)
    <3> HIDE DEF t
    <3> QED
      BY DEF With, Only, g
  <2> QED
    BY <2>2, <2>3, <2>4
<1>5. Owned(t) = {}
  <2>1. Owned(t) = Held(<<>>) \cup Held(<<>>)
    BY FullIs
  <2>2. Held(<<>>) = {}
    BY NoSlots
  <2> QED
    BY <2>1, <2>2
<1>6. heap' = HeapOf(Only(t), Owned(t), no) /\ ks' = "main" /\ pc' = "entry"
  BY <1>4, <1>5, JksStore DEF Jks!Begin, Jks!Main
<1>7. heap'.fault = no
  BY <1>6 DEF HeapOf
<1>8. Built(<<>>, <<>>)'
  BY <1>6, <1>7 DEF Built
<1>9. JksKeysTo(file, 0) = <<>> /\ JksCertsTo(file, 0) = <<>>
  BY <1>1, JksFronts
<1>10. e' = 1 /\ c' = 0 /\ ret' = 0 /\ keyPos' = 0 /\ certPos' = 0 /\ file' = file
  BY <1>1 DEF Jks!Begin
<1>11. e' - 1 = 0 /\ e' \in 1 .. Len(file.entries) + 1 /\ Len(<<>>) = 0
  BY <1>2, <1>10, SMT
<1>12. JksBuilt(JksKeysTo(file, e - 1), JksCertsTo(file, e - 1))'
  BY <1>8, <1>9, <1>10, <1>11 DEF JksBuilt
<1> QED
  BY <1>1, <1>6, <1>7, <1>10, <1>11, <1>12 DEF JksInv, JksSound

LEMMA OwnedGrows ==
  ASSUME NEW k \in Seq(Objects), NEW d \in Seq(Objects), NEW l \in Seq(Objects), NEW g \in Seq(Objects)
  PROVE  Owned(Full(k \o l, d \o g)) = Owned(Full(k, d)) \cup Held(l) \cup Held(g)
<1>1. Held(k \o l) = Held(k) \cup Held(l) /\ Held(d \o g) = Held(d) \cup Held(g)
  BY HeldConcat
<1>2. Owned(Full(k \o l, d \o g)) = Held(k \o l) \cup Held(d \o g)
  BY OwnedFull, Zenon
<1>3. Owned(Full(k, d)) = Held(k) \cup Held(d)
  BY OwnedFull, Zenon
<1> QED
  BY <1>1, <1>2, <1>3

LEMMA JksGoesOn ==
  ASSUME file \in JksFiles, file' = file, pc' = "certs", ret' = 0, ks' = "main",
         e' \in 1 .. Len(file.entries), c' \in 0 .. Len(file.entries[e'].certs),
         NEW k, k = JksKeysTo(file, e'), NEW d, d = JksCertsAt(file, e', c'),
         keyPos' = Len(k), certPos' = Len(d), NEW f, Clear(f),
         heap' = HeapOf(Only(Full(k, d)), Owned(Full(k, d)), f)
  PROVE  JksInv'
<1>1. heap'.fault = f
  BY HeapIs
<1>2. JksBuilt(JksKeysTo(file, e), JksCertsAt(file, e, c))'
  BY <1>1 DEF JksBuilt, Built
<1> QED
  BY <1>1, <1>2 DEF JksInv, JksSound, Clear

LEMMA JksGetsKey ==
  ASSUME JksInv, Jks!GetKey
  PROVE  JksInv'
<1> DEFINE k  == JksKeysTo(file, e - 1)
           d  == JksCertsTo(file, e - 1)
           l  == Jks!KeptKeys(file, e)
           o  == Owned(Full(k, d))
           p  == o \cup Held(l)
           no == heap.fault
           made  == Jks!KeysFromPKCS8(heap)
           added == Jks!KeyStoreAppend(made, ks, "temp")
<1>1. /\ pc = "entry" /\ ~heap.fault /\ e <= Len(file.entries) /\ file \in JksFiles
      /\ file.entries[e].tag = "key" /\ file.entries[e].blob = "good"
  BY DEF Jks!GetKey, Jks!KeyEntry, Jks!At, Jks!More, Jks!Current, JksInv
<1>2. JksBuilt(k, d) /\ e \in 1 .. Len(file.entries) + 1 /\ c = 0
  BY <1>1 DEF JksInv
<1>3. Clear(no)
  BY <1>1, JksClear DEF Clear
<1>4. /\ Stores = {"main", "temp"} /\ "main" # Null /\ "temp" # Null /\ Len(file.entries) \in Nat
      /\ \A m \in 1 .. Len(file.entries) : Len(file.entries[m].certs) \in Nat
  BY <1>1, JksFileIs
<1>5. e \in 1 .. Len(file.entries) /\ e - 1 \in 0 .. Len(file.entries)
  BY <1>1, <1>2, <1>4, SMT
<1>6. k \in Seq(Objects) /\ d \in Seq(Objects) /\ l \in Seq(Objects)
  BY <1>1, <1>5, JksFronts, JksEntryIs
<1>7. JksKeysTo(file, e) = k \o l /\ JksCertsAt(file, e, 0) = d
  <2>1. 0 \in 0 .. Len(file.entries[e].certs)
    BY <1>4, <1>5, SMT
  <2> QED
    BY <1>1, <1>5, <2>1, JksFronts, JksCertsAtIs
<1>8. /\ heap = HeapOf(Only(Full(k, d)), o, no) /\ ks = "main"
      /\ keyPos = Len(k) /\ certPos = Len(d) /\ ret = 0
  BY <1>2 DEF JksBuilt, Built
<1>9. /\ heap' = Jks!KeyStoreFree(added, "temp")
      /\ keyPos' = keyPos + KeyStoreKeyNum(added, "temp")
      /\ certPos' = certPos + KeyStoreCertNum(added, "temp")
      /\ pc' = "certs" /\ file' = file /\ ks' = ks /\ e' = e /\ c' = c /\ ret' = ret
  BY DEF Jks!GetKey, Jks!Temp, Jks!KeyStoreKeyNum, KeyStoreKeyNum, Jks!KeyStoreCertNum, KeyStoreCertNum
<1> HIDE DEF no, o, k, d
<1>10. made = HeapOf(With(Only(Full(k, d)), "temp", Full(l, <<>>)), p, no)
  <2> DEFINE t == Full(k, d)
  <2>1. heap = HeapOf(Only(t), o, no)
    BY <1>8
  <2> HIDE DEF t, l
  <2>2. Jks!KeysFromPKCS8(HeapOf(Only(t), o, no))
          = HeapOf(With(Only(t), "temp", Full(l, <<>>)), o \cup Held(l), no)
    BY <1>1, <1>5, KeysMadeIs DEF l
  <2> QED
    BY <2>1, <2>2 DEF t
<1> HIDE DEF made, p, l
<1>11. added = Appended(k, d, l, <<>>, p, no)
  BY <1>8, <1>10, JksStore DEF Appended
<1> HIDE DEF added
<1>12. /\ KeyStoreFree(added, "temp") = HeapOf(Only(Full(k \o l, d \o <<>>)), p, no)
       /\ KeyStoreKeyNum(added, "temp") = Len(l) /\ KeyStoreCertNum(added, "temp") = Len(<<>>)
  <2>1. <<>> \in Seq(Objects)
    BY EmptySeq
  <2> DEFINE g == <<>>
  <2> HIDE DEF g
  <2>2. /\ KeyStoreFree(Appended(k, d, l, g, p, no), "temp") = HeapOf(Only(Full(k \o l, d \o g)), p, no)
        /\ KeyStoreKeyNum(Appended(k, d, l, g, p, no), "temp") = Len(l)
        /\ KeyStoreCertNum(Appended(k, d, l, g, p, no), "temp") = Len(g)
    <3>1. g \in Seq(Objects)
      BY <2>1 DEF g
    <3> QED
      BY <1>3, <1>4, <1>6, <3>1, AppendedIs
  <2> QED
    BY <1>11, <2>2 DEF g
<1>13. d \o <<>> = d /\ Len(<<>>) = 0 /\ Len(k \o l) = Len(k) + Len(l)
       /\ Len(d) \in Nat /\ Len(k) \in Nat /\ Len(l) \in Nat
  BY <1>6, ConcatEmptySeq, ConcatProperties, LenProperties, EmptySeq
<1>14. p = Owned(Full(k \o l, d))
  <2>1. <<>> \in Seq(Objects) /\ Held(<<>>) = {}
    BY EmptySeq, NoSlots
  <2>2. Owned(Full(k \o l, d \o <<>>)) = Owned(Full(k, d)) \cup Held(l) \cup Held(<<>>)
    <3> DEFINE g == <<>>
    <3>1. g \in Seq(Objects)
      BY <2>1
    <3> HIDE DEF g
    <3>2. Owned(Full(k \o l, d \o g)) = Owned(Full(k, d)) \cup Held(l) \cup Held(g)
      BY <1>6, <3>1, OwnedGrows
    <3> QED
      BY <3>2 DEF g
  <2> QED
    BY <1>13, <2>1, <2>2 DEF p, o
<1>15. heap' = HeapOf(Only(Full(k \o l, d)), Owned(Full(k \o l, d)), no)
  BY <1>9, <1>12, <1>13, <1>14, JksStore
<1> DEFINE k1 == k \o l
<1>16. /\ k1 = JksKeysTo(file, e) /\ d = JksCertsAt(file, e, c)
       /\ keyPos' = Len(k1) /\ certPos' = Len(d)
  <2>1. k1 = JksKeysTo(file, e) /\ d = JksCertsAt(file, e, c)
    BY <1>2, <1>7
  <2>2. keyPos' = Len(k) + Len(l)
    BY <1>8, <1>9, <1>12
  <2>3. certPos' = Len(d) + 0
    BY <1>8, <1>9, <1>12, <1>13
  <2> QED
    BY <1>13, <2>1, <2>2, <2>3
<1>17. c \in 0 .. Len(file.entries[e].certs)
  BY <1>2, <1>4, <1>5, SMT
<1>18. /\ file' = file /\ pc' = "certs" /\ ret' = 0 /\ ks' = "main" /\ e' = e /\ c' = c
       /\ heap' = HeapOf(Only(Full(k1, d)), Owned(Full(k1, d)), no)
  BY <1>8, <1>9, <1>15
<1> HIDE DEF k1
<1> QED
  BY <1>1, <1>3, <1>5, <1>16, <1>17, <1>18, JksGoesOn

LEMMA JksGetsCert ==
  ASSUME JksInv, Jks!GetCert
  PROVE  JksInv'
<1> DEFINE k  == JksKeysTo(file, e)
           d  == JksCertsAt(file, e, c)
           y  == Jks!Cert(e, c + 1)
           o  == Owned(Full(k, d))
           p  == o \cup {y}
           no == heap.fault
           made  == Jks!KeyStoreSetCert(Jks!KeyStoreNew(Jks!Create(heap, y), "temp", 0, 1), "temp", 0, y)
           added == Jks!KeyStoreAppend(made, ks, "temp")
<1>1. pc = "certs" /\ ~heap.fault /\ c < Len(file.entries[e].certs) /\ file \in JksFiles
  BY DEF Jks!GetCert, Jks!Parsing, Jks!At, Jks!Current, JksInv
<1>2. JksBuilt(k, d) /\ e \in 1 .. Len(file.entries) /\ c \in 0 .. Len(file.entries[e].certs)
  BY <1>1 DEF JksInv
<1>3. Clear(no)
  BY <1>1, JksClear DEF Clear
<1>4. /\ Stores = {"main", "temp"} /\ "main" # Null /\ "temp" # Null /\ Len(file.entries) \in Nat
      /\ \A m \in 1 .. Len(file.entries) :
           /\ Len(file.entries[m].certs) \in Nat
           /\ \A n \in 1 .. Len(file.entries[m].certs) : Jks!Cert(m, n) \in Objects
  BY <1>1, JksFileIs
<1>5. /\ c \in Nat /\ c + 1 \in 1 .. Len(file.entries[e].certs)
      /\ c \in 0 .. Len(file.entries[e].certs) - 1 /\ c + 1 \in 0 .. Len(file.entries[e].certs)
      /\ e \in 0 .. Len(file.entries)
  BY <1>1, <1>2, <1>4, SMT
<1>6. k \in Seq(Objects) /\ d \in Seq(Objects) /\ y \in Objects
  BY <1>1, <1>2, <1>4, <1>5, JksFronts, JksCertsAtIs
<1>7. JksCertsAt(file, e, c + 1) = d \o <<y>>
  BY <1>1, <1>2, <1>5, ChainNext
<1>8. /\ heap = HeapOf(Only(Full(k, d)), o, no) /\ ks = "main"
      /\ keyPos = Len(k) /\ certPos = Len(d) /\ ret = 0
  BY <1>2 DEF JksBuilt, Built
<1>9. /\ heap' = Jks!KeyStoreFree(added, "temp")
      /\ keyPos' = keyPos /\ certPos' = certPos + 1
      /\ pc' = "certs" /\ file' = file /\ ks' = ks /\ e' = e /\ c' = c + 1 /\ ret' = ret
  BY <1>1 DEF Jks!GetCert, Jks!Temp
<1>10. made = HeapOf(With(Only(Full(k, d)), "temp", Full(<<>>, <<y>>)), p, no)
  <2> DEFINE t == Full(k, d)
  <2>1. heap = HeapOf(Only(t), o, no)
    BY <1>8
  <2> HIDE DEF t, o, no, k, d, y
  <2>2. Jks!KeyStoreSetCert(
           Jks!KeyStoreNew(Jks!Create(HeapOf(Only(t), o, no), y), "temp", 0, 1), "temp", 0, y)
          = HeapOf(With(Only(t), "temp", Full(<<>>, <<y>>)), o \cup {y}, no)
    BY <1>4, <1>6, CertMadeIs
  <2> QED
    BY <2>1, <2>2 DEF t
<1> HIDE DEF no, o, k, d, y, made, p
<1> DEFINE l == <<>>
           g == <<y>>
<1>11. l \in Seq(Objects) /\ g \in Seq(Objects) /\ Len(l) = 0 /\ Len(g) = 1 /\ Held(l) = {} /\ Held(g) = {y}
  <2>1. l \in Seq(Objects) /\ Len(l) = 0 /\ Held(l) = {}
    BY EmptySeq, NoSlots
  <2>2. g \in Seq(Objects) /\ Len(g) = 1 /\ g[1] = y
    BY <1>6, SMT
  <2>3. y # Null
    BY <1>6, PointerAssumption DEF NullAssumption
  <2> HIDE DEF g
  <2>4. Held(g) = {y}
    <3>1. 1 \in 1 .. 1 /\ \A n \in 1 .. 1 : n = 1
      BY SMT
    <3> QED
      BY <2>2, <2>3, <3>1 DEF Held
  <2> QED
    BY <2>1, <2>2, <2>4
<1>12. k \o l = k
  BY <1>6, ConcatEmptySeq
<1> DEFINE d1 == d \o g
<1>13. d1 = JksCertsAt(file, e, c + 1)
  BY <1>7 DEF d, y
<1>14. added = Appended(k, d, l, g, p, no)
  BY <1>8, <1>10, JksStore DEF Appended
<1> HIDE DEF added, l, g
<1>15. /\ KeyStoreFree(added, "temp") = HeapOf(Only(Full(k \o l, d1)), p, no)
  <2>1. KeyStoreFree(Appended(k, d, l, g, p, no), "temp") = HeapOf(Only(Full(k \o l, d \o g)), p, no)
    <3>1. /\ k \in Seq(Objects) /\ d \in Seq(Objects) /\ l \in Seq(Objects) /\ g \in Seq(Objects)
          /\ Stores = {"main", "temp"} /\ "main" # Null /\ "temp" # Null
      BY <1>4, <1>6, <1>11
    <3> QED
      BY ONLY <1>3, <3>1, AppendedIs
  <2> QED
    BY <1>14, <2>1
<1>16. p = Owned(Full(k, d1))
  <2>1. Owned(Full(k \o l, d \o g)) = Owned(Full(k, d)) \cup Held(l) \cup Held(g)
    <3>1. k \in Seq(Objects) /\ d \in Seq(Objects) /\ l \in Seq(Objects) /\ g \in Seq(Objects)
      BY <1>6, <1>11
    <3> QED
      BY ONLY <3>1, OwnedGrows
  <2> QED
    BY <1>11, <1>12, <2>1 DEF p, o
<1>17. heap' = HeapOf(Only(Full(k, d1)), Owned(Full(k, d1)), no)
  BY <1>9, <1>12, <1>15, <1>16, JksStore
<1>18. Len(d1) = Len(d) + 1 /\ Len(d) \in Nat
  <2>1. d \in Seq(Objects) /\ g \in Seq(Objects) /\ Len(g) = 1
    BY <1>6, <1>11
  <2> QED
    <3>1. Len(d) \in Nat
      BY ONLY <2>1, LenProperties
    <3>2. Len(d \o g) = Len(d) + Len(g)
      BY ONLY <2>1, ConcatProperties
    <3> QED
      BY <2>1, <3>1, <3>2
<1>19. /\ file' = file /\ pc' = "certs" /\ ret' = 0 /\ ks' = "main" /\ e' = e /\ c' = c + 1
       /\ k = JksKeysTo(file, e) /\ keyPos' = Len(k) /\ certPos' = Len(d1)
  BY <1>8, <1>9, <1>18 DEF k
<1> HIDE DEF d1
<1> QED
  BY <1>1, <1>2, <1>3, <1>5, <1>13, <1>17, <1>19, JksGoesOn

LEMMA JksOtherSteps ==
  ASSUME JksInv,
         \/ Jks!Refuse \/ Jks!CertEntry \/ Jks!SkipKey \/ Jks!NextEntry \/ Jks!Succeed
         \/ Jks!CallerFrees \/ Jks!CallerGivesUp
  PROVE  JksInv'
<1>1. file \in JksFiles
  BY DEF JksInv
<1>2. /\ Len(file.entries) \in Nat
      /\ \A m \in 1 .. Len(file.entries) : Len(file.entries[m].certs) \in Nat
  BY <1>1, JksFileIs
<1>3. ASSUME Jks!Refuse PROVE JksInv'
  <2>1. heap.fault = FALSE /\ heap = HeapOf(Only(Gone), {}, heap.fault)
    BY <1>3, JksClear DEF Jks!Refuse, Jks!At, JksInv
  <2>2. Nothing'
    BY <1>3, <2>1 DEF Jks!Refuse, Nothing
  <2> QED
    BY <1>1, <1>3, <2>2 DEF Jks!Refuse, JksInv
<1>4. ASSUME Jks!CertEntry \/ Jks!SkipKey PROVE JksInv'
  <2>1. /\ pc = "entry" /\ ~heap.fault /\ e <= Len(file.entries)
        /\ file.entries[e].tag # "key" \/ file.entries[e].blob = "unknown"
        /\ pc' = "certs" /\ UNCHANGED <<file, heap, ks, e, c, keyPos, certPos, ret>>
    BY <1>4 DEF Jks!CertEntry, Jks!SkipKey, Jks!KeyEntry, Jks!At, Jks!More, Jks!Current
  <2>2. /\ e \in 1 .. Len(file.entries) + 1 /\ c = 0
        /\ JksBuilt(JksKeysTo(file, e - 1), JksCertsTo(file, e - 1))
    BY <2>1 DEF JksInv
  <2>3. e \in 1 .. Len(file.entries) /\ e - 1 \in 0 .. Len(file.entries)
    BY <1>2, <2>1, <2>2, SMT
  <2>4. 0 \in 0 .. Len(file.entries[e].certs)
    BY <1>2, <2>3, SMT
  <2>5. JksKeysTo(file, e) = JksKeysTo(file, e - 1)
    <3>1. Jks!KeptKeys(file, e) = <<>>
      BY <2>1, <2>3 DEF Jks!KeptKeys, Jks!PassedOver, Jks!EntryKeys
    <3> DEFINE k == JksKeysTo(file, e - 1)
    <3>2. JksKeysTo(file, e) = k \o <<>> /\ k \in Seq(Objects)
      BY <1>1, <2>3, <3>1, JksFronts
    <3> HIDE DEF k
    <3>3. k \o <<>> = k
      BY <3>2, ConcatEmptySeq
    <3> QED
      BY <3>2, <3>3 DEF k
  <2>6. JksCertsAt(file, e, 0) = JksCertsTo(file, e - 1)
    BY <1>1, <2>3, <2>4, JksCertsAtIs
  <2>7. heap.fault = FALSE
    BY <2>1, JksClear
  <2>8. JksBuilt(JksKeysTo(file, e), JksCertsAt(file, e, c))
    BY <2>2, <2>5, <2>6
  <2>9. JksBuilt(JksKeysTo(file, e), JksCertsAt(file, e, c))'
    BY <2>1, <2>8 DEF JksBuilt, Built
  <2> QED
    BY <1>1, <2>1, <2>2, <2>3, <2>4, <2>7, <2>9 DEF JksInv, JksSound
<1>6. ASSUME Jks!NextEntry PROVE JksInv'
  <2>1. /\ pc = "certs" /\ ~heap.fault /\ c = Len(file.entries[e].certs)
        /\ e' = e + 1 /\ c' = 0 /\ pc' = "entry"
        /\ UNCHANGED <<file, heap, ks, keyPos, certPos, ret>>
    BY <1>6 DEF Jks!NextEntry, Jks!At, Jks!Current
  <2>2. /\ e \in 1 .. Len(file.entries)
        /\ JksBuilt(JksKeysTo(file, e), JksCertsAt(file, e, c)) /\ heap.fault = FALSE
    BY <2>1, JksClear DEF JksInv
  <2>3. e' - 1 = e /\ e' \in 1 .. Len(file.entries) + 1
        /\ Len(file.entries[e].certs) \in 0 .. Len(file.entries[e].certs)
    BY <1>2, <2>1, <2>2, SMT
  <2>4. JksCertsAt(file, e, c) = JksCertsTo(file, e)
    BY <1>1, <2>1, <2>2, <2>3, JksCertsAtIs
  <2>5. JksBuilt(JksKeysTo(file, e), JksCertsTo(file, e))
    BY <2>2, <2>4
  <2>6. JksBuilt(JksKeysTo(file, e - 1), JksCertsTo(file, e - 1))'
    BY <2>1, <2>3, <2>5 DEF JksBuilt, Built
  <2> QED
    BY <1>1, <2>1, <2>2, <2>3, <2>6 DEF JksInv, JksSound
<1>7. ASSUME Jks!Succeed PROVE JksInv'
  <2>1. /\ pc = "entry" /\ ~heap.fault /\ ~(e <= Len(file.entries))
        /\ ret' = 1 /\ pc' = "returned" /\ UNCHANGED <<file, heap, ks, e, c, keyPos, certPos>>
    BY <1>7 DEF Jks!Succeed, Jks!At, Jks!More
  <2>2. /\ e \in 1 .. Len(file.entries) + 1
        /\ JksBuilt(JksKeysTo(file, e - 1), JksCertsTo(file, e - 1)) /\ heap.fault = FALSE
    BY <2>1, JksClear DEF JksInv
  <2>3. e - 1 = Len(file.entries)
    BY <1>2, <2>1, <2>2, SMT
  <2>4. Built(Jks!FileKeys(file), Jks!FileCerts(file))
    BY <1>1, <2>2, <2>3, JksFronts DEF JksBuilt
  <2>5. Built(Jks!FileKeys(file), Jks!FileCerts(file))'
    BY <2>1, <2>4 DEF Built
  <2> QED
    BY <1>1, <2>1, <2>2, <2>5 DEF JksInv
<1>8. ASSUME Jks!CallerFrees PROVE JksInv'
  <2>1. /\ pc = "returned" /\ ~heap.fault /\ ret = 1
        /\ heap' = Jks!KeyStoreFree(heap, ks) /\ pc' = "done" /\ file' = file /\ ret' = ret
    BY <1>8 DEF Jks!CallerFrees, Jks!At
  <2>2. heap' = HeapOf(Only(Gone), {}, FALSE)
    BY <2>1, JksClear, JksFrees
  <2> QED
    BY <1>1, <2>1, <2>2 DEF JksInv, Nothing
<1>9. ASSUME Jks!CallerGivesUp PROVE JksInv'
  BY <1>1, <1>9 DEF Jks!CallerGivesUp, Jks!At, JksInv, Nothing
<1> QED
  BY <1>3, <1>4, <1>6, <1>7, <1>8, <1>9

\* What C leaves undefined changes nothing but the fault.
LEMMA JksFaults ==
  ASSUME JksInv, JksFaultKnown, heap' = [heap EXCEPT !.fault = TRUE],
         UNCHANGED <<file, ks, e, c, keyPos, certPos, ret, pc>>
  PROVE  JksInv'
<1>1. pc \in {"start", "entry", "certs"} /\ file \in JksFiles
  BY DEF JksInv, JksFaultKnown, Jks!AtCut, Jks!DecryptsShort, Jks!FreesNull
<1>2. ASSUME NEW st, NEW o, heap = HeapOf(st, o, heap.fault)
      PROVE  heap' = HeapOf(st, o, heap'.fault) /\ heap'.fault = TRUE
  <2> DEFINE no == heap.fault
  <2>1. heap = HeapOf(st, o, no)
    BY <1>2
  <2> HIDE DEF no
  <2>2. heap' = [HeapOf(st, o, no) EXCEPT !.fault = TRUE]
    BY <2>1
  <2>3. heap'.stores = st /\ heap'.objects = o /\ heap'.fault = TRUE
    BY <2>2 DEF HeapOf
  <2>4. heap' = [stores |-> heap'.stores, objects |-> heap'.objects, fault |-> heap'.fault]
    BY <2>2 DEF HeapOf
  <2> QED
    BY <2>3, <2>4 DEF HeapOf
<1>3. ASSUME NEW k, NEW d, JksBuilt(k, d)
      PROVE  /\ ks' = "main" /\ heap' = HeapOf(Only(Full(k, d)), Owned(Full(k, d)), heap'.fault)
             /\ ret' = 0 /\ keyPos' = Len(k) /\ certPos' = Len(d) /\ heap'.fault = TRUE
  <2> DEFINE st == Only(Full(k, d))
             o  == Owned(Full(k, d))
  <2>1. heap = HeapOf(st, o, heap.fault)
    BY <1>3 DEF JksBuilt, Built
  <2> HIDE DEF st, o
  <2>2. heap' = HeapOf(st, o, heap'.fault) /\ heap'.fault = TRUE
    BY <1>2, <2>1
  <2> QED
    BY <1>3, <2>2 DEF JksBuilt, Built, st, o
<1>4. JksFaultKnown'
  BY DEF JksFaultKnown, Jks!AtCut, Jks!DecryptsShort, Jks!FreesNull, Jks!More, Jks!Current
<1>5. CASE pc = "start"
  <2> DEFINE st == Only(Gone)
             o  == {}
  <2>1. heap = HeapOf(st, o, heap.fault)
    BY <1>5 DEF JksInv
  <2> HIDE DEF st, o
  <2>2. heap' = HeapOf(st, o, heap'.fault) /\ heap'.fault = TRUE
    BY <1>2, <2>1
  <2>3. JksSound'
    BY <1>4, <2>2 DEF JksSound
  <2>4. heap' = HeapOf(Only(Gone), {}, heap'.fault)
    BY <2>2 DEF st, o
  <2> QED
    BY <1>1, <1>5, <2>3, <2>4 DEF JksInv
<1>6. CASE pc = "entry"
  <2> DEFINE k == JksKeysTo(file, e - 1)
             d == JksCertsTo(file, e - 1)
  <2>1. JksBuilt(k, d) /\ e \in 1 .. Len(file.entries) + 1 /\ c = 0
    BY <1>6 DEF JksInv
  <2>2. JksBuilt(k, d)'
    BY <1>3, <2>1 DEF JksBuilt, Built
  <2>3. JksSound'
    BY <1>3, <1>4, <2>1 DEF JksSound
  <2> QED
    BY <1>1, <1>6, <2>1, <2>2, <2>3 DEF JksInv
<1>7. CASE pc = "certs"
  <2> DEFINE k == JksKeysTo(file, e)
             d == JksCertsAt(file, e, c)
  <2>1. JksBuilt(k, d) /\ e \in 1 .. Len(file.entries) /\ c \in 0 .. Len(file.entries[e].certs)
    BY <1>7 DEF JksInv
  <2>2. JksBuilt(k, d)'
    BY <1>3, <2>1 DEF JksBuilt, Built
  <2>3. JksSound'
    BY <1>3, <1>4, <2>1 DEF JksSound
  <2> QED
    BY <1>1, <1>7, <2>1, <2>2, <2>3 DEF JksInv
<1> QED
  BY <1>1, <1>5, <1>6, <1>7

LEMMA JksStep ==
  ASSUME JksInv, Jks!Next
  PROVE  JksInv'
<1>1. ASSUME Jks!BadTag \/ Jks!NoKey \/ Jks!BadCert \/ Jks!BadDigest PROVE JksInv'
  <2>1. pc \in {"entry", "certs"} /\ ~heap.fault /\ Jks!GiveUp
    BY <1>1 DEF Jks!BadTag, Jks!NoKey, Jks!KeyEntry, Jks!BadCert, Jks!Parsing, Jks!BadDigest, Jks!At
  <2> QED
    BY <2>1, JksGivesUp
<1>2. ASSUME Jks!DecryptShort \/ Jks!FreeNull \/ Jks!ReadPastEnd PROVE JksInv'
  <2>1. JksFaultKnown
    BY <1>2 DEF Jks!DecryptShort, Jks!FreeNull, Jks!ReadPastEnd, Jks!KeyEntry, Jks!At,
                JksFaultKnown, Jks!DecryptsShort, Jks!FreesNull
  <2>2. heap' = [heap EXCEPT !.fault = TRUE] /\ UNCHANGED <<file, ks, e, c, keyPos, certPos, ret, pc>>
    BY <1>2 DEF Jks!DecryptShort, Jks!FreeNull, Jks!ReadPastEnd, Jks!KeyStoreFree, Jks!Deref, Jks!Fault
  <2> QED
    BY <2>1, <2>2, JksFaults
<1> QED
  BY <1>1, <1>2, JksBegins, JksGetsKey, JksGetsCert, JksOtherSteps DEF Jks!Next

LEMMA JksProperties ==
  ASSUME JksInv
  PROVE  OwnedOnce(heap) /\ Jks!CountersAgree /\ Jks!StoreLives /\ (heap.fault => JksFaultKnown)
<1>1. file \in JksFiles
  BY DEF JksInv
<1>2. Stores = {"main", "temp"} /\ Len(file.entries) \in Nat
  BY <1>1, JksFileIs
<1>3. Null \notin Objects
  BY PointerAssumption DEF NullAssumption
<1>4. CASE ~(pc \in {"entry", "certs"}) /\ ~(pc = "returned" /\ ret = 1)
  <2> DEFINE no == heap.fault
  <2>1. heap = HeapOf(Only(Gone), {}, no) /\ (heap.fault => JksFaultKnown)
    <3>1. CASE pc = "start"
      BY <3>1 DEF JksInv, JksSound
    <3>2. CASE Nothing
      <4>1. heap.fault = FALSE
        BY <3>2 DEF Nothing, HeapOf
      <4> QED
        BY <3>2, <4>1 DEF Nothing
    <3> QED
      BY <1>4, <3>1, <3>2 DEF JksInv
  <2> HIDE DEF no
  <2>3. OwnedOnce(heap)
    BY <2>1, NothingOwned
  <2>4. heap.stores["main"] = Gone /\ heap.stores["temp"] = Gone
    BY <1>2, <2>1, HeapIs, OnlyIs
  <2>5. ~heap.stores["main"].live /\ ~heap.stores["temp"].live
    BY <2>4, GoneIs
  <2> QED
    BY <1>4, <2>1, <2>3, <2>5 DEF Jks!CountersAgree, Jks!StoreLives, Jks!Main, Jks!Temp
<1>5. CASE pc \in {"entry", "certs"} \/ (pc = "returned" /\ ret = 1)
  <2>1. "main" \in Stores
    BY <1>2
  <2>2. PICK k, d \in Seq(Objects) : Built(k, d) /\ Unshared(Full(k, d))
    BY <1>5, JksHas
  <2> DEFINE t == Full(k, d)
             f == heap.fault
  <2>3. heap = HeapOf(Only(t), Owned(t), f) /\ ks = "main" /\ Unshared(t)
    BY <2>2 DEF Built
  <2>4. t.keys = k /\ t.certs = d /\ t.live = TRUE
    BY DEF Full
  <2> HIDE DEF t, f
  <2>5. OwnedOnce(heap)
    BY <2>1, <2>3, BuiltOwned
  <2>6. heap.stores["main"] = t /\ heap.stores["temp"] = Gone
    <3>1. heap.stores = Only(t)
      BY <2>3, HeapIs
    <3> QED
      BY <1>2, <3>1, OnlyIs
  <2>7. Jks!StoreLives
    BY <1>5, <2>4, <2>6, GoneIs DEF Jks!StoreLives, Jks!Main, Jks!Temp
  <2>8. heap.fault => JksFaultKnown
    BY <1>5 DEF JksInv, JksSound
  <2>9. ASSUME pc \in {"entry", "certs"}
        PROVE  Jks!CountersAgree
    <3>1. PICK l, g : JksBuilt(l, g)
      BY <2>9 DEF JksInv
    <3>2. keyPos = Len(l) /\ certPos = Len(g) /\ heap = HeapOf(Only(Full(l, g)), Owned(Full(l, g)), f)
      BY <3>1 DEF JksBuilt, Built, f
    <3>3. Full(l, g) = t
      <4>1. heap.stores = Only(Full(l, g))
        BY <3>2, HeapIs
      <4> DEFINE u == Full(l, g)
      <4> HIDE DEF u
      <4>2. heap.stores["main"] = u
        BY <2>1, <4>1, OnlyIs DEF u
      <4> QED
        BY <2>6, <4>2 DEF u
    <3>4. l = k /\ g = d
      <4>1. Full(l, g).keys = l /\ Full(l, g).certs = g
        BY DEF Full
      <4> QED
        BY <2>4, <3>3, <4>1
    <3>5. /\ KeyStoreKeyNum(heap, ks) = Len(k) /\ heap.stores[ks].keys = k
          /\ KeyStoreCertNum(heap, ks) = Len(d) /\ heap.stores[ks].certs = d
      BY <2>3, <2>4, <2>6 DEF KeyStoreKeyNum, KeyStoreCertNum
    <3>6. \A n \in 1 .. Len(k) : k[n] # Null
      BY <1>3, ElementOfSeq
    <3>7. \A n \in 1 .. Len(d) : d[n] # Null
      BY <1>3, ElementOfSeq
    <3> QED
      BY <3>2, <3>4, <3>5, <3>6, <3>7
      DEF Jks!CountersAgree, Jks!KeyStoreKeyNum, KeyStoreKeyNum, Jks!KeyStoreCertNum, KeyStoreCertNum
  <2>10. CASE pc \in {"entry", "certs"}
    BY <2>5, <2>7, <2>8, <2>9, <2>10
  <2>11. CASE ~(pc \in {"entry", "certs"})
    BY <2>5, <2>7, <2>8, <2>11 DEF Jks!CountersAgree
  <2> QED
    BY <2>10, <2>11
<1> QED
  BY <1>4, <1>5 DEF JksInv

-----------------------------------------------------------------------------
(* What a PKCS#12 container holds                                          *)

LEMMA Pkcs12FileIs ==
  ASSUME NEW f \in Pkcs12Files
  PROVE  /\ "main" \in Stores /\ "main" # Null
         /\ Len(f.safes) \in Nat
         /\ \A m \in 1 .. Len(f.safes) :
              /\ f.safes[m].type \in {"null", "data", "encrypted", "other"}
              /\ f.safes[m].bags \in Seq(Bag)
<1>1. Pkcs12Files \subseteq Pkcs12!File /\ "main" \in Stores
  BY Pkcs12Assumption DEF Pkcs12!BagAssumption, Pkcs12!Main
<1>2. Null \notin Stores
  BY PointerAssumption DEF NullAssumption
<1>3. f \in Pkcs12!File
  BY <1>1
<1>4. f.safes \in Seq(Pkcs12!Safe)
  BY <1>3 DEF Pkcs12!File
<1>5. Len(f.safes) \in Nat /\ \A m \in 1 .. Len(f.safes) : f.safes[m] \in Pkcs12!Safe
  BY <1>4, LenProperties, ElementOfSeq
<1>6. \A x \in Pkcs12!Safe : x.type \in {"null", "data", "encrypted", "other"} /\ x.bags \in Seq(Bag)
  BY DEF Pkcs12!Safe
<1> QED
  BY <1>1, <1>2, <1>5, <1>6

LEMMA BagIs ==
  ASSUME NEW b \in Bag
  PROVE  /\ b.kind \in {"key", "shrouded", "cert", "safeContents", "other"}
         /\ b.object \in Objects /\ b.bags \in Seq(Bag)
BY Pkcs12Assumption DEF Pkcs12!BagAssumption, Pkcs12!Kinds

Sought == {KeyKinds, CertKinds}

LEMMA WithinIs ==
  ASSUME NEW kinds \in Sought, NEW b \in Bag
  PROVE  /\ Pkcs12!Within(kinds)[b] \in Seq(Objects)
         /\ Pkcs12!Within(kinds)[b] = IF b.kind = "safeContents" THEN Pkcs12!Contents(b.bags, kinds)
                                      ELSE IF b.kind \in kinds THEN <<b.object>> ELSE <<>>
BY Pkcs12Assumption DEF Pkcs12!NestingAssumption, Sought, KeyKinds, CertKinds

\* What is in each of some bags.
InEach(bags, kinds) == [n \in 1 .. Len(bags) |-> Pkcs12!Within(kinds)[bags[n]]]

LEMMA InEachIs ==
  ASSUME NEW kinds \in Sought, NEW bags \in Seq(Bag)
  PROVE  /\ InEach(bags, kinds) \in Seq(Seq(Objects)) /\ Len(InEach(bags, kinds)) = Len(bags)
         /\ \A n \in 1 .. Len(bags) : InEach(bags, kinds)[n] = Pkcs12!Within(kinds)[bags[n]]
         /\ Pkcs12!Contents(bags, kinds) = SX!FlattenSeq(InEach(bags, kinds))
<1> DEFINE q == InEach(bags, kinds)
<1>1. Len(bags) \in Nat /\ \A n \in 1 .. Len(bags) : bags[n] \in Bag
  BY LenProperties, ElementOfSeq
<1>2. \A n \in 1 .. Len(bags) : q[n] = Pkcs12!Within(kinds)[bags[n]]
  BY DEF InEach
<1>3. \A n \in 1 .. Len(bags) : Pkcs12!Within(kinds)[bags[n]] \in Seq(Objects)
  BY <1>1, WithinIs
<1>4. q \in [1 .. Len(bags) -> Seq(Objects)]
  BY <1>3 DEF InEach
<1>5. Pkcs12!Contents(bags, kinds) = SX!FlattenSeq(q)
  BY SameFlatten DEF Pkcs12!Contents, InEach
<1> HIDE DEF q
<1>6. q \in Seq(Seq(Objects)) /\ Len(q) = Len(bags)
  BY <1>1, <1>4, IsSequence
<1> QED
  BY <1>2, <1>5, <1>6 DEF q

LEMMA ContentsConcat ==
  ASSUME NEW kinds \in Sought, NEW a \in Seq(Bag), NEW b \in Seq(Bag)
  PROVE  /\ Pkcs12!Contents(a, kinds) \in Seq(Objects) /\ Pkcs12!Contents(b, kinds) \in Seq(Objects)
         /\ Pkcs12!Contents(a \o b, kinds) = Pkcs12!Contents(a, kinds) \o Pkcs12!Contents(b, kinds)
<1> DEFINE p == InEach(a, kinds)
           q == InEach(b, kinds)
           r == InEach(a \o b, kinds)
           j == Len(a)
           k == Len(b)
<1>1. /\ p \in Seq(Seq(Objects)) /\ Len(p) = j
      /\ q \in Seq(Seq(Objects)) /\ Len(q) = k
      /\ \A n \in 1 .. j : p[n] = Pkcs12!Within(kinds)[a[n]]
      /\ \A n \in 1 .. k : q[n] = Pkcs12!Within(kinds)[b[n]]
      /\ Pkcs12!Contents(a, kinds) = SX!FlattenSeq(p)
      /\ Pkcs12!Contents(b, kinds) = SX!FlattenSeq(q)
  BY InEachIs
<1>2. /\ a \o b \in Seq(Bag) /\ Len(a \o b) = j + k
      /\ \A n \in 1 .. j + k : (a \o b)[n] = IF n <= j THEN a[n] ELSE b[n - j]
  BY ConcatProperties
<1>3. /\ r \in Seq(Seq(Objects)) /\ Len(r) = j + k
      /\ \A n \in 1 .. j + k : r[n] = Pkcs12!Within(kinds)[(a \o b)[n]]
      /\ Pkcs12!Contents(a \o b, kinds) = SX!FlattenSeq(r)
  BY <1>2, InEachIs
<1>4. j \in Nat /\ k \in Nat
  BY LenProperties
<1> HIDE DEF p, q, r
<1>5. /\ p \o q \in Seq(Seq(Objects)) /\ Len(p \o q) = j + k
      /\ \A n \in 1 .. j + k : (p \o q)[n] = IF n <= j THEN p[n] ELSE q[n - j]
  <2>1. p \in Seq(Seq(Objects)) /\ q \in Seq(Seq(Objects))
    BY <1>1
  <2>2. /\ p \o q \in Seq(Seq(Objects)) /\ Len(p \o q) = Len(p) + Len(q)
        /\ \A n \in 1 .. Len(p) + Len(q) : (p \o q)[n] = IF n <= Len(p) THEN p[n] ELSE q[n - Len(p)]
    BY ONLY <2>1, ConcatProperties
  <2>3. Len(p) = j /\ Len(q) = k
    BY <1>1
  <2> QED
    BY ONLY <2>2, <2>3
<1>6. \A n \in 1 .. j + k : (n <= j /\ n \in 1 .. j) \/ (~(n <= j) /\ n - j \in 1 .. k)
  BY <1>4, SMT
<1>7. ASSUME NEW n \in 1 .. j + k PROVE r[n] = (p \o q)[n]
  <2>1. CASE n <= j /\ n \in 1 .. j
    <3>1. (a \o b)[n] = a[n] /\ (p \o q)[n] = p[n]
      BY <1>2, <1>5, <2>1
    <3>2. p[n] = Pkcs12!Within(kinds)[a[n]]
      BY <1>1, <2>1
    <3> QED
      BY <1>3, <3>1, <3>2
  <2>2. CASE ~(n <= j) /\ n - j \in 1 .. k
    <3>1. (a \o b)[n] = b[n - j] /\ (p \o q)[n] = q[n - j]
      BY <1>2, <1>5, <2>2
    <3>2. q[n - j] = Pkcs12!Within(kinds)[b[n - j]]
      BY <1>1, <2>2
    <3> QED
      BY <1>3, <3>1, <3>2
  <2> QED
    BY <1>6, <2>1, <2>2
<1>8. r = p \o q
  <2> DEFINE s == p \o q
  <2>1. s \in Seq(Seq(Objects)) /\ Len(s) = Len(r) /\ \A n \in 1 .. Len(r) : r[n] = s[n]
    BY <1>3, <1>5, <1>7
  <2> HIDE DEF s
  <2>2. r = s
    BY <1>3, <2>1, SeqEqual
  <2> QED
    BY <2>2 DEF s
<1>9. SX!FlattenSeq(p) \in Seq(Objects) /\ SX!FlattenSeq(q) \in Seq(Objects)
      /\ SX!FlattenSeq(p \o q) = SX!FlattenSeq(p) \o SX!FlattenSeq(q)
  BY <1>1, FlattenConcat
<1> QED
  BY <1>1, <1>3, <1>8, <1>9

LEMMA ContentsIs ==
  ASSUME NEW kinds \in Sought
  PROVE  /\ Pkcs12!Contents(<<>>, kinds) = <<>>
         /\ \A b \in Bag : Pkcs12!Contents(<<b>>, kinds) = Pkcs12!Within(kinds)[b]
         /\ \A bags \in Seq(Bag) : Pkcs12!Contents(bags, kinds) \in Seq(Objects)
<1>1. Pkcs12!Contents(<<>>, kinds) = <<>>
  <2>1. InEach(<<>>, kinds) = <<>>
    BY SMT DEF InEach
  <2>2. <<>> \in Seq(Bag)
    BY EmptySeq
  <2>3. Pkcs12!Contents(<<>>, kinds) = SX!FlattenSeq(InEach(<<>>, kinds))
    BY SameFlatten DEF Pkcs12!Contents, InEach
  <2> QED
    BY <2>1, <2>3, FlattenNone
<1>2. ASSUME NEW b \in Bag PROVE Pkcs12!Contents(<<b>>, kinds) = Pkcs12!Within(kinds)[b]
  <2> DEFINE w == Pkcs12!Within(kinds)[b]
             bags == <<b>>
             p == InEach(bags, kinds)
  <2>1. bags \in Seq(Bag) /\ Len(bags) = 1 /\ bags[1] = b
    BY SMT
  <2>2. w \in Seq(Objects)
    BY WithinIs
  <2> HIDE DEF bags
  <2>3. p \in Seq(Seq(Objects)) /\ Len(p) = 1 /\ p[1] = w
        /\ Pkcs12!Contents(bags, kinds) = SX!FlattenSeq(p)
    <3>1. 1 \in 1 .. 1
      BY SMT
    <3> QED
      BY <2>1, <3>1, InEachIs
  <2> HIDE DEF p, w
  <2>4. p = <<w>>
    <3> DEFINE s == <<w>>
    <3>1. s \in Seq(Seq(Objects)) /\ Len(s) = 1 /\ s[1] = w
      BY <2>2, SMT
    <3>2. \A n \in 1 .. 1 : n = 1
      BY SMT
    <3> HIDE DEF s
    <3>3. p = s
      BY <2>3, <3>1, <3>2, SeqEqual
    <3> QED
      BY <3>3 DEF s
  <2>5. SX!FlattenSeq(<<w>>) = w
    BY <2>2, FlattenOne
  <2> QED
    BY <2>3, <2>4, <2>5 DEF w, bags
<1>3. ASSUME NEW bags \in Seq(Bag) PROVE Pkcs12!Contents(bags, kinds) \in Seq(Objects)
  BY ContentsConcat
<1> QED
  BY <1>1, <1>2, <1>3

\* The first of the bags that are left, and the others.
LEMMA ContentsNext ==
  ASSUME NEW kinds \in Sought, NEW bags \in Seq(Bag), bags # <<>>
  PROVE  /\ Head(bags) \in Bag /\ Tail(bags) \in Seq(Bag)
         /\ Pkcs12!Contents(bags, kinds)
              = Pkcs12!Within(kinds)[Head(bags)] \o Pkcs12!Contents(Tail(bags), kinds)
<1> DEFINE b == Head(bags)
           t == Tail(bags)
<1>1. b \in Bag /\ t \in Seq(Bag)
  BY HeadTailProperties
<1>2. <<b>> \in Seq(Bag)
  BY <1>1, SMT
<1>3. bags = <<b>> \o t
  BY SMT
<1> DEFINE q == <<b>>
<1> HIDE DEF b, t, q
<1>4. Pkcs12!Contents(q \o t, kinds) = Pkcs12!Contents(q, kinds) \o Pkcs12!Contents(t, kinds)
  BY <1>1, <1>2, ContentsConcat DEF q
<1>5. Pkcs12!Contents(q, kinds) = Pkcs12!Within(kinds)[b]
  BY <1>1, ContentsIs DEF q
<1> QED
  BY <1>1, <1>3, <1>4, <1>5 DEF b, t, q

LEMMA KindsApart ==
  /\ KeyKinds \in Sought /\ CertKinds \in Sought
  /\ \A k \in KeyKinds : k \notin CertKinds /\ k # "safeContents" /\ k # "other"
  /\ \A k \in CertKinds : k \notin KeyKinds /\ k # "safeContents" /\ k # "other"
BY DEF Sought, KeyKinds, CertKinds

\* What is left of the contents when the first bag has been dealt with.
LEMMA BagsLeft ==
  ASSUME NEW kinds \in Sought, NEW bags \in Seq(Bag), bags # <<>>
  PROVE  /\ Head(bags) \in Bag /\ Tail(bags) \in Seq(Bag)
         /\ Head(bags).bags \o Tail(bags) \in Seq(Bag)
         /\ Head(bags).kind \in kinds =>
              Pkcs12!Contents(bags, kinds) = <<Head(bags).object>> \o Pkcs12!Contents(Tail(bags), kinds)
         /\ Head(bags).kind \notin kinds /\ Head(bags).kind # "safeContents" =>
              Pkcs12!Contents(bags, kinds) = Pkcs12!Contents(Tail(bags), kinds)
         /\ Head(bags).kind = "safeContents" =>
              Pkcs12!Contents(bags, kinds) = Pkcs12!Contents(Head(bags).bags \o Tail(bags), kinds)
<1> DEFINE b == Head(bags)
           t == Tail(bags)
           w == Pkcs12!Within(kinds)[b]
           u == Pkcs12!Contents(t, kinds)
<1>1. b \in Bag /\ t \in Seq(Bag) /\ Pkcs12!Contents(bags, kinds) = w \o u
  BY ContentsNext
<1> HIDE DEF b, t
<1>2. b.bags \in Seq(Bag) /\ u \in Seq(Objects)
  BY <1>1, BagIs, ContentsIs
<1>3. w = IF b.kind = "safeContents" THEN Pkcs12!Contents(b.bags, kinds)
          ELSE IF b.kind \in kinds THEN <<b.object>> ELSE <<>>
  BY <1>1, WithinIs
<1> HIDE DEF w, u
<1>4. b.bags \o t \in Seq(Bag)
  BY <1>1, <1>2, ConcatProperties
<1>5. ASSUME b.kind \in kinds PROVE w = <<b.object>>
  BY <1>3, <1>5, KindsApart DEF Sought
<1>6. ASSUME b.kind \notin kinds, b.kind # "safeContents" PROVE w \o u = u
  BY <1>2, <1>3, <1>6, ConcatEmptySeq
<1>7. ASSUME b.kind = "safeContents" PROVE w \o u = Pkcs12!Contents(b.bags \o t, kinds)
  BY <1>1, <1>2, <1>3, <1>7, ContentsConcat DEF u
<1> QED
  BY <1>1, <1>4, <1>5, <1>6, <1>7 DEF b, t, u

\* What the first n safes hold, of what all do.
LEMMA SafesFronts ==
  ASSUME NEW f \in Pkcs12Files, NEW kinds \in Sought
  PROVE  /\ SafesTo(f, kinds, 0) = <<>>
         /\ SafesTo(f, kinds, Len(f.safes)) = Pkcs12!FileContents(f, kinds)
         /\ \A n \in 0 .. Len(f.safes) : SafesTo(f, kinds, n) \in Seq(Objects)
         /\ \A n \in 1 .. Len(f.safes) :
              SafesTo(f, kinds, n) = SafesTo(f, kinds, n - 1) \o Pkcs12!SafeContents(f.safes[n], kinds)
         /\ \A n \in 0 .. Len(f.safes) :
              /\ Len(SafesTo(f, kinds, n)) <= Len(Pkcs12!FileContents(f, kinds))
              /\ \A p \in 1 .. Len(SafesTo(f, kinds, n)) :
                   Pkcs12!FileContents(f, kinds)[p] = SafesTo(f, kinds, n)[p]
<1> DEFINE L  == Len(f.safes)
           qs == [m \in 1 .. L |-> Pkcs12!SafeContents(f.safes[m], kinds)]
<1>1. L \in Nat /\ \A m \in 1 .. L : f.safes[m].bags \in Seq(Bag)
  BY Pkcs12FileIs
<1>2. ASSUME NEW m \in 1 .. L PROVE Pkcs12!SafeContents(f.safes[m], kinds) \in Seq(Objects)
  BY <1>1, ContentsIs, EmptySeq DEF Pkcs12!SafeContents
<1>3. qs \in [1 .. L -> Seq(Objects)]
  BY <1>2
<1>4. \A n : SafesTo(f, kinds, n) = Front(qs, n)
  BY DEF SafesTo
<1>5. SX!FlattenSeq(qs) = Pkcs12!FileContents(f, kinds)
  BY SameFlatten DEF Pkcs12!FileContents
<1>6. \A m \in 1 .. L : qs[m] = Pkcs12!SafeContents(f.safes[m], kinds)
  OBVIOUS
<1> HIDE DEF qs
<1>7. qs \in Seq(Seq(Objects)) /\ Len(qs) = L
  BY <1>1, <1>3, IsSequence
<1>8. /\ Front(qs, 0) = <<>> /\ Front(qs, L) = SX!FlattenSeq(qs)
      /\ \A n \in 0 .. L : Front(qs, n) \in Seq(Objects)
      /\ \A n \in 1 .. L : Front(qs, n) = Front(qs, n - 1) \o qs[n]
  BY <1>7, FrontIs
<1>9. \A n \in 0 .. L : /\ Len(Front(qs, n)) <= Len(Front(qs, L))
                        /\ \A p \in 1 .. Len(Front(qs, n)) : Front(qs, L)[p] = Front(qs, n)[p]
  BY <1>7, FrontPrefix
<1> QED
  BY <1>4, <1>5, <1>6, <1>8, <1>9

-----------------------------------------------------------------------------
(* What is left to be seen, and the slots that are filled                  *)

LEMMA LeftStart ==
  ASSUME NEW S, NEW a \in Seq(S), NEW b \in Seq(S)
  PROVE  Left(a \o b, Len(a), b)
<1>1. Len(a) \in Nat /\ Len(b) \in Nat
  BY LenProperties
<1>2. Len(a \o b) = Len(a) + Len(b)
      /\ \A n \in 1 .. Len(a) + Len(b) : (a \o b)[n] = IF n <= Len(a) THEN a[n] ELSE b[n - Len(a)]
  BY ConcatProperties
<1>3. \A m \in 1 .. Len(b) : /\ Len(a) + m \in 1 .. Len(a) + Len(b) /\ ~(Len(a) + m <= Len(a))
                             /\ Len(a) + m - Len(a) = m
  BY <1>1, SMT
<1>4. ASSUME NEW m \in 1 .. Len(b) PROVE b[m] = (a \o b)[Len(a) + m]
  BY <1>2, <1>3
<1> QED
  BY <1>2, <1>4 DEF Left

LEMMA LeftNext ==
  ASSUME NEW S, NEW q \in Seq(S), NEW n \in Nat, NEW x \in S, NEW r \in Seq(S), NEW s,
         s = <<x>> \o r, Left(q, n, s)
  PROVE  n < Len(q) /\ n + 1 \in 1 .. Len(q) /\ q[n + 1] = x /\ Left(q, n + 1, r)
<1>1. Len(q) \in Nat /\ Len(r) \in Nat
  BY LenProperties
<1>2. <<x>> \in Seq(S) /\ Len(<<x>>) = 1 /\ <<x>>[1] = x
  BY SMT
<1> DEFINE t == <<x>>
<1> HIDE DEF t
<1>3. Len(t \o r) = 1 + Len(r) /\ \A m \in 1 .. 1 + Len(r) : (t \o r)[m] = IF m <= 1 THEN t[m] ELSE r[m - 1]
  BY <1>2, ConcatProperties DEF t
<1>4. Len(s) = 1 + Len(r) /\ \A m \in 1 .. 1 + Len(r) : s[m] = IF m <= 1 THEN t[m] ELSE r[m - 1]
  BY <1>3 DEF t
<1>5. n + (1 + Len(r)) = Len(q) /\ \A m \in 1 .. 1 + Len(r) : s[m] = q[n + m]
  BY <1>4 DEF Left
<1>6. 1 \in 1 .. 1 + Len(r) /\ \A m \in 1 .. Len(r) : m + 1 \in 1 .. 1 + Len(r) /\ ~(m + 1 <= 1) /\ m + 1 - 1 = m
      /\ n + 1 + m = n + (m + 1)
  BY <1>1, SMT
<1>7. q[n + 1] = x
  BY <1>2, <1>4, <1>5, <1>6 DEF t
<1>8. ASSUME NEW m \in 1 .. Len(r) PROVE r[m] = q[n + 1 + m]
  <2> DEFINE x1 == m + 1
             x2 == n + 1 + m
  <2>1. x1 \in 1 .. 1 + Len(r) /\ ~(x1 <= 1) /\ x1 - 1 = m /\ x2 = n + x1
    BY <1>6
  <2> HIDE DEF x1, x2
  <2>2. s[x1] = r[x1 - 1] /\ s[x1] = q[n + x1]
    BY <1>4, <1>5, <2>1
  <2>3. r[m] = q[x2]
    BY <2>1, <2>2, Zenon
  <2> QED
    BY <2>3 DEF x2
<1>9. n < Len(q) /\ n + 1 \in 1 .. Len(q) /\ n + 1 + Len(r) = Len(q)
  BY <1>1, <1>5, SMT
<1> QED
  BY <1>7, <1>8, <1>9 DEF Left

LEMMA LeftNone ==
  ASSUME NEW q, NEW n \in Nat, Left(q, n, <<>>)
  PROVE  n = Len(q)
BY DEF Left

LEMMA FilledIs ==
  ASSUME NEW q \in Seq(Objects)
  PROVE  /\ Filled(q, 0) = Empty(Len(q)) /\ Filled(q, Len(q)) = q
         /\ \A n : Len(Filled(q, n)) = Len(q) /\ Held(Filled(q, n)) \subseteq Held(q)
         /\ Distinct(q) => \A n : Distinct(Filled(q, n))
<1>1. Len(q) \in Nat /\ \A m \in 1 .. Len(q) : q[m] \in Objects
  BY LenProperties, ElementOfSeq
<1>2. \A n : DOMAIN Filled(q, n) = 1 .. Len(q)
             /\ \A m \in 1 .. Len(q) : Filled(q, n)[m] = IF m <= n THEN q[m] ELSE Null
  BY DEF Filled
<1>3. Filled(q, 0) = Empty(Len(q))
  <2>1. \A m \in 1 .. Len(q) : ~(m <= 0)
    BY SMT
  <2> QED
    BY <2>1 DEF Filled, Empty
<1>4. ASSUME NEW n PROVE Len(Filled(q, n)) = Len(q)
  BY <1>1 DEF Filled
<1>5. Filled(q, Len(q)) = q
  <2>1. \A m \in 1 .. Len(q) : m <= Len(q)
    BY SMT
  <2>2. Filled(q, Len(q)) = [m \in 1 .. Len(q) |-> q[m]]
    BY <2>1 DEF Filled
  <2>3. q = [m \in 1 .. Len(q) |-> q[m]]
    BY SMT
  <2> QED
    BY <2>2, <2>3
<1>6. ASSUME NEW n PROVE Held(Filled(q, n)) \subseteq Held(q)
  <2> DEFINE v == Filled(q, n)
  <2>1. Len(v) = Len(q) /\ \A m \in 1 .. Len(q) : v[m] = q[m] \/ v[m] = Null
    BY <1>2, <1>4
  <2> HIDE DEF v
  <2> QED
    BY <2>1 DEF Held, v
<1>7. ASSUME Distinct(q), NEW n PROVE Distinct(Filled(q, n))
  <2> DEFINE v == Filled(q, n)
  <2>1. Len(v) = Len(q) /\ \A m \in 1 .. Len(q) : v[m] = q[m] \/ v[m] = Null
    BY <1>2, <1>4
  <2> HIDE DEF v
  <2> QED
    BY <1>7, <2>1 DEF Distinct, v
<1> QED
  BY <1>3, <1>4, <1>5, <1>6, <1>7

\* An object more.
LEMMA FilledNext ==
  ASSUME NEW q \in Seq(Objects), NEW n \in Nat, n < Len(q)
  PROVE  /\ Put(Filled(q, n), n, q[n + 1]) = Filled(q, n + 1)
         /\ Held(Filled(q, n + 1)) = Held(Filled(q, n)) \cup {q[n + 1]}
<1> DEFINE v == Filled(q, n)
           w == Filled(q, n + 1)
           x == n + 1
<1>1. Len(q) \in Nat /\ \A m \in 1 .. Len(q) : q[m] \in Objects
  BY LenProperties, ElementOfSeq
<1>2. Null \notin Objects
  BY PointerAssumption DEF NullAssumption
<1>3. Len(v) = Len(q) /\ Len(w) = Len(q)
      /\ \A m \in 1 .. Len(q) : /\ v[m] = IF m <= n THEN q[m] ELSE Null
                                /\ w[m] = IF m <= x THEN q[m] ELSE Null
  BY FilledIs DEF Filled
<1>4. x \in 1 .. Len(q) /\ x <= x /\ ~(x <= n) /\ \A m \in 1 .. Len(q) : m <= x <=> m <= n \/ m = x
  BY <1>1, SMT
<1>5. w = [m \in 1 .. Len(q) |-> w[m]]
  BY DEF Filled
<1>6. Put(v, n, q[x]) = [m \in 1 .. Len(q) |-> IF m = x THEN q[x] ELSE v[m]]
  BY <1>3 DEF Put
<1> HIDE DEF v, w, x
<1>7. Put(v, n, q[x]) = w
  BY <1>3, <1>4, <1>5, <1>6
<1>8. ASSUME NEW o \in Held(w) PROVE o \in Held(v) \cup {q[x]}
  <2>1. PICK m \in 1 .. Len(q) : o = w[m] /\ o # Null
    BY <1>3, <1>8 DEF Held
  <2>2. CASE m <= n
    BY <1>3, <1>4, <2>1, <2>2 DEF Held
  <2>3. CASE m = x
    BY <1>3, <1>4, <2>1, <2>3
  <2> QED
    BY <1>3, <1>4, <2>1, <2>2, <2>3
<1>9. ASSUME NEW o \in Held(v) PROVE o \in Held(w)
  <2>1. PICK m \in 1 .. Len(q) : o = v[m] /\ o # Null
    BY <1>3, <1>9 DEF Held
  <2>2. m <= n
    BY <1>3, <2>1
  <2> QED
    BY <1>3, <1>4, <2>1, <2>2 DEF Held
<1>10. q[x] \in Held(w)
  BY <1>1, <1>2, <1>3, <1>4 DEF Held
<1> QED
  BY <1>7, <1>8, <1>9, <1>10 DEF v, w, x

-----------------------------------------------------------------------------
(* The PKCS#12 loader                                                      *)

LEMMA Pkcs12Holds ==
  ASSUME NEW f \in Pkcs12Files
  PROVE  /\ Pkcs12!FileKeys(f) = Pkcs12!FileContents(f, KeyKinds)
         /\ Pkcs12!FileCerts(f) = Pkcs12!FileContents(f, CertKinds)
         /\ Pkcs12!FileKeys(f) \in Seq(Objects) /\ Distinct(Pkcs12!FileKeys(f))
         /\ Pkcs12!FileCerts(f) \in Seq(Objects) /\ Distinct(Pkcs12!FileCerts(f))
         /\ Held(Pkcs12!FileKeys(f)) \cap Held(Pkcs12!FileCerts(f)) = {}
<1> DEFINE k == Pkcs12!FileKeys(f)
           d == Pkcs12!FileCerts(f)
           L == Len(f.safes)
<1>1. k = Pkcs12!FileContents(f, KeyKinds) /\ d = Pkcs12!FileContents(f, CertKinds)
  BY DEF Pkcs12!FileKeys, Pkcs12!FileCerts, KeyKinds, CertKinds
<1>2. L \in 0 .. L
  <2>1. L \in Nat
    BY Pkcs12FileIs
  <2> QED
    BY <2>1, SMT
<1>3. k = SafesTo(f, KeyKinds, L) /\ d = SafesTo(f, CertKinds, L)
  BY <1>1, SafesFronts, KindsApart
<1>4. k \in Seq(Objects) /\ d \in Seq(Objects)
  BY <1>2, <1>3, SafesFronts, KindsApart
<1>5. Pkcs12!Distinct(k) /\ Pkcs12!Distinct(d) /\ Pkcs12!Held(k) \cap Pkcs12!Held(d) = {}
  BY Pkcs12Assumption DEF Pkcs12!ObjectAssumption
<1> HIDE DEF k, d
<1>6. Distinct(k) /\ Distinct(d) /\ Held(k) \cap Held(d) = {}
  BY <1>5 DEF Distinct, Pkcs12!Distinct, Held, Pkcs12!Held
<1> QED
  BY <1>1, <1>4, <1>6 DEF k, d

LEMMA FilledUnshared ==
  ASSUME NEW k \in Seq(Objects), NEW d \in Seq(Objects), Distinct(k), Distinct(d),
         Held(k) \cap Held(d) = {}, NEW n, NEW m
  PROVE  Unshared(Full(Filled(k, n), Filled(d, m)))
<1> DEFINE a == Filled(k, n)
           b == Filled(d, m)
<1>1. Distinct(a) /\ Distinct(b) /\ Held(a) \subseteq Held(k) /\ Held(b) \subseteq Held(d)
  BY FilledIs
<1> HIDE DEF a, b
<1>2. Held(a) \cap Held(b) = {}
  BY <1>1
<1> QED
  BY <1>1, <1>2, FullIs DEF a, b

\* Wherever the second pass gives up, or its caller frees the store, nothing is left.
LEMMA Pkcs12Frees ==
  ASSUME file \in Pkcs12Files, Pkcs12Built
  PROVE  Pkcs12!KeyStoreFree(heap, ks) = HeapOf(Only(Gone), {}, FALSE)
<1> DEFINE k == Filled(Pkcs12!FileKeys(file), keyPos)
           d == Filled(Pkcs12!FileCerts(file), certPos)
<1>1. "main" \in Stores /\ "main" # Null
  BY Pkcs12FileIs
<1>2. Built(k, d) /\ heap.fault = FALSE
  BY DEF Pkcs12Built
<1>3. Unshared(Full(k, d))
  BY Pkcs12Holds, FilledUnshared
<1> HIDE DEF k, d
<1>4. KeyStoreFree(heap, ks) = HeapOf(Only(Gone), {}, FALSE)
  BY <1>1, <1>2, <1>3, FreesAll
<1> QED
  BY <1>4, Pkcs12Store

LEMMA Pkcs12Init == ASSUME Pkcs12!Init PROVE Pkcs12Inv
<1>1. heap = HeapOf(Only(Gone), {}, FALSE)
  BY EmptyHeapIs DEF Pkcs12!Init
<1> QED
  BY <1>1 DEF Pkcs12!Init, Pkcs12Inv, Nothing

LEMMA Pkcs12Fails ==
  ASSUME Pkcs12Inv, pc \in {"safes", "bags"}, Pkcs12!Fail
  PROVE  Pkcs12Inv'
<1>1. /\ ret' = 0 /\ pc' = "returned" /\ held' = {} /\ file' = file /\ pass' = pass
      /\ heap' = IF pass = "fill" THEN Pkcs12!KeyStoreFree(heap, ks) ELSE heap
  BY DEF Pkcs12!Fail, Pkcs12!Return
<1>2. /\ file \in Pkcs12Files /\ pass \in {"count", "fill"}
      /\ pass = "count" => Nothing
      /\ pass = "fill" => Pkcs12Built
  BY DEF Pkcs12Inv
<1>3. heap' = HeapOf(Only(Gone), {}, FALSE)
  <2>1. CASE pass = "fill"
    BY <1>1, <1>2, <2>1, Pkcs12Frees
  <2>2. CASE pass = "count"
    BY <1>1, <1>2, <2>2 DEF Nothing
  <2> QED
    BY <1>2, <2>1, <2>2
<1>4. Nothing'
  BY <1>3 DEF Nothing
<1> QED
  BY <1>1, <1>2, <1>4 DEF Pkcs12Inv

\* The counters say what has been seen in the pass, and nothing of it is lost.
LEMMA SeenIs ==
  ASSUME Pkcs12Inv, pc \in {"safes", "bags"}
  PROVE  SeenKeys \in Nat /\ SeenCerts \in Nat
BY DEF Pkcs12Inv, SeenKeys, SeenCerts

\* What there is to show of a step that leaves the loader among the bags of a safe.
LEMMA InBags ==
  ASSUME /\ file' \in Pkcs12Files /\ pc' = "bags" /\ ret' = 0
         /\ i' \in 1 .. Len(file'.safes) /\ todo' \in Seq(Bag),
         held' = {"pkcs12", "safes", "bags"},
         /\ Left(SafesTo(file, KeyKinds, i), SeenKeys, Pkcs12!Contents(todo, KeyKinds))'
         /\ Left(SafesTo(file, CertKinds, i), SeenCerts, Pkcs12!Contents(todo, CertKinds))',
         /\ numKeys' \in Nat /\ numCerts' \in Nat /\ keyPos' \in Nat /\ certPos' \in Nat
         /\ pass' \in {"count", "fill"}
         /\ pass' = "count" => Nothing' /\ keyPos' = 0 /\ certPos' = 0
         /\ pass' = "fill" => Pkcs12Built'
  PROVE  Pkcs12Inv'
BY DEF Pkcs12Inv

LEMMA Pkcs12OpensSafe ==
  ASSUME Pkcs12Inv, Pkcs12!OpenSafe
  PROVE  Pkcs12Inv'
<1> DEFINE s == file.safes[i]
<1>1. /\ pc = "safes" /\ i <= Len(file.safes) /\ s.type \in {"data", "encrypted"}
      /\ todo' = s.bags /\ held' = held \cup {"bags"} /\ pc' = "bags"
      /\ UNCHANGED <<file, heap, ks, pass, i, numKeys, numCerts, keyPos, certPos, ret>>
  BY DEF Pkcs12!OpenSafe, Pkcs12!Looking, Pkcs12!At, Pkcs12!Current, Pkcs12!counters
<1>2. /\ file \in Pkcs12Files /\ i \in 1 .. Len(file.safes) + 1
      /\ held = {"pkcs12", "safes"} /\ ret = 0
      /\ SeenKeys = Len(SafesTo(file, KeyKinds, i - 1))
      /\ SeenCerts = Len(SafesTo(file, CertKinds, i - 1))
  BY <1>1 DEF Pkcs12Inv
<1>3. /\ i \in 1 .. Len(file.safes) /\ i - 1 \in 0 .. Len(file.safes) /\ s.bags \in Seq(Bag)
  <2>1. Len(file.safes) \in Nat /\ \A m \in 1 .. Len(file.safes) : file.safes[m].bags \in Seq(Bag)
    BY <1>2, Pkcs12FileIs
  <2>2. i \in 1 .. Len(file.safes) /\ i - 1 \in 0 .. Len(file.safes)
    BY <1>1, <1>2, <2>1, SMT
  <2> QED
    BY <2>1, <2>2
<1>4. ASSUME NEW kinds \in Sought
      PROVE  Left(SafesTo(file, kinds, i), Len(SafesTo(file, kinds, i - 1)), Pkcs12!Contents(s.bags, kinds))
  <2> DEFINE a == SafesTo(file, kinds, i - 1)
             b == Pkcs12!Contents(s.bags, kinds)
  <2>1. a \in Seq(Objects) /\ b \in Seq(Objects)
    BY <1>2, <1>3, SafesFronts, ContentsIs
  <2>2. Pkcs12!SafeContents(s, kinds) = b
    BY <1>1 DEF Pkcs12!SafeContents
  <2>3. SafesTo(file, kinds, i) = a \o b
    BY <1>2, <1>3, <2>2, SafesFronts
  <2> HIDE DEF a, b
  <2>4. Left(a \o b, Len(a), b)
    BY <2>1, LeftStart
  <2> QED
    BY <2>3, <2>4 DEF a, b
<1>5. /\ Left(SafesTo(file, KeyKinds, i), SeenKeys, Pkcs12!Contents(todo', KeyKinds))
      /\ Left(SafesTo(file, CertKinds, i), SeenCerts, Pkcs12!Contents(todo', CertKinds))
  BY <1>1, <1>2, <1>4, KindsApart
<1>6. SeenKeys' = SeenKeys /\ SeenCerts' = SeenCerts
  BY <1>1 DEF SeenKeys, SeenCerts
<1>7. /\ numKeys' \in Nat /\ numCerts' \in Nat /\ keyPos' \in Nat /\ certPos' \in Nat
      /\ pass' \in {"count", "fill"}
      /\ pass' = "count" => Nothing' /\ keyPos' = 0 /\ certPos' = 0
      /\ pass' = "fill" => Pkcs12Built'
  BY <1>1 DEF Pkcs12Inv, Pkcs12Built, Nothing, Built
<1>8. held' = {"pkcs12", "safes", "bags"}
  BY <1>1, <1>2
<1>9. /\ Left(SafesTo(file, KeyKinds, i), SeenKeys, Pkcs12!Contents(todo, KeyKinds))'
      /\ Left(SafesTo(file, CertKinds, i), SeenCerts, Pkcs12!Contents(todo, CertKinds))'
  BY <1>1, <1>5, <1>6
<1>10. /\ file' \in Pkcs12Files /\ pc' = "bags" /\ ret' = 0
       /\ i' \in 1 .. Len(file'.safes) /\ todo' \in Seq(Bag)
  BY <1>1, <1>2, <1>3
<1> QED
  BY <1>7, <1>8, <1>9, <1>10, InBags

\* And among the safes.
LEMMA InSafes ==
  ASSUME /\ file' \in Pkcs12Files /\ pc' = "safes" /\ ret' = 0
         /\ i' \in 1 .. Len(file'.safes) + 1,
         held' = {"pkcs12", "safes"},
         /\ SeenKeys' = Len(SafesTo(file, KeyKinds, i - 1))'
         /\ SeenCerts' = Len(SafesTo(file, CertKinds, i - 1))',
         /\ numKeys' \in Nat /\ numCerts' \in Nat /\ keyPos' \in Nat /\ certPos' \in Nat
         /\ pass' \in {"count", "fill"}
         /\ pass' = "count" => Nothing' /\ keyPos' = 0 /\ certPos' = 0
         /\ pass' = "fill" => Pkcs12Built'
  PROVE  Pkcs12Inv'
BY DEF Pkcs12Inv

\* What a step that leaves the heap and the counters alone keeps.
LEMMA SamePass ==
  ASSUME Pkcs12Inv, pc \in {"safes", "bags"},
         UNCHANGED <<file, heap, ks, pass, numKeys, numCerts, keyPos, certPos>>
  PROVE  /\ SeenKeys' = SeenKeys /\ SeenCerts' = SeenCerts
         /\ numKeys' \in Nat /\ numCerts' \in Nat /\ keyPos' \in Nat /\ certPos' \in Nat
         /\ pass' \in {"count", "fill"}
         /\ pass' = "count" => Nothing' /\ keyPos' = 0 /\ certPos' = 0
         /\ pass' = "fill" => Pkcs12Built'
<1>1. SeenKeys' = SeenKeys /\ SeenCerts' = SeenCerts
  BY DEF SeenKeys, SeenCerts
<1>2. (Pkcs12Built => Pkcs12Built') /\ (Nothing => Nothing')
  BY DEF Pkcs12Built, Nothing, Built
<1> QED
  BY <1>1, <1>2 DEF Pkcs12Inv

LEMMA Pkcs12Begins ==
  ASSUME Pkcs12Inv, Pkcs12!Begin
  PROVE  Pkcs12Inv'
<1>1. /\ pc = "start" /\ held' = {"pkcs12", "safes"} /\ pc' = "safes"
      /\ UNCHANGED <<file, heap, ks, pass, i, todo, numKeys, numCerts, keyPos, certPos, ret>>
  BY DEF Pkcs12!Begin, Pkcs12!At, Pkcs12!counters
<1>2. /\ file \in Pkcs12Files /\ Nothing /\ ret = 0 /\ pass = "count" /\ i = 1
      /\ numKeys = 0 /\ numCerts = 0 /\ keyPos = 0 /\ certPos = 0
  BY <1>1 DEF Pkcs12Inv
<1>3. i \in 1 .. Len(file.safes) + 1 /\ i - 1 = 0
  <2>1. Len(file.safes) \in Nat
    BY <1>2, Pkcs12FileIs
  <2> QED
    BY <1>2, <2>1, SMT
<1>4. \A kinds \in Sought : SafesTo(file, kinds, i - 1) = <<>>
  BY <1>2, <1>3, SafesFronts
<1>5. /\ Len(SafesTo(file, KeyKinds, i - 1)) = 0
      /\ Len(SafesTo(file, CertKinds, i - 1)) = 0
  BY <1>4, KindsApart, NoSlots
<1>6. SeenKeys' = 0 /\ SeenCerts' = 0
  BY <1>1, <1>2 DEF SeenKeys, SeenCerts
<1>7. Nothing'
  BY <1>1, <1>2 DEF Nothing
<1>8. /\ SeenKeys' = Len(SafesTo(file, KeyKinds, i - 1))'
      /\ SeenCerts' = Len(SafesTo(file, CertKinds, i - 1))'
  BY <1>1, <1>5, <1>6
<1>9. file' \in Pkcs12Files /\ i' \in 1 .. Len(file'.safes) + 1 /\ ret' = 0
  BY <1>1, <1>2, <1>3
<1> QED
  BY <1>1, <1>2, <1>7, <1>8, <1>9, InSafes

LEMMA Pkcs12SkipsSafe ==
  ASSUME Pkcs12Inv, Pkcs12!SkipSafe
  PROVE  Pkcs12Inv'
<1> DEFINE s == file.safes[i]
<1>1. /\ pc = "safes" /\ i <= Len(file.safes) /\ s.type \in {"null", "other"}
      /\ i' = i + 1
      /\ UNCHANGED <<file, heap, ks, pass, todo, numKeys, numCerts, keyPos, certPos, held, ret, pc>>
  BY DEF Pkcs12!SkipSafe, Pkcs12!Looking, Pkcs12!At, Pkcs12!Current, Pkcs12!counters
<1>2. /\ file \in Pkcs12Files /\ i \in 1 .. Len(file.safes) + 1
      /\ held = {"pkcs12", "safes"} /\ ret = 0
      /\ SeenKeys = Len(SafesTo(file, KeyKinds, i - 1))
      /\ SeenCerts = Len(SafesTo(file, CertKinds, i - 1))
  BY <1>1 DEF Pkcs12Inv
<1>3. /\ i \in 1 .. Len(file.safes) /\ i - 1 \in 0 .. Len(file.safes)
      /\ i + 1 \in 1 .. Len(file.safes) + 1 /\ i + 1 - 1 = i
  <2>1. Len(file.safes) \in Nat
    BY <1>2, Pkcs12FileIs
  <2> QED
    BY <1>1, <1>2, <2>1, SMT
<1>4. ASSUME NEW kinds \in Sought
      PROVE  SafesTo(file, kinds, i) = SafesTo(file, kinds, i - 1)
  <2> DEFINE a == SafesTo(file, kinds, i - 1)
  <2>1. a \in Seq(Objects)
    BY <1>2, <1>3, SafesFronts
  <2>2. Pkcs12!SafeContents(s, kinds) = <<>>
    BY <1>1 DEF Pkcs12!SafeContents
  <2>3. SafesTo(file, kinds, i) = a \o <<>>
    BY <1>2, <1>3, <2>2, SafesFronts
  <2> HIDE DEF a
  <2>4. a \o <<>> = a
    BY <2>1, ConcatEmptySeq
  <2> QED
    BY <2>3, <2>4 DEF a
<1>5. /\ SeenKeys = Len(SafesTo(file, KeyKinds, i))
      /\ SeenCerts = Len(SafesTo(file, CertKinds, i))
  BY <1>2, <1>4, KindsApart
<1>6. pass' \in {"count", "fill"} /\ SeenKeys' = SeenKeys /\ SeenCerts' = SeenCerts
  BY <1>1, SamePass
<1>7. i' - 1 = i
  <2>1. i' = i + 1
    BY <1>1
  <2>2. i \in Int
    BY <1>2, SMT
  <2> QED
    BY ONLY <2>1, <2>2, SMT
<1>8. /\ SeenKeys' = Len(SafesTo(file, KeyKinds, i - 1))'
      /\ SeenCerts' = Len(SafesTo(file, CertKinds, i - 1))'
  BY <1>1, <1>5, <1>6, <1>7
<1>9. file' \in Pkcs12Files /\ pc' = "safes" /\ i' \in 1 .. Len(file'.safes) + 1 /\ ret' = 0 /\ held' = {"pkcs12", "safes"}
  BY <1>1, <1>2, <1>3
<1> QED
  BY <1>1, <1>8, <1>9, SamePass, InSafes

LEMMA Pkcs12ClosesSafe ==
  ASSUME Pkcs12Inv, Pkcs12!CloseSafe
  PROVE  Pkcs12Inv'
<1>1. /\ pc = "bags" /\ todo = <<>> /\ held' = held \ {"bags"} /\ i' = i + 1 /\ pc' = "safes"
      /\ UNCHANGED <<file, heap, ks, pass, todo, numKeys, numCerts, keyPos, certPos, ret>>
  BY DEF Pkcs12!CloseSafe, Pkcs12!At, Pkcs12!counters
<1>2. /\ file \in Pkcs12Files /\ i \in 1 .. Len(file.safes)
      /\ held = {"pkcs12", "safes", "bags"} /\ ret = 0
      /\ Left(SafesTo(file, KeyKinds, i), SeenKeys, Pkcs12!Contents(todo, KeyKinds))
      /\ Left(SafesTo(file, CertKinds, i), SeenCerts, Pkcs12!Contents(todo, CertKinds))
  BY <1>1 DEF Pkcs12Inv
<1>3. /\ i + 1 \in 1 .. Len(file.safes) + 1 /\ i + 1 - 1 = i
  <2>1. Len(file.safes) \in Nat
    BY <1>2, Pkcs12FileIs
  <2> QED
    BY <1>2, <2>1, SMT
<1>4. /\ Left(SafesTo(file, KeyKinds, i), SeenKeys, <<>>)
      /\ Left(SafesTo(file, CertKinds, i), SeenCerts, <<>>)
  BY <1>1, <1>2, KindsApart, ContentsIs
<1>5. /\ SeenKeys = Len(SafesTo(file, KeyKinds, i))
      /\ SeenCerts = Len(SafesTo(file, CertKinds, i))
  BY <1>1, <1>4, SeenIs, LeftNone
<1>6. SeenKeys' = SeenKeys /\ SeenCerts' = SeenCerts
  BY <1>1, SamePass
<1>7. i' - 1 = i
  <2>1. i' = i + 1
    BY <1>1
  <2>2. i \in Int
    BY <1>2, SMT
  <2> QED
    BY ONLY <2>1, <2>2, SMT
<1>8. /\ SeenKeys' = Len(SafesTo(file, KeyKinds, i - 1))'
      /\ SeenCerts' = Len(SafesTo(file, CertKinds, i - 1))'
  BY <1>1, <1>5, <1>6, <1>7
<1>9. held' = {"pkcs12", "safes"}
  BY <1>1, <1>2
<1>10. file' \in Pkcs12Files /\ pc' = "safes" /\ i' \in 1 .. Len(file'.safes) + 1 /\ ret' = 0
  BY <1>1, <1>2, <1>3
<1> QED
  BY <1>1, <1>8, <1>9, <1>10, SamePass, InSafes

\* Between the passes: the store has the slots for all that the first one has seen.
LEMMA Pkcs12Counts ==
  ASSUME Pkcs12Inv, Pkcs12!Counted
  PROVE  Pkcs12Inv'
<1> DEFINE k  == Pkcs12!FileKeys(file)
           d  == Pkcs12!FileCerts(file)
           g  == Only(Gone)
           no == FALSE
           t  == Full(Filled(k, 0), Filled(d, 0))
<1>1. /\ pc = "safes" /\ ~(i <= Len(file.safes)) /\ pass = "count"
      /\ heap' = Pkcs12!KeyStoreNew(heap, "main", numKeys, numCerts) /\ ks' = "main"
      /\ pass' = "fill" /\ i' = 1
      /\ UNCHANGED <<file, todo, numKeys, numCerts, keyPos, certPos, held, ret, pc>>
  <2>1. Len(file.safes) \in Nat /\ i \in 1 .. Len(file.safes) + 1
    BY Pkcs12FileIs DEF Pkcs12!Counted, Pkcs12!At, Pkcs12Inv
  <2>2. i > Len(file.safes) => ~(i <= Len(file.safes))
    BY <2>1, SMT
  <2> QED
    BY <2>2 DEF Pkcs12!Counted, Pkcs12!At, Pkcs12!Main, Pkcs12!counters
<1>2. /\ file \in Pkcs12Files /\ i \in 1 .. Len(file.safes) + 1
      /\ held = {"pkcs12", "safes"} /\ ret = 0 /\ Nothing /\ keyPos = 0 /\ certPos = 0
      /\ numKeys = Len(SafesTo(file, KeyKinds, i - 1))
      /\ numCerts = Len(SafesTo(file, CertKinds, i - 1))
  BY <1>1 DEF Pkcs12Inv, SeenKeys, SeenCerts
<1>3. i - 1 = Len(file.safes) /\ 1 \in 1 .. Len(file.safes) + 1 /\ 1 - 1 = 0 /\ "main" \in Stores
  <2>1. Len(file.safes) \in Nat /\ "main" \in Stores
    BY <1>2, Pkcs12FileIs
  <2>2. i - 1 = Len(file.safes) /\ 1 \in 1 .. Len(file.safes) + 1 /\ 1 - 1 = 0
    BY <1>1, <1>2, <2>1, SMT
  <2> QED
    BY <2>1, <2>2
<1>4. numKeys = Len(k) /\ numCerts = Len(d) /\ k \in Seq(Objects) /\ d \in Seq(Objects)
  BY <1>2, <1>3, SafesFronts, Pkcs12Holds, KindsApart
<1>5. \A kinds \in Sought : SafesTo(file, kinds, 0) = <<>>
  BY <1>2, SafesFronts
<1> HIDE DEF k, d
<1>6. heap' = HeapOf(Only(t), Owned(t), no)
  <2>1. Empty(numKeys) = Filled(k, 0) /\ Empty(numCerts) = Filled(d, 0)
    BY <1>4, FilledIs
  <2>2. IsStores(g) /\ heap = HeapOf(g, {}, no)
    BY <1>2, StoresType DEF Nothing
  <2>3. With(g, "main", t) = Only(t)
    <3> HIDE DEF t
    <3> QED
      BY DEF With, Only, g
  <2>4. numKeys \in Nat /\ numCerts \in Nat
    BY <1>4, LenProperties
  <2>5. Owned(t) = {}
    <3>1. Held(Empty(numKeys)) = {} /\ Held(Empty(numCerts)) = {}
      BY <2>4, EmptyHolds
    <3>2. Owned(t) = Held(Filled(k, 0)) \cup Held(Filled(d, 0))
      BY FullIs
    <3> QED
      BY <2>1, <3>1, <3>2
  <2> HIDE DEF g, no
  <2>6. KeyStoreNew(heap, "main", numKeys, numCerts)
          = HeapOf(With(g, "main", Full(Empty(numKeys), Empty(numCerts))), {}, no)
    BY <1>3, <2>2, NewIs
  <2>7. With(g, "main", Full(Empty(numKeys), Empty(numCerts))) = Only(t)
    BY <2>1, <2>3
  <2> QED
    BY <1>1, <2>5, <2>6, <2>7, Pkcs12Store
<1>7. heap'.fault = no
  <2> HIDE DEF t, no
  <2> QED
    BY <1>6, HeapIs
<1>8. Pkcs12Built'
  <2>1. numKeys' = Len(Pkcs12!FileKeys(file')) /\ numCerts' = Len(Pkcs12!FileCerts(file'))
    BY <1>1, <1>4 DEF k, d
  <2>2. t = Full(Filled(Pkcs12!FileKeys(file'), keyPos'), Filled(Pkcs12!FileCerts(file'), certPos'))
    BY <1>1, <1>2 DEF k, d
  <2> HIDE DEF t
  <2>3. heap' = HeapOf(Only(t), Owned(t), heap'.fault)
    BY <1>6, <1>7
  <2> QED
    BY <1>1, <1>7, <2>1, <2>2, <2>3 DEF Pkcs12Built, Built
<1>9. Len(SafesTo(file, KeyKinds, 0)) = 0 /\ Len(SafesTo(file, CertKinds, 0)) = 0
  BY <1>5, KindsApart, NoSlots
<1>10. SeenKeys' = 0 /\ SeenCerts' = 0
  BY <1>1, <1>2 DEF SeenKeys, SeenCerts
<1>11. i' - 1 = 0 /\ i' \in 1 .. Len(file'.safes) + 1
  BY <1>1, <1>3
<1>12. /\ SeenKeys' = Len(SafesTo(file, KeyKinds, i - 1))'
       /\ SeenCerts' = Len(SafesTo(file, CertKinds, i - 1))'
  BY <1>1, <1>9, <1>10, <1>11
<1>13. numKeys' \in Nat /\ numCerts' \in Nat /\ keyPos' \in Nat /\ certPos' \in Nat
  <2>1. Len(k) \in Nat /\ Len(d) \in Nat
    BY <1>4, LenProperties
  <2> QED
    BY <1>1, <1>2, <1>4, <2>1
<1>14. file' \in Pkcs12Files /\ pc' = "safes" /\ ret' = 0 /\ held' = {"pkcs12", "safes"}
       /\ pass' = "fill"
  BY <1>1, <1>2
<1> QED
  BY <1>8, <1>11, <1>12, <1>13, <1>14, InSafes

\* Both passes have seen the same when the second one ends.
LEMMA Pkcs12Succeeds ==
  ASSUME Pkcs12Inv, Pkcs12!Succeed
  PROVE  Pkcs12Inv'
<1>1. /\ pc = "safes" /\ pass = "fill" /\ ret' = 1 /\ pc' = "returned" /\ held' = {}
      /\ UNCHANGED <<file, heap, ks, pass, i, todo, numKeys, numCerts, keyPos, certPos>>
      /\ i > Len(file.safes)
  BY DEF Pkcs12!Succeed, Pkcs12!At, Pkcs12!Return, Pkcs12!counters
<1>2. /\ file \in Pkcs12Files /\ i \in 1 .. Len(file.safes) + 1 /\ Pkcs12Built
      /\ keyPos = Len(SafesTo(file, KeyKinds, i - 1))
      /\ certPos = Len(SafesTo(file, CertKinds, i - 1))
  BY <1>1 DEF Pkcs12Inv, SeenKeys, SeenCerts
<1>3. i - 1 = Len(file.safes)
  <2>1. Len(file.safes) \in Nat
    BY <1>2, Pkcs12FileIs
  <2> QED
    BY <1>1, <1>2, <2>1, SMT
<1>4. keyPos = Len(Pkcs12!FileKeys(file)) /\ certPos = Len(Pkcs12!FileCerts(file))
  BY <1>2, <1>3, SafesFronts, Pkcs12Holds, KindsApart
<1>5. keyPos = numKeys /\ certPos = numCerts
  BY <1>2, <1>4 DEF Pkcs12Built
<1>6. Pkcs12Built'
  BY <1>1, <1>2 DEF Pkcs12Built, Built
<1> QED
  BY <1>1, <1>2, <1>5, <1>6 DEF Pkcs12Inv

\* A bag that is of no interest in the pass, and a bag of bags.
LEMMA Pkcs12PassesBag ==
  ASSUME Pkcs12Inv, Pkcs12!SkipBag \/ Pkcs12!EnterContents
  PROVE  Pkcs12Inv'
<1> DEFINE b == Head(todo)
<1>1. /\ pc = "bags" /\ todo # <<>> /\ b.kind \in {"other", "safeContents"}
      /\ b.kind = "other" => todo' = Tail(todo)
      /\ b.kind = "safeContents" => todo' = b.bags \o Tail(todo)
      /\ UNCHANGED <<file, heap, ks, pass, i, numKeys, numCerts, keyPos, certPos, held, ret, pc>>
  BY DEF Pkcs12!SkipBag, Pkcs12!EnterContents, Pkcs12!Opening, Pkcs12!Next1, Pkcs12!At, Pkcs12!counters
<1>2. /\ file \in Pkcs12Files /\ i \in 1 .. Len(file.safes) /\ todo \in Seq(Bag)
      /\ held = {"pkcs12", "safes", "bags"} /\ ret = 0
      /\ Left(SafesTo(file, KeyKinds, i), SeenKeys, Pkcs12!Contents(todo, KeyKinds))
      /\ Left(SafesTo(file, CertKinds, i), SeenCerts, Pkcs12!Contents(todo, CertKinds))
  BY <1>1 DEF Pkcs12Inv
<1>3. Tail(todo) \in Seq(Bag) /\ b.bags \o Tail(todo) \in Seq(Bag)
  BY <1>1, <1>2, BagsLeft, KindsApart
<1>4. todo' \in Seq(Bag)
  BY <1>1, <1>3
<1>5. ASSUME NEW kinds \in Sought
      PROVE  Pkcs12!Contents(todo', kinds) = Pkcs12!Contents(todo, kinds)
  <2>1. "other" \notin kinds
    BY KindsApart DEF Sought
  <2>2. CASE b.kind = "other"
    <3>1. Pkcs12!Contents(todo, kinds) = Pkcs12!Contents(Tail(todo), kinds)
      BY <1>1, <1>2, <2>1, <2>2, BagsLeft
    <3> QED
      BY <1>1, <2>2, <3>1
  <2>3. CASE b.kind = "safeContents"
    <3>1. Pkcs12!Contents(todo, kinds) = Pkcs12!Contents(b.bags \o Tail(todo), kinds)
      BY <1>1, <1>2, <2>3, BagsLeft
    <3> QED
      BY <1>1, <2>3, <3>1
  <2> QED
    BY <1>1, <2>2, <2>3
<1>6. SeenKeys' = SeenKeys /\ SeenCerts' = SeenCerts
  BY <1>1, SamePass
<1>7. /\ Left(SafesTo(file, KeyKinds, i), SeenKeys, Pkcs12!Contents(todo, KeyKinds))'
      /\ Left(SafesTo(file, CertKinds, i), SeenCerts, Pkcs12!Contents(todo, CertKinds))'
  BY <1>1, <1>2, <1>5, <1>6, KindsApart
<1>8. /\ file' \in Pkcs12Files /\ pc' = "bags" /\ ret' = 0 /\ i' \in 1 .. Len(file'.safes)
      /\ held' = {"pkcs12", "safes", "bags"}
  BY <1>1, <1>2
<1> QED
  BY <1>1, <1>4, <1>7, <1>8, SamePass, InBags

\* A bag of a kind that is looked for is the next of what the file holds.
LEMMA TakesBag ==
  ASSUME NEW f \in Pkcs12Files, NEW kinds \in Sought, NEW m \in 1 .. Len(f.safes),
         NEW bags \in Seq(Bag), bags # <<>>, Head(bags).kind \in kinds, NEW n \in Nat,
         Left(SafesTo(f, kinds, m), n, Pkcs12!Contents(bags, kinds))
  PROVE  /\ Head(bags).object \in Objects
         /\ n < Len(Pkcs12!FileContents(f, kinds))
         /\ Pkcs12!FileContents(f, kinds)[n + 1] = Head(bags).object
         /\ Left(SafesTo(f, kinds, m), n + 1, Pkcs12!Contents(Tail(bags), kinds))
<1> DEFINE q == SafesTo(f, kinds, m)
           r == Pkcs12!Contents(Tail(bags), kinds)
           x == Head(bags).object
           s == Pkcs12!Contents(bags, kinds)
           w == Pkcs12!FileContents(f, kinds)
           p == n + 1
<1>1. Head(bags) \in Bag /\ Tail(bags) \in Seq(Bag) /\ s = <<x>> \o r
  BY BagsLeft
<1>2. x \in Objects /\ r \in Seq(Objects)
  BY <1>1, BagIs, ContentsIs
<1>3. m \in 0 .. Len(f.safes)
  <2>1. Len(f.safes) \in Nat
    BY Pkcs12FileIs
  <2> QED
    BY <2>1, SMT
<1>4. q \in Seq(Objects) /\ Len(q) <= Len(w) /\ \A j \in 1 .. Len(q) : w[j] = q[j]
  BY <1>3, SafesFronts
<1>5. w \in Seq(Objects)
  <2>1. Len(f.safes) \in 0 .. Len(f.safes)
    <3>1. Len(f.safes) \in Nat
      BY Pkcs12FileIs
    <3> QED
      BY <3>1, SMT
  <2> QED
    BY <2>1, SafesFronts
<1> HIDE DEF q, r, x, s, w
<1>6. n < Len(q) /\ p \in 1 .. Len(q) /\ q[p] = x /\ Left(q, p, r)
  BY <1>1, <1>2, <1>4, LeftNext DEF q, s
<1>7. Len(q) \in Nat /\ Len(w) \in Nat
  BY <1>4, <1>5, LenProperties
<1>8. n < Len(w)
  BY <1>4, <1>6, <1>7, SMT
<1> HIDE DEF p
<1>9. w[p] = x
  BY <1>4, <1>6
<1> QED
  BY <1>2, <1>6, <1>8, <1>9 DEF q, r, x, w, p

\* A bag of a kind that is not looked for is not.
LEMMA LeavesBag ==
  ASSUME NEW kinds \in Sought, NEW bags \in Seq(Bag), bags # <<>>,
         Head(bags).kind \notin kinds, Head(bags).kind # "safeContents",
         NEW q, NEW n, Left(q, n, Pkcs12!Contents(bags, kinds))
  PROVE  Left(q, n, Pkcs12!Contents(Tail(bags), kinds))
BY BagsLeft

LEMMA Pkcs12CountsBag ==
  ASSUME Pkcs12Inv, Pkcs12!CountKey \/ Pkcs12!CountCert
  PROVE  Pkcs12Inv'
<1> DEFINE b == Head(todo)
<1>1. /\ pc = "bags" /\ todo # <<>> /\ pass = "count" /\ todo' = Tail(todo)
      /\ UNCHANGED <<file, heap, ks, pass, i, keyPos, certPos, held, ret, pc>>
      /\ \/ b.kind \in KeyKinds /\ numKeys' = numKeys + 1 /\ numCerts' = numCerts
         \/ b.kind \in CertKinds /\ numCerts' = numCerts + 1 /\ numKeys' = numKeys
  BY DEF Pkcs12!CountKey, Pkcs12!CountCert, Pkcs12!Opening, Pkcs12!Next1, Pkcs12!At, KeyKinds, CertKinds
<1>2. /\ file \in Pkcs12Files /\ i \in 1 .. Len(file.safes) /\ todo \in Seq(Bag)
      /\ held = {"pkcs12", "safes", "bags"} /\ ret = 0
      /\ numKeys \in Nat /\ numCerts \in Nat /\ keyPos = 0 /\ certPos = 0 /\ Nothing
      /\ Left(SafesTo(file, KeyKinds, i), numKeys, Pkcs12!Contents(todo, KeyKinds))
      /\ Left(SafesTo(file, CertKinds, i), numCerts, Pkcs12!Contents(todo, CertKinds))
  BY <1>1 DEF Pkcs12Inv, SeenKeys, SeenCerts
<1>3. Tail(todo) \in Seq(Bag)
  BY <1>1, <1>2, BagsLeft, KindsApart
<1> DEFINE l == Left(SafesTo(file, KeyKinds, i), numKeys', Pkcs12!Contents(Tail(todo), KeyKinds))
           r == Left(SafesTo(file, CertKinds, i), numCerts', Pkcs12!Contents(Tail(todo), CertKinds))
<1>4. l /\ r /\ numKeys' \in Nat /\ numCerts' \in Nat
  <2>1. ASSUME b.kind \in KeyKinds, numKeys' = numKeys + 1, numCerts' = numCerts
        PROVE  l /\ r /\ numKeys' \in Nat /\ numCerts' \in Nat
    <3>1. Left(SafesTo(file, KeyKinds, i), numKeys + 1, Pkcs12!Contents(Tail(todo), KeyKinds))
      BY <1>1, <1>2, <2>1, TakesBag, KindsApart
    <3>2. Left(SafesTo(file, CertKinds, i), numCerts, Pkcs12!Contents(Tail(todo), CertKinds))
      BY <1>1, <1>2, <2>1, LeavesBag, KindsApart
    <3> QED
      BY <1>2, <2>1, <3>1, <3>2
  <2>2. ASSUME b.kind \in CertKinds, numCerts' = numCerts + 1, numKeys' = numKeys
        PROVE  l /\ r /\ numKeys' \in Nat /\ numCerts' \in Nat
    <3>1. Left(SafesTo(file, CertKinds, i), numCerts + 1, Pkcs12!Contents(Tail(todo), CertKinds))
      BY <1>1, <1>2, <2>2, TakesBag, KindsApart
    <3>2. Left(SafesTo(file, KeyKinds, i), numKeys, Pkcs12!Contents(Tail(todo), KeyKinds))
      BY <1>1, <1>2, <2>2, LeavesBag, KindsApart
    <3> QED
      BY <1>2, <2>2, <3>1, <3>2
  <2> QED
    BY <1>1, <2>1, <2>2
<1>5. SeenKeys' = numKeys' /\ SeenCerts' = numCerts'
  BY <1>1 DEF SeenKeys, SeenCerts
<1>6. /\ Left(SafesTo(file, KeyKinds, i), SeenKeys, Pkcs12!Contents(todo, KeyKinds))'
      /\ Left(SafesTo(file, CertKinds, i), SeenCerts, Pkcs12!Contents(todo, CertKinds))'
  BY <1>1, <1>4, <1>5
<1>7. Nothing'
  BY <1>1, <1>2 DEF Nothing
<1>8. /\ file' \in Pkcs12Files /\ pc' = "bags" /\ ret' = 0 /\ i' \in 1 .. Len(file'.safes)
      /\ held' = {"pkcs12", "safes", "bags"} /\ todo' \in Seq(Bag)
      /\ keyPos' = 0 /\ certPos' = 0 /\ pass' = "count"
  BY <1>1, <1>2, <1>3
<1> QED
  BY <1>4, <1>6, <1>7, <1>8, InBags

\* A key, or a certificate, goes into the slot that is next.
LEMMA KeySlot ==
  ASSUME "main" \in Stores, "main" # Null, NEW k \in Seq(Objects), NEW n \in Nat, n < Len(k),
         NEW g, NEW f, NEW h, h = HeapOf(Only(Full(Filled(k, n), g)), Owned(Full(Filled(k, n), g)), f)
  PROVE  KeyStoreSetKey(Create(h, k[n + 1]), "main", n, k[n + 1])
           = HeapOf(Only(Full(Filled(k, n + 1), g)), Owned(Full(Filled(k, n + 1), g)), f)
<1> DEFINE x  == k[n + 1]
           a  == Filled(k, n)
           b  == Filled(k, n + 1)
           st == Only(Full(a, g))
           o  == Owned(Full(a, g))
           p  == o \cup {x}
<1>1. Put(a, n, x) = b /\ Held(b) = Held(a) \cup {x}
  BY FilledNext
<1>2. n < Len(a)
  BY FilledIs
<1> HIDE DEF x, a, b
<1>3. IsStores(st) /\ st["main"] = Full(a, g)
  BY StoresType DEF Only
<1>4. p = Owned(Full(b, g))
  <2>1. Owned(Full(a, g)) = Held(a) \cup Held(g)
    BY OwnedFull, Zenon
  <2>2. Owned(Full(b, g)) = Held(b) \cup Held(g)
    BY OwnedFull, Zenon
  <2> QED
    BY <1>1, <2>1, <2>2
<1>5. With(st, "main", Full(b, g)) = Only(Full(b, g))
  <2> DEFINE u == Full(b, g)
  <2> HIDE DEF u
  <2>1. With(st, "main", u) = Only(u)
    BY DEF With, Only
  <2> QED
    BY <2>1 DEF u
<1> HIDE DEF st
<1>6. Create(h, x) = HeapOf(st, p, f)
  BY CreateIs DEF x, a, st
<1> HIDE DEF o, p
<1>7. KeyStoreSetKey(HeapOf(st, p, f), "main", n, x) = HeapOf(With(st, "main", Full(Put(a, n, x), g)), p, f)
  <2> DEFINE j == n
  <2>1. "main" \in Stores /\ "main" # Null /\ SlotOf(a, j)
    BY <1>2 DEF SlotOf
  <2> HIDE DEF j
  <2>2. KeyStoreSetKey(HeapOf(st, p, f), "main", j, x) = HeapOf(With(st, "main", Full(Put(a, j, x), g)), p, f)
    BY ONLY <1>3, <2>1, SlotSet
  <2> QED
    BY <2>2 DEF j
<1>8. KeyStoreSetKey(Create(h, x), "main", n, x) = HeapOf(Only(Full(b, g)), Owned(Full(b, g)), f)
  BY <1>1, <1>4, <1>5, <1>6, <1>7
<1> QED
  BY <1>8 DEF x, b

LEMMA CertSlot ==
  ASSUME "main" \in Stores, "main" # Null, NEW d \in Seq(Objects), NEW n \in Nat, n < Len(d),
         NEW l, NEW f, NEW h, h = HeapOf(Only(Full(l, Filled(d, n))), Owned(Full(l, Filled(d, n))), f)
  PROVE  KeyStoreSetCert(Create(h, d[n + 1]), "main", n, d[n + 1])
           = HeapOf(Only(Full(l, Filled(d, n + 1))), Owned(Full(l, Filled(d, n + 1))), f)
<1> DEFINE x  == d[n + 1]
           a  == Filled(d, n)
           b  == Filled(d, n + 1)
           st == Only(Full(l, a))
           o  == Owned(Full(l, a))
           p  == o \cup {x}
<1>1. Put(a, n, x) = b /\ Held(b) = Held(a) \cup {x}
  BY FilledNext
<1>2. n < Len(a)
  BY FilledIs
<1> HIDE DEF x, a, b
<1>3. IsStores(st) /\ st["main"] = Full(l, a)
  BY StoresType DEF Only
<1>4. p = Owned(Full(l, b))
  <2>1. Owned(Full(l, a)) = Held(l) \cup Held(a)
    BY OwnedFull, Zenon
  <2>2. Owned(Full(l, b)) = Held(l) \cup Held(b)
    BY OwnedFull, Zenon
  <2> QED
    BY <1>1, <2>1, <2>2
<1>5. With(st, "main", Full(l, b)) = Only(Full(l, b))
  <2> DEFINE u == Full(l, b)
  <2> HIDE DEF u
  <2>1. With(st, "main", u) = Only(u)
    BY DEF With, Only
  <2> QED
    BY <2>1 DEF u
<1> HIDE DEF st
<1>6. Create(h, x) = HeapOf(st, p, f)
  BY CreateIs DEF x, a, st
<1> HIDE DEF o, p
<1>7. KeyStoreSetCert(HeapOf(st, p, f), "main", n, x) = HeapOf(With(st, "main", Full(l, Put(a, n, x))), p, f)
  <2> DEFINE j == n
  <2>1. "main" \in Stores /\ "main" # Null /\ SlotOf(a, j)
    BY <1>2 DEF SlotOf
  <2> HIDE DEF j
  <2>2. KeyStoreSetCert(HeapOf(st, p, f), "main", j, x) = HeapOf(With(st, "main", Full(l, Put(a, j, x))), p, f)
    BY ONLY <1>3, <2>1, SlotSet
  <2> QED
    BY <2>2 DEF j
<1>8. KeyStoreSetCert(Create(h, x), "main", n, x) = HeapOf(Only(Full(l, b)), Owned(Full(l, b)), f)
  BY <1>1, <1>4, <1>5, <1>6, <1>7
<1> QED
  BY <1>8 DEF x, b

LEMMA Pkcs12GetsKey ==
  ASSUME Pkcs12Inv, Pkcs12!GetKey
  PROVE  Pkcs12Inv'
<1> DEFINE b  == Head(todo)
           k  == Pkcs12!FileKeys(file)
           d  == Pkcs12!FileCerts(file)
           g  == Filled(d, certPos)
           no == heap.fault
<1>1. /\ pc = "bags" /\ todo # <<>> /\ pass = "fill" /\ b.kind \in KeyKinds
      /\ heap' = Pkcs12!KeyStoreSetKey(Pkcs12!Create(heap, b.object), ks, keyPos, b.object)
      /\ keyPos' = keyPos + 1 /\ todo' = Tail(todo)
      /\ UNCHANGED <<file, ks, pass, i, numKeys, numCerts, certPos, held, ret, pc>>
  BY DEF Pkcs12!GetKey, Pkcs12!Opening, Pkcs12!Next1, Pkcs12!At, KeyKinds
<1>2. /\ file \in Pkcs12Files /\ i \in 1 .. Len(file.safes) /\ todo \in Seq(Bag)
      /\ held = {"pkcs12", "safes", "bags"} /\ ret = 0
      /\ numKeys \in Nat /\ numCerts \in Nat /\ keyPos \in Nat /\ certPos \in Nat /\ Pkcs12Built
      /\ Left(SafesTo(file, KeyKinds, i), keyPos, Pkcs12!Contents(todo, KeyKinds))
      /\ Left(SafesTo(file, CertKinds, i), certPos, Pkcs12!Contents(todo, CertKinds))
  BY <1>1 DEF Pkcs12Inv, SeenKeys, SeenCerts
<1>3. Tail(todo) \in Seq(Bag)
  BY <1>1, <1>2, BagsLeft, KindsApart
<1>4. /\ keyPos < Len(Pkcs12!FileContents(file, KeyKinds))
      /\ Pkcs12!FileContents(file, KeyKinds)[keyPos + 1] = b.object
      /\ Left(SafesTo(file, KeyKinds, i), keyPos + 1, Pkcs12!Contents(Tail(todo), KeyKinds))
  BY <1>1, <1>2, TakesBag, KindsApart
<1>5. Left(SafesTo(file, CertKinds, i), certPos, Pkcs12!Contents(Tail(todo), CertKinds))
  BY <1>1, <1>2, LeavesBag, KindsApart
<1>6. k = Pkcs12!FileContents(file, KeyKinds) /\ k \in Seq(Objects)
  BY <1>2, Pkcs12Holds
<1>7. "main" \in Stores /\ "main" # Null
  BY <1>2, Pkcs12FileIs
<1>8. /\ ks = "main" /\ heap = HeapOf(Only(Full(Filled(k, keyPos), g)), Owned(Full(Filled(k, keyPos), g)), no)
      /\ heap.fault = FALSE /\ numKeys = Len(k) /\ numCerts = Len(d)
  BY <1>2 DEF Pkcs12Built, Built
<1>9. keyPos < Len(k) /\ k[keyPos + 1] = b.object
  BY <1>4, <1>6
<1> DEFINE n == keyPos
           x == n + 1
           t == Full(Filled(k, x), g)
<1>10. n \in Nat /\ n < Len(k) /\ k[n + 1] = b.object
  BY <1>2, <1>9
<1>11. heap' = HeapOf(Only(t), Owned(t), no)
  <2>1. heap = HeapOf(Only(Full(Filled(k, n), g)), Owned(Full(Filled(k, n), g)), no)
    BY <1>8
  <2> DEFINE kk == k
             gg == g
             hh == heap
             nn == n
  <2>2. kk \in Seq(Objects) /\ nn \in Nat /\ nn < Len(kk) /\ kk[nn + 1] = b.object
        /\ hh = HeapOf(Only(Full(Filled(kk, nn), gg)), Owned(Full(Filled(kk, nn), gg)), no)
    BY <1>6, <1>10, <2>1
  <2> HIDE DEF kk, gg, hh, no, nn
  <2>3. KeyStoreSetKey(Create(hh, kk[nn + 1]), "main", nn, kk[nn + 1])
          = HeapOf(Only(Full(Filled(kk, nn + 1), gg)), Owned(Full(Filled(kk, nn + 1), gg)), no)
    BY ONLY <1>7, <2>2, KeySlot
  <2>4. heap' = KeyStoreSetKey(Create(hh, kk[nn + 1]), "main", nn, kk[nn + 1])
    <3> DEFINE y == b.object
               z == kk[nn + 1]
               s == "main"
    <3>1. heap' = Pkcs12!KeyStoreSetKey(Pkcs12!Create(hh, y), s, nn, y) /\ z = y
      BY <1>1, <1>8, <2>2 DEF hh, nn
    <3> HIDE DEF y, z, s
    <3>2. \A h1 : Pkcs12!KeyStoreSetKey(h1, s, nn, y) = KeyStoreSetKey(h1, s, nn, y)
      BY Pkcs12Store
    <3>3. Pkcs12!Create(hh, y) = Create(hh, y)
      BY Pkcs12Store
    <3> QED
      BY ONLY <3>1, <3>2, <3>3, Zenon DEF z, s
  <2> QED
    BY <2>3, <2>4 DEF kk, gg, nn
<1>12. heap'.fault = FALSE
  <2> HIDE DEF t, no
  <2>1. heap'.fault = no
    BY <1>11, HeapIs
  <2> QED
    BY <1>8, <2>1 DEF no
<1>13. Pkcs12Built'
  <2>1. t = Full(Filled(Pkcs12!FileKeys(file'), keyPos'), Filled(Pkcs12!FileCerts(file'), certPos'))
    BY <1>1
  <2> DEFINE u == t
  <2> HIDE DEF u
  <2>2. heap' = HeapOf(Only(u), Owned(u), heap'.fault)
    BY <1>8, <1>11, <1>12 DEF u
  <2>3. Built(Filled(Pkcs12!FileKeys(file), keyPos), Filled(Pkcs12!FileCerts(file), certPos))'
    BY <1>1, <1>8, <2>1, <2>2 DEF Built, u
  <2> QED
    BY <1>1, <1>8, <1>12, <2>3 DEF Pkcs12Built
<1>14. SeenKeys' = keyPos + 1 /\ SeenCerts' = certPos
  BY <1>1 DEF SeenKeys, SeenCerts
<1>15. /\ Left(SafesTo(file, KeyKinds, i), SeenKeys, Pkcs12!Contents(todo, KeyKinds))'
       /\ Left(SafesTo(file, CertKinds, i), SeenCerts, Pkcs12!Contents(todo, CertKinds))'
  BY <1>1, <1>4, <1>5, <1>14
<1>16. /\ file' \in Pkcs12Files /\ pc' = "bags" /\ ret' = 0 /\ i' \in 1 .. Len(file'.safes)
       /\ held' = {"pkcs12", "safes", "bags"} /\ todo' \in Seq(Bag) /\ pass' = "fill"
       /\ numKeys' \in Nat /\ numCerts' \in Nat /\ keyPos' \in Nat /\ certPos' \in Nat
  BY <1>1, <1>2, <1>3
<1> QED
  BY <1>13, <1>15, <1>16, InBags

LEMMA Pkcs12GetsCert ==
  ASSUME Pkcs12Inv, Pkcs12!GetCert
  PROVE  Pkcs12Inv'
<1> DEFINE b  == Head(todo)
           k  == Pkcs12!FileKeys(file)
           d  == Pkcs12!FileCerts(file)
           l  == Filled(k, keyPos)
           no == heap.fault
<1>1. /\ pc = "bags" /\ todo # <<>> /\ pass = "fill" /\ b.kind \in CertKinds
      /\ heap' = Pkcs12!KeyStoreSetCert(Pkcs12!Create(heap, b.object), ks, certPos, b.object)
      /\ certPos' = certPos + 1 /\ todo' = Tail(todo)
      /\ UNCHANGED <<file, ks, pass, i, numKeys, numCerts, keyPos, held, ret, pc>>
  BY DEF Pkcs12!GetCert, Pkcs12!Opening, Pkcs12!Next1, Pkcs12!At, CertKinds
<1>2. /\ file \in Pkcs12Files /\ i \in 1 .. Len(file.safes) /\ todo \in Seq(Bag)
      /\ held = {"pkcs12", "safes", "bags"} /\ ret = 0
      /\ numKeys \in Nat /\ numCerts \in Nat /\ keyPos \in Nat /\ certPos \in Nat /\ Pkcs12Built
      /\ Left(SafesTo(file, KeyKinds, i), keyPos, Pkcs12!Contents(todo, KeyKinds))
      /\ Left(SafesTo(file, CertKinds, i), certPos, Pkcs12!Contents(todo, CertKinds))
  BY <1>1 DEF Pkcs12Inv, SeenKeys, SeenCerts
<1>3. Tail(todo) \in Seq(Bag)
  BY <1>1, <1>2, BagsLeft, KindsApart
<1>4. /\ certPos < Len(Pkcs12!FileContents(file, CertKinds))
      /\ Pkcs12!FileContents(file, CertKinds)[certPos + 1] = b.object
      /\ Left(SafesTo(file, CertKinds, i), certPos + 1, Pkcs12!Contents(Tail(todo), CertKinds))
  BY <1>1, <1>2, TakesBag, KindsApart
<1>5. Left(SafesTo(file, KeyKinds, i), keyPos, Pkcs12!Contents(Tail(todo), KeyKinds))
  BY <1>1, <1>2, LeavesBag, KindsApart
<1>6. d = Pkcs12!FileContents(file, CertKinds) /\ d \in Seq(Objects)
  BY <1>2, Pkcs12Holds
<1>7. "main" \in Stores /\ "main" # Null
  BY <1>2, Pkcs12FileIs
<1>8. /\ ks = "main" /\ heap = HeapOf(Only(Full(l, Filled(d, certPos))), Owned(Full(l, Filled(d, certPos))), no)
      /\ heap.fault = FALSE /\ numKeys = Len(k) /\ numCerts = Len(d)
  BY <1>2 DEF Pkcs12Built, Built
<1>9. certPos < Len(d) /\ d[certPos + 1] = b.object
  BY <1>4, <1>6
<1> DEFINE n == certPos
           x == n + 1
           t == Full(l, Filled(d, x))
<1>10. n \in Nat /\ n < Len(d) /\ d[n + 1] = b.object
  BY <1>2, <1>9
<1>11. heap' = HeapOf(Only(t), Owned(t), no)
  <2>1. heap = HeapOf(Only(Full(l, Filled(d, n))), Owned(Full(l, Filled(d, n))), no)
    BY <1>8
  <2> DEFINE dd == d
             ll == l
             hh == heap
             nn == n
  <2>2. dd \in Seq(Objects) /\ nn \in Nat /\ nn < Len(dd) /\ dd[nn + 1] = b.object
        /\ hh = HeapOf(Only(Full(ll, Filled(dd, nn))), Owned(Full(ll, Filled(dd, nn))), no)
    BY <1>6, <1>10, <2>1
  <2> HIDE DEF dd, ll, hh, no, nn
  <2>3. KeyStoreSetCert(Create(hh, dd[nn + 1]), "main", nn, dd[nn + 1])
          = HeapOf(Only(Full(ll, Filled(dd, nn + 1))), Owned(Full(ll, Filled(dd, nn + 1))), no)
    BY ONLY <1>7, <2>2, CertSlot
  <2>4. heap' = KeyStoreSetCert(Create(hh, dd[nn + 1]), "main", nn, dd[nn + 1])
    <3> DEFINE y == b.object
               z == dd[nn + 1]
               s == "main"
    <3>1. heap' = Pkcs12!KeyStoreSetCert(Pkcs12!Create(hh, y), s, nn, y) /\ z = y
      BY <1>1, <1>8, <2>2 DEF hh, nn
    <3> HIDE DEF y, z, s
    <3>2. \A h1 : Pkcs12!KeyStoreSetCert(h1, s, nn, y) = KeyStoreSetCert(h1, s, nn, y)
      BY Pkcs12Store
    <3>3. Pkcs12!Create(hh, y) = Create(hh, y)
      BY Pkcs12Store
    <3> QED
      BY ONLY <3>1, <3>2, <3>3, Zenon DEF z, s
  <2> QED
    BY <2>3, <2>4 DEF dd, ll, nn
<1>12. heap'.fault = FALSE
  <2> HIDE DEF t, no
  <2>1. heap'.fault = no
    BY <1>11, HeapIs
  <2> QED
    BY <1>8, <2>1 DEF no
<1>13. Pkcs12Built'
  <2>1. t = Full(Filled(Pkcs12!FileKeys(file'), keyPos'), Filled(Pkcs12!FileCerts(file'), certPos'))
    BY <1>1
  <2> DEFINE u == t
  <2> HIDE DEF u
  <2>2. heap' = HeapOf(Only(u), Owned(u), heap'.fault)
    BY <1>8, <1>11, <1>12 DEF u
  <2>3. Built(Filled(Pkcs12!FileKeys(file), keyPos), Filled(Pkcs12!FileCerts(file), certPos))'
    BY <1>1, <1>8, <2>1, <2>2 DEF Built, u
  <2> QED
    BY <1>1, <1>8, <1>12, <2>3 DEF Pkcs12Built
<1>14. SeenKeys' = keyPos /\ SeenCerts' = certPos + 1
  BY <1>1 DEF SeenKeys, SeenCerts
<1>15. /\ Left(SafesTo(file, KeyKinds, i), SeenKeys, Pkcs12!Contents(todo, KeyKinds))'
       /\ Left(SafesTo(file, CertKinds, i), SeenCerts, Pkcs12!Contents(todo, CertKinds))'
  BY <1>1, <1>4, <1>5, <1>14
<1>16. /\ file' \in Pkcs12Files /\ pc' = "bags" /\ ret' = 0 /\ i' \in 1 .. Len(file'.safes)
       /\ held' = {"pkcs12", "safes", "bags"} /\ todo' \in Seq(Bag) /\ pass' = "fill"
       /\ numKeys' \in Nat /\ numCerts' \in Nat /\ keyPos' \in Nat /\ certPos' \in Nat
  BY <1>1, <1>2, <1>3
<1> QED
  BY <1>13, <1>15, <1>16, InBags

LEMMA Pkcs12EndSteps ==
  ASSUME Pkcs12Inv, Pkcs12!Refuse \/ Pkcs12!CallerFrees \/ Pkcs12!CallerGivesUp
  PROVE  Pkcs12Inv'
<1>1. file \in Pkcs12Files /\ pass \in {"count", "fill"}
  BY DEF Pkcs12Inv
<1>2. ASSUME Pkcs12!Refuse PROVE Pkcs12Inv'
  BY <1>1, <1>2 DEF Pkcs12!Refuse, Pkcs12!Return, Pkcs12!At, Pkcs12!counters, Pkcs12Inv, Nothing
<1>3. ASSUME Pkcs12!CallerFrees PROVE Pkcs12Inv'
  <2>1. /\ pc = "returned" /\ ret = 1 /\ heap' = Pkcs12!KeyStoreFree(heap, ks) /\ pc' = "done"
        /\ file' = file /\ ret' = ret /\ pass' = pass /\ held' = held
    BY <1>3 DEF Pkcs12!CallerFrees, Pkcs12!At
  <2>2. Pkcs12Built /\ held = {}
    BY <2>1 DEF Pkcs12Inv
  <2>3. heap' = HeapOf(Only(Gone), {}, FALSE)
    BY <1>1, <2>1, <2>2, Pkcs12Frees
  <2>4. Nothing'
    BY <2>3 DEF Nothing
  <2> QED
    BY <1>1, <2>1, <2>2, <2>4 DEF Pkcs12Inv
<1>4. ASSUME Pkcs12!CallerGivesUp PROVE Pkcs12Inv'
  BY <1>1, <1>4 DEF Pkcs12!CallerGivesUp, Pkcs12!At, Pkcs12!counters, Pkcs12Inv, Nothing
<1> QED
  BY <1>2, <1>3, <1>4

LEMMA Pkcs12Step ==
  ASSUME Pkcs12Inv, Pkcs12!Next
  PROVE  Pkcs12Inv'
<1>1. ASSUME Pkcs12!BadSafe \/ Pkcs12!NothingFound \/ Pkcs12!BadBag PROVE Pkcs12Inv'
  <2>1. pc \in {"safes", "bags"} /\ Pkcs12!Fail
    BY <1>1 DEF Pkcs12!BadSafe, Pkcs12!Looking, Pkcs12!NothingFound, Pkcs12!BadBag, Pkcs12!Opening, Pkcs12!At
  <2> QED
    BY <2>1, Pkcs12Fails
<1> QED
  BY <1>1, Pkcs12Begins, Pkcs12SkipsSafe, Pkcs12OpensSafe, Pkcs12ClosesSafe, Pkcs12Counts,
     Pkcs12Succeeds, Pkcs12PassesBag, Pkcs12CountsBag, Pkcs12GetsKey, Pkcs12GetsCert, Pkcs12EndSteps
  DEF Pkcs12!Next

LEMMA Pkcs12Has ==
  ASSUME Pkcs12Inv
  PROVE  file \in Pkcs12Files /\ (Nothing \/ Pkcs12Built)
BY DEF Pkcs12Inv

LEMMA NothingIs ==
  ASSUME Nothing, "main" \in Stores
  PROVE  OwnedOnce(heap) /\ heap.fault = FALSE /\ heap.stores["main"] = Gone /\ heap.objects = {}
<1> DEFINE no == FALSE
<1>1. heap = HeapOf(Only(Gone), {}, no)
  BY DEF Nothing
<1>2. heap.fault = no /\ heap.stores = Only(Gone) /\ heap.objects = {}
  BY <1>1 DEF HeapOf
<1> HIDE DEF no
<1>3. OwnedOnce(heap)
  BY <1>1, NothingOwned
<1>4. heap.stores["main"] = Gone
  BY <1>2, OnlyIs
<1> QED
  BY <1>2, <1>3, <1>4 DEF no

LEMMA BuiltIs ==
  ASSUME "main" \in Stores, NEW k, NEW d, Built(k, d)
  PROVE  /\ Unshared(Full(k, d)) => OwnedOnce(heap)
         /\ ks = "main" /\ heap.stores["main"] = Full(k, d) /\ heap.objects = Owned(Full(k, d))
<1> DEFINE f == heap.fault
           t == Full(k, d)
<1>1. ks = "main" /\ heap = HeapOf(Only(t), Owned(t), f)
  BY DEF Built
<1> HIDE DEF f, t
<1>2. heap.stores = Only(t) /\ heap.objects = Owned(t)
  BY <1>1, HeapIs
<1>3. Unshared(t) => OwnedOnce(heap)
  BY <1>1, BuiltOwned
<1>4. heap.stores["main"] = t
  BY <1>2, OnlyIs
<1> QED
  BY <1>1, <1>2, <1>3, <1>4 DEF t

LEMMA Pkcs12Properties ==
  ASSUME Pkcs12Inv
  PROVE  OwnedOnce(heap) /\ Pkcs12!SlotsFilled /\ Pkcs12!NothingHeld /\ heap.fault = FALSE
<1>1. file \in Pkcs12Files /\ (Nothing \/ Pkcs12Built)
  BY Pkcs12Has
<1>2. "main" \in Stores
  BY <1>1, Pkcs12FileIs
<1>3. Pkcs12!NothingHeld
  BY DEF Pkcs12Inv, Pkcs12!NothingHeld
<1>4. pc = "returned" /\ ret = 1 => keyPos = numKeys /\ certPos = numCerts
  BY DEF Pkcs12Inv
<1>5. CASE Nothing
  <2>1. OwnedOnce(heap) /\ heap.fault = FALSE /\ heap.stores["main"] = Gone
    BY <1>2, <1>5, NothingIs
  <2>2. ~heap.stores["main"].live
    BY <2>1, GoneIs
  <2> QED
    BY <1>3, <1>4, <2>1, <2>2 DEF Pkcs12!SlotsFilled, Pkcs12!Main
<1>6. CASE Pkcs12Built
  <2> DEFINE k == Pkcs12!FileKeys(file)
             d == Pkcs12!FileCerts(file)
             l == Filled(k, keyPos)
             g == Filled(d, certPos)
  <2>1. Built(l, g) /\ heap.fault = FALSE /\ numKeys = Len(k) /\ numCerts = Len(d)
    BY <1>6 DEF Pkcs12Built
  <2>2. k \in Seq(Objects) /\ d \in Seq(Objects) /\ Unshared(Full(l, g))
    BY <1>1, Pkcs12Holds, FilledUnshared
  <2>3. /\ \A n \in 1 .. Len(k) : l[n] = IF n <= keyPos THEN k[n] ELSE Null
        /\ \A n \in 1 .. Len(d) : g[n] = IF n <= certPos THEN d[n] ELSE Null
    BY DEF Filled
  <2> HIDE DEF k, d, l, g
  <2>4. OwnedOnce(heap) /\ heap.stores["main"] = Full(l, g)
    BY <1>2, <2>1, <2>2, BuiltIs
  <2>5. heap.stores["main"].keys = l /\ heap.stores["main"].certs = g
    BY <2>4 DEF Full
  <2>6. Null \notin Objects
    BY PointerAssumption DEF NullAssumption
  <2>7. /\ \A n \in 1 .. Len(k) : k[n] # Null
        /\ \A n \in 1 .. Len(d) : d[n] # Null
    BY <2>2, <2>6, ElementOfSeq
  <2>8. /\ \A n \in 1 .. numKeys : heap.stores["main"].keys[n] # Null <=> n <= keyPos
        /\ \A n \in 1 .. numCerts : heap.stores["main"].certs[n] # Null <=> n <= certPos
    BY <2>1, <2>3, <2>5, <2>7
  <2> QED
    BY <1>3, <1>4, <2>1, <2>4, <2>8 DEF Pkcs12!SlotsFilled, Pkcs12!Main
<1> QED
  BY <1>1, <1>5, <1>6

-----------------------------------------------------------------------------
(* The key-6 loader                                                        *)

LEMMA Key6FileIs ==
  ASSUME NEW f \in Key6Files
  PROVE  /\ "main" \in Stores /\ "main" # Null /\ f.content \in Key6!Contents
         /\ Key6!Key(1) \in Objects /\ Key6!Key(2) \in Objects
<1>1. Key6Files \subseteq Key6!File /\ "main" \in Stores
      /\ Key6!Key(1) \in Objects /\ Key6!Key(2) \in Objects
  BY Key6Assumption DEF Key6!FileAssumption, Key6!Main
<1>2. "main" # Null
  BY <1>1, PointerAssumption DEF NullAssumption
<1>3. f \in Key6!File
  BY <1>1
<1>4. f.content \in Key6!Contents
  BY <1>3 DEF Key6!File
<1> QED
  BY <1>1, <1>2, <1>4

LEMMA Key6Holds ==
  ASSUME NEW f \in Key6Files
  PROVE  /\ Key6!FileKeys(f) \in Seq(Objects) /\ Distinct(Key6!FileKeys(f)) /\ Key6!FileCerts(f) = <<>>
         /\ Unshared(Full(Key6!FileKeys(f), Key6!FileCerts(f)))
         /\ f.content \in Key6!Readable =>
              /\ Len(Key6!FileKeys(f)) = Key6!Built(f) /\ Key6!Built(f) \in {1, 2}
              /\ \A n \in 1 .. Key6!Built(f) : Key6!FileKeys(f)[n] = Key6!Key(n)
<1> DEFINE q == Key6!FileKeys(f)
<1>1. Key6!FileCerts(f) = <<>>
  BY DEF Key6!FileCerts
<1>2. CASE f.content \in Key6!Readable
  <2> DEFINE n == Key6!Built(f)
  <2>1. n \in {1, 2}
    BY DEF Key6!Built
  <2>2. q = [m \in 1 .. n |-> Key6!Key(m)]
    BY <1>2 DEF Key6!FileKeys
  <2> HIDE DEF n, q
  <2>3. n \in Nat /\ \A m \in 1 .. n : m = 1 \/ m = 2
    BY <2>1, SMT
  <2>4. \A m \in 1 .. n : Key6!Key(m) \in Objects
    BY <2>3, Key6FileIs
  <2>5. q \in [1 .. n -> Objects] /\ \A m \in 1 .. n : q[m] = Key6!Key(m)
    BY <2>2, <2>4
  <2>6. q \in Seq(Objects) /\ Len(q) = n
    BY <2>3, <2>5, IsSequence
  <2>7. \A x, y \in Nat : Key6!Key(x) = Key6!Key(y) => x = y
    BY DEF Key6!Key
  <2>8. Distinct(q)
    BY <2>3, <2>5, <2>6, <2>7 DEF Distinct
  <2> DEFINE d == Key6!FileCerts(f)
  <2>9. Distinct(d) /\ Held(d) = {}
    BY <1>1, NoSlots
  <2> HIDE DEF d
  <2>10. Unshared(Full(q, d))
    <3>1. Held(q) \cap Held(d) = {}
      BY <2>9
    <3> QED
      BY <2>8, <2>9, <3>1, UnsharedFull, Zenon
  <2> QED
    BY <1>1, <1>2, <2>1, <2>5, <2>6, <2>8, <2>10 DEF n, q, d
<1>3. CASE f.content \notin Key6!Readable
  <2> DEFINE d == Key6!FileCerts(f)
  <2>1. q = <<>> /\ q \in Seq(Objects)
    BY <1>3, EmptySeq DEF Key6!FileKeys
  <2>2. Distinct(q) /\ Held(q) = {} /\ Distinct(d) /\ Held(d) = {}
    BY <1>1, <2>1, NoSlots
  <2> HIDE DEF q, d
  <2>3. Unshared(Full(q, d))
    BY <2>2, FullIs
  <2> QED
    BY <1>1, <1>3, <2>1, <2>2, <2>3 DEF q, d
<1> QED
  BY <1>2, <1>3

LEMMA Key6Init == ASSUME Key6!Init PROVE Key6Inv
<1>1. heap = HeapOf(Only(Gone), {}, FALSE)
  BY EmptyHeapIs DEF Key6!Init
<1>2. Nothing
  BY <1>1 DEF Nothing
<1> QED
  BY <1>2 DEF Key6!Init, Key6Inv

\* The store that a file that can be read becomes.
LEMMA Key6Made ==
  ASSUME file \in Key6Files, file.content \in Key6!Readable, Nothing, Key6!ParseSucceeds
  PROVE  /\ ks' = "main"
         /\ heap' = HeapOf(Only(Full(Key6!FileKeys(file), <<>>)), Owned(Full(Key6!FileKeys(file), <<>>)), FALSE)
<1> DEFINE k  == Key6!FileKeys(file)
           n  == Key6!Built(file)
           no == FALSE
           g  == <<>>
           x  == Key6!Key(1)
           y  == Key6!Key(2)
           s  == "main"
           u  == Only(Gone)
           t  == Full(Filled(k, 0), g)
           z  == {}
           h0 == HeapOf(Only(t), z, no)
           h1 == Key6!KeyStoreSetKey(Key6!KeyStoreNew(Key6!Create(heap, x), s, n, 0), s, 0, x)
           h2 == Key6!KeyStoreSetKey(Key6!Create(h1, y), s, 1, y)
<1>1. /\ heap' = IF n = 1 THEN h1 ELSE h2
      /\ ks' = s
  BY DEF Key6!ParseSucceeds, Key6!Main
<1>2. /\ s \in Stores /\ s # Null /\ x \in Objects /\ y \in Objects
  BY Key6FileIs
<1>3. /\ k \in Seq(Objects) /\ Len(k) = n /\ n \in {1, 2}
      /\ \A m \in 1 .. n : k[m] = Key6!Key(m)
  BY Key6Holds
<1>4. heap = HeapOf(u, z, no)
  BY DEF Nothing
<1>5. IsStores(u)
  BY StoresType
<1> HIDE DEF k, n, x, y, h1, h2
<1>6. Filled(k, 0) = Empty(n) /\ Filled(k, n) = k
  BY <1>3, FilledIs
<1>7. g = Empty(0)
  BY NoSlots
<1>8. With(u, s, t) = Only(t)
  <2> HIDE DEF t
  <2> QED
    BY DEF With, Only, u
<1> HIDE DEF s, u, z, no, g
<1>9. KeyStoreNew(HeapOf(u, z \cup {x}, no), s, n, 0) = HeapOf(Only(t), z \cup {x}, no)
  <2>1. KeyStoreNew(HeapOf(u, z \cup {x}, no), s, n, 0)
          = HeapOf(With(u, s, Full(Empty(n), Empty(0))), z \cup {x}, no)
    BY <1>2, <1>5, NewIs
  <2> QED
    BY <1>6, <1>7, <1>8, <2>1
<1>10. Owned(t) = z
  <2>1. Held(Empty(n)) = {} /\ Held(Empty(0)) = {}
    BY <1>3, EmptyHolds
  <2>2. Owned(t) = Held(Filled(k, 0)) \cup Held(g)
    BY FullIs
  <2> QED
    BY <1>6, <1>7, <2>1, <2>2 DEF z
<1> HIDE DEF t
<1>11. h1 = KeyStoreSetKey(Create(h0, x), s, 0, x)
  <2>1. Create(heap, x) = HeapOf(u, z \cup {x}, no) /\ Create(h0, x) = HeapOf(Only(t), z \cup {x}, no)
    BY <1>4, CreateIs
  <2> QED
    BY <1>9, <2>1, Key6Store DEF h1
<1>12. h1 = HeapOf(Only(Full(Filled(k, 1), g)), Owned(Full(Filled(k, 1), g)), no)
  <2> DEFINE m == 0
  <2>1. m \in Nat /\ m < Len(k) /\ m + 1 = 1 /\ k[m + 1] = x
    BY <1>3, SMT DEF x
  <2>2. h0 = HeapOf(Only(Full(Filled(k, m), g)), Owned(Full(Filled(k, m), g)), no)
    BY <1>10 DEF t
  <2>3. h1 = KeyStoreSetKey(Create(h0, x), s, m, x)
    BY <1>11
  <2> HIDE DEF m, h0
  <2>4. KeyStoreSetKey(Create(h0, k[m + 1]), "main", m, k[m + 1])
          = HeapOf(Only(Full(Filled(k, m + 1), g)), Owned(Full(Filled(k, m + 1), g)), no)
    BY <1>2, <1>3, <2>1, <2>2, KeySlot DEF s
  <2> QED
    BY <2>1, <2>3, <2>4 DEF s
<1>13. CASE n = 1
  BY <1>1, <1>6, <1>12, <1>13 DEF s, k, g, no
<1>14. CASE n = 2
  <2> DEFINE m == 1
  <2>1. m \in Nat /\ m < Len(k) /\ m + 1 = 2 /\ k[m + 1] = y
    BY <1>3, <1>14, SMT DEF y
  <2>2. h2 = KeyStoreSetKey(Create(h1, y), s, m, y)
    BY Key6Store DEF h2
  <2>3. h1 = HeapOf(Only(Full(Filled(k, m), g)), Owned(Full(Filled(k, m), g)), no)
    BY <1>12
  <2> HIDE DEF m
  <2>4. KeyStoreSetKey(Create(h1, k[m + 1]), "main", m, k[m + 1])
          = HeapOf(Only(Full(Filled(k, m + 1), g)), Owned(Full(Filled(k, m + 1), g)), no)
    BY <1>2, <1>3, <2>1, <2>3, KeySlot DEF s
  <2>5. h2 = HeapOf(Only(Full(Filled(k, 2), g)), Owned(Full(Filled(k, 2), g)), no)
    BY <2>1, <2>2, <2>4 DEF s
  <2>6. heap' = h2
    BY <1>1, <1>14
  <2> QED
    BY <1>1, <1>6, <1>14, <2>5, <2>6 DEF s, k, g, no
<1> QED
  BY <1>3, <1>13, <1>14

LEMMA Key6Step ==
  ASSUME Key6Inv, Key6!Next
  PROVE  Key6Inv'
<1>1. file \in Key6Files
  BY DEF Key6Inv
<1>2. ASSUME Key6!ReadChunk \/ Key6!ReadNothing \/ Key6!ReadStops \/ Key6!ParseFails \/ Key6!CallerGivesUp
      PROVE  Key6Inv'
  <2>1. /\ file' = file /\ heap' = heap
        /\ pc \in {"read", "parse"} \/ (pc = "returned" /\ ret = 0)
        /\ ret' = ret \/ ret' = 0
        /\ pc' \in {"read", "parse", "returned", "done"}
        /\ pc' \in {"returned", "done"} => ret' = 0
        /\ pc' \in {"read", "parse"} => pc \in {"read", "parse"} /\ ret' = ret
    BY <1>2 DEF Key6!ReadChunk, Key6!ReadNothing, Key6!ReadStops, Key6!ParseFails, Key6!CallerGivesUp,
                Key6!At, Key6Inv
  <2>2. Nothing /\ ret = 0
    BY <2>1 DEF Key6Inv
  <2>3. Nothing'
    BY <2>1, <2>2 DEF Nothing
  <2> QED
    BY <1>1, <2>1, <2>2, <2>3 DEF Key6Inv
<1>3. ASSUME Key6!ParseSucceeds PROVE Key6Inv'
  <2>1. /\ pc = "parse" /\ file.content \in Key6!Readable
        /\ file' = file /\ ret' = 1 /\ pc' = "returned"
    BY <1>3 DEF Key6!ParseSucceeds, Key6!At
  <2>2. Nothing
    BY <2>1 DEF Key6Inv
  <2> DEFINE k == Key6!FileKeys(file)
             no == FALSE
             g == <<>>
             t == Full(k, g)
  <2>3. ks' = "main" /\ heap' = HeapOf(Only(t), Owned(t), no)
    BY <1>1, <1>3, <2>1, <2>2, Key6Made
  <2>4. heap'.fault = FALSE
    BY <2>3 DEF HeapOf
  <2>5. g = Key6!FileCerts(file) /\ file' = file
    BY <1>1, <2>1, Key6Holds
  <2>6. t = Full(Key6!FileKeys(file'), Key6!FileCerts(file'))
    BY <2>5
  <2> HIDE DEF t, g, k
  <2>7. heap' = HeapOf(Only(t), Owned(t), heap'.fault)
    BY <2>3, <2>4
  <2>8. Built(Key6!FileKeys(file), Key6!FileCerts(file))'
    BY <2>3, <2>6, <2>7 DEF Built
  <2> QED
    BY <1>1, <2>1, <2>4, <2>8 DEF Key6Inv
<1>4. ASSUME Key6!CallerFrees PROVE Key6Inv'
  <2>1. /\ pc = "returned" /\ ret = 1 /\ heap' = Key6!KeyStoreFree(heap, ks) /\ pc' = "done"
        /\ file' = file /\ ret' = ret
    BY <1>4 DEF Key6!CallerFrees, Key6!At
  <2> DEFINE k == Key6!FileKeys(file)
             d == Key6!FileCerts(file)
  <2>2. Built(k, d) /\ heap.fault = FALSE
    BY <2>1 DEF Key6Inv
  <2>3. Unshared(Full(k, d)) /\ "main" \in Stores /\ "main" # Null
    BY <1>1, Key6Holds, Key6FileIs
  <2> HIDE DEF k, d
  <2>4. KeyStoreFree(heap, ks) = HeapOf(Only(Gone), {}, FALSE)
    BY <2>2, <2>3, FreesAll
  <2>5. Nothing'
    BY <2>1, <2>4, Key6Store DEF Nothing
  <2> QED
    BY <1>1, <2>1, <2>5 DEF Key6Inv
<1> QED
  BY <1>2, <1>3, <1>4 DEF Key6!Next

LEMMA Key6Properties ==
  ASSUME Key6Inv
  PROVE  OwnedOnce(heap) /\ heap.fault = FALSE
<1>1. file \in Key6Files
  BY DEF Key6Inv
<1>2. "main" \in Stores
  BY <1>1, Key6FileIs
<1>3. CASE Nothing
  BY <1>2, <1>3, NothingIs
<1>4. CASE pc = "returned" /\ ret = 1
  <2> DEFINE k == Key6!FileKeys(file)
             d == Key6!FileCerts(file)
  <2>1. Built(k, d) /\ heap.fault = FALSE /\ Unshared(Full(k, d))
    BY <1>1, <1>4, Key6Holds DEF Key6Inv
  <2> HIDE DEF k, d
  <2> QED
    BY <1>2, <2>1, BuiltIs
<1> QED
  BY <1>3, <1>4 DEF Key6Inv

-----------------------------------------------------------------------------
(* The loaders together                                                    *)

LEMMA LoadInit == ASSUME Init PROVE LoadInv
<1>1. ASSUME format = "jks", Jks!Init PROVE LoadInv
  BY <1>1, JksInit DEF LoadInv
<1>2. ASSUME format = "pkcs12", Pkcs12!Init PROVE LoadInv
  BY <1>2, Pkcs12Init DEF LoadInv
<1>3. ASSUME format = "key6", Key6!Init PROVE LoadInv
  BY <1>3, Key6Init DEF LoadInv
<1> QED
  BY <1>1, <1>2, <1>3 DEF Init

LEMMA LoadStutters ==
  ASSUME LoadInv, UNCHANGED vars
  PROVE  LoadInv'
<1>1. /\ UNCHANGED <<format, file, heap, ks, ret, pc, keyPos, certPos, e, c>>
      /\ UNCHANGED <<pass, i, todo, numKeys, numCerts, held, reads, total>>
  BY DEF vars, common, jksVars, pkcs12Vars, key6Vars
<1>2. JksInv' = JksInv
  BY <1>1 DEF JksInv, JksSound, JksFaultKnown, JksBuilt, Built, Nothing, Jks!AtCut,
              Jks!DecryptsShort, Jks!FreesNull, Jks!More, Jks!Current
<1>3. Pkcs12Inv' = Pkcs12Inv
  BY <1>1 DEF Pkcs12Inv, Pkcs12Built, SeenKeys, SeenCerts, Built, Nothing
<1>4. Key6Inv' = Key6Inv
  BY <1>1 DEF Key6Inv, Built, Nothing
<1> QED
  BY <1>1, <1>2, <1>3, <1>4 DEF LoadInv

LEMMA LoadStep ==
  ASSUME LoadInv, [Next]_vars
  PROVE  LoadInv'
<1>1. ASSUME ReadJKS PROVE LoadInv'
  BY <1>1, JksStep DEF ReadJKS, LoadInv
<1>2. ASSUME ReadPKCS12 PROVE LoadInv'
  BY <1>2, Pkcs12Step DEF ReadPKCS12, LoadInv
<1>3. ASSUME ReadKey6 PROVE LoadInv'
  BY <1>3, Key6Step DEF ReadKey6, LoadInv
<1> QED
  BY <1>1, <1>2, <1>3, LoadStutters DEF Next

\* At every point the heap is what the part of the container that has been
\* looked at makes it: empty, or one store that owns just that.
THEOREM LoadInvariant == Spec => []LoadInv
<1>1. Init => LoadInv
  BY LoadInit
<1>2. LoadInv /\ [Next]_vars => LoadInv'
  BY LoadStep
<1> QED
  BY <1>1, <1>2, PTL DEF Spec

LEMMA LoadProperties ==
  ASSUME LoadInv
  PROVE  StoresOwnAll /\ CountersAgree /\ StoreLives /\ FaultsAreKnown /\ SlotsFilled /\ NothingHeld
<1>1. CASE format = "jks"
  BY <1>1, JksProperties
  DEF JksFaultKnown, LoadInv, StoresOwnAll, CountersAgree, StoreLives, FaultsAreKnown, SlotsFilled, NothingHeld
<1>2. CASE format = "pkcs12"
  BY <1>2, Pkcs12Properties
  DEF LoadInv, StoresOwnAll, CountersAgree, StoreLives, FaultsAreKnown, SlotsFilled, NothingHeld
<1>3. CASE format = "key6"
  BY <1>3, Key6Properties
  DEF LoadInv, StoresOwnAll, CountersAgree, StoreLives, FaultsAreKnown, SlotsFilled, NothingHeld
<1> QED
  BY <1>1, <1>2, <1>3 DEF LoadInv

\* Whatever the container is like, and wherever a load stops, the stores own
\* all keys and certificates there are, each once.
THEOREM LoadersOwnAll == Spec => []StoresOwnAll
<1>1. LoadInv => StoresOwnAll
  BY LoadProperties
<1> QED
  BY <1>1, LoadInvariant, PTL

\* The positions the JKS loader counts are the sizes of the arrays, however many
\* entries and chains there are.
THEOREM CountersAreSizes == Spec => []CountersAgree
<1>1. LoadInv => CountersAgree
  BY LoadProperties
<1> QED
  BY <1>1, LoadInvariant, PTL

\* A JKS entry never leaves a store of its own behind, and the caller's is there
\* just when the load goes on or has succeeded.
THEOREM StoresLive == Spec => []StoreLives
<1>1. LoadInv => StoreLives
  BY LoadProperties
<1> QED
  BY <1>1, LoadInvariant, PTL

\* Whatever the containers are like, cut ones included, C leaves undefined what a load
\* does only in the JKS loader, and there only where a part reaches beyond what was
\* read, where a protected key is too short, and where a NULL store is freed.
THEOREM FaultsOnlyKnown == Spec => []FaultsAreKnown
<1>1. LoadInv => FaultsAreKnown
  BY LoadProperties
<1> QED
  BY <1>1, LoadInvariant, PTL

\* The pass of PKCS#12 that counts and the one that fills see the same bags,
\* whatever way they are nested.
THEOREM PassesAgree == Spec => []SlotsFilled
<1>1. LoadInv => SlotsFilled
  BY LoadProperties
<1> QED
  BY <1>1, LoadInvariant, PTL

\* Every way out of a PKCS#12 load frees the container, the safes and the bags.
THEOREM NothingIsHeld == Spec => []NothingHeld
<1>1. LoadInv => NothingHeld
  BY LoadProperties
<1> QED
  BY <1>1, LoadInvariant, PTL

-----------------------------------------------------------------------------
(* The promise                                                             *)

\* What a container of the current format has to give.
FormatKeys  == Promise!Kept(KeyParts(<<format, file>>), KeysPassedOver(<<format, file>>))
FormatCerts == Promise!Kept(CertParts(<<format, file>>), CertsPassedOver(<<format, file>>))

LEMMA JksFormat ==
  ASSUME LoadInv, format = "jks"
  PROVE  FormatKeys = Jks!FileKeys(file) /\ FormatCerts = Jks!FileCerts(file)
<1> DEFINE L == Len(file.entries)
<1>1. L \in Nat
  BY JksFileIs DEF LoadInv, JksInv
<1> DEFINE p == Jks!KeyParts(file)
           d == Jks!CertParts(file)
<1>2. p = [m \in 1 .. L |-> Jks!EntryKeys(file, m)] /\ d = [m \in 1 .. L |-> Jks!EntryCerts(file, m)]
  BY DEF Jks!KeyParts, Jks!CertParts
<1>3. FormatKeys = Promise!Kept(p, Jks!PassedOver(file)) /\ FormatCerts = Promise!Kept(d, {})
  BY DEF FormatKeys, FormatCerts, KeyParts, CertParts, KeysPassedOver, CertsPassedOver
<1> HIDE DEF p, d
<1>4. Len(p) = L /\ Len(d) = L
  <2> HIDE DEF L
  <2> QED
    BY <1>1, <1>2
<1>5. [m \in 1 .. Len(p) |-> IF m \in Jks!PassedOver(file) THEN <<>> ELSE p[m]]
        = [m \in 1 .. L |-> Jks!KeptKeys(file, m)]
  BY <1>2, <1>4 DEF Jks!KeptKeys
<1>6. [m \in 1 .. Len(d) |-> IF m \in {} THEN <<>> ELSE d[m]] = d
  BY <1>2, <1>4
<1> QED
  BY <1>3, <1>5, <1>6, SameFlatten DEF Promise!Kept, Jks!FileKeys, Jks!FileCerts, d

LEMMA Pkcs12Format ==
  ASSUME LoadInv, format = "pkcs12"
  PROVE  FormatKeys = Pkcs12!FileKeys(file) /\ FormatCerts = Pkcs12!FileCerts(file)
<1> DEFINE L == Len(file.safes)
           over == Pkcs12!PassedOver(file)
           p == Pkcs12!KeyParts(file)
           d == Pkcs12!CertParts(file)
<1>1. L \in Nat
  BY Pkcs12FileIs DEF LoadInv, Pkcs12Inv
<1>2. /\ p = [m \in 1 .. L |-> Pkcs12!Contents(file.safes[m].bags, {"key", "shrouded"})]
      /\ d = [m \in 1 .. L |-> Pkcs12!Contents(file.safes[m].bags, {"cert"})]
  BY DEF Pkcs12!KeyParts, Pkcs12!CertParts
<1>3. FormatKeys = Promise!Kept(p, over) /\ FormatCerts = Promise!Kept(d, over)
  BY DEF FormatKeys, FormatCerts, KeyParts, CertParts, KeysPassedOver, CertsPassedOver
<1> HIDE DEF p, d
<1>4. Len(p) = L /\ Len(d) = L
  <2> HIDE DEF L
  <2> QED
    BY <1>1, <1>2
<1>5. /\ [m \in 1 .. Len(p) |-> IF m \in over THEN <<>> ELSE p[m]]
           = [m \in 1 .. L |-> Pkcs12!SafeContents(file.safes[m], {"key", "shrouded"})]
      /\ [m \in 1 .. Len(d) |-> IF m \in over THEN <<>> ELSE d[m]]
           = [m \in 1 .. L |-> Pkcs12!SafeContents(file.safes[m], {"cert"})]
  BY <1>2, <1>4 DEF Pkcs12!SafeContents, Pkcs12!PassedOver
<1> QED
  BY <1>3, <1>5, SameFlatten
  DEF Promise!Kept, Pkcs12!FileKeys, Pkcs12!FileCerts, Pkcs12!FileContents

LEMMA Key6Format ==
  ASSUME LoadInv, format = "key6"
  PROVE  FormatKeys = Key6!FileKeys(file) /\ FormatCerts = Key6!FileCerts(file)
<1> DEFINE p    == Key6!KeyParts(file)
           over == Key6!PassedOver(file)
           x    == Key6!Key(1)
           y    == Key6!Key(2)
<1>1. FormatKeys = Promise!Kept(p, over) /\ FormatCerts = Promise!Kept(<<>>, {})
  BY DEF FormatKeys, FormatCerts, KeyParts, CertParts, KeysPassedOver, CertsPassedOver
<1>2. [m \in 1 .. 0 |-> IF m \in over THEN <<>> ELSE p[m]] = <<>>
      /\ [m \in 1 .. 0 |-> IF m \in {} THEN <<>> ELSE <<>>[m]] = <<>>
  BY SMT
<1>3. FormatCerts = Key6!FileCerts(file)
  BY <1>1, <1>2, SameFlatten, FlattenNone DEF Promise!Kept, Key6!FileCerts
<1>4. x \in Objects /\ y \in Objects
  BY Key6FileIs DEF LoadInv, Key6Inv
<1>5. [m \in 1 .. 1 |-> Key6!Key(m)] = <<x>> /\ [m \in 1 .. 2 |-> Key6!Key(m)] = <<x, y>>
  BY SMT
<1>6. /\ file.content = "oneKey" => p = << <<x>> >>
      /\ file.content \in {"twoKeys", "badSecond"} => p = << <<x>>, <<y>> >>
      /\ file.content \notin Key6!Readable => p = <<>>
  BY DEF Key6!KeyParts, Key6!Readable
<1>7. /\ file.content = "oneKey" => Key6!FileKeys(file) = <<x>>
      /\ file.content = "twoKeys" => Key6!FileKeys(file) = <<x, y>>
      /\ file.content = "badSecond" => Key6!FileKeys(file) = <<x>>
      /\ file.content \notin Key6!Readable => Key6!FileKeys(file) = <<>>
  BY <1>5 DEF Key6!FileKeys, Key6!Built, Key6!Readable
<1>8. file.content # "badSecond" => over = {}
  BY DEF Key6!PassedOver
<1>9. file.content = "badSecond" => over = {2}
  BY DEF Key6!PassedOver
<1> HIDE DEF p, over, x, y
<1> DEFINE kept == [m \in 1 .. Len(p) |-> IF m \in over THEN <<>> ELSE p[m]]
<1>10. FormatKeys = SX!FlattenSeq(kept)
  BY <1>1, SameFlatten DEF Promise!Kept
<1>11. CASE file.content \notin Key6!Readable
  <2>1. kept = <<>>
    BY <1>2, <1>6, <1>11
  <2> QED
    BY <1>3, <1>7, <1>10, <1>11, <2>1, FlattenNone
<1>12. CASE file.content = "oneKey"
  <2>1. kept = << <<x>> >>
    <3>1. Len(p) = 1 /\ p[1] = <<x>> /\ over = {}
      BY <1>6, <1>8, <1>12
    <3>2. kept = [m \in 1 .. 1 |-> <<x>>]
      <4>1. \A m \in 1 .. 1 : m = 1
        BY SMT
      <4> QED
        BY <3>1, <4>1
    <3>3. \A z : [m \in 1 .. 1 |-> z] = <<z>>
      BY SMT
    <3> QED
      BY <3>2, <3>3
  <2>2. <<x>> \in Seq(Objects)
    BY <1>4
  <2> HIDE DEF kept
  <2>3. SX!FlattenSeq(<< <<x>> >>) = <<x>>
    BY <2>2, FlattenOne
  <2> QED
    BY <1>3, <1>7, <1>10, <1>12, <2>1, <2>3
<1>13. CASE file.content = "twoKeys"
  <2>1. kept = << <<x>>, <<y>> >>
    BY <1>6, <1>8, <1>13, SMT
  <2>2. <<x>> \in Seq(Objects) /\ <<y>> \in Seq(Objects)
    BY <1>4
  <2> HIDE DEF kept
  <2>3. SX!FlattenSeq(<< <<x>>, <<y>> >>) = <<x>> \o <<y>>
    BY <2>2, FlattenTwo
  <2>4. <<x>> \o <<y>> = <<x, y>>
    <3> DEFINE a == <<x>>
               b == <<y>>
    <3>1. a \in Seq(Objects) /\ b \in Seq(Objects) /\ Len(a) = 1 /\ Len(b) = 1 /\ a[1] = x /\ b[1] = y
      BY <1>4
    <3> HIDE DEF a, b
    <3>2. /\ a \o b \in Seq(Objects) /\ Len(a \o b) = 2
          /\ (a \o b)[1] = x /\ (a \o b)[2] = y
      <4>1. /\ a \o b \in Seq(Objects) /\ Len(a \o b) = Len(a) + Len(b)
            /\ \A n \in 1 .. Len(a) + Len(b) : (a \o b)[n] = IF n <= Len(a) THEN a[n] ELSE b[n - Len(a)]
        BY <3>1, ConcatProperties
      <4> DEFINE s == a \o b
      <4> HIDE DEF s
      <4>2. s \in Seq(Objects) /\ Len(s) = 2 /\ \A n \in 1 .. 2 : s[n] = IF n <= 1 THEN a[n] ELSE b[n - 1]
        BY <3>1, <4>1 DEF s
      <4>3. s[1] = a[1] /\ s[2] = b[1]
        BY <4>2
      <4> QED
        BY <3>1, <4>2, <4>3 DEF s
    <3> DEFINE s == a \o b
    <3>3. s \in Seq(Objects) /\ Len(s) = 2 /\ s[1] = x /\ s[2] = y
      BY <3>2
    <3> HIDE DEF s
    <3>4. s = <<x, y>>
      BY <3>3, SMT
    <3> QED
      BY <3>4 DEF s, a, b
  <2> QED
    BY <1>3, <1>7, <1>10, <1>13, <2>1, <2>3, <2>4
<1>14. CASE file.content = "badSecond"
  <2>1. kept = << <<x>>, <<>> >>
    <3>1. Len(p) = 2 /\ p[1] = <<x>> /\ over = {2}
      BY <1>6, <1>9, <1>14
    <3>2. kept = [m \in 1 .. 2 |-> IF m = 1 THEN <<x>> ELSE <<>>]
      <4>1. \A m \in 1 .. 2 : m = 1 \/ m = 2
        BY SMT
      <4> QED
        BY <3>1, <4>1
    <3>3. \A z, u : [m \in 1 .. 2 |-> IF m = 1 THEN z ELSE u] = <<z, u>>
      BY SMT
    <3> QED
      BY <3>2, <3>3
  <2>2. <<x>> \in Seq(Objects) /\ <<>> \in Seq(Objects)
    BY <1>4
  <2> HIDE DEF kept
  <2>3. SX!FlattenSeq(<< <<x>>, <<>> >>) = <<x>> \o <<>>
    BY <2>2, FlattenTwo
  <2>4. <<x>> \o <<>> = <<x>>
    BY <2>2, ConcatEmptySeq
  <2> QED
    BY <1>3, <1>7, <1>10, <1>14, <2>1, <2>3, <2>4
<1> QED
  BY <1>11, <1>12, <1>13, <1>14 DEF Key6!Readable

LEMMA FormatIs ==
  ASSUME LoadInv
  PROVE  /\ format = "jks" => FormatKeys = Jks!FileKeys(file) /\ FormatCerts = Jks!FileCerts(file)
         /\ format = "pkcs12" => FormatKeys = Pkcs12!FileKeys(file) /\ FormatCerts = Pkcs12!FileCerts(file)
         /\ format = "key6" => FormatKeys = Key6!FileKeys(file) /\ FormatCerts = Key6!FileCerts(file)
BY JksFormat, Pkcs12Format, Key6Format

LEMMA StatusIs ==
  /\ Status = "loaded" <=> pc = "returned" /\ ret = 1
  /\ Status = "loading" <=> pc # "done" /\ ~(pc = "returned" /\ ret \in {0, 1})
  /\ Status = "closed" <=> pc = "done" \/ (pc = "returned" /\ ret = 0)
BY DEF Status

LEMMA LoadedBuilt ==
  ASSUME LoadInv, pc = "returned", ret = 1
  PROVE  /\ "main" \in Stores /\ Built(FormatKeys, FormatCerts)
         /\ FormatKeys \in Seq(Objects) /\ FormatCerts \in Seq(Objects)
<1>1. CASE format = "jks"
  <2>1. JksInv /\ file \in JksFiles
    BY <1>1 DEF LoadInv, JksInv
  <2>2. Built(Jks!FileKeys(file), Jks!FileCerts(file))
    BY <2>1 DEF JksInv
  <2>3. "main" \in Stores /\ Len(file.entries) \in Nat
    BY <2>1, JksFileIs
  <2>4. Len(file.entries) \in 0 .. Len(file.entries)
    BY <2>3, SMT
  <2>5. Jks!FileKeys(file) \in Seq(Objects) /\ Jks!FileCerts(file) \in Seq(Objects)
    BY <2>1, <2>4, JksFronts
  <2> QED
    BY <1>1, <2>2, <2>3, <2>5, FormatIs
<1>2. CASE format = "pkcs12"
  <2> DEFINE k == Pkcs12!FileKeys(file)
             d == Pkcs12!FileCerts(file)
  <2>1. Pkcs12Inv /\ file \in Pkcs12Files
    BY <1>2 DEF LoadInv, Pkcs12Inv
  <2>2. Pkcs12Built /\ keyPos = numKeys /\ certPos = numCerts
    BY <2>1 DEF Pkcs12Inv
  <2>3. k \in Seq(Objects) /\ d \in Seq(Objects) /\ "main" \in Stores
    BY <2>1, Pkcs12Holds, Pkcs12FileIs
  <2>4. keyPos = Len(k) /\ certPos = Len(d) /\ Built(Filled(k, keyPos), Filled(d, certPos))
    BY <2>2 DEF Pkcs12Built
  <2> HIDE DEF k, d
  <2>5. Filled(k, Len(k)) = k /\ Filled(d, Len(d)) = d
    BY <2>3, FilledIs
  <2>6. Built(k, d)
    BY <2>4, <2>5
  <2> QED
    BY <1>2, <2>3, <2>6, FormatIs DEF k, d
<1>3. CASE format = "key6"
  <2>1. Key6Inv /\ file \in Key6Files
    BY <1>3 DEF LoadInv, Key6Inv
  <2>2. Built(Key6!FileKeys(file), Key6!FileCerts(file))
    BY <2>1 DEF Key6Inv
  <2>3. Key6!FileKeys(file) \in Seq(Objects) /\ Key6!FileCerts(file) \in Seq(Objects) /\ "main" \in Stores
    BY <2>1, Key6Holds, Key6FileIs, EmptySeq
  <2> QED
    BY <1>3, <2>2, <2>3, FormatIs
<1> QED
  BY <1>1, <1>2, <1>3 DEF LoadInv

\* A load that has succeeded has what the container holds, and nothing else is there.
LEMMA LoadedIs ==
  ASSUME LoadInv, Status = "loaded"
  PROVE  /\ heap.stores[ks].keys = FormatKeys /\ heap.stores[ks].certs = FormatCerts
         /\ heap.objects = Promise!Members(FormatKeys) \cup Promise!Members(FormatCerts)
<1> DEFINE k == FormatKeys
           d == FormatCerts
<1>1. pc = "returned" /\ ret = 1
  BY StatusIs
<1>2. "main" \in Stores /\ Built(k, d) /\ k \in Seq(Objects) /\ d \in Seq(Objects)
  BY <1>1, LoadedBuilt
<1> HIDE DEF k, d
<1>3. ks = "main" /\ heap.stores["main"] = Full(k, d) /\ heap.objects = Owned(Full(k, d))
  BY <1>2, BuiltIs
<1>4. heap.stores[ks].keys = k /\ heap.stores[ks].certs = d
  BY <1>3 DEF Full
<1>5. heap.objects = Held(k) \cup Held(d)
  BY <1>3, FullIs
<1>6. ASSUME NEW q \in Seq(Objects) PROVE Held(q) = Promise!Members(q)
  <2>1. Null \notin Objects /\ \A n \in 1 .. Len(q) : q[n] \in Objects
    BY PointerAssumption, ElementOfSeq DEF NullAssumption
  <2> QED
    BY <2>1 DEF Held, Promise!Members
<1>7. Held(k) = Promise!Members(k) /\ Held(d) = Promise!Members(d)
  BY <1>2, <1>6
<1> QED
  BY <1>4, <1>5, <1>7 DEF k, d

\* One that has failed, or whose store has been freed, leaves nothing.
LEMMA ClosedIs ==
  ASSUME LoadInv, Status = "closed"
  PROVE  heap.objects = {}
<1>1. pc = "done" \/ (pc = "returned" /\ ret = 0)
  BY StatusIs
<1>2. Nothing
  BY <1>1 DEF LoadInv, JksInv, Pkcs12Inv, Key6Inv
<1> QED
  BY <1>2 DEF Nothing, HeapOf

\* A load that has returned is done with the next step.
LEMMA LoadMoves ==
  ASSUME Next
  PROVE  /\ format' = format /\ file' = file
         /\ pc # "done" /\ (pc = "returned" => pc' = "done")
<1>1. ASSUME ReadJKS
      PROVE  /\ format' = format /\ file' = file
             /\ pc # "done" /\ (pc = "returned" => pc' = "done")
  <2>1. /\ format' = format /\ Jks!Next
    BY <1>1 DEF ReadJKS
  <2>2. file' = file
    BY <2>1 DEF Jks!Next, Jks!Refuse, Jks!Begin, Jks!BadTag, Jks!CertEntry, Jks!NoKey, Jks!SkipKey,
                Jks!DecryptShort, Jks!ReadPastEnd, Jks!FreeNull, Jks!GetKey, Jks!GetCert, Jks!BadCert, Jks!NextEntry, Jks!BadDigest,
                Jks!Succeed, Jks!CallerFrees, Jks!CallerGivesUp, Jks!GiveUp
  <2>3. pc # "done" /\ (pc = "returned" => pc' = "done")
    BY <2>1 DEF Jks!Next, Jks!Refuse, Jks!Begin, Jks!BadTag, Jks!CertEntry, Jks!NoKey, Jks!SkipKey,
                Jks!DecryptShort, Jks!ReadPastEnd, Jks!FreeNull, Jks!GetKey, Jks!GetCert, Jks!BadCert, Jks!NextEntry, Jks!BadDigest,
                Jks!Succeed, Jks!CallerFrees, Jks!CallerGivesUp, Jks!KeyEntry, Jks!Parsing, Jks!AtCut,
                Jks!At
  <2> QED
    BY <2>1, <2>2, <2>3
<1>2. ASSUME ReadPKCS12
      PROVE  /\ format' = format /\ file' = file
             /\ pc # "done" /\ (pc = "returned" => pc' = "done")
  <2>1. /\ format' = format /\ Pkcs12!Next
    BY <1>2 DEF ReadPKCS12
  <2>2. file' = file
    BY <2>1 DEF Pkcs12!Next, Pkcs12!Refuse, Pkcs12!Begin, Pkcs12!SkipSafe, Pkcs12!BadSafe,
                Pkcs12!OpenSafe, Pkcs12!CloseSafe, Pkcs12!NothingFound, Pkcs12!Counted, Pkcs12!Succeed,
                Pkcs12!SkipBag, Pkcs12!EnterContents, Pkcs12!CountKey, Pkcs12!CountCert, Pkcs12!GetKey,
                Pkcs12!GetCert, Pkcs12!BadBag, Pkcs12!CallerFrees, Pkcs12!CallerGivesUp, Pkcs12!Fail
  <2>3. pc # "done" /\ (pc = "returned" => pc' = "done")
    BY <2>1 DEF Pkcs12!Next, Pkcs12!Refuse, Pkcs12!Begin, Pkcs12!SkipSafe, Pkcs12!BadSafe,
                Pkcs12!OpenSafe, Pkcs12!CloseSafe, Pkcs12!NothingFound, Pkcs12!Counted, Pkcs12!Succeed,
                Pkcs12!SkipBag, Pkcs12!EnterContents, Pkcs12!CountKey, Pkcs12!CountCert, Pkcs12!GetKey,
                Pkcs12!GetCert, Pkcs12!BadBag, Pkcs12!CallerFrees, Pkcs12!CallerGivesUp,
                Pkcs12!Looking, Pkcs12!Opening, Pkcs12!At
  <2> QED
    BY <2>1, <2>2, <2>3
<1>3. ASSUME ReadKey6
      PROVE  /\ format' = format /\ file' = file
             /\ pc # "done" /\ (pc = "returned" => pc' = "done")
  BY <1>3 DEF ReadKey6, Key6!Next, Key6!ReadChunk, Key6!ReadNothing, Key6!ReadStops, Key6!ParseFails,
              Key6!ParseSucceeds, Key6!CallerFrees, Key6!CallerGivesUp, Key6!At
<1> QED
  BY <1>1, <1>2, <1>3 DEF Next

\* What the promise sees of the loaders, and what the invariant says of it.
SeenKs      == IF Status = "loaded" THEN heap.stores[ks].keys ELSE <<>>
SeenCs      == IF Status = "loaded" THEN heap.stores[ks].certs ELSE <<>>
SeenObjects == IF Status = "loading" THEN {} ELSE heap.objects

View ==
  /\ Status \in {"loading", "loaded", "closed"}
  /\ Status = "loaded" => /\ SeenKs = FormatKeys /\ SeenCs = FormatCerts
                          /\ SeenObjects = Promise!Members(SeenKs) \cup Promise!Members(SeenCs)
  /\ Status # "loaded" => SeenKs = <<>> /\ SeenCs = <<>> /\ SeenObjects = {}

LEMMA ViewHolds == LoadInv => View
<1> SUFFICES ASSUME LoadInv PROVE View
  OBVIOUS
<1>1. Status \in {"loading", "loaded", "closed"}
  BY DEF Status
<1>2. CASE Status = "loading"
  BY <1>2 DEF View, SeenKs, SeenCs, SeenObjects
<1>3. CASE Status = "loaded"
  BY <1>3, LoadedIs DEF View, SeenKs, SeenCs, SeenObjects
<1>4. CASE Status = "closed"
  BY <1>4, ClosedIs DEF View, SeenKs, SeenCs, SeenObjects
<1> QED
  BY <1>1, <1>2, <1>3, <1>4

LEMMA PromiseStep ==
  ASSUME LoadInv, [Next]_vars
  PROVE  [Promise!Next]_Promise!vars
<1>1. LoadInv'
  BY LoadStep
<1>2. View
  BY ViewHolds
<1>3. View'
  BY <1>1, ViewHolds, PTL
<1>4. ASSUME UNCHANGED vars PROVE UNCHANGED Promise!vars
  BY <1>4 DEF vars, common, Promise!vars, Status
<1>5. ASSUME Next PROVE [Promise!Next]_Promise!vars
  <2>1. /\ format' = format /\ file' = file
        /\ pc # "done" /\ (pc = "returned" => pc' = "done")
    BY <1>5, LoadMoves
  <2>2. FormatKeys' = FormatKeys /\ FormatCerts' = FormatCerts
    BY <2>1 DEF FormatKeys, FormatCerts
  <2>3. ret \in {0, 1}
    BY DEF LoadInv, JksInv, Pkcs12Inv, Key6Inv
  <2>4. CASE Status = "loading" /\ Status' = "loading"
    BY <1>2, <1>3, <2>1, <2>4 DEF Promise!vars, View, SeenKs, SeenCs, SeenObjects
  <2>5. CASE Status = "loading" /\ Status' = "loaded"
    <3>1. Promise!Succeed
      BY <1>2, <1>3, <2>1, <2>2, <2>5
      DEF Promise!Succeed, View, SeenKs, SeenCs, SeenObjects, FormatKeys, FormatCerts
    <3> QED
      BY <3>1 DEF Promise!Next
  <2>6. CASE Status = "loading" /\ Status' = "closed"
    <3>1. Promise!Fail
      BY <1>2, <1>3, <2>1, <2>6 DEF Promise!Fail, View, SeenKs, SeenCs, SeenObjects
    <3> QED
      BY <3>1 DEF Promise!Next
  <2>7. CASE Status # "loading"
    <3>1. pc = "returned" /\ pc' = "done" /\ Status' = "closed"
      BY <2>1, <2>3, <2>7 DEF Status
    <3>2. CASE Status = "loaded"
      <4>1. Promise!Close
        BY <1>2, <1>3, <2>1, <3>1, <3>2 DEF Promise!Close, View, SeenKs, SeenCs, SeenObjects
      <4> QED
        BY <4>1 DEF Promise!Next
    <3>3. CASE Status = "closed"
      BY <1>2, <1>3, <2>1, <3>1, <3>3 DEF Promise!vars, View, SeenKs, SeenCs, SeenObjects
    <3> QED
      BY <1>2, <2>7, <3>2, <3>3 DEF View
  <2> QED
    BY <1>2, <1>3, <2>4, <2>5, <2>6, <2>7 DEF View
<1> QED
  BY <1>4, <1>5

LEMMA PromiseInit ==
  ASSUME Init
  PROVE  Promise!Init
<1>1. pc \notin {"returned", "done"}
  BY DEF Init, Jks!Init, Pkcs12!Init, Key6!Init
<1>2. Status = "loading"
  BY <1>1 DEF Status
<1> QED
  BY <1>2 DEF Promise!Init

\* Every loader implements what the headers promise, but for the parts it passes
\* over (KeysPassedOver and CertsPassedOver name them): of every other part the
\* caller gets all keys and certificates, in order, or it gets nothing, and a free
\* leaves nothing.
THEOREM LoadersKeepPromise == Spec => KeepsPromise
<1>1. Init => Promise!Init
  BY PromiseInit
<1>2. LoadInv /\ [Next]_vars => [Promise!Next]_Promise!vars
  BY PromiseStep
<1> QED
  BY <1>1, <1>2, LoadInvariant, PTL DEF Spec, KeepsPromise, Promise!Spec
=============================================================================
