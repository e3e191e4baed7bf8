------------------------- MODULE EngineKeys_proofs --------------------------
(***************************************************************************)
(* Proofs about keys and what they sign: KeyParams, for every number of    *)
(* keys, contexts, curves and substitution blocks, and whichever call of a *)
(* method fails, and SignVerify, for every order, curve, field, key and    *)
(* hash.                                                                   *)
(***************************************************************************)
EXTENDS KeyParams, SignVerify, Numbers_proofs, SequenceTheorems, TLAPS

(***************************************************************************)
(* KeyParams: who owns curves and substitution blocks.                     *)
(***************************************************************************)

-----------------------------------------------------------------------------
(* What a memory stands for.                                               *)

IsMem(m) ==
  /\ m = [has |-> m.has, ptr |-> m.ptr, block |-> m.block, fault |-> m.fault]
  /\ m.has \in [Structs -> BOOLEAN]
  /\ m.ptr \in [Structs -> [Fields -> Blocks \cup {Null}]]

\* The structures with one that is there or gone, the fields with one that has
\* another content.
Born(hs, h) == [k \in Structs |-> k = h \/ hs[k]]
Gone(hs, h) == [k \in Structs |-> k # h /\ hs[k]]
Put(sh, h, f, c) ==
  [k \in Structs |-> [g \in Fields |-> IF k = h /\ g = f THEN c ELSE sh[k][g]]]
Cleared(sh, h) ==
  [k \in Structs |-> [g \in Fields |-> IF k = h THEN Null ELSE sh[k][g]]]

\* In memory m nothing has gone wrong, the structures that hs tells are there
\* and their fields are as sh tells.  Every block whose name is not in W has
\* exactly one pointer, those in W have none.  The names used are among A.
Is(m, W, A, hs, sh) ==
  /\ IsMem(m) /\ ~m.fault /\ m.has = hs
  /\ W \subseteq DOMAIN m.block /\ DOMAIN m.block \subseteq A /\ A \subseteq Blocks
  /\ \A h \in Structs, f \in Fields :
       m.ptr[h][f] # Null => m.ptr[h][f] \in DOMAIN m.block \ W
  /\ \A x \in DOMAIN m.block \ W : \E h \in Structs, f \in Fields : m.ptr[h][f] = x
  /\ \A h, k \in Structs, f, g \in Fields :
       m.ptr[h][f] # Null /\ m.ptr[h][f] = m.ptr[k][g] => h = k /\ f = g
  /\ \A x \in DOMAIN m.block : m.block[x] # Null
  /\ \A h \in Structs, f \in Fields :
       sh[h][f] = IF m.ptr[h][f] = Null THEN Null ELSE m.block[m.ptr[h][f]]
  /\ \A h \in Structs : ~hs[h] => m.ptr[h] = Nothing

LEMMA AllocIs ==
  ASSUME NEW m, NEW W, NEW A, NEW hs, NEW sh, Is(m, W, A, hs, sh),
         NEW x \in Blocks, x \notin A, NEW c, c # Null
  PROVE  Is(Alloc(m, x, c), W \cup {x}, A \cup {x}, hs, sh)
<1> DEFINE n == Alloc(m, x, c)
<1>1. n = [m EXCEPT !.block = [y \in DOMAIN m.block \cup {x} |->
                                 IF y = x THEN c ELSE m.block[y]]]
  BY DEF Alloc
<1>2. /\ n = [has |-> n.has, ptr |-> n.ptr, block |-> n.block, fault |-> n.fault]
      /\ n.has = m.has /\ n.ptr = m.ptr /\ n.fault = m.fault
      /\ n.block = [y \in DOMAIN m.block \cup {x} |-> IF y = x THEN c ELSE m.block[y]]
  BY <1>1 DEF Is, IsMem
<1>3. /\ DOMAIN n.block = DOMAIN m.block \cup {x} /\ n.block[x] = c
      /\ \A y \in DOMAIN m.block : y # x /\ n.block[y] = m.block[y]
  BY <1>2 DEF Is
<1> HIDE DEF n
<1>4. \A h \in Structs, f \in Fields : m.ptr[h][f] # Null => n.block[m.ptr[h][f]] = m.block[m.ptr[h][f]]
  BY <1>3 DEF Is
<1>5. \A h \in Structs, f \in Fields :
        sh[h][f] = IF n.ptr[h][f] = Null THEN Null ELSE n.block[n.ptr[h][f]]
  BY <1>2, <1>4 DEF Is
<1> QED
  BY <1>2, <1>3, <1>5 DEF Is, IsMem, n

LEMMA FreeIs ==
  ASSUME NEW m, NEW W, NEW A, NEW hs, NEW sh, Is(m, W, A, hs, sh), NEW x \in W
  PROVE  Is(Free(m, x), W \ {x}, A, hs, sh)
<1> DEFINE n == Free(m, x)
<1>0. x # Null /\ x \in DOMAIN m.block
  BY ParamAssumption DEF Is
<1>1. n = [m EXCEPT !.block = [y \in DOMAIN m.block \ {x} |-> m.block[y]]]
  BY <1>0 DEF Free, Restrict
<1>2. /\ n = [has |-> n.has, ptr |-> n.ptr, block |-> n.block, fault |-> n.fault]
      /\ n.has = m.has /\ n.ptr = m.ptr /\ n.fault = m.fault
      /\ n.block = [y \in DOMAIN m.block \ {x} |-> m.block[y]]
  BY <1>1 DEF Is, IsMem
<1>3. /\ DOMAIN n.block = DOMAIN m.block \ {x}
      /\ \A y \in DOMAIN n.block : n.block[y] = m.block[y]
  BY <1>2
<1> HIDE DEF n
<1>4. \A h \in Structs, f \in Fields : m.ptr[h][f] # Null => n.block[m.ptr[h][f]] = m.block[m.ptr[h][f]]
  BY <1>3 DEF Is
<1>5. \A h \in Structs, f \in Fields :
        sh[h][f] = IF n.ptr[h][f] = Null THEN Null ELSE n.block[n.ptr[h][f]]
  BY <1>2, <1>4 DEF Is
<1> QED
  BY <1>2, <1>3, <1>5 DEF Is, IsMem, n

LEMMA CreateIs ==
  ASSUME NEW m, NEW W, NEW A, NEW hs, NEW sh, Is(m, W, A, hs, sh),
         NEW h \in Structs, ~hs[h]
  PROVE  Is(Create(m, h), W, A, Born(hs, h), sh)
<1> DEFINE n == Create(m, h)
<1>1. m.ptr[h] = Nothing /\ m.ptr = [m.ptr EXCEPT ![h] = Nothing]
  BY DEF Is, IsMem
<1>2. /\ n = [has |-> n.has, ptr |-> n.ptr, block |-> n.block, fault |-> n.fault]
      /\ n.has = [m.has EXCEPT ![h] = TRUE] /\ n.ptr = [m.ptr EXCEPT ![h] = Nothing]
      /\ n.fault = m.fault /\ n.block = m.block
  <2>1. n = [m EXCEPT !.has = [m.has EXCEPT ![h] = TRUE], !.ptr = [m.ptr EXCEPT ![h] = Nothing]]
    BY DEF Create
  <2>2. IsMem(m)
    BY DEF Is
  <2> HIDE DEF n
  <2> QED
    BY <2>1, <2>2 DEF IsMem
<1> HIDE DEF n
<1>3. n.has = Born(hs, h)
  <2>1. m.has = hs /\ hs \in [Structs -> BOOLEAN]
    BY DEF Is, IsMem
  <2> QED
    BY <1>2, <2>1 DEF Born
<1>4. n.has \in [Structs -> BOOLEAN] /\ \A k \in Structs : ~n.has[k] => ~hs[k]
  BY <1>3 DEF Is, IsMem, Born
<1> QED
  BY <1>1, <1>2, <1>3, <1>4 DEF Is, IsMem, n

\* A new block takes the place of what was there, which is freed.
LEMMA SetIs ==
  ASSUME NEW m, NEW W, NEW A, NEW hs, NEW sh, Is(m, W, A, hs, sh),
         NEW h \in Structs, NEW f \in Fields, hs[h], NEW x \in W
  PROVE  Is(Set(m, h, f, x), W \ {x}, A, hs, Put(sh, h, f, m.block[x]))
<1> DEFINE o == m.ptr[h][f]
           r == Free(m, o)
           n == Set(m, h, f, x)
<1>0. /\ IsMem(m) /\ x \in Blocks /\ x # Null /\ x \in DOMAIN m.block
      /\ o # Null => o \in DOMAIN m.block /\ o # x
  BY ParamAssumption DEF Is
<1>1. r = IF o = Null THEN m ELSE [m EXCEPT !.block = [y \in DOMAIN m.block \ {o} |-> m.block[y]]]
  <2> HIDE DEF o
  <2>1. CASE o = Null
    <3>1. Null \notin DOMAIN m.block
      BY ParamAssumption DEF Is
    <3> QED
      BY <2>1, <3>1 DEF Free
  <2>2. CASE o # Null
    BY <1>0, <2>2 DEF Free, Restrict
  <2> QED
    BY <2>1, <2>2
<1>2. /\ r.has = m.has /\ r.ptr = m.ptr /\ r.fault = m.fault
      /\ r = [has |-> r.has, ptr |-> r.ptr, block |-> r.block, fault |-> r.fault]
      /\ DOMAIN r.block = DOMAIN m.block \ {o}
      /\ \A y \in DOMAIN r.block : r.block[y] = m.block[y]
  <2>1. CASE o = Null
    <3>1. Null \notin DOMAIN m.block
      BY ParamAssumption DEF Is
    <3> QED
      BY <1>0, <1>1, <2>1, <3>1 DEF IsMem
  <2>2. CASE o # Null
    BY <1>0, <1>1, <2>2 DEF IsMem
  <2> QED
    BY <2>1, <2>2
<1>3. n = [r EXCEPT !.ptr[h][f] = x]
  BY DEF Set
<1> HIDE DEF r
<1>4. /\ n = [has |-> n.has, ptr |-> n.ptr, block |-> n.block, fault |-> n.fault]
      /\ n.has = m.has /\ n.fault = m.fault /\ n.block = r.block
      /\ n.ptr = [m.ptr EXCEPT ![h][f] = x]
  BY <1>2, <1>3
<1> HIDE DEF n
<1>5. n.ptr \in [Structs -> [Fields -> Blocks \cup {Null}]]
  BY <1>0, <1>4 DEF IsMem
<1>6. \A k \in Structs, g \in Fields :
        n.ptr[k][g] = IF k = h /\ g = f THEN x ELSE m.ptr[k][g]
  BY <1>0, <1>4 DEF IsMem
<1>7. \A k \in Structs, g \in Fields :
        /\ n.ptr[k][g] # Null => n.ptr[k][g] \in DOMAIN n.block \ (W \ {x})
        /\ ~(k = h /\ g = f) => m.ptr[k][g] = Null \/ m.ptr[k][g] # o
  BY <1>0, <1>2, <1>4, <1>6 DEF Is
<1>8. \A y \in DOMAIN n.block \ (W \ {x}) : \E k \in Structs, g \in Fields : n.ptr[k][g] = y
  <2>1. SUFFICES ASSUME NEW y \in DOMAIN n.block \ (W \ {x}), y # x
                 PROVE  \E k \in Structs, g \in Fields : n.ptr[k][g] = y
    BY <1>6
  <2>2. y \in DOMAIN m.block \ W /\ y # o
    BY <1>2, <1>4, <2>1
  <2>3. PICK k \in Structs, g \in Fields : m.ptr[k][g] = y
    BY <2>2 DEF Is
  <2> QED
    BY <1>6, <2>2, <2>3
<1>9. \A k, l \in Structs, g, j \in Fields :
        n.ptr[k][g] # Null /\ n.ptr[k][g] = n.ptr[l][j] => k = l /\ g = j
  <2>1. \A k \in Structs, g \in Fields : m.ptr[k][g] # x
    BY <1>0 DEF Is
  <2> QED
    BY <1>6, <2>1 DEF Is
<1>10. \A k \in Structs, g \in Fields :
         Put(sh, h, f, m.block[x])[k][g]
           = IF n.ptr[k][g] = Null THEN Null ELSE n.block[n.ptr[k][g]]
  <2>1. SUFFICES ASSUME NEW k \in Structs, NEW g \in Fields
                 PROVE  (IF k = h /\ g = f THEN m.block[x] ELSE sh[k][g])
                          = IF n.ptr[k][g] = Null THEN Null ELSE n.block[n.ptr[k][g]]
    BY DEF Put
  <2>2. CASE k = h /\ g = f
    <3>1. n.block[x] = m.block[x] /\ n.ptr[k][g] = x
      BY <1>0, <1>2, <1>4, <1>6, <2>2
    <3> QED
      BY <1>0, <2>2, <3>1
  <2>3. CASE ~(k = h /\ g = f)
    <3>1. n.ptr[k][g] = m.ptr[k][g]
      BY <1>6, <2>3
    <3>2. m.ptr[k][g] # Null => n.block[m.ptr[k][g]] = m.block[m.ptr[k][g]]
      BY <1>2, <1>4, <1>7, <3>1
    <3> QED
      BY <2>3, <3>1, <3>2 DEF Is
  <2> QED
    BY <2>2, <2>3
<1>11. \A k \in Structs : ~hs[k] => n.ptr[k] = Nothing
  BY <1>0, <1>4 DEF Is, IsMem
<1>12. IsMem(n) /\ ~n.fault /\ n.has = hs
  BY <1>4, <1>5 DEF Is, IsMem
<1>13. /\ W \ {x} \subseteq DOMAIN n.block /\ DOMAIN n.block \subseteq A /\ A \subseteq Blocks
       /\ \A y \in DOMAIN n.block : n.block[y] # Null
  <2>1. o # Null => o \notin W
    BY DEF Is
  <2> QED
    BY <1>2, <1>4, <2>1, ParamAssumption DEF Is
<1> QED
  BY <1>7, <1>8, <1>9, <1>10, <1>11, <1>12, <1>13 DEF Is, n

\* EC_KEY_set_group and copy_sbox.
LEMMA CopiedIs ==
  ASSUME NEW m, NEW W, NEW A, NEW hs, NEW sh, Is(m, W, A, hs, sh),
         NEW h \in Structs, NEW f \in Fields, hs[h], NEW c, c # Null,
         <<h, f, "copy">> \notin A
  PROVE  Is(Copied(m, h, f, c), W, A \cup {<<h, f, "copy">>}, hs, Put(sh, h, f, c))
<1> DEFINE x == <<h, f, "copy">>
           n == Alloc(m, x, c)
<1>1. x \in Blocks
  BY DEF Blocks
<1>2. Is(n, W \cup {x}, A \cup {x}, hs, sh)
  BY <1>1, AllocIs
<1>3. n.block[x] = c
  <2>1. n = [m EXCEPT !.block = [y \in DOMAIN m.block \cup {x} |->
                                   IF y = x THEN c ELSE m.block[y]]]
    BY DEF Alloc
  <2>2. IsMem(m)
    BY DEF Is
  <2>3. n.block = [y \in DOMAIN m.block \cup {x} |-> IF y = x THEN c ELSE m.block[y]]
    BY <2>1, <2>2 DEF IsMem
  <2> HIDE DEF n, x
  <2> QED
    BY <2>3
<1>4. (W \cup {x}) \ {x} = W
  BY DEF Is
<1>5. Copied(m, h, f, c) = Set(n, h, f, x)
  BY DEF Copied
<1> HIDE DEF n, x
<1>6. Is(Set(n, h, f, x), (W \cup {x}) \ {x}, A \cup {x}, hs, Put(sh, h, f, n.block[x]))
  BY <1>2, SetIs
<1> QED
  BY <1>3, <1>4, <1>5, <1>6 DEF x

LEMMA FreeOf ==
  ASSUME NEW m, IsMem(m), Null \notin DOMAIN m.block,
         NEW x, x = Null \/ x \in DOMAIN m.block
  PROVE  LET r == Free(m, x)
         IN  /\ r = [has |-> r.has, ptr |-> r.ptr, block |-> r.block, fault |-> r.fault]
             /\ r.has = m.has /\ r.ptr = m.ptr /\ r.fault = m.fault
             /\ DOMAIN r.block = DOMAIN m.block \ {x}
             /\ \A y \in DOMAIN r.block : r.block[y] = m.block[y]
             /\ IsMem(r)
<1> DEFINE r == Free(m, x)
<1>1. CASE x = Null
  <2>1. r = m
    BY <1>1 DEF Free
  <2> QED
    BY <1>1, <2>1 DEF IsMem
<1>2. CASE x # Null
  <2>1. r = [m EXCEPT !.block = [y \in DOMAIN m.block \ {x} |-> m.block[y]]]
    BY <1>2 DEF Free, Restrict
  <2> HIDE DEF r
  <2> QED
    BY <2>1 DEF IsMem, r
<1> QED
  BY <1>1, <1>2

LEMMA DestroyIs ==
  ASSUME NEW m, NEW W, NEW A, NEW hs, NEW sh, Is(m, W, A, hs, sh),
         NEW h \in Structs
  PROVE  /\ Is(Destroy(m, h), W, A, Gone(hs, h), Cleared(sh, h))
         /\ \A k \in Structs : k # h => Destroy(m, h).ptr[k] = m.ptr[k]
<1> DEFINE s == m.ptr[h].sbox
           g == m.ptr[h].group
           o == Free(m, s)
           r == Free(o, g)
           n == Destroy(m, h)
<1>0. /\ IsMem(m) /\ Null \notin DOMAIN m.block /\ ~m.fault /\ m.has = hs
      /\ hs \in [Structs -> BOOLEAN]
      /\ s = m.ptr[h]["sbox"] /\ g = m.ptr[h]["group"]
      /\ s = Null \/ s \in DOMAIN m.block \ W
      /\ g = Null \/ g \in DOMAIN m.block \ W
      /\ s = g => s = Null
  BY ParamAssumption DEF Is, IsMem, Fields
<1>1. CASE ~hs[h]
  <2>1. n = m
    BY <1>0, <1>1 DEF Destroy
  <2>2. Gone(hs, h) = hs
    BY <1>0, <1>1 DEF Gone
  <2>3. \A f \in Fields : m.ptr[h][f] = Null
    BY <1>1 DEF Is, Nothing, Fields
  <2>4. \A k \in Structs, f \in Fields : Cleared(sh, h)[k][f] = sh[k][f]
    BY <2>3 DEF Is, Cleared
  <2> HIDE DEF n
  <2> QED
    BY <2>1, <2>2, <2>4 DEF Is, n
<1>2. CASE hs[h]
  <2>1. /\ o.has = m.has /\ o.ptr = m.ptr /\ o.fault = m.fault /\ IsMem(o)
        /\ DOMAIN o.block = DOMAIN m.block \ {s}
        /\ \A y \in DOMAIN o.block : o.block[y] = m.block[y]
    BY <1>0, FreeOf
  <2>2. Null \notin DOMAIN o.block /\ (g = Null \/ g \in DOMAIN o.block)
    BY <1>0, <2>1
  <2> HIDE DEF o
  <2>3. /\ r.has = o.has /\ r.ptr = o.ptr /\ r.fault = o.fault /\ IsMem(r)
        /\ DOMAIN r.block = DOMAIN o.block \ {g}
        /\ \A y \in DOMAIN r.block : r.block[y] = o.block[y]
    BY <2>1, <2>2, FreeOf
  <2>4. n = [r EXCEPT !.has = [r.has EXCEPT ![h] = FALSE], !.ptr = [r.ptr EXCEPT ![h] = Nothing]]
    BY <1>0, <1>2 DEF Destroy, o
  <2> HIDE DEF r, n, s, g
  <2>5. /\ n = [has |-> n.has, ptr |-> n.ptr, block |-> n.block, fault |-> n.fault]
        /\ n.has = [r.has EXCEPT ![h] = FALSE] /\ n.ptr = [r.ptr EXCEPT ![h] = Nothing]
        /\ n.fault = r.fault /\ n.block = r.block
    BY <2>3, <2>4 DEF IsMem
  <2>6. n.has = Gone(hs, h) /\ n.has \in [Structs -> BOOLEAN]
    <3>1. r.has = hs
      BY <1>0, <2>1, <2>3
    <3>2. hs \in [Structs -> BOOLEAN] /\ n.has = [hs EXCEPT ![h] = FALSE]
      BY <1>0, <2>5, <3>1
    <3> QED
      BY <3>2 DEF Gone
  <2>7. /\ n.ptr \in [Structs -> [Fields -> Blocks \cup {Null}]]
        /\ \A k \in Structs, f \in Fields :
             n.ptr[k][f] = IF k = h THEN Null ELSE m.ptr[k][f]
        /\ n.ptr[h] = Nothing
    BY <1>0, <2>1, <2>3, <2>5 DEF IsMem, Nothing, Fields
  <2>8. /\ DOMAIN n.block = DOMAIN m.block \ {s, g}
        /\ \A y \in DOMAIN n.block : n.block[y] = m.block[y]
    BY <2>1, <2>3, <2>5
  <2>9. \A k \in Structs, f \in Fields :
          k # h /\ m.ptr[k][f] # Null => m.ptr[k][f] \notin {s, g}
    BY <1>0 DEF Is, Fields
  <2>10. \A k \in Structs, f \in Fields :
           n.ptr[k][f] # Null => n.ptr[k][f] \in DOMAIN n.block \ W
    BY <2>7, <2>8, <2>9 DEF Is
  <2>11. \A y \in DOMAIN n.block \ W : \E k \in Structs, f \in Fields : n.ptr[k][f] = y
    <3>1. SUFFICES ASSUME NEW y \in DOMAIN n.block \ W
                   PROVE  \E k \in Structs, f \in Fields : n.ptr[k][f] = y
      OBVIOUS
    <3>2. y \in DOMAIN m.block \ W /\ y \notin {s, g}
      BY <2>8
    <3>3. PICK k \in Structs, f \in Fields : m.ptr[k][f] = y
      BY <3>2 DEF Is
    <3>4. k # h
      BY <1>0, <3>2, <3>3 DEF Fields
    <3> QED
      BY <2>7, <3>3, <3>4
  <2>12. \A k, l \in Structs, f, j \in Fields :
           n.ptr[k][f] # Null /\ n.ptr[k][f] = n.ptr[l][j] => k = l /\ f = j
    BY <2>7 DEF Is
  <2>13. /\ W \subseteq DOMAIN n.block /\ DOMAIN n.block \subseteq A /\ A \subseteq Blocks
         /\ \A y \in DOMAIN n.block : n.block[y] # Null
    BY <1>0, <2>8, ParamAssumption DEF Is
  <2>14. \A k \in Structs, f \in Fields :
           Cleared(sh, h)[k][f] = IF n.ptr[k][f] = Null THEN Null ELSE n.block[n.ptr[k][f]]
    BY <2>7, <2>8, <2>10 DEF Is, Cleared
  <2>15. \A k \in Structs : ~n.has[k] => n.ptr[k] = Nothing
    <3>1. SUFFICES ASSUME NEW k \in Structs, ~n.has[k], k # h PROVE n.ptr[k] = Nothing
      BY <2>7
    <3>2. ~hs[k] /\ n.ptr[k] = m.ptr[k]
      BY <1>0, <2>1, <2>3, <2>5, <2>6, <3>1 DEF Gone, IsMem
    <3> QED
      BY <3>2 DEF Is
  <2>16. ~n.fault /\ IsMem(n)
    BY <1>0, <2>1, <2>3, <2>5, <2>6, <2>7 DEF IsMem
  <2>17. \A k \in Structs : k # h => n.ptr[k] = m.ptr[k]
    BY <1>0, <2>1, <2>3, <2>5 DEF IsMem
  <2> QED
    BY <2>6, <2>10, <2>11, <2>12, <2>13, <2>14, <2>15, <2>16, <2>17 DEF Is, n
<1> QED
  BY <1>0, <1>1, <1>2

\* The fields of the new structure are those of key p now.
Moved(sh, p) ==
  [k \in Structs |-> [g \in Fields |->
     IF k = p THEN sh[New][g] ELSE IF k = New THEN Null ELSE sh[k][g]]]

LEMMA AssignIs ==
  ASSUME NEW m, NEW W, NEW A, NEW hs, NEW sh, Is(m, W, A, hs, sh),
         NEW p \in PKeys
  PROVE  Is(Assign(m, p), W, A, Gone(Born(hs, p), New), Moved(sh, p))
<1> DEFINE w == Destroy(m, p)
           n == Assign(m, p)
<1>0. p \in Structs /\ New \in Structs /\ p # New
  BY ParamAssumption DEF Structs, Holders
<1>1. Is(w, W, A, Gone(hs, p), Cleared(sh, p))
  BY <1>0, DestroyIs
<1>2. w.ptr[New] = m.ptr[New]
  BY <1>0, DestroyIs
<1>3. n = [w EXCEPT !.has = [[w.has EXCEPT ![p] = TRUE] EXCEPT ![New] = FALSE],
                    !.ptr = [[w.ptr EXCEPT ![p] = m.ptr[New]] EXCEPT ![New] = Nothing]]
  BY <1>0 DEF Assign
<1> HIDE DEF w, n
<1>4. /\ IsMem(w) /\ w.has = Gone(hs, p) /\ ~w.fault
      /\ hs \in [Structs -> BOOLEAN]
  BY <1>1 DEF Is, IsMem
<1>5. /\ n = [has |-> n.has, ptr |-> n.ptr, block |-> n.block, fault |-> n.fault]
      /\ n.has = [[w.has EXCEPT ![p] = TRUE] EXCEPT ![New] = FALSE]
      /\ n.ptr = [[w.ptr EXCEPT ![p] = m.ptr[New]] EXCEPT ![New] = Nothing]
      /\ n.fault = w.fault /\ n.block = w.block
  BY <1>3, <1>4 DEF IsMem
<1>6. n.has = Gone(Born(hs, p), New) /\ n.has \in [Structs -> BOOLEAN]
  <2>1. n.has = [k \in Structs |-> k # New /\ (k = p \/ w.has[k])]
    <3> DEFINE w1 == [w.has EXCEPT ![p] = TRUE]
    <3>1. w.has \in [Structs -> BOOLEAN]
      BY <1>4 DEF IsMem
    <3>2. w1 = [k \in Structs |-> k = p \/ w.has[k]]
      BY <1>0, <3>1
    <3>3. n.has = [w1 EXCEPT ![New] = FALSE]
      BY <1>5
    <3> HIDE DEF w1
    <3>4. n.has = [k \in Structs |-> k # New /\ w1[k]]
      BY <1>0, <3>2, <3>3
    <3> QED
      BY <3>2, <3>4
  <2>2. \A k \in Structs : k = p \/ w.has[k] <=> k = p \/ hs[k]
    BY <1>4 DEF Gone
  <2> QED
    BY <2>1, <2>2, <1>4 DEF Gone, Born
<1>7. /\ n.ptr \in [Structs -> [Fields -> Blocks \cup {Null}]]
      /\ \A k \in Structs :
           n.ptr[k] = IF k = p THEN w.ptr[New] ELSE IF k = New THEN Nothing ELSE w.ptr[k]
      /\ \A f \in Fields : n.ptr[New][f] = Null
  <2>1. Nothing \in [Fields -> Blocks \cup {Null}] /\ \A f \in Fields : Nothing[f] = Null
    BY DEF Nothing, Fields
  <2> QED
    BY <1>0, <1>2, <1>4, <1>5, <2>1 DEF IsMem
<1>8. \A f \in Fields : w.ptr[p][f] = Null
  <2>1. ~Gone(hs, p)[p]
    BY <1>0 DEF Gone
  <2> QED
    BY <1>0, <1>1, <2>1 DEF Is, Nothing, Fields
<1>9. \A k \in Structs, f \in Fields :
        n.ptr[k][f] # Null => n.ptr[k][f] \in DOMAIN n.block \ W
  BY <1>0, <1>1, <1>5, <1>7 DEF Is
<1>10. \A y \in DOMAIN n.block \ W : \E k \in Structs, f \in Fields : n.ptr[k][f] = y
  <2>1. SUFFICES ASSUME NEW y \in DOMAIN w.block \ W
                 PROVE  \E k \in Structs, f \in Fields : n.ptr[k][f] = y
    BY <1>5
  <2>2. PICK k \in Structs, f \in Fields : w.ptr[k][f] = y
    BY <1>1 DEF Is
  <2>3. y # Null
    BY <1>1, ParamAssumption DEF Is
  <2>4. k # p
    BY <1>8, <2>2, <2>3
  <2>5. CASE k = New
    BY <1>0, <1>7, <2>2, <2>5
  <2>6. CASE k # New
    BY <1>7, <2>2, <2>4, <2>6
  <2> QED
    BY <2>5, <2>6
<1>11. \A k, l \in Structs, f, j \in Fields :
         n.ptr[k][f] # Null /\ n.ptr[k][f] = n.ptr[l][j] => k = l /\ f = j
  <2> DEFINE Of(k) == IF k = p THEN New ELSE k
  <2>1. \A k \in Structs \ {New} : Of(k) \in Structs /\ n.ptr[k] = w.ptr[Of(k)]
    BY <1>0, <1>7
  <2>2. \A k, l \in Structs \ {New} : Of(k) = Of(l) => k = l
    BY <1>0
  <2> HIDE DEF Of
  <2>3. SUFFICES ASSUME NEW k \in Structs, NEW l \in Structs, NEW f \in Fields, NEW j \in Fields,
                        n.ptr[k][f] # Null, n.ptr[k][f] = n.ptr[l][j]
                 PROVE  k = l /\ f = j
    OBVIOUS
  <2>4. k # New /\ l # New
    BY <1>7, <2>3
  <2>5. Of(k) = Of(l) /\ f = j
    BY <1>1, <2>1, <2>3, <2>4 DEF Is
  <2> QED
    BY <2>2, <2>4, <2>5
<1>12. \A k \in Structs, f \in Fields :
         Moved(sh, p)[k][f] = IF n.ptr[k][f] = Null THEN Null ELSE n.block[n.ptr[k][f]]
  <2>1. SUFFICES ASSUME NEW k \in Structs, NEW f \in Fields
                 PROVE  (IF k = p THEN sh[New][f] ELSE IF k = New THEN Null ELSE sh[k][f])
                          = IF n.ptr[k][f] = Null THEN Null ELSE n.block[n.ptr[k][f]]
    BY DEF Moved
  <2>2. \A l \in Structs : l # p =>
          sh[l][f] = IF w.ptr[l][f] = Null THEN Null ELSE w.block[w.ptr[l][f]]
    BY <1>1 DEF Is, Cleared
  <2> QED
    BY <1>0, <1>5, <1>7, <2>2
<1>13. \A k \in Structs : ~n.has[k] => n.ptr[k] = Nothing
  <2>1. SUFFICES ASSUME NEW k \in Structs, ~n.has[k], k # New PROVE n.ptr[k] = Nothing
    BY <1>0, <1>7
  <2>2. k # p /\ ~w.has[k]
    BY <1>4, <1>6, <2>1 DEF Gone, Born
  <2>3. n.ptr[k] = w.ptr[k]
    BY <1>7, <2>1, <2>2
  <2> QED
    BY <1>1, <1>4, <2>2, <2>3 DEF Is
<1>14. IsMem(n) /\ ~n.fault
  BY <1>4, <1>5, <1>6, <1>7 DEF IsMem
<1>15. /\ W \subseteq DOMAIN n.block /\ DOMAIN n.block \subseteq A /\ A \subseteq Blocks
       /\ \A y \in DOMAIN n.block : n.block[y] # Null
  BY <1>1, <1>5 DEF Is
<1> QED
  BY <1>6, <1>9, <1>10, <1>11, <1>12, <1>13, <1>14, <1>15 DEF Is, n

\* The end of a step: nothing has gone wrong, and what is lost are the blocks
\* without a pointer.
LEMMA LeaveIs ==
  ASSUME NEW m, NEW W, NEW A, NEW hs, NEW sh, Is(m, W, A, hs, sh), Leave(m),
         fault = FALSE
  PROVE  /\ fault' = FALSE
         /\ has' = [h \in Holders |-> hs[h]]
         /\ holds' = [h \in Holders |-> [f \in Fields |-> sh[h][f]]]
         /\ W = {} /\ ~hs[New] => lost' = {}
<1> DEFINE P == Pointers(m)
           U == Used(m)
<1>1. Holders \subseteq Structs /\ New \in Structs /\ Null \notin DOMAIN m.block
  BY ParamAssumption DEF Structs, Is
<1>2. P \subseteq Structs \X Fields /\ U = {m.ptr[x[1]][x[2]] : x \in P}
  BY DEF Pointers, Used
<1>3. U = DOMAIN m.block \ W
  <2>1. ASSUME NEW y \in U PROVE y \in DOMAIN m.block \ W
    <3>1. PICK x \in P : y = m.ptr[x[1]][x[2]]
      BY <1>2
    <3>2. x[1] \in Structs /\ x[2] \in Fields /\ y # Null
      BY <3>1 DEF Pointers
    <3> QED
      BY <3>1, <3>2 DEF Is
  <2>2. ASSUME NEW y \in DOMAIN m.block \ W PROVE y \in U
    <3>1. PICK h \in Structs, f \in Fields : m.ptr[h][f] = y
      BY DEF Is
    <3>2. y # Null
      BY <1>1
    <3>3. <<h, f>> \in P /\ y = m.ptr[<<h, f>>[1]][<<h, f>>[2]]
      BY <3>1, <3>2 DEF Pointers
    <3> QED
      BY <1>2, <3>3
  <2> QED
    BY <2>1, <2>2
<1>4. Cardinality(U) = Cardinality(P)
  <2>1. IsFiniteSet(P)
    <3>1. IsFiniteSet(Structs)
      <4>1. IsFiniteSet(Holders)
        BY ParamAssumption, FS_Union DEF Holders
      <4>2. IsFiniteSet({New})
        BY FS_Singleton
      <4> QED
        BY <4>1, <4>2, FS_Union DEF Structs
    <3>2. IsFiniteSet(Fields)
      <4>1. IsFiniteSet({"group"}) /\ IsFiniteSet({"sbox"}) /\ Fields = {"group"} \cup {"sbox"}
        BY FS_Singleton DEF Fields
      <4> QED
        BY <4>1, FS_Union
    <3> QED
      BY <1>2, <3>1, <3>2, FS_Product, FS_Subset
  <2> DEFINE b == [x \in P |-> m.ptr[x[1]][x[2]]]
  <2>2. b \in Bijection(P, U)
    <3>1. b \in [P -> U] /\ \A y \in U : \E x \in P : b[x] = y
      BY <1>2
    <3>2. ASSUME NEW x \in P, NEW y \in P, b[x] = b[y] PROVE x = y
      <4>1. /\ x[1] \in Structs /\ x[2] \in Fields /\ x = <<x[1], x[2]>>
            /\ y[1] \in Structs /\ y[2] \in Fields /\ y = <<y[1], y[2]>>
            /\ m.ptr[x[1]][x[2]] # Null
        BY DEF Pointers
      <4>2. m.ptr[x[1]][x[2]] = m.ptr[y[1]][y[2]]
        BY <3>2
      <4>3. x[1] = y[1] /\ x[2] = y[2]
        BY <4>1, <4>2 DEF Is
      <4> QED
        BY <4>1, <4>3
    <3> QED
      BY <3>1, <3>2 DEF Bijection, Injection, Surjection, IsInjective
  <2>3. ExistsBijection(P, U)
    BY <2>2 DEF ExistsBijection
  <2> QED
    BY <2>1, <2>3, FS_Bijection
<1>5. fault' = FALSE
  <2>1. /\ fault' = (fault \/ m.fault \/ ~(U \subseteq DOMAIN m.block)
                           \/ Cardinality(U) # Cardinality(P))
    BY DEF Leave
  <2>2. ~m.fault
    BY DEF Is
  <2> HIDE DEF U, P
  <2> QED
    BY <1>3, <1>4, <2>1, <2>2
<1>6. has' = [h \in Holders |-> hs[h]]
  BY <1>1 DEF Leave, Is
<1>7. holds' = [h \in Holders |-> [f \in Fields |-> sh[h][f]]]
  <2>1. holds' = [h \in Holders |-> [f \in Fields |->
                   IF m.ptr[h][f] \in DOMAIN m.block THEN m.block[m.ptr[h][f]] ELSE Null]]
    BY DEF Leave, Value
  <2>2. \A h \in Holders, f \in Fields :
          sh[h][f] = IF m.ptr[h][f] \in DOMAIN m.block THEN m.block[m.ptr[h][f]] ELSE Null
    BY <1>1 DEF Is
  <2> QED
    BY <2>1, <2>2
<1>8. W = {} /\ ~hs[New] => lost' = {}
  BY <1>1, <1>3 DEF Leave, Is
<1> QED
  BY <1>5, <1>6, <1>7, <1>8

-----------------------------------------------------------------------------
(* The invariant: what LeaveIs gives, and that keys work as they should.   *)

Typed ==
  /\ has \in [Holders -> BOOLEAN]
  /\ holds \in [Holders -> [Fields -> Curves \cup Sboxes \cup {Null}]]
  /\ \A h \in Holders : /\ holds[h].group \in Curves \cup {Null}
                        /\ holds[h].sbox \in Sboxes \cup {Null}
                        /\ ~has[h] => holds[h].group = Null /\ holds[h].sbox = Null
  /\ wire = Null \/ wire \in [group : Curves, sbox : Sboxes \cup {Null}]
  /\ meant \in [PKeys -> Params \cup {Null}] /\ stale \subseteq PKeys

Inv == fault = FALSE /\ Typed /\ WorksAsMeant

\* The contents of the fields are of the right kind.
Proper(sh) ==
  \A h \in Structs : /\ sh[h]["group"] \in Curves \cup {Null}
                     /\ sh[h]["sbox"] \in Sboxes \cup {Null}

\* A step starts with the structures of the state.
Has0   == [h \in Structs |-> h # New /\ has[h]]
Holds0 == [h \in Structs |-> [f \in Fields |-> IF h = New THEN Null ELSE holds[h][f]]]
Names0 == Holders \X Fields

LEMMA StructNames ==
  /\ PKeys \subseteq Structs /\ Ctxs \subseteq Structs /\ Holders \subseteq Structs
  /\ PKeys \subseteq Holders /\ Ctxs \subseteq Holders
  /\ New \in Structs /\ New \notin PKeys /\ New \notin Ctxs /\ New \notin Holders
  /\ \A p \in PKeys : p \notin Ctxs
  /\ "group" \in Fields /\ "sbox" \in Fields
  /\ \A h \in Structs, f \in Fields, t \in {"copy", "temp"} :
       <<h, f, t>> \notin Names0 /\ <<h, f, t>> \in Blocks
  /\ \A h \in Structs : /\ <<h, "pkey">> \notin Names0 /\ <<h, "pkey">> \in Blocks
<1>1. \A h, f, t : <<h, f, t>> \notin Names0
  BY DEF Names0
<1>2. \A h : <<h, "pkey">> \notin Names0
  BY DEF Names0, Fields
<1> QED
  BY <1>1, <1>2, ParamAssumption DEF Structs, Holders, Fields, Blocks

LEMMA MemoryIs ==
  ASSUME Typed
  PROVE  Is(Memory, {}, Names0, Has0, Holds0) /\ Proper(Holds0)
<1> DEFINE m == Memory
           held == {x \in Holders \X Fields : holds[x[1]][x[2]] # Null}
<1>1. m = [has |-> Has0,
           ptr |-> [h \in Structs |-> [f \in Fields |->
                     IF h = New \/ holds[h][f] = Null THEN Null ELSE <<h, f>>]],
           block |-> [x \in held |-> holds[x[1]][x[2]]],
           fault |-> FALSE]
  BY DEF Memory, Has0
<1>2. /\ m.has = Has0 /\ m.fault = FALSE /\ m.block = [x \in held |-> holds[x[1]][x[2]]]
      /\ m.ptr = [h \in Structs |-> [f \in Fields |->
                   IF h = New \/ holds[h][f] = Null THEN Null ELSE <<h, f>>]]
      /\ m = [has |-> m.has, ptr |-> m.ptr, block |-> m.block, fault |-> m.fault]
  BY <1>1
<1> HIDE DEF m
<1>3. /\ \A h \in Structs, f \in Fields :
           m.ptr[h][f] = IF h = New \/ holds[h][f] = Null THEN Null ELSE <<h, f>>
      /\ DOMAIN m.block = held
      /\ \A h \in Holders, f \in Fields :
           <<h, f>> \in held <=> holds[h][f] # Null
      /\ \A h \in Holders, f \in Fields :
           holds[h][f] # Null => m.block[<<h, f>>] = holds[h][f]
  BY <1>2
<1>4. \A h \in Structs : h # New => h \in Holders
  BY DEF Structs
<1>5. Names0 \subseteq Blocks /\ \A h \in Holders, f \in Fields : <<h, f>> # Null /\ <<h, f>> \in Blocks
  BY ParamAssumption DEF Names0, Blocks, Structs
<1>6. m.has \in [Structs -> BOOLEAN] /\ m.ptr \in [Structs -> [Fields -> Blocks \cup {Null}]]
  BY <1>2, <1>4, <1>5 DEF Has0, Typed
<1>7. held \subseteq Names0
  BY DEF Names0
<1> HIDE DEF held
<1>8. \A h \in Structs, f \in Fields : m.ptr[h][f] # Null =>
        /\ h \in Holders /\ holds[h][f] # Null
        /\ m.ptr[h][f] = <<h, f>> /\ <<h, f>> \in DOMAIN m.block
  BY <1>3, <1>4
<1>9. \A x \in DOMAIN m.block \ {} : \E h \in Structs, f \in Fields : m.ptr[h][f] = x
  <2>1. SUFFICES ASSUME NEW h \in Holders, NEW f \in Fields, holds[h][f] # Null
                 PROVE  m.ptr[h][f] = <<h, f>>
    BY <1>2, StructNames DEF held
  <2> QED
    BY <1>3, <2>1, StructNames
<1>10. \A h, k \in Structs, f, g \in Fields :
         m.ptr[h][f] # Null /\ m.ptr[h][f] = m.ptr[k][g] => h = k /\ f = g
  <2>1. SUFFICES ASSUME NEW h \in Structs, NEW k \in Structs, NEW f \in Fields, NEW g \in Fields,
                        m.ptr[h][f] # Null, m.ptr[h][f] = m.ptr[k][g]
                 PROVE  h = k /\ f = g
    OBVIOUS
  <2>2. <<h, f>> = <<k, g>>
    BY <1>8, <2>1
  <2> QED
    BY <2>2
<1>11. \A x \in DOMAIN m.block : m.block[x] # Null
  BY <1>2 DEF held
<1>12. \A h \in Structs, f \in Fields :
         Holds0[h][f] = IF m.ptr[h][f] = Null THEN Null ELSE m.block[m.ptr[h][f]]
  <2>1. SUFFICES ASSUME NEW h \in Structs, NEW f \in Fields
                 PROVE  (IF h = New THEN Null ELSE holds[h][f])
                          = IF m.ptr[h][f] = Null THEN Null ELSE m.block[m.ptr[h][f]]
    BY DEF Holds0
  <2>2. CASE m.ptr[h][f] = Null
    BY <1>3, <1>4, <1>5, <2>2
  <2>3. CASE m.ptr[h][f] # Null
    <3>1. h # New /\ m.block[m.ptr[h][f]] = holds[h][f]
      <4>1. /\ h \in Holders /\ holds[h][f] # Null
            /\ m.ptr[h][f] = <<h, f>>
        BY <1>8, <2>3
      <4>2. New \notin Holders
        BY StructNames
      <4>3. m.block[<<h, f>>] = holds[h][f]
        BY <1>3, <4>1
      <4> QED
        BY <4>1, <4>2, <4>3
    <3> QED
      BY <2>3, <3>1
  <2> QED
    BY <2>2, <2>3
<1>13. \A h \in Structs : ~Has0[h] => m.ptr[h] = Nothing
  <2>1. SUFFICES ASSUME NEW h \in Structs, ~Has0[h] PROVE m.ptr[h] = Nothing
    OBVIOUS
  <2>2. \A f \in Fields : m.ptr[h][f] = Null
    BY <1>3, <1>4, <2>1 DEF Typed, Has0, Fields
  <2>3. m.ptr[h] = [f \in Fields |-> Null]
    BY <1>6, <2>2
  <2> QED
    BY <2>3 DEF Nothing, Fields
<1>14. Proper(Holds0)
  BY <1>4 DEF Proper, Holds0, Typed, Fields
<1> QED
  BY <1>2, <1>3, <1>5, <1>6, <1>7, <1>8, <1>9, <1>10, <1>11, <1>12, <1>13, <1>14 DEF Is, IsMem, m

\* The keys outside of T are as they were, and those of T have what is meant.
Untouched(T, hs, sh) ==
  \A q \in PKeys \ T : /\ meant'[q] = meant[q] /\ (q \in stale => q \in stale')
                       /\ hs[q] = has[q]
                       /\ sh[q]["group"] = holds[q]["group"]
                       /\ sh[q]["sbox"] = holds[q]["sbox"]
Right(T, hs, sh) ==
  \A q \in T : q \notin stale' /\ meant'[q] # Null =>
    /\ hs[q]
    /\ meant'[q] = [group |-> sh[q]["group"],
                    sbox |-> IF sh[q]["sbox"] = Null THEN DefaultSbox ELSE sh[q]["sbox"]]

\* The end of a step that may have changed the keys in T.
LEMMA StepEnd ==
  ASSUME Inv, NEW T \in SUBSET PKeys,
         NEW m, NEW W, NEW A, NEW hs, NEW sh, Is(m, W, A, hs, sh), Proper(sh), Leave(m),
         wire' = wire, meant' \in [PKeys -> Params \cup {Null}], stale' \subseteq PKeys,
         Untouched(T, hs, sh), Right(T, hs, sh)
  PROVE  Inv' /\ (W = {} /\ ~hs[New] => lost' = {})
<1>1. /\ fault' = FALSE
      /\ has' = [h \in Holders |-> hs[h]]
      /\ holds' = [h \in Holders |-> [f \in Fields |-> sh[h][f]]]
      /\ W = {} /\ ~hs[New] => lost' = {}
  BY LeaveIs DEF Inv
<1>2. /\ hs \in [Structs -> BOOLEAN]
      /\ \A h \in Structs : ~hs[h] => sh[h]["group"] = Null /\ sh[h]["sbox"] = Null
  BY DEF Is, IsMem, Nothing, Fields
<1>3. \A h \in Holders : holds'[h].group = sh[h]["group"] /\ holds'[h].sbox = sh[h]["sbox"]
  BY <1>1 DEF Fields
<1>4. Typed'
  <2>1. has' \in [Holders -> BOOLEAN]
    BY <1>1, <1>2, StructNames
  <2>2. holds' \in [Holders -> [Fields -> Curves \cup Sboxes \cup {Null}]]
    BY <1>1, StructNames DEF Proper, Fields
  <2>3. \A h \in Holders : /\ holds'[h].group \in Curves \cup {Null}
                           /\ holds'[h].sbox \in Sboxes \cup {Null}
                           /\ ~has'[h] => holds'[h].group = Null /\ holds'[h].sbox = Null
    BY <1>1, <1>2, <1>3, StructNames DEF Proper
  <2> QED
    BY <2>1, <2>2, <2>3 DEF Typed, Inv
<1>5. WorksAsMeant'
  <2>1. SUFFICES ASSUME NEW q \in PKeys, q \notin stale', meant'[q] # Null
                 PROVE  has'[q] /\ Effective(q)' = meant'[q]
    BY DEF WorksAsMeant
  <2>2. q \in Holders /\ has'[q] = hs[q]
        /\ holds'[q].group = sh[q]["group"] /\ holds'[q].sbox = sh[q]["sbox"]
    BY <1>1, <1>3, StructNames
  <2>3. CASE q \in T
    BY <2>1, <2>2, <2>3 DEF Effective, Right
  <2>4. CASE q \notin T
    <3>1. has[q] /\ Effective(q) = meant[q]
      BY <2>1, <2>4 DEF Inv, WorksAsMeant, Untouched
    <3>2. meant'[q] = meant[q] /\ hs[q] = has[q]
          /\ sh[q]["group"] = holds[q]["group"] /\ sh[q]["sbox"] = holds[q]["sbox"]
      BY <2>4 DEF Untouched
    <3> QED
      BY <2>2, <3>1, <3>2 DEF Effective
  <2> QED
    BY <2>3, <2>4
<1> QED
  BY <1>1, <1>4, <1>5 DEF Inv

\* What the operations of a step keep: the memory is in order, the contents are
\* of the right kind, and the keys outside of T are as they were.
Spares(T, hs, sh) ==
  \A q \in PKeys \ T : /\ hs[q] = has[q]
                       /\ sh[q]["group"] = holds[q]["group"]
                       /\ sh[q]["sbox"] = holds[q]["sbox"]

Ok(T, m, W, A, hs, sh) == Is(m, W, A, hs, sh) /\ Proper(sh) /\ Spares(T, hs, sh)

LEMMA OkMemory ==
  ASSUME Inv, NEW T
  PROVE  Ok(T, Memory, {}, Names0, Has0, Holds0)
<1>1. Is(Memory, {}, Names0, Has0, Holds0) /\ Proper(Holds0)
  BY MemoryIs DEF Inv
<1>2. \A q \in PKeys : q \in Structs /\ q # New /\ has[q] \in BOOLEAN
  BY StructNames DEF Inv, Typed
<1>3. Spares(T, Has0, Holds0)
  <2>1. \A q \in PKeys : Has0[q] = has[q]
    BY <1>2 DEF Has0
  <2>2. \A q \in PKeys, f \in Fields : Holds0[q][f] = holds[q][f]
    BY <1>2 DEF Holds0
  <2> QED
    BY <2>1, <2>2 DEF Spares, Fields
<1> QED
  BY <1>1, <1>3 DEF Ok

LEMMA OkAlloc ==
  ASSUME NEW T, NEW m, NEW W, NEW A, NEW hs, NEW sh, Ok(T, m, W, A, hs, sh),
         NEW x \in Blocks, x \notin A, NEW c, c # Null
  PROVE  Ok(T, Alloc(m, x, c), W \cup {x}, A \cup {x}, hs, sh)
BY AllocIs DEF Ok

LEMMA OkFree ==
  ASSUME NEW T, NEW m, NEW W, NEW A, NEW hs, NEW sh, Ok(T, m, W, A, hs, sh), NEW x \in W
  PROVE  Ok(T, Free(m, x), W \ {x}, A, hs, sh)
BY FreeIs DEF Ok

LEMMA OkCreate ==
  ASSUME NEW T, NEW m, NEW W, NEW A, NEW hs, NEW sh, Ok(T, m, W, A, hs, sh),
         NEW h \in Structs \ (PKeys \ T), ~hs[h]
  PROVE  Ok(T, Create(m, h), W, A, Born(hs, h), sh)
<1>1. Is(Create(m, h), W, A, Born(hs, h), sh)
  BY CreateIs DEF Ok
<1>2. \A q \in PKeys \ T : Born(hs, h)[q] = hs[q]
  <2>1. hs \in [Structs -> BOOLEAN]
    BY DEF Ok, Is, IsMem
  <2> QED
    BY <2>1, StructNames DEF Born
<1> QED
  BY <1>1, <1>2 DEF Ok, Spares

LEMMA OkDestroy ==
  ASSUME NEW T, NEW m, NEW W, NEW A, NEW hs, NEW sh, Ok(T, m, W, A, hs, sh),
         NEW h \in Structs \ (PKeys \ T)
  PROVE  Ok(T, Destroy(m, h), W, A, Gone(hs, h), Cleared(sh, h))
<1>1. Is(Destroy(m, h), W, A, Gone(hs, h), Cleared(sh, h))
  BY DestroyIs DEF Ok
<1>2. \A q \in PKeys \ T : /\ Gone(hs, h)[q] = hs[q]
                           /\ \A f \in Fields : Cleared(sh, h)[q][f] = sh[q][f]
  <2>1. hs \in [Structs -> BOOLEAN]
    BY DEF Ok, Is, IsMem
  <2> QED
    BY <2>1, StructNames DEF Gone, Cleared
<1>3. Proper(Cleared(sh, h))
  BY DEF Ok, Proper, Cleared, Fields
<1> QED
  BY <1>1, <1>2, <1>3 DEF Ok, Spares, Fields

LEMMA OkCopied ==
  ASSUME NEW T, NEW m, NEW W, NEW A, NEW hs, NEW sh, Ok(T, m, W, A, hs, sh),
         NEW h \in Structs \ (PKeys \ T), hs[h],
         NEW f \in Fields, NEW c,
         (f = "group" /\ c \in Curves) \/ (f = "sbox" /\ c \in Sboxes),
         <<h, f, "copy">> \notin A
  PROVE  Ok(T, Copied(m, h, f, c), W, A \cup {<<h, f, "copy">>}, hs, Put(sh, h, f, c))
<1>1. c # Null
  BY ParamAssumption
<1>2. Is(Copied(m, h, f, c), W, A \cup {<<h, f, "copy">>}, hs, Put(sh, h, f, c))
  BY <1>1, CopiedIs DEF Ok
<1>3. \A q \in PKeys \ T, g \in Fields : Put(sh, h, f, c)[q][g] = sh[q][g]
  BY StructNames DEF Put
<1>4. Proper(Put(sh, h, f, c))
  BY DEF Ok, Proper, Put, Fields
<1> QED
  BY <1>2, <1>3, <1>4 DEF Ok, Spares, Fields

LEMMA OkGroup ==
  ASSUME NEW T, NEW m, NEW W, NEW A, NEW hs, NEW sh, Ok(T, m, W, A, hs, sh),
         NEW h \in Structs \ (PKeys \ T), hs[h], NEW g \in Curves,
         <<h, "group", "copy">> \notin A
  PROVE  Ok(T, Copied(m, h, "group", g), W, A \cup {<<h, "group", "copy">>}, hs,
            Put(sh, h, "group", g))
<1> DEFINE f == "group"
<1>1. f \in Fields /\ ((f = "group" /\ g \in Curves) \/ (f = "sbox" /\ g \in Sboxes))
  BY DEF Fields
<1>2. <<h, f, "copy">> \notin A
  OBVIOUS
<1> HIDE DEF f
<1>3. Ok(T, Copied(m, h, f, g), W, A \cup {<<h, f, "copy">>}, hs, Put(sh, h, f, g))
  BY <1>1, <1>2, OkCopied
<1> QED
  BY <1>3 DEF f

LEMMA OkSbox ==
  ASSUME NEW T, NEW m, NEW W, NEW A, NEW hs, NEW sh, Ok(T, m, W, A, hs, sh),
         NEW h \in Structs \ (PKeys \ T), hs[h], NEW s \in Sboxes,
         <<h, "sbox", "copy">> \notin A
  PROVE  Ok(T, Copied(m, h, "sbox", s), W, A \cup {<<h, "sbox", "copy">>}, hs,
            Put(sh, h, "sbox", s))
<1> DEFINE f == "sbox"
<1>1. f \in Fields /\ ((f = "group" /\ s \in Curves) \/ (f = "sbox" /\ s \in Sboxes))
  BY DEF Fields
<1>2. <<h, f, "copy">> \notin A
  OBVIOUS
<1> HIDE DEF f
<1>3. Ok(T, Copied(m, h, f, s), W, A \cup {<<h, f, "copy">>}, hs, Put(sh, h, f, s))
  BY <1>1, <1>2, OkCopied
<1> QED
  BY <1>3 DEF f

LEMMA OkAssign ==
  ASSUME NEW T, NEW m, NEW W, NEW A, NEW hs, NEW sh, Ok(T, m, W, A, hs, sh),
         NEW p \in PKeys
  PROVE  Ok({p} \cup T, Assign(m, p), W, A, Gone(Born(hs, p), New), Moved(sh, p))
<1>1. Is(Assign(m, p), W, A, Gone(Born(hs, p), New), Moved(sh, p))
  BY AssignIs DEF Ok
<1>2. \A q \in PKeys \ ({p} \cup T) :
        /\ Gone(Born(hs, p), New)[q] = hs[q]
        /\ \A f \in Fields : Moved(sh, p)[q][f] = sh[q][f]
  <2>1. hs \in [Structs -> BOOLEAN]
    BY DEF Ok, Is, IsMem
  <2>2. \A q \in PKeys : q # New /\ q \in Structs
    BY StructNames
  <2> QED
    BY <2>1, <2>2 DEF Gone, Born, Moved
<1>3. Proper(Moved(sh, p))
  BY StructNames DEF Ok, Proper, Moved
<1> QED
  BY <1>1, <1>2, <1>3 DEF Ok, Spares, Fields

LEMMA OkValue ==
  ASSUME NEW T, NEW m, NEW W, NEW A, NEW hs, NEW sh, Ok(T, m, W, A, hs, sh),
         NEW h \in Structs, NEW f \in Fields
  PROVE  /\ Missing(m, h, f) <=> sh[h][f] = Null
         /\ ~Missing(m, h, f) => Value(m, h, f) = sh[h][f]
BY DEF Ok, Is, Missing, Value

\* A structure that is not there has no contents.
LEMMA OkGone ==
  ASSUME NEW T, NEW m, NEW W, NEW A, NEW hs, NEW sh, Ok(T, m, W, A, hs, sh),
         NEW h \in Structs, ~hs[h], NEW f \in Fields
  PROVE  sh[h][f] = Null
BY DEF Ok, Is, Nothing, Fields

-----------------------------------------------------------------------------
(* Steps of contexts                                                       *)

\* The end of a step that changes no key.
LEMMA AnyEnd ==
  ASSUME Inv, NEW m, NEW W, NEW A, NEW hs, NEW sh, Ok({}, m, W, A, hs, sh), Leave(m),
         ~hs[New], UNCHANGED <<wire, ghosts>>
  PROVE  Inv' /\ (W = {} => lost' = {})
<1>1. /\ wire' = wire /\ meant' = meant /\ stale' = stale
      /\ meant \in [PKeys -> Params \cup {Null}] /\ stale \subseteq PKeys
  BY DEF ghosts, Inv, Typed
<1> DEFINE T == {}
<1>2. Is(m, W, A, hs, sh) /\ Proper(sh) /\ Spares(T, hs, sh)
  BY DEF Ok
<1>3. T \in SUBSET PKeys /\ \A q \in T : FALSE
  OBVIOUS
<1> HIDE DEF T
<1>4. Untouched(T, hs, sh)
  BY <1>1, <1>2 DEF Spares, Untouched
<1>5. Right(T, hs, sh)
  BY <1>3 DEF Right
<1> QED
  BY <1>1, <1>2, <1>3, <1>4, <1>5, StepEnd

LEMMA StillEnd ==
  ASSUME Inv, NEW m, NEW A, NEW hs, NEW sh, Ok({}, m, {}, A, hs, sh), Leave(m),
         ~hs[New], UNCHANGED <<wire, ghosts>>
  PROVE  Inv' /\ lost' = {}
<1> DEFINE W == {}
<1>1. Ok({}, m, W, A, hs, sh) /\ W = {}
  OBVIOUS
<1> HIDE DEF W
<1> QED
  BY <1>1, AnyEnd

LEMMA Starts ==
  ASSUME Inv
  PROVE  /\ Has0 \in [Structs -> BOOLEAN] /\ ~Has0[New]
         /\ \A h \in Holders : /\ Has0[h] = has[h]
                               /\ \A f \in Fields : Holds0[h][f] = holds[h][f]
         /\ \A f \in Fields : Holds0[New][f] = Null
<1>1. /\ has \in [Holders -> BOOLEAN] /\ New \in Structs /\ New \notin Holders
      /\ Holders \subseteq Structs /\ \A h \in Structs : h # New => h \in Holders
  BY StructNames DEF Inv, Typed, Structs
<1>2. Has0 \in [Structs -> BOOLEAN] /\ ~Has0[New] /\ \A h \in Holders : Has0[h] = has[h]
  BY <1>1 DEF Has0
<1>3. /\ \A h \in Holders, f \in Fields : Holds0[h][f] = holds[h][f]
      /\ \A f \in Fields : Holds0[New][f] = Null
  BY <1>1 DEF Holds0
<1> QED
  BY <1>2, <1>3

\* What the steps of a context c need to know of its name.
LEMMA CtxNames ==
  ASSUME NEW c \in Ctxs, NEW T \in SUBSET PKeys
  PROVE  /\ c \in Structs \ (PKeys \ T) /\ c \in Holders /\ c \in Structs /\ c # New
         /\ New \in Structs \ (PKeys \ T)
         /\ "group" \in Fields /\ "sbox" \in Fields
BY StructNames

LEMMA PkeyInitKeeps ==
  ASSUME Inv, NEW c \in Ctxs, PkeyInit(c)
  PROVE  Inv' /\ lost' = {}
<1>1. Ok({}, Memory, {}, Names0, Has0, Holds0)
  BY OkMemory
<1>2. c \in Structs \ (PKeys \ {}) /\ ~Has0[c] /\ c # New
  BY CtxNames, Starts DEF PkeyInit
<1>3. Ok({}, Create(Memory, c), {}, Names0, Born(Has0, c), Holds0)
  BY <1>1, <1>2, OkCreate
<1>4. ~Born(Has0, c)[New]
  BY <1>2, Starts, StructNames DEF Born
<1> QED
  BY <1>3, <1>4, StillEnd DEF PkeyInit

\* A field of a context gets a new block.
LEMMA CtrlKeeps ==
  ASSUME Inv, NEW c \in Ctxs, has[c], NEW f \in Fields, NEW v,
         (f = "group" /\ v \in Curves) \/ (f = "sbox" /\ v \in Sboxes),
         Leave(Copied(Memory, c, f, v)), UNCHANGED <<wire, ghosts>>
  PROVE  Inv' /\ lost' = {}
<1>1. Ok({}, Memory, {}, Names0, Has0, Holds0)
  BY OkMemory
<1>2. c \in Structs \ (PKeys \ {}) /\ Has0[c] /\ <<c, f, "copy">> \notin Names0
  BY CtxNames, Starts, StructNames
<1>3. Ok({}, Copied(Memory, c, f, v), {}, Names0 \cup {<<c, f, "copy">>}, Has0,
         Put(Holds0, c, f, v))
  BY <1>1, <1>2, OkCopied
<1> QED
  BY <1>3, Starts, StillEnd

LEMMA CtrlStrKeeps ==
  ASSUME Inv, NEW c \in Ctxs, NEW g \in Curves, NEW fails, CtrlStrCurve(c, g, fails)
  PROVE  Inv' /\ lost' = {}
<1> DEFINE temp == <<c, "group", "temp">>
           copy == <<c, "group", "copy">>
           named == Alloc(Memory, temp, g)
           copied == Copied(named, c, "group", g)
<1>1. Ok({}, Memory, {}, Names0, Has0, Holds0)
  BY OkMemory
<1>2. /\ c \in Structs \ (PKeys \ {}) /\ Has0[c] /\ "group" \in Fields
      /\ temp \in Blocks /\ temp \notin Names0 /\ copy \notin Names0 \cup {temp}
      /\ g # Null
  BY CtxNames, Starts, StructNames, ParamAssumption DEF CtrlStrCurve
<1>3. Leave(Free(IF fails = 1 THEN named ELSE copied, temp)) /\ UNCHANGED <<wire, ghosts>>
  BY DEF CtrlStrCurve
<1> HIDE DEF temp, copy
<1>4. Ok({}, named, {} \cup {temp}, Names0 \cup {temp}, Has0, Holds0)
  BY <1>1, <1>2, OkAlloc
<1> HIDE DEF named
<1>5. Ok({}, copied, {} \cup {temp}, (Names0 \cup {temp}) \cup {copy}, Has0,
         Put(Holds0, c, "group", g))
  <2> DEFINE A == Names0 \cup {temp}
             Y == {} \cup {temp}
  <2>1. Ok({}, named, Y, A, Has0, Holds0) /\ <<c, "group", "copy">> \notin A
    BY <1>2, <1>4 DEF copy
  <2> HIDE DEF A, Y
  <2>2. Ok({}, copied, Y, A \cup {<<c, "group", "copy">>}, Has0, Put(Holds0, c, "group", g))
    BY <1>2, <2>1, OkGroup DEF copied
  <2> QED
    BY <2>2 DEF copy, A, Y
<1> HIDE DEF copied
<1>6. \A m, A, sh : Ok({}, m, {} \cup {temp}, A, Has0, sh) =>
        Ok({}, Free(m, temp), {}, A, Has0, sh)
  <2>1. ({} \cup {temp}) \ {temp} = {} /\ temp \in {} \cup {temp}
    OBVIOUS
  <2> QED
    BY <2>1, OkFree
<1>7. CASE fails = 1
  BY <1>3, <1>4, <1>6, <1>7, Starts, StillEnd
<1>8. CASE fails # 1
  BY <1>3, <1>5, <1>6, <1>8, Starts, StillEnd
<1> QED
  BY <1>7, <1>8

LEMMA CleanupKeeps ==
  ASSUME Inv, NEW c \in Ctxs, Cleanup(c)
  PROVE  Inv' /\ lost' = {}
<1>1. Ok({}, Memory, {}, Names0, Has0, Holds0)
  BY OkMemory
<1>2. c \in Structs \ (PKeys \ {})
  BY CtxNames
<1>3. Ok({}, Destroy(Memory, c), {}, Names0, Gone(Has0, c), Cleared(Holds0, c))
  BY <1>1, <1>2, OkDestroy
<1>4. ~Gone(Has0, c)[New]
  BY Starts, StructNames DEF Gone
<1> QED
  BY <1>3, <1>4, StillEnd DEF Cleanup

\* The names that are in use may be any.
LEMMA OkNames ==
  ASSUME NEW T, NEW m, NEW W, NEW A, NEW hs, NEW sh, Ok(T, m, W, A, hs, sh),
         NEW x \in Blocks
  PROVE  Ok(T, m, W, A \cup {x}, hs, sh)
BY DEF Ok, Is

\* More keys may have changed.
LEMMA OkMore ==
  ASSUME NEW m, NEW W, NEW A, NEW hs, NEW sh, Ok({}, m, W, A, hs, sh), NEW T
  PROVE  Ok(T, m, W, A, hs, sh)
BY DEF Ok, Spares

\* A context is copied: the group, then the sbox, if they are there.
LEMMA PkeyCopyKeeps ==
  ASSUME Inv, NEW c \in Ctxs, NEW w \in Ctxs, NEW fails, PkeyCopy(c, w, fails)
  PROVE  Inv' /\ lost' = {}
<1> DEFINE made    == Create(Memory, w)
           grouped == IF Missing(made, c, "group") THEN made
                      ELSE Copied(made, w, "group", Value(made, c, "group"))
           boxed   == IF Missing(made, c, "sbox") THEN grouped
                      ELSE Copied(grouped, w, "sbox", Value(made, c, "sbox"))
           hs      == Born(Has0, w)
           A1      == Names0 \cup {<<w, "group", "copy">>}
<1>1. Ok({}, Memory, {}, Names0, Has0, Holds0)
  BY OkMemory
<1>2. /\ w \in Structs \ (PKeys \ {}) /\ ~Has0[w] /\ w \in Structs /\ c \in Structs
      /\ "group" \in Fields /\ "sbox" \in Fields
      /\ <<w, "group", "copy">> \notin Names0 /\ <<w, "sbox", "copy">> \notin A1
      /\ c \in Holders
  BY CtxNames, Starts, StructNames DEF PkeyCopy
<1>3. hs[w] /\ ~hs[New] /\ ~Gone(hs, w)[New]
  BY <1>2, CtxNames, Starts, StructNames DEF Born, Gone
<1>4. Ok({}, made, {}, Names0, hs, Holds0)
  BY <1>1, <1>2, OkCreate
<1>5. /\ Leave(CASE fails = 1 -> Destroy(made, w)
                 [] fails = 2 -> Destroy(grouped, w)
                 [] OTHER -> boxed)
      /\ UNCHANGED <<wire, ghosts>>
  BY DEF PkeyCopy
<1> HIDE DEF hs, made
<1>6. /\ Missing(made, c, "group") <=> Holds0[c]["group"] = Null
      /\ ~Missing(made, c, "group") => Value(made, c, "group") = Holds0[c]["group"]
      /\ Missing(made, c, "sbox") <=> Holds0[c]["sbox"] = Null
      /\ ~Missing(made, c, "sbox") => Value(made, c, "sbox") = Holds0[c]["sbox"]
      /\ Holds0[c]["group"] \in Curves \cup {Null} /\ Holds0[c]["sbox"] \in Sboxes \cup {Null}
  BY <1>2, <1>4, OkValue DEF Ok, Proper
<1>7. PICK sh1 : Ok({}, grouped, {}, A1, hs, sh1)
  <2>1. CASE Missing(made, c, "group")
    <3>1. <<w, "group", "copy">> \in Blocks
      BY <1>2, StructNames
    <3>2. Ok({}, made, {}, A1, hs, Holds0)
      BY <1>4, <3>1, OkNames
    <3> QED
      BY <2>1, <3>2
  <2>2. CASE ~Missing(made, c, "group")
    <3> DEFINE v == Value(made, c, "group")
    <3>1. v \in Curves
      BY <1>6, <2>2
    <3> HIDE DEF v
    <3>2. Ok({}, Copied(made, w, "group", v), {}, A1, hs, Put(Holds0, w, "group", v))
      BY <1>2, <1>3, <1>4, <3>1, OkGroup
    <3> QED
      BY <2>2, <3>2 DEF v
  <2> QED
    BY <2>1, <2>2
<1> HIDE DEF grouped, A1
<1>8. PICK sh2, A2 : Ok({}, boxed, {}, A2, hs, sh2)
  <2>1. CASE Missing(made, c, "sbox")
    BY <1>7, <2>1
  <2>2. CASE ~Missing(made, c, "sbox")
    <3> DEFINE v == Value(made, c, "sbox")
    <3>1. v \in Sboxes
      BY <1>6, <2>2
    <3> HIDE DEF v
    <3>2. Ok({}, Copied(grouped, w, "sbox", v), {}, A1 \cup {<<w, "sbox", "copy">>}, hs,
             Put(sh1, w, "sbox", v))
      BY <1>2, <1>3, <1>7, <3>1, OkSbox
    <3> QED
      BY <2>2, <3>2 DEF v
  <2> QED
    BY <2>1, <2>2
<1> HIDE DEF boxed
<1>9. CASE fails = 1
  <2>1. Ok({}, Destroy(made, w), {}, Names0, Gone(hs, w), Cleared(Holds0, w))
    BY <1>2, <1>4, OkDestroy
  <2> QED
    BY <1>3, <1>5, <1>9, <2>1, StillEnd
<1>10. CASE fails = 2
  <2>1. Ok({}, Destroy(grouped, w), {}, A1, Gone(hs, w), Cleared(sh1, w))
    BY <1>2, <1>7, OkDestroy
  <2> QED
    BY <1>3, <1>5, <1>10, <2>1, StillEnd
<1>11. CASE fails \notin {1, 2}
  BY <1>3, <1>5, <1>8, <1>11, StillEnd
<1> QED
  BY <1>9, <1>10, <1>11

\* The end of a step that changes the key p and has meant it.
LEMMA MeantEnd ==
  ASSUME Inv, NEW p \in PKeys, NEW m, NEW W, NEW A, NEW hs, NEW sh,
         Ok({p}, m, W, A, hs, sh), Leave(m), ~hs[New], wire' = wire,
         NEW v \in Params \cup {Null}, Due(p, v),
         v # Null => /\ hs[p] /\ v.group = sh[p]["group"]
                     /\ v.sbox = IF sh[p]["sbox"] = Null THEN DefaultSbox ELSE sh[p]["sbox"]
  PROVE  Inv' /\ (W = {} => lost' = {})
<1>1. /\ meant' \in [PKeys -> Params \cup {Null}] /\ stale' \subseteq PKeys
      /\ \A q \in PKeys \ {p} : meant'[q] = meant[q] /\ (q \in stale => q \in stale')
      /\ meant'[p] = v
  BY DEF Inv, Typed, Due
<1>2. v # Null => v = [group |-> v.group, sbox |-> v.sbox]
  BY DEF Params
<1>3. v # Null => v = [group |-> sh[p]["group"],
                       sbox |-> IF sh[p]["sbox"] = Null THEN DefaultSbox ELSE sh[p]["sbox"]]
  BY <1>2
<1>4. Is(m, W, A, hs, sh) /\ Proper(sh) /\ Spares({p}, hs, sh)
  BY DEF Ok
<1> DEFINE T == {p}
<1>5. Untouched(T, hs, sh)
  BY <1>1, <1>4 DEF Spares, Untouched
<1>6. Right(T, hs, sh)
  <2>1. SUFFICES ASSUME v # Null
                 PROVE  /\ hs[p]
                        /\ v = [group |-> sh[p]["group"],
                                sbox |-> IF sh[p]["sbox"] = Null THEN DefaultSbox
                                         ELSE sh[p]["sbox"]]
    BY <1>1 DEF Right
  <2> QED
    BY <1>3, <2>1
<1>7. T \in SUBSET PKeys
  OBVIOUS
<1> HIDE DEF T
<1> QED
  BY <1>1, <1>4, <1>5, <1>6, <1>7, StepEnd

-----------------------------------------------------------------------------
(* Steps of keys                                                           *)

LEMMA KeygenKeeps ==
  ASSUME Inv, NEW c \in Ctxs, NEW p \in PKeys, NEW fails \in 0 .. 5, Keygen(c, p, fails)
  PROVE  Inv' /\ lost' = {}
<1> DEFINE grouped == IF Missing(Memory, c, "group")
                      THEN Copied(Memory, c, "group", DefaultCurve) ELSE Memory
           made    == Create(grouped, New)
           keyed   == Copied(made, New, "group", Value(grouped, c, "group"))
           boxed   == SboxCopied(keyed, c)
           g       == IF holds[c].group = Null THEN DefaultCurve ELSE holds[c].group
           s       == holds[c].sbox
           hs      == Born(Has0, New)
           A1      == Names0 \cup {<<c, "group", "copy">>}
           A2      == A1 \cup {<<New, "group", "copy">>}
<1>1. Ok({}, Memory, {}, Names0, Has0, Holds0)
  BY OkMemory
<1>2. /\ c \in Structs \ (PKeys \ {}) /\ c \in Structs /\ c \in Holders /\ c # New
      /\ New \in Structs \ (PKeys \ {}) /\ New \in Structs
      /\ "group" \in Fields /\ "sbox" \in Fields
      /\ <<c, "group", "copy">> \notin Names0 /\ <<c, "group", "copy">> \in Blocks
      /\ <<New, "group", "copy">> \notin A1 /\ <<New, "sbox", "copy">> \notin A2
  BY CtxNames, StructNames
<1>3. /\ Leave(CASE fails = 1 -> Memory
                 [] fails = 2 -> grouped
                 [] fails = 3 -> Destroy(made, New)
                 [] fails = 4 -> Destroy(keyed, New)
                 [] fails = 5 -> Destroy(boxed, New)
                 [] OTHER     -> Assign(boxed, p))
      /\ IF fails = 0
         THEN Due(p, [Effective(c) EXCEPT !.group = IF @ = Null THEN DefaultCurve ELSE @])
         ELSE UNCHANGED ghosts
      /\ wire' = wire
  BY DEF Keygen
<1>4. /\ Has0[c] /\ ~Has0[New] /\ hs[New] /\ ~Gone(hs, New)[New]
      /\ hs \in [Structs -> BOOLEAN]
  BY <1>2, Starts DEF Keygen, Born, Gone
<1>5. /\ Holds0[c]["group"] = holds[c].group /\ Holds0[c]["sbox"] = s
      /\ holds[c].group \in Curves \cup {Null} /\ s \in Sboxes \cup {Null} /\ g \in Curves
  BY <1>2, Starts, ParamAssumption DEF Inv, Typed
<1>6. PICK sh1 : /\ Ok({}, grouped, {}, A1, Has0, sh1)
                 /\ sh1[c]["group"] = g /\ sh1[c]["sbox"] = s
  <2>1. Missing(Memory, c, "group") <=> holds[c].group = Null
    BY <1>1, <1>2, <1>5, OkValue
  <2>2. CASE holds[c].group = Null
    <3>1. Ok({}, Copied(Memory, c, "group", DefaultCurve), {}, A1, Has0,
             Put(Holds0, c, "group", DefaultCurve))
      BY <1>1, <1>2, <1>4, ParamAssumption, OkGroup
    <3>2. /\ Put(Holds0, c, "group", DefaultCurve)[c]["group"] = DefaultCurve
          /\ Put(Holds0, c, "group", DefaultCurve)[c]["sbox"] = Holds0[c]["sbox"]
      BY <1>2 DEF Put
    <3> QED
      BY <1>5, <2>1, <2>2, <3>1, <3>2
  <2>3. CASE holds[c].group # Null
    <3>1. Ok({}, Memory, {}, A1, Has0, Holds0)
      BY <1>1, <1>2, OkNames
    <3> QED
      BY <1>5, <2>1, <2>3, <3>1
  <2> QED
    BY <2>2, <2>3
<1>7. Value(grouped, c, "group") = g
  BY <1>2, <1>5, <1>6, OkValue, ParamAssumption
<1> HIDE DEF grouped, A1, hs
<1>8. Ok({}, made, {}, A1, hs, sh1)
  BY <1>2, <1>4, <1>6, OkCreate DEF hs
<1> HIDE DEF made
<1> DEFINE sh2 == Put(sh1, New, "group", g)
<1>9. Ok({}, keyed, {}, A2, hs, sh2)
  <2> HIDE DEF g
  <2>1. Ok({}, Copied(made, New, "group", g), {}, A2, hs, sh2)
    BY <1>2, <1>4, <1>5, <1>8, OkGroup
  <2> QED
    BY <1>7, <2>1
<1>10. sh2[c]["sbox"] = s /\ sh2[New]["group"] = g /\ sh2[New]["sbox"] = Null
  <2>1. sh1[New]["sbox"] = Null
    BY <1>2, <1>4, <1>6, OkGone
  <2> QED
    BY <1>2, <1>6, <2>1 DEF Put
<1> HIDE DEF keyed, A2, sh2
<1>11. PICK sh3, A3 : /\ Ok({}, boxed, {}, A3, hs, sh3)
                      /\ sh3[New]["group"] = g /\ sh3[New]["sbox"] = s
  <2>1. /\ Missing(keyed, c, "sbox") <=> s = Null
        /\ ~Missing(keyed, c, "sbox") => Value(keyed, c, "sbox") = s
    BY <1>2, <1>9, <1>10, OkValue
  <2>2. CASE s = Null
    BY <1>9, <1>10, <2>1, <2>2 DEF SboxCopied
  <2>3. CASE s # Null
    <3> HIDE DEF g, s
    <3>1. s \in Sboxes
      BY <1>5, <2>3
    <3>2. Ok({}, Copied(keyed, New, "sbox", s), {}, A2 \cup {<<New, "sbox", "copy">>}, hs,
             Put(sh2, New, "sbox", s))
      BY <1>2, <1>4, <1>9, <3>1, OkSbox
    <3>3. /\ Put(sh2, New, "sbox", s)[New]["group"] = g
          /\ Put(sh2, New, "sbox", s)[New]["sbox"] = s
      BY <1>2, <1>10 DEF Put
    <3>4. boxed = Copied(keyed, New, "sbox", s)
      BY <2>1, <2>3 DEF SboxCopied
    <3> QED
      BY <3>2, <3>3, <3>4
  <2> QED
    BY <2>2, <2>3
<1> HIDE DEF boxed
<1>12. fails # 0 => UNCHANGED <<wire, ghosts>>
  BY <1>3
<1>13. \A m, A, sh : Ok({}, m, {}, A, hs, sh) =>
         Ok({}, Destroy(m, New), {}, A, Gone(hs, New), Cleared(sh, New))
  BY <1>2, OkDestroy
<1>14. CASE fails = 1
  BY <1>1, <1>3, <1>4, <1>12, <1>14, StillEnd
<1>15. CASE fails = 2
  BY <1>3, <1>4, <1>6, <1>12, <1>15, StillEnd
<1>16. CASE fails = 3
  BY <1>3, <1>4, <1>8, <1>12, <1>13, <1>16, StillEnd
<1>17. CASE fails = 4
  BY <1>3, <1>4, <1>9, <1>12, <1>13, <1>17, StillEnd
<1>18. CASE fails = 5
  BY <1>3, <1>4, <1>11, <1>12, <1>13, <1>18, StillEnd
<1>19. CASE fails = 0
  <2> DEFINE v == [Effective(c) EXCEPT !.group = IF @ = Null THEN DefaultCurve ELSE @]
             hs3 == Gone(Born(hs, p), New)
  <2>1. v \in Params \cup {Null} /\ v.group = g /\ v.sbox = IF s = Null THEN DefaultSbox ELSE s
    BY <1>5, ParamAssumption DEF Effective, Params
  <2>2. Ok({p}, Assign(boxed, p), {}, A3, hs3, Moved(sh3, p))
    <3>1. Ok({p} \cup {}, Assign(boxed, p), {}, A3, hs3, Moved(sh3, p))
      BY <1>11, OkAssign
    <3> QED
      BY <3>1
  <2>3. hs3[p] /\ ~hs3[New]
    BY <1>4, StructNames DEF Gone, Born
  <2>4. Moved(sh3, p)[p]["group"] = g /\ Moved(sh3, p)[p]["sbox"] = s
    BY <1>11, StructNames DEF Moved
  <2>5. Leave(Assign(boxed, p)) /\ Due(p, v)
    BY <1>3, <1>19
  <2> HIDE DEF v, hs3, g, s
  <2>6. v # Null => /\ hs3[p] /\ v.group = Moved(sh3, p)[p]["group"]
                    /\ v.sbox = IF Moved(sh3, p)[p]["sbox"] = Null THEN DefaultSbox
                                ELSE Moved(sh3, p)[p]["sbox"]
    BY <2>1, <2>3, <2>4
  <2> QED
    BY <1>3, <2>1, <2>2, <2>3, <2>5, <2>6, MeantEnd
<1> QED
  BY <1>14, <1>15, <1>16, <1>17, <1>18, <1>19

LEMMA ReceiveKeeps ==
  ASSUME Inv, NEW g \in Curves, NEW s \in Sboxes \cup {Null},
         Receive([group |-> g, sbox |-> s])
  PROVE  Inv' /\ lost' = {}
BY DEF Receive, ghosts, Inv, Typed, WorksAsMeant, Effective

LEMMA ParamEncodeKeeps ==
  ASSUME Inv, NEW p \in PKeys, ParamEncode(p)
  PROVE  Inv' /\ lost' = {}
<1>1. /\ holds[p].group \in Curves /\ holds[p].sbox \in Sboxes \cup {Null}
  BY StructNames DEF ParamEncode, Inv, Typed
<1>2. wire' \in [group : Curves, sbox : Sboxes \cup {Null}]
  BY <1>1 DEF ParamEncode
<1> QED
  BY <1>2 DEF ParamEncode, ghosts, Inv, Typed, WorksAsMeant, Effective

LEMMA PkeyFreeKeeps ==
  ASSUME Inv, NEW p \in PKeys, PkeyFree(p)
  PROVE  Inv' /\ lost' = {}
<1>1. Ok({p}, Memory, {}, Names0, Has0, Holds0)
  BY OkMemory
<1>2. p \in Structs \ (PKeys \ {p})
  BY StructNames
<1>3. Ok({p}, Destroy(Memory, p), {}, Names0, Gone(Has0, p), Cleared(Holds0, p))
  BY <1>1, <1>2, OkDestroy
<1>4. ~Gone(Has0, p)[New]
  BY Starts, StructNames DEF Gone
<1> QED
  BY <1>3, <1>4, MeantEnd DEF PkeyFree, Undue

\* key_from_asn1: a new key with the parameters of the wire, or no key.
LEMMA KeyFromAsn1Is ==
  ASSUME NEW T \in SUBSET PKeys, NEW m, NEW A, NEW hs, NEW sh, Ok(T, m, {}, A, hs, sh), ~hs[New],
         <<New, "sbox", "copy">> \notin A, <<New, "group", "temp">> \notin A,
         <<New, "group", "copy">> \notin A,
         wire \in [group : Curves, sbox : Sboxes \cup {Null}],
         NEW fails \in 0 .. 5
  PROVE  \E A2, hs2, sh2 :
           /\ Ok(T, KeyFromAsn1(m, fails), {}, A2, hs2, sh2)
           /\ fails \in {0, 5} =>
                /\ hs2[New] /\ sh2[New]["group"] = wire.group
                /\ sh2[New]["sbox"] = IF wire.sbox = DefaultSbox THEN Null ELSE wire.sbox
           /\ fails \notin {0, 5} => ~hs2[New]
<1> DEFINE temp    == <<New, "group", "temp">>
           copy    == <<New, "group", "copy">>
           made    == Create(m, New)
           boxed   == IF wire.sbox \in {Null, DefaultSbox} THEN made
                      ELSE Copied(made, New, "sbox", wire.sbox)
           tempd   == Alloc(boxed, temp, wire.group)
           grouped == Copied(tempd, New, "group", wire.group)
           box     == IF wire.sbox = DefaultSbox THEN Null ELSE wire.sbox
           hs2     == Born(hs, New)
           A1      == A \cup {<<New, "sbox", "copy">>}
           A2      == A1 \cup {temp}
<1>1. /\ New \in Structs \ (PKeys \ T) /\ New \in Structs
      /\ "group" \in Fields /\ "sbox" \in Fields
      /\ <<New, "sbox", "copy">> \in Blocks
      /\ temp \in Blocks /\ temp \notin A1 /\ copy \notin A2
      /\ wire.group \in Curves /\ wire.group # Null /\ wire.sbox \in Sboxes \cup {Null}
      /\ ({} \cup {temp}) \ {temp} = {} /\ temp \in {} \cup {temp}
  BY StructNames, ParamAssumption
<1>2. hs2[New] /\ ~Gone(hs2, New)[New]
  BY <1>1 DEF Born, Gone
<1>3. KeyFromAsn1(m, fails) =
        CASE fails = 1 -> m
          [] fails = 2 -> Destroy(made, New)
          [] fails = 3 -> Destroy(boxed, New)
          [] fails = 4 -> Destroy(Free(tempd, temp), New)
          [] OTHER     -> Free(grouped, temp)
  BY DEF KeyFromAsn1
<1> HIDE DEF hs2
<1>4. Ok(T, made, {}, A, hs2, sh)
  BY <1>1, OkCreate DEF hs2
<1>5. sh[New]["sbox"] = Null
  BY <1>1, OkGone
<1> HIDE DEF made
<1>6. PICK sh1 : Ok(T, boxed, {}, A1, hs2, sh1) /\ sh1[New]["sbox"] = box
  <2>1. CASE wire.sbox \in {Null, DefaultSbox}
    <3>1. Ok(T, made, {}, A1, hs2, sh)
      BY <1>1, <1>4, OkNames
    <3> QED
      BY <1>5, <2>1, <3>1
  <2>2. CASE wire.sbox \notin {Null, DefaultSbox}
    <3> DEFINE s == wire.sbox
    <3>1. s \in Sboxes /\ box = s
      BY <1>1, <2>2
    <3> HIDE DEF s, box
    <3>2. Ok(T, Copied(made, New, "sbox", s), {}, A1, hs2, Put(sh, New, "sbox", s))
      BY <1>1, <1>2, <1>4, <3>1, OkSbox
    <3>3. Put(sh, New, "sbox", s)[New]["sbox"] = s
      BY <1>1 DEF Put
    <3> QED
      BY <2>2, <3>1, <3>2, <3>3 DEF s
  <2> QED
    BY <2>1, <2>2
<1> HIDE DEF boxed, A1, temp, box
<1>7. Ok(T, tempd, {} \cup {temp}, A2, hs2, sh1)
  BY <1>1, <1>6, OkAlloc
<1> HIDE DEF tempd, A2
<1> DEFINE g   == wire.group
           sh2 == Put(sh1, New, "group", g)
<1>8. /\ Ok(T, grouped, {} \cup {temp}, A2 \cup {copy}, hs2, sh2)
      /\ sh2[New]["group"] = wire.group /\ sh2[New]["sbox"] = box
  <2>1. g \in Curves
    BY <1>1
  <2>2. sh2[New]["group"] = g /\ sh2[New]["sbox"] = box
    BY <1>1, <1>6 DEF Put
  <2> HIDE DEF g
  <2> DEFINE Y == {} \cup {temp}
  <2>3. Ok(T, tempd, Y, A2, hs2, sh1)
    BY <1>7
  <2> HIDE DEF Y
  <2>4. Ok(T, Copied(tempd, New, "group", g), Y, A2 \cup {copy}, hs2, sh2)
    BY <1>1, <1>2, <2>1, <2>3, OkGroup
  <2> QED
    BY <2>2, <2>4 DEF g, Y
<1> HIDE DEF grouped, sh2, copy
<1>9. \A n, B, z : Ok(T, n, {} \cup {temp}, B, hs2, z) => Ok(T, Free(n, temp), {}, B, hs2, z)
  BY <1>1, OkFree
<1>10. \A n, B, z : Ok(T, n, {}, B, hs2, z) =>
         Ok(T, Destroy(n, New), {}, B, Gone(hs2, New), Cleared(z, New))
  BY <1>1, OkDestroy
<1>11. CASE fails = 1
  BY <1>3, <1>11
<1>12. CASE fails = 2
  BY <1>2, <1>3, <1>4, <1>10, <1>12
<1>13. CASE fails = 3
  BY <1>2, <1>3, <1>6, <1>10, <1>13
<1>14. CASE fails = 4
  BY <1>2, <1>3, <1>7, <1>9, <1>10, <1>14
<1>15. CASE fails \in {0, 5}
  BY <1>2, <1>3, <1>8, <1>9, <1>15, SMTT(30) DEF box
<1> QED
  BY <1>11, <1>12, <1>13, <1>14, <1>15

\* dstu_asn1_param_decode, from a memory without a new key.
LEMMA ParamDecodedIs ==
  ASSUME NEW T \in SUBSET PKeys, NEW m, NEW hs, NEW sh, Ok(T, m, {}, Names0, hs, sh), ~hs[New],
         NEW p \in PKeys,
         wire \in [group : Curves, sbox : Sboxes \cup {Null}], NEW fails \in 0 .. 5
  PROVE  \E A2, hs2, sh2 :
           /\ ~hs2[New]
           /\ fails # 0 => Ok(T, ParamDecoded(m, p, fails), {}, A2, hs2, sh2)
           /\ fails = 0 =>
                /\ Ok({p} \cup T, ParamDecoded(m, p, fails), {}, A2, hs2, sh2)
                /\ hs2[p] /\ sh2[p]["group"] = wire.group
                /\ sh2[p]["sbox"] = IF wire.sbox = DefaultSbox THEN Null ELSE wire.sbox
<1> DEFINE key == KeyFromAsn1(m, fails)
<1>1. /\ <<New, "sbox", "copy">> \notin Names0 /\ <<New, "group", "temp">> \notin Names0
      /\ <<New, "group", "copy">> \notin Names0
      /\ New \in Structs \ (PKeys \ T) /\ New \in Structs /\ p \in Structs /\ p # New
      /\ "group" \in Fields /\ "sbox" \in Fields
  BY StructNames
<1>2. PICK A2, hs2, sh2 :
        /\ Ok(T, key, {}, A2, hs2, sh2)
        /\ fails \in {0, 5} =>
             /\ hs2[New] /\ sh2[New]["group"] = wire.group
             /\ sh2[New]["sbox"] = IF wire.sbox = DefaultSbox THEN Null ELSE wire.sbox
        /\ fails \notin {0, 5} => ~hs2[New]
  BY <1>1, KeyFromAsn1Is
<1>3. ParamDecoded(m, p, fails) = CASE fails = 0 -> Assign(key, p)
                                    [] fails = 5 -> Destroy(key, New)
                                    [] OTHER     -> key
  BY DEF ParamDecoded
<1> HIDE DEF key
<1>4. CASE fails = 0
  <2>1. Ok({p} \cup T, Assign(key, p), {}, A2, Gone(Born(hs2, p), New), Moved(sh2, p))
    BY <1>2, OkAssign
  <2>2. /\ Gone(Born(hs2, p), New)[p] /\ ~Gone(Born(hs2, p), New)[New]
        /\ Moved(sh2, p)[p]["group"] = sh2[New]["group"]
        /\ Moved(sh2, p)[p]["sbox"] = sh2[New]["sbox"]
    BY <1>1 DEF Gone, Born, Moved
  <2>3. Ok({p} \cup T, ParamDecoded(m, p, fails), {}, A2, Gone(Born(hs2, p), New), Moved(sh2, p))
    BY <1>3, <1>4, <2>1
  <2>4. /\ Moved(sh2, p)[p]["group"] = wire.group
        /\ Moved(sh2, p)[p]["sbox"] = IF wire.sbox = DefaultSbox THEN Null ELSE wire.sbox
    BY <1>2, <1>4, <2>2
  <2> QED
    BY <1>4, <2>2, <2>3, <2>4
<1>5. CASE fails = 5
  <2>1. Ok(T, Destroy(key, New), {}, A2, Gone(hs2, New), Cleared(sh2, New))
    BY <1>1, <1>2, OkDestroy
  <2>2. ~Gone(hs2, New)[New]
    BY <1>1 DEF Gone
  <2> QED
    BY <1>3, <1>5, <2>1, <2>2
<1>6. CASE fails \notin {0, 5}
  BY <1>2, <1>3, <1>6
<1> QED
  BY <1>4, <1>5, <1>6

LEMMA WireIs ==
  ASSUME Inv, wire # Null
  PROVE  /\ wire \in [group : Curves, sbox : Sboxes \cup {Null}]
         /\ WireParams \in Params /\ WireParams.group = wire.group
         /\ WireParams.sbox = IF wire.sbox = Null THEN DefaultSbox ELSE wire.sbox
<1>1. wire \in [group : Curves, sbox : Sboxes \cup {Null}]
  BY DEF Inv, Typed
<1>2. WireParams = [group |-> wire.group,
                    sbox |-> IF wire.sbox = Null THEN DefaultSbox ELSE wire.sbox]
  BY <1>1 DEF WireParams
<1>3. WireParams.group \in Curves /\ WireParams.sbox \in Sboxes
  BY <1>1, <1>2, ParamAssumption
<1> QED
  BY <1>1, <1>2, <1>3 DEF Params

LEMMA ParamDecodeKeeps ==
  ASSUME Inv, NEW p \in PKeys, NEW fails \in 0 .. 5, ParamDecode(p, fails)
  PROVE  Inv' /\ lost' = {}
<1>1. Ok({}, Memory, {}, Names0, Has0, Holds0) /\ ~Has0[New]
  BY OkMemory, Starts
<1>2. /\ wire # Null /\ Leave(ParamDecoded(Memory, p, fails)) /\ wire' = wire
      /\ IF fails = 0 THEN Due(p, WireParams) ELSE UNCHANGED ghosts
  BY DEF ParamDecode
<1>3. PICK A2, hs2, sh2 :
        /\ ~hs2[New]
        /\ fails # 0 => Ok({}, ParamDecoded(Memory, p, fails), {}, A2, hs2, sh2)
        /\ fails = 0 =>
             /\ Ok({p}, ParamDecoded(Memory, p, fails), {}, A2, hs2, sh2)
             /\ hs2[p] /\ sh2[p]["group"] = wire.group
             /\ sh2[p]["sbox"] = IF wire.sbox = DefaultSbox THEN Null ELSE wire.sbox
  <2> DEFINE T == {}
             m == Memory
  <2>1. T \in SUBSET PKeys /\ Ok(T, m, {}, Names0, Has0, Holds0)
    BY <1>1
  <2> HIDE DEF T, m
  <2>2. PICK A2, hs2, sh2 :
          /\ ~hs2[New]
          /\ fails # 0 => Ok(T, ParamDecoded(m, p, fails), {}, A2, hs2, sh2)
          /\ fails = 0 =>
               /\ Ok({p} \cup T, ParamDecoded(m, p, fails), {}, A2, hs2, sh2)
               /\ hs2[p] /\ sh2[p]["group"] = wire.group
               /\ sh2[p]["sbox"] = IF wire.sbox = DefaultSbox THEN Null ELSE wire.sbox
    BY <1>1, <1>2, <2>1, WireIs, ParamDecodedIs
  <2>3. {p} \cup T = {p}
    BY DEF T
  <2> WITNESS A2, hs2, sh2
  <2> QED
    BY <2>2, <2>3 DEF T, m
<1>4. CASE fails = 0
  <2> DEFINE v == WireParams
  <2>1. /\ v \in Params \cup {Null} /\ Due(p, v)
        /\ v.group = sh2[p]["group"]
        /\ v.sbox = IF sh2[p]["sbox"] = Null THEN DefaultSbox ELSE sh2[p]["sbox"]
    BY <1>2, <1>3, <1>4, WireIs, ParamAssumption
  <2> HIDE DEF v
  <2> QED
    BY <1>2, <1>3, <1>4, <2>1, MeantEnd
<1>5. CASE fails # 0
  BY <1>2, <1>3, <1>5, StillEnd
<1> QED
  BY <1>4, <1>5

LEMMA KeyDecodeKeeps ==
  ASSUME Inv, NEW p \in PKeys, NEW fails \in 0 .. 5, KeyDecode(p, fails)
  PROVE  Inv' /\ lost' = {}
<1> DEFINE m == Destroy(Memory, p)
           hs == Gone(Has0, p)
           sh == Cleared(Holds0, p)
           T == {p}
           v == IF fails = 0 THEN WireParams ELSE Null
<1>1. Ok(T, m, {}, Names0, hs, sh) /\ ~hs[New]
  <2>1. p \in Structs \ (PKeys \ T) /\ New \in Structs
    BY StructNames
  <2>2. Ok(T, Memory, {}, Names0, Has0, Holds0)
    BY OkMemory
  <2> QED
    BY <2>1, <2>2, OkDestroy, Starts DEF Gone
<1>2. /\ wire # Null /\ Leave(ParamDecoded(m, p, fails)) /\ wire' = wire
      /\ Due(p, v)
  BY DEF KeyDecode
<1> HIDE DEF m, hs, sh
<1>3. PICK A2, hs2, sh2 :
        /\ ~hs2[New]
        /\ Ok(T, ParamDecoded(m, p, fails), {}, A2, hs2, sh2)
        /\ fails = 0 =>
             /\ hs2[p] /\ sh2[p]["group"] = wire.group
             /\ sh2[p]["sbox"] = IF wire.sbox = DefaultSbox THEN Null ELSE wire.sbox
  <2>1. {p} \cup T = T /\ T \in SUBSET PKeys
    OBVIOUS
  <2> HIDE DEF T
  <2> QED
    BY <1>1, <1>2, <2>1, WireIs, ParamDecodedIs
<1>4. /\ v \in Params \cup {Null}
      /\ v # Null => /\ hs2[p] /\ v.group = sh2[p]["group"]
                     /\ v.sbox = IF sh2[p]["sbox"] = Null THEN DefaultSbox ELSE sh2[p]["sbox"]
  BY <1>2, <1>3, WireIs, ParamAssumption
<1> HIDE DEF v
<1> QED
  BY <1>2, <1>3, <1>4, MeantEnd

\* A pointer is overwritten: what was there has no pointer any more.
LEMMA PointIs ==
  ASSUME NEW m, NEW W, NEW A, NEW hs, NEW sh, Is(m, W, A, hs, sh),
         NEW h \in Structs, NEW f \in Fields, hs[h], NEW x, x = Null \/ x \in W
  PROVE  Is([m EXCEPT !.ptr[h][f] = x],
            (W \ {x}) \cup ({m.ptr[h][f]} \ {Null}), A, hs,
            Put(sh, h, f, IF x = Null THEN Null ELSE m.block[x]))
<1> DEFINE o == m.ptr[h][f]
           c == IF x = Null THEN Null ELSE m.block[x]
           Y == (W \ {x}) \cup ({o} \ {Null})
           n == [m EXCEPT !.ptr[h][f] = x]
<1>0. /\ IsMem(m) /\ Null \notin DOMAIN m.block /\ x \in Blocks \cup {Null}
      /\ x # Null => x \in DOMAIN m.block /\ x # o
      /\ o # Null => o \in DOMAIN m.block \ W
      /\ \A k \in Structs, g \in Fields : x # Null => m.ptr[k][g] # x
  BY ParamAssumption DEF Is
<1>1. /\ n = [has |-> n.has, ptr |-> n.ptr, block |-> n.block, fault |-> n.fault]
      /\ n.has = m.has /\ n.fault = m.fault /\ n.block = m.block
      /\ n.ptr = [m.ptr EXCEPT ![h][f] = x]
  <2>1. n = [m EXCEPT !.ptr = [m.ptr EXCEPT ![h][f] = x]]
    OBVIOUS
  <2> HIDE DEF n
  <2> QED
    BY <1>0, <2>1 DEF IsMem
<1> HIDE DEF n
<1>2. n.ptr \in [Structs -> [Fields -> Blocks \cup {Null}]]
  BY <1>0, <1>1 DEF IsMem
<1>3. \A k \in Structs, g \in Fields :
        n.ptr[k][g] = IF k = h /\ g = f THEN x ELSE m.ptr[k][g]
  BY <1>0, <1>1 DEF IsMem
<1>4. \A k \in Structs, g \in Fields :
        ~(k = h /\ g = f) => m.ptr[k][g] = Null \/ m.ptr[k][g] # o
  BY DEF Is
<1>5. \A k \in Structs, g \in Fields : n.ptr[k][g] # Null => n.ptr[k][g] \in DOMAIN n.block \ Y
  <2>1. SUFFICES ASSUME NEW k \in Structs, NEW g \in Fields, n.ptr[k][g] # Null
                 PROVE  n.ptr[k][g] \in DOMAIN m.block \ Y
    BY <1>1
  <2>2. CASE k = h /\ g = f
    BY <1>0, <1>3, <2>1, <2>2
  <2>3. CASE ~(k = h /\ g = f)
    <3>1. n.ptr[k][g] = m.ptr[k][g] /\ m.ptr[k][g] # o
      BY <1>3, <1>4, <2>1, <2>3
    <3>2. m.ptr[k][g] \in DOMAIN m.block \ W
      BY <2>1, <3>1 DEF Is
    <3> QED
      BY <3>1, <3>2
  <2> QED
    BY <2>2, <2>3
<1>6. \A y \in DOMAIN n.block \ Y : \E k \in Structs, g \in Fields : n.ptr[k][g] = y
  <2>1. SUFFICES ASSUME NEW y \in DOMAIN m.block \ Y, y # x
                 PROVE  \E k \in Structs, g \in Fields : n.ptr[k][g] = y
    BY <1>1, <1>3
  <2>2. y \notin W /\ y # o
    BY <1>0, <2>1
  <2>3. PICK k \in Structs, g \in Fields : m.ptr[k][g] = y
    BY <2>2 DEF Is
  <2> QED
    BY <1>3, <2>2, <2>3
<1>7. \A k, l \in Structs, g, j \in Fields :
        n.ptr[k][g] # Null /\ n.ptr[k][g] = n.ptr[l][j] => k = l /\ g = j
  BY <1>0, <1>3 DEF Is
<1>8. \A k \in Structs, g \in Fields :
        Put(sh, h, f, c)[k][g] = IF n.ptr[k][g] = Null THEN Null ELSE n.block[n.ptr[k][g]]
  BY <1>1, <1>3 DEF Is, Put
<1>9. \A k \in Structs : ~hs[k] => n.ptr[k] = Nothing
  BY <1>0, <1>1 DEF Is, IsMem
<1>10. IsMem(n) /\ ~n.fault /\ n.has = hs
  BY <1>1, <1>2 DEF Is, IsMem
<1>11. /\ Y \subseteq DOMAIN n.block /\ DOMAIN n.block \subseteq A /\ A \subseteq Blocks
       /\ \A y \in DOMAIN n.block : n.block[y] # Null
  BY <1>0, <1>1 DEF Is
<1> HIDE DEF Y, c
<1>12. Is(n, Y, A, hs, Put(sh, h, f, c))
  BY <1>5, <1>6, <1>7, <1>8, <1>9, <1>10, <1>11 DEF Is
<1> QED
  BY <1>12 DEF n, Y, c, o

\* What was there is freed and nothing takes its place.
LEMMA SetNullIs ==
  ASSUME NEW m, NEW W, NEW A, NEW hs, NEW sh, Is(m, W, A, hs, sh),
         NEW h \in Structs, NEW f \in Fields, hs[h]
  PROVE  Is(Set(m, h, f, Null), W, A, hs, Put(sh, h, f, Null))
<1> DEFINE o == m.ptr[h][f]
           n == [m EXCEPT !.ptr[h][f] = Null]
           V == W \cup ({o} \ {Null})
<1>1. Is(n, (W \ {Null}) \cup ({o} \ {Null}), A, hs, Put(sh, h, f, Null))
  BY PointIs
<1>2. Null \notin DOMAIN m.block /\ Null \notin W /\ IsMem(m)
      /\ (o # Null => o \in DOMAIN m.block \ W)
  BY ParamAssumption DEF Is
<1>3. Is(n, V, A, hs, Put(sh, h, f, Null))
  <2>1. (W \ {Null}) \cup ({o} \ {Null}) = V
    BY <1>2
  <2> QED
    BY <1>1, <2>1
<1>4. n.block = m.block /\ n = [m EXCEPT !.ptr = [m.ptr EXCEPT ![h][f] = Null]]
  BY <1>2 DEF IsMem
<1>5. CASE o = Null
  <2>1. Free(m, o) = m
    BY <1>2, <1>5 DEF Free
  <2>2. Set(m, h, f, Null) = n
    BY <2>1 DEF Set
  <2>3. V = W
    BY <1>5
  <2> QED
    BY <1>3, <2>2, <2>3
<1>6. CASE o # Null
  <2>1. Free(m, o) = [m EXCEPT !.block = Restrict(@, DOMAIN @ \ {o})]
    BY <1>2, <1>6 DEF Free
  <2>2. Free(n, o) = [n EXCEPT !.block = Restrict(@, DOMAIN @ \ {o})]
    BY <1>2, <1>4, <1>6 DEF Free
  <2> DEFINE b == Restrict(m.block, DOMAIN m.block \ {o})
             q == [m.ptr EXCEPT ![h][f] = Null]
             r == Free(m, o)
  <2>3. Set(m, h, f, Null) = [has |-> m.has, ptr |-> q, block |-> b, fault |-> m.fault]
    <3>1. Set(m, h, f, Null) = [r EXCEPT !.ptr = [r.ptr EXCEPT ![h][f] = Null]]
      BY DEF Set
    <3>2. r = [m EXCEPT !.block = b]
      BY <2>1
    <3> HIDE DEF r, b
    <3>3. r = [has |-> m.has, ptr |-> m.ptr, block |-> b, fault |-> m.fault]
      BY <1>2, <3>2 DEF IsMem
    <3> QED
      BY <3>1, <3>3
  <2>4. Free(n, o) = [has |-> m.has, ptr |-> q, block |-> b, fault |-> m.fault]
    <3>1. n = [has |-> m.has, ptr |-> q, block |-> m.block, fault |-> m.fault]
      <4>1. n = [m EXCEPT !.ptr = q]
        BY <1>4
      <4> HIDE DEF n, q
      <4> QED
        BY <1>2, <4>1 DEF IsMem
    <3> HIDE DEF b, q, n
    <3> QED
      BY <2>2, <3>1 DEF b
  <2>5. o \in V /\ V \ {o} = W
    BY <1>2, <1>6
  <2> HIDE DEF n, o, V
  <2>6. Is(Free(n, o), V \ {o}, A, hs, Put(sh, h, f, Null))
    BY <1>3, <2>5, FreeIs
  <2> QED
    BY <2>3, <2>4, <2>5, <2>6
<1> QED
  BY <1>5, <1>6

\* The end of a copy of parameters to a key p, which keeps the sbox p has if
\* there is none to copy.
LEMMA CopyEnd ==
  ASSUME Inv, NEW p \in PKeys, NEW m, NEW W, NEW A, NEW hs, NEW sh,
         Ok({p}, m, W, A, hs, sh), Leave(m), ~hs[New], wire' = wire,
         NEW v \in Params \cup {Null}, meant' = [meant EXCEPT ![p] = v],
         stale \ {p} \subseteq stale', stale' \subseteq PKeys,
         p \notin stale' /\ v # Null =>
           /\ hs[p] /\ v.group = sh[p]["group"]
           /\ v.sbox = IF sh[p]["sbox"] = Null THEN DefaultSbox ELSE sh[p]["sbox"]
  PROVE  Inv' /\ (W = {} => lost' = {})
<1> DEFINE T == {p}
<1>1. /\ meant' \in [PKeys -> Params \cup {Null}]
      /\ \A q \in PKeys \ T : meant'[q] = meant[q] /\ (q \in stale => q \in stale')
      /\ meant'[p] = v
  BY DEF Inv, Typed
<1>2. v # Null => v = [group |-> v.group, sbox |-> v.sbox]
  BY DEF Params
<1>3. p \notin stale' /\ v # Null =>
        v = [group |-> sh[p]["group"],
             sbox |-> IF sh[p]["sbox"] = Null THEN DefaultSbox ELSE sh[p]["sbox"]]
  BY <1>2
<1>4. Is(m, W, A, hs, sh) /\ Proper(sh) /\ Spares(T, hs, sh)
  BY DEF Ok
<1>5. Untouched(T, hs, sh)
  BY <1>1, <1>4 DEF Spares, Untouched
<1>6. Right(T, hs, sh)
  BY <1>1, <1>3 DEF Right
<1>7. T \in SUBSET PKeys
  OBVIOUS
<1> HIDE DEF T
<1> QED
  BY <1>1, <1>4, <1>5, <1>6, <1>7, StepEnd

\* A copy of parameters leaks the sbox it overwrites, and nothing else.
LEMMA ParamCopyKeeps ==
  ASSUME Inv, NEW p \in PKeys, NEW q \in PKeys, NEW fails \in 0 .. 3, ParamCopy(p, q, fails)
  PROVE  /\ Inv'
         /\ lost' # {} => holds[p].sbox # Null /\ holds[q].sbox # Null /\ fails \in {0, 3}
<1> DEFINE made    == IF has[p] THEN Memory ELSE Create(Memory, p)
           g       == holds[q].group
           s       == holds[q].sbox
           bare    == Set(made, p, "group", Null)
           grouped == Copied(made, p, "group", g)
           x       == <<p, "sbox", "copy">>
           alloced == Alloc(grouped, x, s)
           boxed   == IF s = Null THEN grouped ELSE [alloced EXCEPT !.ptr[p].sbox = x]
           unboxed == IF s = Null THEN grouped ELSE [grouped EXCEPT !.ptr[p].sbox = Null]
           hs      == Born(Has0, p)
           A1      == Names0 \cup {<<p, "group", "copy">>}
           sh1     == Put(Holds0, p, "group", g)
           T       == {p}
<1>1. Ok({}, Memory, {}, Names0, Has0, Holds0) /\ Ok(T, Memory, {}, Names0, Has0, Holds0)
  BY OkMemory
<1>2. /\ p \in Structs \ (PKeys \ T) /\ p \in Structs /\ p \in Holders /\ q \in Holders /\ p # New
      /\ "group" \in Fields /\ "sbox" \in Fields
      /\ <<p, "group", "copy">> \notin Names0 /\ x \in Blocks /\ x \notin A1
  BY StructNames
<1>3. /\ p # q /\ g \in Curves /\ s \in Sboxes \cup {Null} /\ wire' = wire
      /\ Leave(CASE fails = 1 -> Memory
                 [] fails = 2 -> bare
                 [] fails = 3 -> unboxed
                 [] OTHER     -> boxed)
      /\ fails = 0 => /\ meant' = [meant EXCEPT ![p] = Effective(q)]
                      /\ stale' = IF s = Null /\ holds[p].sbox # Null
                                  THEN stale \cup {p} ELSE stale \ {p}
      /\ fails \in {2, 3} => Due(p, Null)
      /\ fails = 1 => UNCHANGED ghosts
  BY <1>2 DEF ParamCopy, Undue, Inv, Typed
<1>4. Ok(T, made, {}, Names0, hs, Holds0) /\ hs[p] /\ ~hs[New] /\ ~Has0[New]
  <2>1. hs[p] /\ ~hs[New] /\ ~Has0[New]
    BY <1>2, Starts, StructNames DEF Born
  <2>2. CASE has[p]
    <3>1. hs = Has0
      BY <1>2, <2>2, Starts DEF Born
    <3> HIDE DEF hs
    <3> QED
      BY <1>1, <2>1, <2>2, <3>1
  <2>3. CASE ~has[p]
    <3>1. ~Has0[p]
      BY <1>2, <2>3, Starts
    <3>2. Ok(T, Create(Memory, p), {}, Names0, hs, Holds0)
      BY <1>1, <1>2, <3>1, OkCreate
    <3> HIDE DEF hs
    <3> QED
      BY <2>1, <2>3, <3>2
  <2> QED
    BY <2>2, <2>3
<1> HIDE DEF hs, T, made
<1> DEFINE sh0 == Put(Holds0, p, "group", Null)
<1>13. Ok(T, bare, {}, Names0, hs, sh0)
  <2>1. Is(bare, {}, Names0, hs, sh0)
    BY <1>2, <1>4, SetNullIs DEF Ok
  <2>2. Proper(sh0) /\ Spares(T, hs, sh0)
    <3>1. Proper(Holds0) /\ Spares(T, hs, Holds0)
      BY <1>4 DEF Ok
    <3>2. \A h \in Structs : /\ sh0[h]["group"] = IF h = p THEN Null ELSE Holds0[h]["group"]
                             /\ sh0[h]["sbox"] = Holds0[h]["sbox"]
      BY <1>2 DEF Put
    <3>3. \A h \in PKeys \ T : h # p /\ h \in Structs
      BY StructNames DEF T
    <3> HIDE DEF sh0
    <3> QED
      BY <3>1, <3>2, <3>3 DEF Proper, Spares
  <2> QED
    BY <2>1, <2>2 DEF Ok
<1> HIDE DEF bare, sh0
<1>5. Ok(T, grouped, {}, A1, hs, sh1)
  <2> HIDE DEF g
  <2> QED
    BY <1>2, <1>3, <1>4, OkGroup
<1>6. /\ sh1[p]["group"] = g /\ sh1[p]["sbox"] = holds[p].sbox
      /\ grouped.ptr[p]["sbox"] = Null <=> holds[p].sbox = Null
  <2>1. Holds0[p]["sbox"] = holds[p].sbox
    BY <1>2, Starts
  <2>2. sh1[p]["group"] = g /\ sh1[p]["sbox"] = Holds0[p]["sbox"]
    BY <1>2 DEF Put
  <2> HIDE DEF sh1, grouped
  <2> QED
    BY <1>2, <1>5, <2>1, <2>2, OkValue DEF Missing
<1> DEFINE old == {grouped.ptr[p]["sbox"]} \ {Null}
<1>7. old # {} => holds[p].sbox # Null
  BY <1>6
<1> HIDE DEF grouped, A1, sh1, old, x
<1>8. CASE fails = 1
  <2>1. Leave(Memory) /\ UNCHANGED <<wire, ghosts>>
    BY <1>3, <1>8
  <2>2. Inv' /\ lost' = {}
    BY <1>1, <1>4, <2>1, StillEnd
  <2> QED
    BY <2>2
<1>9. CASE fails = 2
  <2>1. Leave(bare) /\ Due(p, Null) /\ Null \in Params \cup {Null}
    BY <1>3, <1>9
  <2> DEFINE v == Null
  <2>2. Due(p, v) /\ v \in Params \cup {Null} /\ v = Null
    BY <2>1
  <2> HIDE DEF v
  <2>3. Inv' /\ lost' = {}
    BY <1>3, <1>4, <1>13, <2>1, <2>2, MeantEnd DEF T
  <2> QED
    BY <2>3
<1>10. CASE fails = 3
  <2>1. PICK W2, sh2 : Ok(T, unboxed, W2, A1, hs, sh2) /\ (s = Null => W2 = {}) /\ (W2 # {} => old # {})
    <3>1. CASE s = Null
      BY <1>5, <3>1
    <3>2. CASE s # Null
      <4>1. Is([grouped EXCEPT !.ptr[p]["sbox"] = Null], ({} \ {Null}) \cup old, A1, hs,
               Put(sh1, p, "sbox", Null))
        BY <1>2, <1>4, <1>5, PointIs DEF Ok, old
      <4> DEFINE sh2 == Put(sh1, p, "sbox", Null)
      <4>2. Proper(sh2) /\ Spares(T, hs, sh2)
        <5>1. Proper(sh1) /\ Spares(T, hs, sh1)
          BY <1>5 DEF Ok
        <5>2. \A h \in Structs : /\ sh2[h]["group"] = sh1[h]["group"]
                                 /\ sh2[h]["sbox"] = IF h = p THEN Null ELSE sh1[h]["sbox"]
          BY <1>2 DEF Put
        <5>3. \A h \in PKeys \ T : h # p /\ h \in Structs
          BY StructNames DEF T
        <5> HIDE DEF sh2
        <5> QED
          BY <5>1, <5>2, <5>3 DEF Proper, Spares
      <4>3. ({} \ {Null}) \cup old = old
        OBVIOUS
      <4> HIDE DEF sh2
      <4>4. Ok(T, unboxed, old, A1, hs, sh2)
        BY <3>2, <4>1, <4>2, <4>3 DEF Ok, sh2
      <4> QED
        BY <3>2, <4>4
    <3> QED
      BY <3>1, <3>2
  <2> HIDE DEF unboxed
  <2>2. Leave(unboxed) /\ Due(p, Null)
    BY <1>3, <1>10
  <2>3. Inv' /\ (W2 = {} => lost' = {})
    BY <1>3, <1>4, <2>1, <2>2, MeantEnd DEF T
  <2> QED
    BY <1>7, <1>10, <2>1, <2>3
<1>11. CASE fails = 0
  <2>1. PICK W2, A2, sh2 :
          /\ Ok(T, boxed, W2, A2, hs, sh2) /\ (s = Null => W2 = {}) /\ (W2 # {} => old # {})
          /\ sh2[p]["group"] = g
          /\ sh2[p]["sbox"] = IF s = Null THEN holds[p].sbox ELSE s
    <3>1. CASE s = Null
      BY <1>5, <1>6, <3>1
    <3>2. CASE s # Null
      <4> HIDE DEF s
      <4>1. Is(alloced, {} \cup {x}, A1 \cup {x}, hs, sh1)
        BY <1>2, <1>5, <3>2, AllocIs DEF Ok
      <4>2. alloced.ptr = grouped.ptr /\ alloced.block[x] = s
        <5>1. alloced = [grouped EXCEPT !.block = [y \in DOMAIN grouped.block \cup {x} |->
                                                     IF y = x THEN s ELSE grouped.block[y]]]
          BY DEF Alloc
        <5>2. IsMem(grouped)
          BY <1>5 DEF Ok, Is
        <5> HIDE DEF alloced
        <5> QED
          BY <5>1, <5>2 DEF IsMem
      <4>3. x # Null
        BY <1>2, ParamAssumption
      <4> HIDE DEF alloced
      <4> DEFINE sh2 == Put(sh1, p, "sbox", s)
                 n   == [alloced EXCEPT !.ptr[p]["sbox"] = x]
      <4>4. Is(n, (({} \cup {x}) \ {x}) \cup old, A1 \cup {x}, hs, sh2)
        <5>1. Is(n, (({} \cup {x}) \ {x}) \cup ({alloced.ptr[p]["sbox"]} \ {Null}), A1 \cup {x}, hs,
                 Put(sh1, p, "sbox", IF x = Null THEN Null ELSE alloced.block[x]))
          <6> DEFINE Z == {} \cup {x}
          <6>1. x \in Z
            OBVIOUS
          <6> HIDE DEF Z
          <6> QED
            BY <1>2, <1>4, <4>1, <6>1, PointIs DEF Z
        <5> QED
          BY <4>2, <4>3, <5>1 DEF old
      <4>5. Proper(sh2) /\ Spares(T, hs, sh2) /\ sh2[p]["group"] = g /\ sh2[p]["sbox"] = s
        <5>1. Proper(sh1) /\ Spares(T, hs, sh1)
          BY <1>5 DEF Ok
        <5>2. \A h \in Structs : /\ sh2[h]["group"] = sh1[h]["group"]
                                 /\ sh2[h]["sbox"] = IF h = p THEN s ELSE sh1[h]["sbox"]
          BY <1>2 DEF Put
        <5>3. \A h \in PKeys \ T : h # p /\ h \in Structs
          BY StructNames DEF T
        <5> HIDE DEF sh2
        <5> QED
          BY <1>2, <1>3, <1>6, <5>1, <5>2, <5>3 DEF Proper, Spares
      <4>6. (({} \cup {x}) \ {x}) \cup old = old
        OBVIOUS
      <4>7. boxed = n
        BY <3>2
      <4> HIDE DEF sh2, n, boxed
      <4>8. Ok(T, boxed, old, A1 \cup {x}, hs, sh2)
        BY <4>4, <4>5, <4>6, <4>7 DEF Ok
      <4> QED
        BY <3>2, <4>5, <4>8
    <3> QED
      BY <3>1, <3>2
  <2> HIDE DEF boxed
  <2> DEFINE v == Effective(q)
  <2>2. v \in Params \cup {Null} /\ v.group = g
        /\ v.sbox = IF s = Null THEN DefaultSbox ELSE s
    BY <1>3, ParamAssumption DEF Effective, Params
  <2>3. /\ Leave(boxed) /\ meant' = [meant EXCEPT ![p] = v]
        /\ stale' = IF s = Null /\ holds[p].sbox # Null THEN stale \cup {p} ELSE stale \ {p}
    BY <1>3, <1>11
  <2>4. stale \subseteq PKeys
    BY DEF Inv, Typed
  <2> HIDE DEF v, g, s
  <2>5. /\ stale \ {p} \subseteq stale' /\ stale' \subseteq PKeys
        /\ p \notin stale' => ~(s = Null /\ holds[p].sbox # Null)
    BY <2>3, <2>4
  <2>6. p \notin stale' /\ v # Null =>
          /\ hs[p] /\ v.group = sh2[p]["group"]
          /\ v.sbox = IF sh2[p]["sbox"] = Null THEN DefaultSbox ELSE sh2[p]["sbox"]
    BY <1>4, <2>1, <2>2, <2>5
  <2>7. Inv' /\ (W2 = {} => lost' = {})
    BY <1>3, <1>4, <2>1, <2>2, <2>3, <2>5, <2>6, CopyEnd DEF T
  <2> QED
    BY <1>7, <1>11, <2>1, <2>7 DEF s
<1> QED
  BY <1>8, <1>9, <1>10, <1>11

\* makePKey leaks when there is no private key and when the key cannot be
\* completed, and never else.
LEMMA MakePKeyKeeps ==
  ASSUME Inv, NEW p \in PKeys, NEW g \in Curves, NEW fails \in 0 .. 6, MakePKey(p, g, fails)
  PROVE  Inv' /\ (lost' # {} => fails \in {1, 5})
<1> DEFINE temp  == <<New, "group", "temp">>
           res   == <<p, "pkey">>
           built == Alloc(Memory, temp, g)
           made  == Create(built, New)
           whole == Alloc(made, res, "EVP_PKEY")
           keyed == Copied(whole, New, "group", g)
           hs    == Born(Has0, New)
           A1    == Names0 \cup {temp}
           A2    == A1 \cup {res}
           A3    == A2 \cup {<<New, "group", "copy">>}
           W1    == {} \cup {temp}
           W2    == W1 \cup {res}
           sh    == Put(Holds0, New, "group", g)
           v     == [group |-> g, sbox |-> DefaultSbox]
<1>1. Ok({}, Memory, {}, Names0, Has0, Holds0)
  BY OkMemory
<1>2. /\ New \in Structs \ (PKeys \ {}) /\ New \in Structs /\ p \in Structs /\ p # New
      /\ "group" \in Fields /\ "sbox" \in Fields
      /\ temp \in Blocks /\ temp \notin Names0
      /\ res \in Blocks /\ res \notin A1 /\ <<New, "group", "copy">> \notin A2
      /\ g # Null /\ "EVP_PKEY" # Null
      /\ temp # res
  BY StructNames, ParamAssumption
<1>3. /\ W1 \ {temp} = {} /\ (W2 \ {res}) \ {temp} = {} /\ temp \in W1 /\ res \in W2
      /\ temp \in W2 /\ temp \in W2 \ {res}
  BY <1>2
<1>4. /\ ~Has0[New] /\ hs[New] /\ ~Gone(hs, New)[New]
      /\ Gone(Born(hs, p), New)[p] /\ ~Gone(Born(hs, p), New)[New]
  BY <1>2, Starts DEF Born, Gone
<1>5. /\ Leave(CASE fails = 1 -> built
                 [] fails = 2 -> Memory
                 [] fails = 3 -> Free(built, temp)
                 [] fails = 4 -> Free(Destroy(made, New), temp)
                 [] fails = 5 -> Free(Destroy(keyed, New), temp)
                 [] fails = 6 -> Free(Free(Destroy(keyed, New), res), temp)
                 [] OTHER     -> Free(Free(Assign(keyed, p), res), temp))
      /\ IF fails = 0 THEN Due(p, v) ELSE UNCHANGED ghosts
      /\ wire' = wire
  BY DEF MakePKey
<1> HIDE DEF temp, res, hs
<1>6. Ok({}, built, W1, A1, Has0, Holds0)
  BY <1>1, <1>2, OkAlloc
<1> HIDE DEF built, W1, A1
<1>7. Ok({}, made, W1, A1, hs, Holds0)
  BY <1>2, <1>4, <1>6, OkCreate DEF hs
<1> HIDE DEF made
<1>8. Ok({}, whole, W2, A2, hs, Holds0)
  BY <1>2, <1>7, OkAlloc
<1> HIDE DEF whole, W2, A2
<1>9. Ok({}, keyed, W2, A3, hs, sh)
  BY <1>2, <1>4, <1>8, OkGroup
<1>10. sh[New]["group"] = g /\ sh[New]["sbox"] = Null
  BY <1>2, Starts DEF Put
<1> HIDE DEF keyed, A3, sh
<1>11. fails # 0 => UNCHANGED <<wire, ghosts>>
  BY <1>5
\* What is lost besides may be anything.
<1>12. ASSUME NEW m, NEW W, NEW A, NEW zs, NEW z, Ok({}, m, W, A, zs, z), ~zs[New],
              Leave(m), fails # 0
       PROVE  Inv' /\ (W = {} => lost' = {})
  BY <1>11, <1>12, AnyEnd
<1>13. CASE fails = 1
  BY <1>4, <1>5, <1>6, <1>12, <1>13
<1>14. CASE fails = 2
  BY <1>1, <1>4, <1>5, <1>12, <1>14
<1>15. CASE fails = 3
  <2>1. Ok({}, Free(built, temp), W1 \ {temp}, A1, Has0, Holds0)
    BY <1>3, <1>6, OkFree
  <2> QED
    BY <1>3, <1>4, <1>5, <1>12, <1>15, <2>1
<1>16. CASE fails = 4
  <2> DEFINE m == Destroy(made, New)
  <2>1. Ok({}, m, W1, A1, Gone(hs, New), Cleared(Holds0, New))
    BY <1>2, <1>7, OkDestroy
  <2> HIDE DEF m
  <2>2. Ok({}, Free(m, temp), W1 \ {temp}, A1, Gone(hs, New), Cleared(Holds0, New))
    BY <1>3, <2>1, OkFree
  <2> QED
    BY <1>3, <1>4, <1>5, <1>12, <1>16, <2>2 DEF m
<1> DEFINE w == Destroy(keyed, New)
           zs == Gone(hs, New)
           z == Cleared(sh, New)
<1>17. Ok({}, w, W2, A3, zs, z) /\ ~zs[New]
  BY <1>2, <1>4, <1>9, OkDestroy
<1> HIDE DEF zs, z
<1>18. CASE fails = 5
  <2> HIDE DEF w
  <2>1. Ok({}, Free(w, temp), W2 \ {temp}, A3, zs, z)
    BY <1>3, <1>17, OkFree
  <2> QED
    BY <1>5, <1>12, <1>17, <1>18, <2>1 DEF w
<1>19. CASE fails = 6
  <2> HIDE DEF w
  <2> DEFINE m == Free(w, res)
  <2>1. Ok({}, m, W2 \ {res}, A3, zs, z)
    BY <1>3, <1>17, OkFree
  <2> HIDE DEF m
  <2>2. Ok({}, Free(m, temp), (W2 \ {res}) \ {temp}, A3, zs, z)
    BY <1>3, <2>1, OkFree
  <2> QED
    BY <1>3, <1>5, <1>12, <1>17, <1>19, <2>2 DEF w, m
<1>20. CASE fails = 0
  <2> DEFINE T == {p}
             ys == Gone(Born(hs, p), New)
             y == Moved(sh, p)
             a == Assign(keyed, p)
             m == Free(a, res)
  <2>1. Ok(T \cup {}, a, W2, A3, ys, y)
    BY <1>9, OkAssign
  <2>2. T \cup {} = T
    OBVIOUS
  <2>3. ys[p] /\ ~ys[New] /\ y[p]["group"] = g /\ y[p]["sbox"] = Null
    BY <1>2, <1>4, <1>10 DEF Moved
  <2>4. Leave(Free(m, temp)) /\ Due(p, v)
    BY <1>5, <1>20
  <2> HIDE DEF T, a, ys, y
  <2>5. Ok(T, m, W2 \ {res}, A3, ys, y)
    BY <1>3, <2>1, <2>2, OkFree
  <2> HIDE DEF m
  <2>6. Ok(T, Free(m, temp), (W2 \ {res}) \ {temp}, A3, ys, y)
    BY <1>3, <2>5, OkFree
  <2>7. Ok({p}, Free(m, temp), {}, A3, ys, y)
    BY <1>3, <2>6 DEF T
  <2>8. v \in Params \cup {Null} /\ v.group = g /\ v.sbox = DefaultSbox
    BY ParamAssumption DEF Params
  <2> HIDE DEF v
  <2>9. Inv' /\ lost' = {}
    BY <1>5, <2>3, <2>4, <2>7, <2>8, MeantEnd
  <2> QED
    BY <2>9
<1> QED
  BY <1>13, <1>14, <1>15, <1>16, <1>18, <1>19, <1>20

-----------------------------------------------------------------------------
(* Theorems                                                                *)

LEMMA InitParams == Init => Inv
<1>1. Init => Typed
  BY DEF Init, Typed, Nothing, Fields
<1>2. Init => WorksAsMeant
  BY DEF Init, WorksAsMeant
<1> QED
  BY <1>1, <1>2 DEF Init, Inv

\* A step keeps the invariant and leaks only where it is known to.
LEMMA NextParams ==
  ASSUME Inv, Next
  PROVE  /\ Inv'
         /\ lost' # {} =>
              \/ \E p \in PKeys, g \in Curves : MakePKey(p, g, 1) \/ MakePKey(p, g, 5)
              \/ \E p, q \in PKeys : /\ holds[p].sbox # Null /\ holds[q].sbox # Null
                                     /\ ParamCopy(p, q, 0) \/ ParamCopy(p, q, 3)
<1> DEFINE Leaks == \/ \E p \in PKeys, g \in Curves : MakePKey(p, g, 1) \/ MakePKey(p, g, 5)
                    \/ \E p, q \in PKeys : /\ holds[p].sbox # Null /\ holds[q].sbox # Null
                                           /\ ParamCopy(p, q, 0) \/ ParamCopy(p, q, 3)
<1> SUFFICES Inv' /\ (lost' # {} => Leaks)
  OBVIOUS
<1>1. ASSUME NEW c \in Ctxs, PkeyInit(c) PROVE Inv' /\ lost' = {}
  BY <1>1, PkeyInitKeeps
<1>2. ASSUME NEW c \in Ctxs, Cleanup(c) PROVE Inv' /\ lost' = {}
  BY <1>2, CleanupKeeps
<1>3. ASSUME NEW c \in Ctxs, NEW s \in Sboxes, CtrlSbox(c, s) PROVE Inv' /\ lost' = {}
  BY <1>3, CtrlKeeps DEF CtrlSbox, Fields
<1>4. ASSUME NEW c \in Ctxs, NEW g \in Curves, CtrlCurve(c, g) PROVE Inv' /\ lost' = {}
  BY <1>4, CtrlKeeps DEF CtrlCurve, Fields
<1>5. ASSUME NEW c \in Ctxs, NEW g \in Curves, NEW fails \in 0 .. 1, CtrlStrCurve(c, g, fails)
      PROVE  Inv' /\ lost' = {}
  BY <1>5, CtrlStrKeeps
<1>6. ASSUME NEW c \in Ctxs, NEW w \in Ctxs, NEW fails \in 0 .. 2, PkeyCopy(c, w, fails)
      PROVE  Inv' /\ lost' = {}
  BY <1>6, PkeyCopyKeeps
<1>7. ASSUME NEW c \in Ctxs, NEW p \in PKeys, NEW fails \in 0 .. 5, Keygen(c, p, fails)
      PROVE  Inv' /\ lost' = {}
  BY <1>7, KeygenKeeps
<1>8. ASSUME NEW g \in Curves, NEW s \in Sboxes \cup {Null}, Receive([group |-> g, sbox |-> s])
      PROVE  Inv' /\ lost' = {}
  BY <1>8, ReceiveKeeps
<1>9. ASSUME NEW p \in PKeys, ParamEncode(p) PROVE Inv' /\ lost' = {}
  BY <1>9, ParamEncodeKeeps
<1>10. ASSUME NEW p \in PKeys, PkeyFree(p) PROVE Inv' /\ lost' = {}
  BY <1>10, PkeyFreeKeeps
<1>11. ASSUME NEW p \in PKeys, NEW fails \in 0 .. 5, ParamDecode(p, fails)
       PROVE  Inv' /\ lost' = {}
  BY <1>11, ParamDecodeKeeps
<1>12. ASSUME NEW p \in PKeys, NEW fails \in 0 .. 5, KeyDecode(p, fails)
       PROVE  Inv' /\ lost' = {}
  BY <1>12, KeyDecodeKeeps
<1>13. ASSUME NEW p \in PKeys, NEW q \in PKeys, NEW fails \in 0 .. 3, ParamCopy(p, q, fails)
       PROVE  Inv' /\ (lost' # {} => Leaks)
  <2>1. Inv' /\ (lost' # {} => holds[p].sbox # Null /\ holds[q].sbox # Null /\ fails \in {0, 3})
    BY <1>13, ParamCopyKeeps
  <2>2. fails \in {0, 3} => ParamCopy(p, q, 0) \/ ParamCopy(p, q, 3)
    BY <1>13
  <2> QED
    BY <2>1, <2>2
<1>14. ASSUME NEW p \in PKeys, NEW g \in Curves, NEW fails \in 0 .. 6, MakePKey(p, g, fails)
       PROVE  Inv' /\ (lost' # {} => Leaks)
  <2>1. Inv' /\ (lost' # {} => fails \in {1, 5})
    BY <1>14, MakePKeyKeeps
  <2>2. fails \in {1, 5} => MakePKey(p, g, 1) \/ MakePKey(p, g, 5)
    BY <1>14
  <2> QED
    BY <2>1, <2>2
<1> HIDE DEF Leaks
<1> QED
  BY <1>1, <1>2, <1>3, <1>4, <1>5, <1>6, <1>7, <1>8, <1>9, <1>10, <1>11, <1>12, <1>13, <1>14
  DEF Next

LEMMA ParamsStep == Inv /\ [Next]_vars => Inv'
<1> SUFFICES ASSUME Inv, [Next]_vars PROVE Inv'
  OBVIOUS
<1>1. CASE Next
  BY <1>1, NextParams
<1>2. CASE UNCHANGED vars
  BY <1>2 DEF vars, Inv, Typed, WorksAsMeant, Effective
<1> QED
  BY <1>1, <1>2

\* No call finds a pointer that two holders share, that dangles or that points
\* to nothing it should; holders have only what is theirs, and keys work with
\* what was meant.
THEOREM ParamsInvariant == Spec => []Inv
BY InitParams, ParamsStep, PTL DEF Spec

\* Keys and key contexts share no curve and no substitution block, and nothing
\* is freed twice or used after it is freed, in any sequence of calls with any
\* failures.
THEOREM ParamsOwned == Spec => []OwnsItsOwn
<1>1. Inv => OwnsItsOwn
  BY DEF Inv, OwnsItsOwn
<1> QED
  BY <1>1, ParamsInvariant, PTL

\* A key works with the parameters it was generated, decoded or copied with,
\* unless a copy without an sbox has left it an old one.
THEOREM ParamsAsMeant == Spec => []WorksAsMeant
<1>1. Inv => WorksAsMeant
  BY DEF Inv
<1> QED
  BY <1>1, ParamsInvariant, PTL

\* No call leaks but makePKey without a private key or with a key that cannot
\* be completed, and a copy of parameters over an sbox.
THEOREM ParamsLeaks == Spec => LeaksAreKnown
<1> DEFINE Leak == \/ \E p \in PKeys, g \in Curves : MakePKey(p, g, 1) \/ MakePKey(p, g, 5)
                   \/ \E p, q \in PKeys : /\ holds[p].sbox # Null /\ holds[q].sbox # Null
                                          /\ ParamCopy(p, q, 0) \/ ParamCopy(p, q, 3)
<1>1. Inv /\ [Next]_vars => [lost' # {} => Leak]_vars
  <2> SUFFICES ASSUME Inv, [Next]_vars PROVE [lost' # {} => Leak]_vars
    OBVIOUS
  <2>1. CASE Next
    BY <2>1, NextParams
  <2> QED
    BY <2>1
<1>2. Spec => [][lost' # {} => Leak]_vars
  <2> HIDE DEF Leak
  <2> QED
    BY <1>1, ParamsInvariant, PTL DEF Spec
<1> QED
  BY <1>2 DEF LeaksAreKnown

\* dstu_asn1_param_cmp tells keys with different parameters apart, and takes
\* keys with the same parameters for different only if one holds the default
\* sbox and the other none.
THEOREM ParamsCompared == Spec => []CompareTells
<1>1. Inv => CompareTells
  <2> SUFFICES ASSUME Inv, NEW p \in PKeys, NEW q \in PKeys, has[p], has[q]
               PROVE  /\ ParamCmp(p, q) = "same" => Effective(p) = Effective(q)
                      /\ Effective(p) = Effective(q) =>
                           \/ ParamCmp(p, q) = "same"
                           \/ {holds[p].sbox, holds[q].sbox} = {Null, DefaultSbox}
    BY DEF CompareTells
  <2>1. ParamCmp(p, q) = "same" <=>
          holds[p].sbox = holds[q].sbox /\ holds[p].group = holds[q].group
    BY DEF ParamCmp
  <2>2. Effective(p) = Effective(q) <=>
          /\ holds[p].group = holds[q].group
          /\ Effective(p).sbox = Effective(q).sbox
    BY DEF Effective
  <2>3. /\ Effective(p).sbox = IF holds[p].sbox = Null THEN DefaultSbox ELSE holds[p].sbox
        /\ Effective(q).sbox = IF holds[q].sbox = Null THEN DefaultSbox ELSE holds[q].sbox
    BY DEF Effective
  <2> QED
    BY <2>1, <2>2, <2>3
<1> QED
  BY <1>1, ParamsInvariant, PTL

(***************************************************************************)
(* SignVerify: the verifier accepts exactly what the signer can make.      *)
(***************************************************************************)

-----------------------------------------------------------------------------
(* Arithmetic modulo n                                                     *)

\* The signer's equation for s and the verifier's for the point are the same.
LEMMA SameEquation ==
  ASSUME NEW n \in Nat \ {0}, NEW x \in 1 .. n - 1, NEW r \in Nat,
         NEW k \in 0 .. n - 1, NEW s \in 0 .. n - 1
  PROVE  s = (x * r + k) % n <=> k = (s + r * (n - x)) % n
<1>1. ASSUME s = (x * r + k) % n  PROVE k = (s + r * (n - x)) % n
  <2> DEFINE m == (x * r + k) \div n
  <2>1. x * r + k \in Int
    BY SMT
  <2>2. m \in Int /\ x * r + k = n * m + s
    BY <1>1, <2>1, DivMod
  <2> HIDE DEF m
  <2>3. s + r * (n - x) = n * (r - m) + k
    BY <2>2, SMT
  <2>4. r - m \in Int
    BY <2>2, SMT
  <2> QED
    BY <2>3, <2>4, ModUnique
<1>2. ASSUME k = (s + r * (n - x)) % n  PROVE s = (x * r + k) % n
  <2> DEFINE m == (s + r * (n - x)) \div n
  <2>1. s + r * (n - x) \in Int
    BY SMT
  <2>2. m \in Int /\ s + r * (n - x) = n * m + k
    BY <1>2, <2>1, DivMod
  <2> HIDE DEF m
  <2>3. x * r + k = n * (r - m) + s
    BY <2>2, SMT
  <2>4. r - m \in Int
    BY <2>2, SMT
  <2> QED
    BY <2>3, <2>4, ModUnique
<1> QED
  BY <1>1, <1>2

-----------------------------------------------------------------------------
(* Signing and verifying                                                   *)

LEMMA PublicKeyIs ==
  ASSUME NEW x \in Factors
  PROVE  PublicKey(x) = N - x
<1>1. N \in Nat \ {0} /\ N - x \in 0 .. N - 1
  BY OrderAssumption, SMT DEF Factors
<1>2. (N * 0 + (N - x)) % N = N - x
  BY <1>1, ModUnique
<1> QED
  BY <1>1, <1>2, SMT DEF PublicKey

LEMMA HashInField ==
  ASSUME NEW hash \in Nat
  PROVE  hash_to_field(hash) \in 0 .. FieldSize - 1
<1>1. (IF hash = 0 THEN 1 ELSE hash) \in Int
  BY SMT
<1> QED
  BY <1>1, OrderAssumption, DivMod DEF hash_to_field, Truncate

\* r is below the highest bit of the order.
LEMMA RInRange ==
  ASSUME NEW h \in 0 .. FieldSize - 1, NEW k \in Factors
  PROVE  R(h, k) \in 0 .. N - 1
<1>1. FieldMul(h, X[k]) \in 0 .. FieldSize - 1
  BY CurveAssumption, FieldAssumption
<1>2. FieldMul(h, X[k]) \in Int
  BY <1>1, OrderAssumption, SMT
<1>3. R(h, k) \in 0 .. Half - 1
  BY <1>2, OrderAssumption, DivMod DEF R, field_to_bn, Truncate
<1> QED
  BY <1>3, OrderAssumption, SMT

\* The verifier's multiple of G is the number that the signer has drawn.
LEMMA VerifyIffSigned ==
  ASSUME NEW x \in Factors, NEW hash \in Nat, NEW s, NEW r
  PROVE  dstu_do_verify(PublicKey(x), hash, s, r)
           <=> \E k \in Factors : Signed(x, hash_to_field(hash), k, s, r)
<1> DEFINE h == hash_to_field(hash)
<1>1. h \in 0 .. FieldSize - 1
  BY HashInField
<1>2. N \in Nat \ {0} /\ x \in 1 .. N - 1
  BY OrderAssumption, SMT DEF Factors
<1> HIDE DEF h
<1>3. ASSUME dstu_do_verify(PublicKey(x), hash, s, r)
      PROVE  \E k \in Factors : Signed(x, h, k, s, r)
  <2> DEFINE k == (s + r * (N - x)) % N
  <2>1. s \in 1 .. N - 1 /\ r \in 1 .. N - 1 /\ k # 0 /\ r = R(h, k)
    BY <1>3, PublicKeyIs DEF dstu_do_verify, h
  <2>2. s + r * (N - x) \in Int
    BY <2>1, <1>2, SMT
  <2>3. k \in 0 .. N - 1
    BY <2>2, <1>2, DivMod
  <2> HIDE DEF k
  <2>4. k \in Factors
    BY <2>1, <2>3, <1>2, SMT DEF Factors
  <2>5. s = (x * r + k) % N
    <3>1. k = (s + r * (N - x)) % N
      BY DEF k
    <3>2. r \in Nat /\ s \in 0 .. N - 1
      BY <2>1, <1>2, SMT
    <3>3. s = (x * r + k) % N <=> k = (s + r * (N - x)) % N
      BY <3>2, <2>3, <1>2, SameEquation
    <3> QED
      BY <3>1, <3>3
  <2>6. s = S(x, h, k)
    BY <2>5, <2>1 DEF S
  <2>7. X[k] # 0
    <3>1. 0 % Half = 0
      <4>1. (Half * 0 + 0) % Half = 0
        BY OrderAssumption, ModUnique
      <4> QED
        BY <4>1, OrderAssumption, SMT
    <3>2. X[k] \in 0 .. FieldSize - 1
      BY <2>4, CurveAssumption
    <3>3. ASSUME X[k] = 0 PROVE R(h, k) = 0
      BY <3>1, <3>2, <3>3, <1>1, FieldAssumption DEF R, field_to_bn, Truncate
    <3> QED
      BY <3>3, <2>1
  <2> QED
    BY <2>1, <2>4, <2>6, <2>7 DEF Signed, Rejected
<1>4. ASSUME NEW k \in Factors, Signed(x, h, k, s, r)
      PROVE  dstu_do_verify(PublicKey(x), hash, s, r)
  <2>1. s = S(x, h, k) /\ r = R(h, k) /\ s # 0 /\ r # 0
    BY <1>4 DEF Signed, Rejected
  <2>2. r \in 0 .. N - 1 /\ r \in Nat
    BY <2>1, <1>1, RInRange, <1>2, SMT
  <2>3. k \in 0 .. N - 1 /\ k # 0 /\ x * r + k \in Int
    BY <1>2, <2>2, SMT DEF Factors
  <2>4. s = (x * r + k) % N
    BY <2>1 DEF S
  <2>5. s \in 0 .. N - 1
    BY <2>3, <2>4, <1>2, DivMod
  <2>6. k = (s + r * (N - x)) % N
    <3>1. N \in Nat \ {0} /\ x \in 1 .. N - 1 /\ k \in 0 .. N - 1
      BY <2>3, <1>2
    <3> QED
      BY <2>2, <2>4, <2>5, <3>1, SameEquation
  <2>7. s \in 1 .. N - 1 /\ r \in 1 .. N - 1
    BY <2>1, <2>2, <2>5, <1>2, SMT
  <2> QED
    BY <2>1, <2>3, <2>6, <2>7, PublicKeyIs DEF dstu_do_verify, h
<1> QED
  BY <1>3, <1>4 DEF h

-----------------------------------------------------------------------------
(* Encoding and decoding                                                   *)

LEMMA EncodeIs ==
  ASSUME NEW bn \in Nat
  PROVE  /\ bn_encode(bn) \in Seq(Nat) /\ Len(bn_encode(bn)) = Length
         /\ \A n \in 1 .. Length : bn_encode(bn)[n] = DigitAt(Base, bn, Length - n)
<1>1. ASSUME NEW n \in 1 .. Length PROVE DigitAt(Base, bn, Length - n) \in Nat
  <2>1. Length - n \in Nat
    BY OrderAssumption, SMT
  <2>2. DigitAt(Base, bn, Length - n) \in 0 .. Base - 1
    BY <2>1, OrderAssumption, DigitStep
  <2> QED
    BY <2>2, OrderAssumption, SMT
<1> QED
  BY <1>1, OrderAssumption DEF bn_encode

\* Numbers that have no more digits than the order are read as they were written.
LEMMA DecodeEncoded ==
  ASSUME NEW bn \in 0 .. N - 1
  PROVE  BN_bin2bn(bn_encode(bn)) = bn
<1> DEFINE b == bn_encode(bn)
           p == Power(Base)[Length]
<1>1. bn \in Nat /\ Length \in Nat /\ Base \in Nat \ {0}
  BY OrderAssumption, SMT
<1>2. Len(b) = Length /\ \A n \in 1 .. Length : b[n] = DigitAt(Base, bn, Length - n)
  BY <1>1, EncodeIs
<1>3. p \in Nat \ {0} /\ N \in Nat /\ N <= p
  BY <1>1, PowerIs, OrderAssumption
<1> HIDE DEF b, p
<1>4. bn < p
  BY <1>3, SMT
<1>5. NumberOf(Base, b, Length) = bn
  BY <1>1, <1>2, <1>4, NumberOfDigits DEF p
<1> QED
  BY <1>2, <1>5 DEF BN_bin2bn, b

LEMMA ReverseTwice ==
  ASSUME NEW q \in Seq(Nat)
  PROVE  Reverse(q) \in Seq(Nat) /\ Reverse(Reverse(q)) = q /\ Len(Reverse(q)) = Len(q)
<1> DEFINE m == Len(q)
           v == Reverse(q)
<1>1. m \in Nat /\ \A i \in 1 .. m : (m - i) + 1 \in 1 .. m /\ (m - ((m - i) + 1)) + 1 = i
  <2>1. m \in Nat
    OBVIOUS
  <2> HIDE DEF m
  <2> QED
    BY <2>1, SMT
<1>2. v = [i \in 1 .. m |-> q[(m - i) + 1]]
  BY DEF Reverse
<1>3. v \in Seq(Nat) /\ Len(v) = m
  BY <1>1, <1>2
<1>4. Reverse(v) = [i \in 1 .. m |-> v[(m - i) + 1]]
  BY <1>3 DEF Reverse
<1>5. q = [i \in 1 .. m |-> q[i]]
  OBVIOUS
<1> HIDE DEF m, v
<1>6. \A i \in 1 .. m : v[(m - i) + 1] = q[i]
  BY <1>1, <1>2
<1>7. Reverse(v) = q
  BY <1>4, <1>5, <1>6
<1> QED
  BY <1>3, <1>7 DEF m, v

\* What the verifier reads of a signature is what the signer has written.
LEMMA ReadBack ==
  ASSUME NEW s \in 0 .. N - 1, NEW r \in 0 .. N - 1, sig = SigData(s, r)
  PROVE  LengthOK /\ SigS = s /\ SigR = r
<1> DEFINE es == bn_encode(s)
           er == bn_encode(r)
           q == es \o er
<1>1. s \in Nat /\ r \in Nat /\ Length \in Nat
  BY OrderAssumption, SMT
<1>2. es \in Seq(Nat) /\ er \in Seq(Nat) /\ Len(es) = Length /\ Len(er) = Length
  BY <1>1, EncodeIs
<1>3. BN_bin2bn(es) = s /\ BN_bin2bn(er) = r
  BY DecodeEncoded
<1>4. sig = Order(q)
  BY DEF SigData
<1> HIDE DEF es, er
<1>5. q \in Seq(Nat) /\ Len(q) = Length + Length
  BY <1>2, ConcatProperties
<1>6. SubSeq(q, 1, Length) = es
  BY <1>2, SubSeqOfConcat1, SubSeqFull
<1>7. SubSeq(q, Length + 1, Length + Length) = er
  <2>1. SubSeq(q, Length + 1, Len(q)) = er
    BY <1>2, ConcatSimplifications, SubSeqOfConcat2
  <2> QED
    BY <1>5, <2>1
<1> HIDE DEF q
<1>8. Big = q /\ Len(sig) = Length + Length
  BY <1>4, <1>5, ReverseTwice DEF Big, Order
<1>9. (Length + Length) \div 2 = Length /\ (Length + Length) % 2 = 0 /\ Length + Length >= 2 * Length
  BY <1>1, SMT
<1> QED
  BY <1>3, <1>6, <1>7, <1>8, <1>9 DEF SigS, SigR, LengthOK

-----------------------------------------------------------------------------
(* The specification                                                       *)

\* A signature that has been made is one of a number that was not rejected.
SignedByFactor ==
  pc = "signed" => \E k \in Factors : /\ ~Rejected(d, hash_to_field(tbs), k)
                                     /\ sig = SigData(S(d, hash_to_field(tbs), k), R(hash_to_field(tbs), k))

SignInv ==
  /\ d \in Factors /\ tbs \in Nat
  /\ SignedByFactor /\ AcceptsExactlySigned

LEMMA SignInitInv == SignInit => SignInv
  BY InputAssumption DEF SignInit, SignInv, SignedByFactor, AcceptsExactlySigned

LEMMA SignStepInv == SignInv /\ [SignNext]_signVars => SignInv'
<1> SUFFICES ASSUME SignInv, [SignNext]_signVars  PROVE SignInv'
  OBVIOUS
<1> USE DEF SignInv
<1>1. CASE Sign
  BY <1>1 DEF Sign, SignedByFactor, AcceptsExactlySigned
<1>2. CASE DrawFails
  BY <1>2 DEF DrawFails, SignedByFactor, AcceptsExactlySigned
<1>3. ASSUME NEW k \in Factors, DrawAgain(k)  PROVE SignInv'
  BY <1>3 DEF DrawAgain, SignedByFactor, AcceptsExactlySigned
<1>4. ASSUME NEW k \in Factors, Succeed(k)  PROVE SignInv'
  <2> DEFINE h == hash_to_field(tbs)
  <2>1. /\ ~Rejected(d, h, k) /\ sig' = SigData(S(d, h, k), R(h, k))
        /\ pc' = "signed" /\ UNCHANGED <<d, le, tbs>>
    BY <1>4 DEF Succeed
  <2>2. SigData(S(d, h, k), R(h, k))' = SigData(S(d, h, k), R(h, k))
    BY <2>1 DEF SigData, Order
  <2>3. sig' = SigData(S(d, h, k), R(h, k))'
    BY <2>1, <2>2
  <2>4. SignedByFactor'
    BY <2>1, <2>3 DEF SignedByFactor
  <2> QED
    BY <2>1, <2>4 DEF AcceptsExactlySigned
<1>5. CASE Deliver
  BY <1>5 DEF Deliver, SignedByFactor, AcceptsExactlySigned
<1>6. CASE Verify
  <2>1. UNCHANGED <<d, le, tbs, sig>> /\ pc' = "verified"
    BY <1>6 DEF Verify
  <2>2. LengthOK' = LengthOK /\ SigS' = SigS /\ SigR' = SigR
    BY <2>1 DEF LengthOK, SigS, SigR, Big, Order
  <2>3. ret' = 1 <=> LengthOK /\ dstu_do_verify(PublicKey(d), tbs, SigS, SigR)
    BY <1>6 DEF Verify
  <2>4. dstu_do_verify(PublicKey(d), tbs, SigS, SigR)
          <=> \E k \in Factors : Signed(d, hash_to_field(tbs), k, SigS, SigR)
    BY VerifyIffSigned
  <2>5. AcceptsExactlySigned'
    BY <2>1, <2>2, <2>3, <2>4 DEF AcceptsExactlySigned
  <2> QED
    BY <2>1, <2>5 DEF SignedByFactor
<1>7. CASE UNCHANGED signVars
  BY <1>7 DEF signVars, SignedByFactor, AcceptsExactlySigned, LengthOK, SigS, SigR, SigData, Big, Order
<1> QED
  BY <1>1, <1>2, <1>3, <1>4, <1>5, <1>6, <1>7 DEF SignNext, Draw

\* The signer's numbers have no more digits than the order, and the verifier
\* accepts what Signed holds of.
LEMMA SignInvVerifies == SignInv => SignedVerifies
<1> SUFFICES ASSUME SignInv, pc = "signed"
             PROVE  LengthOK /\ dstu_do_verify(PublicKey(d), tbs, SigS, SigR)
  BY DEF SignedVerifies
<1> DEFINE h == hash_to_field(tbs)
<1>1. d \in Factors /\ tbs \in Nat
  BY DEF SignInv
<1>2. PICK k \in Factors : ~Rejected(d, h, k) /\ sig = SigData(S(d, h, k), R(h, k))
  BY DEF SignInv, SignedByFactor
<1>3. h \in 0 .. FieldSize - 1
  BY <1>1, HashInField
<1> HIDE DEF h
<1>4. R(h, k) \in 0 .. N - 1
  BY <1>3, RInRange
<1>5. S(d, h, k) \in 0 .. N - 1
  <2>1. d * R(h, k) + k \in Int /\ N \in Nat \ {0}
    BY <1>1, <1>4, OrderAssumption, SMT DEF Factors
  <2> QED
    BY <2>1, DivMod DEF S
<1>6. LengthOK /\ SigS = S(d, h, k) /\ SigR = R(h, k)
  BY <1>2, <1>4, <1>5, ReadBack
<1>7. Signed(d, h, k, SigS, SigR)
  BY <1>2, <1>6 DEF Signed
<1> QED
  BY <1>1, <1>6, <1>7, VerifyIffSigned DEF h

\* dstu_pkey_verify accepts the signatures that dstu_do_sign can make, and no
\* others, for every order, curve, field, key and hash.
THEOREM AcceptanceCorrect == SignSpec => []AcceptsExactlySigned
<1>1. SignInv => AcceptsExactlySigned
  BY DEF SignInv
<1> QED
  BY SignInitInv, SignStepInv, <1>1, PTL DEF SignSpec

\* What dstu_pkey_sign has encoded, in either byte order, dstu_pkey_verify
\* decodes and accepts.
THEOREM SignaturesVerify == SignSpec => []SignedVerifies
  BY SignInitInv, SignStepInv, SignInvVerifies, PTL DEF SignSpec
=============================================================================
