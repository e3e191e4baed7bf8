------------------------------ MODULE KeyStore ------------------------------
(***************************************************************************)
(* The key store of keylib/keystore.c on a heap: a store is two arrays of  *)
(* pointers, one to keys (EVP_PKEY) and one to certificates (X509), and    *)
(* "owns all keys and certificates inside".                                *)
(*                                                                         *)
(* The operators take a heap and yield the heap after the call.  What C    *)
(* leaves undefined (a NULL or freed store, a slot outside of the array,   *)
(* an object freed twice) sets the fault of the heap.                      *)
(***************************************************************************)
EXTENDS Naturals, Sequences

CONSTANTS
  Null,      (* the NULL pointer                                           *)
  Objects,   (* keys and certificates                                      *)
  Stores     (* addresses of stores                                        *)

NullAssumption == Null \notin Objects /\ Null \notin Stores

Slot  == Objects \cup {Null}
Store == [live : BOOLEAN, keys : Seq(Slot), certs : Seq(Slot)]
Heap  == [stores : [Stores -> Store], objects : SUBSET Objects, fault : BOOLEAN]

Gone      == [live |-> FALSE, keys |-> <<>>, certs |-> <<>>]
EmptyHeap == [stores |-> [s \in Stores |-> Gone], objects |-> {}, fault |-> FALSE]

Empty(n) == [p \in 1 .. n |-> Null]
Held(q)  == {q[p] : p \in 1 .. Len(q)} \ {Null}
Owned(t) == Held(t.keys) \cup Held(t.certs)

\* The slots q with a pointer to o in slot pos, counted from 0.
Put(q, pos, o) == [p \in 1 .. Len(q) |-> IF p = pos + 1 THEN o ELSE q[p]]

Fault(h) == [h EXCEPT !.fault = TRUE]

\* new, if s points to a store.
Deref(h, s, new) == IF s # Null /\ h.stores[s].live THEN new ELSE Fault(h)

\* A key or a certificate comes into being, owned by nobody.
Create(h, o) == [h EXCEPT !.objects = @ \cup {o}]

KeyStoreNew(h, s, keyNum, certNum) ==
  [h EXCEPT !.stores[s] = [live |-> TRUE, keys |-> Empty(keyNum), certs |-> Empty(certNum)]]

KeyStoreSetKey(h, s, pos, key) ==
  Deref(h, s, IF pos < Len(h.stores[s].keys)
              THEN [h EXCEPT !.stores[s].keys = Put(@, pos, key)] ELSE Fault(h))

KeyStoreSetCert(h, s, pos, cert) ==
  Deref(h, s, IF pos < Len(h.stores[s].certs)
              THEN [h EXCEPT !.stores[s].certs = Put(@, pos, cert)] ELSE Fault(h))

\* Mutants: the moved part comes first; the emptied store keeps its pointers.
PrependTo(t, f) == [t EXCEPT !.keys = f.keys \o @, !.certs = f.certs \o @]
NotEmptied(f)   == f

\* The slots of the emptied store are kept, and NULL.
Append1(t, f)  == [t EXCEPT !.keys = @ \o f.keys, !.certs = @ \o f.certs]
Emptied(f)     == [f EXCEPT !.keys = Empty(Len(@)), !.certs = Empty(Len(@))]

KeyStoreAppend(h, to, from) ==
  Deref(h, to, Deref(h, from,
    [h EXCEPT !.stores[to]   = Append1(@, h.stores[from]),
              !.stores[from] = Emptied(@)]))

\* No object is pointed to by two slots of a store.
Distinct(q) == \A m, n \in 1 .. Len(q) : q[m] = q[n] /\ q[m] # Null => m = n
Unshared(t) == Distinct(t.keys) /\ Distinct(t.certs) /\ Held(t.keys) \cap Held(t.certs) = {}

KeyStoreFree(h, s) ==
  Deref(h, s,
    [h EXCEPT !.stores[s] = Gone,
              !.objects   = @ \ Owned(h.stores[s]),
              !.fault     = @ \/ ~Unshared(h.stores[s])
                              \/ ~(Owned(h.stores[s]) \subseteq h.objects)])

KeyStoreKeyNum(h, s)  == Len(h.stores[s].keys)
KeyStoreCertNum(h, s) == Len(h.stores[s].certs)

-----------------------------------------------------------------------------
(* What every loader should keep true of the heap between its calls.       *)

\* Slots point to live objects, no two to the same one, and no live object
\* is lost: the stores own all keys and certificates there are.
OwnedOnce(h) ==
  /\ \A s \in Stores : Unshared(h.stores[s])
  /\ \A s, t \in Stores : s # t => Owned(h.stores[s]) \cap Owned(h.stores[t]) = {}
  /\ h.objects = UNION {Owned(h.stores[s]) : s \in Stores}
=============================================================================
