----------------------------- MODULE KeyParams ------------------------------
(***************************************************************************)
(* Who owns the parameters of keys: the curve (EC_GROUP) and the           *)
(* substitution block (sbox) of a DSTU_KEY in an EVP_PKEY and of a         *)
(* DSTU_KEY_CTX in an EVP_PKEY_CTX (dstulib/key.c), and the methods that   *)
(* make, copy, publish and read them (engine/pmeth.c, engine/ameth.c and   *)
(* makePKey of keylib/utils.c).                                            *)
(*                                                                         *)
(* Every method is one step.  It works on a memory of blocks: it allocates *)
(* and frees them, and moves pointers.  Any of its calls may fail; the     *)
(* parameter `fails' of a step is the one that does, 0 for none.  At the   *)
(* end of the step the pointers are looked at: one without a block of its  *)
(* own is a fault, and a block without a pointer is lost.                  *)
(***************************************************************************)
EXTENDS Naturals, FiniteSets, Functions

CONSTANTS
  Null,
  PKeys, Ctxs,              (* EVP_PKEYs and EVP_PKEY_CTXs                 *)
  Curves, DefaultCurve,
  Sboxes, DefaultSbox

New == "new"                \* a DSTU_KEY that no EVP_PKEY has yet
Holders == PKeys \cup Ctxs
Structs == Holders \cup {New}
Fields  == {"group", "sbox"}
Blocks  == (Structs \X (Fields \cup {"pkey"})) \cup (Structs \X Fields \X {"copy", "temp"})

ASSUME ParamAssumption ==
  /\ DefaultCurve \in Curves /\ DefaultSbox \in Sboxes
  /\ Null \notin Curves \cup Sboxes \cup {"EVP_PKEY"}
  /\ IsFiniteSet(PKeys) /\ IsFiniteSet(Ctxs)
  /\ PKeys \cap Ctxs = {} /\ New \notin Holders
  /\ Null \notin Blocks

Nothing == [group |-> Null, sbox |-> Null]
Params  == [group : Curves, sbox : Sboxes]

VARIABLES
  has,       (* whether a holder has its DSTU_KEY or DSTU_KEY_CTX          *)
  holds,     (* the group and the sbox of a holder, or Null                *)
  wire,      (* parameters in ASN.1, without an sbox if it is Null         *)
  meant,     (* the parameters a key should have, Null if none are due     *)
  stale,     (* keys that were given parameters without an sbox by a copy  *)
             (* and had one                                                *)
  lost,      (* what the last step has leaked                              *)
  fault      (* a step has used or freed what is not its own               *)

ghosts == <<meant, stale>>
vars   == <<has, holds, wire, meant, stale, lost, fault>>

Init ==
  /\ has = [x \in Holders |-> FALSE] /\ holds = [x \in Holders |-> Nothing]
  /\ wire = Null
  /\ meant = [p \in PKeys |-> Null] /\ stale = {}
  /\ lost = {} /\ fault = FALSE

-----------------------------------------------------------------------------
(* Memory within a step: blocks with their contents, structures and their   *)
(* pointers.  A block is named for what it is allocated for.                *)

Memory ==
  LET held == {x \in Holders \X Fields : holds[x[1]][x[2]] # Null}
  IN  [has   |-> [h \in Structs |-> h # New /\ has[h]],
       ptr   |-> [h \in Structs |-> [f \in Fields |->
                   IF h = New \/ holds[h][f] = Null THEN Null ELSE <<h, f>>]],
       block |-> [x \in held |-> holds[x[1]][x[2]]],
       fault |-> FALSE]

Alloc(m, x, content) ==
  [m EXCEPT !.block = [y \in DOMAIN @ \cup {x} |-> IF y = x THEN content ELSE @[y]]]

Free(m, x) ==
  CASE x = Null -> m
    [] x \in DOMAIN m.block -> [m EXCEPT !.block = Restrict(@, DOMAIN @ \ {x})]
    [] OTHER -> [m EXCEPT !.fault = TRUE]

Value(m, h, f) == m.block[m.ptr[h][f]]
Missing(m, h, f) == m.ptr[h][f] = Null

\* Mutant: what was there is forgotten.
SetForgetting(m, h, f, x) == [m EXCEPT !.ptr[h][f] = x]

\* DSTU_KEY_set, DSTU_KEY_CTX_set, EC_KEY_set_group: what was there is freed.
Set(m, h, f, x) == [Free(m, m.ptr[h][f]) EXCEPT !.ptr[h][f] = x]

\* DSTU_KEY_new, DSTU_KEY_CTX_new.
Create(m, h) == [m EXCEPT !.has[h] = TRUE, !.ptr[h] = Nothing]

\* DSTU_KEY_free, DSTU_KEY_CTX_free.
Destroy(m, h) ==
  IF ~m.has[h] THEN m
  ELSE [Free(Free(m, m.ptr[h].sbox), m.ptr[h].group) EXCEPT !.has[h] = FALSE, !.ptr[h] = Nothing]

\* EC_KEY_set_group copies a group, copy_sbox an sbox: a block for field f of h.
Copied(m, h, f, content) == Set(Alloc(m, <<h, f, "copy">>, content), h, f, <<h, f, "copy">>)

\* EVP_PKEY_assign: the key of p is freed and the new one takes its place.
Assign(m, p) ==
  [Destroy(m, p) EXCEPT !.has[p] = TRUE, !.ptr[p] = m.ptr[New],
                        !.has[New] = FALSE, !.ptr[New] = Nothing]

\* The end of a step.
Pointers(m) == {x \in Structs \X Fields : m.ptr[x[1]][x[2]] # Null}
Used(m)     == {m.ptr[x[1]][x[2]] : x \in Pointers(m)}

Leave(m) ==
  LET used == Used(m)
  IN  /\ fault' = (fault \/ m.fault \/ ~(used \subseteq DOMAIN m.block)
                         \/ Cardinality(used) # Cardinality(Pointers(m)))
      /\ lost' = {m.block[x] : x \in DOMAIN m.block \ used}
                   \cup (IF m.has[New] THEN {"key"} ELSE {})
      /\ has' = [h \in Holders |-> m.has[h]]
      /\ holds' = [h \in Holders |-> [f \in Fields |->
                     IF m.ptr[h][f] \in DOMAIN m.block THEN Value(m, h, f) ELSE Null]]

-----------------------------------------------------------------------------
(* What is meant: the parameters that a key works with.                    *)

Effective(h) ==
  [group |-> holds[h].group,
   sbox  |-> IF holds[h].sbox = Null THEN DefaultSbox ELSE holds[h].sbox]

\* A key that has been made is due the parameters v; one that a failed call
\* has changed is due none.
Due(p, v)   == meant' = [meant EXCEPT ![p] = v] /\ stale' = stale \ {p}
Undue(p)    == Due(p, Null)

Alive == ~fault

-----------------------------------------------------------------------------
(* Contexts: dstu_pkey_init, dstu_pkey_ctrl and dstu_pkey_ctrl_str,        *)
(* dstu_pkey_copy, dstu_pkey_cleanup.  A call that fails changes nothing.  *)

PkeyInit(c) ==
  /\ Alive /\ ~has[c]
  /\ Leave(Create(Memory, c))
  /\ UNCHANGED <<wire, ghosts>>

CtrlSbox(c, s) ==
  /\ Alive /\ has[c]
  /\ Leave(Copied(Memory, c, "sbox", s))
  /\ UNCHANGED <<wire, ghosts>>

CtrlCurve(c, g) ==
  /\ Alive /\ has[c]
  /\ Leave(Copied(Memory, c, "group", g))
  /\ UNCHANGED <<wire, ghosts>>

\* ctrl_str makes a group from the name of a curve, which ctrl copies or fails
\* to copy, and frees it.
CtrlStrCurve(c, g, fails) ==
  /\ Alive /\ has[c]
  /\ LET temp   == <<c, "group", "temp">>
         named  == Alloc(Memory, temp, g)
     IN  Leave(Free(IF fails = 1 THEN named ELSE Copied(named, c, "group", g), temp))
  /\ UNCHANGED <<wire, ghosts>>

PkeyCopy(c, d, fails) ==
  /\ Alive /\ has[c] /\ ~has[d]
  /\ LET made    == Create(Memory, d)
         grouped == IF Missing(made, c, "group") THEN made
                    ELSE Copied(made, d, "group", Value(made, c, "group"))
         boxed   == IF Missing(made, c, "sbox") THEN grouped
                    ELSE Copied(grouped, d, "sbox", Value(made, c, "sbox"))
     IN  Leave(CASE fails = 1 -> Destroy(made, d)
                 [] fails = 2 -> Destroy(grouped, d)
                 [] OTHER -> boxed)
  /\ UNCHANGED <<wire, ghosts>>

Cleanup(c) ==
  /\ Alive /\ has[c]
  /\ Leave(Destroy(Memory, c))
  /\ UNCHANGED <<wire, ghosts>>

-----------------------------------------------------------------------------
(* dstu_pkey_keygen                                                        *)

\* Mutant: the key gets the context's sbox.
SboxShared(m, c) ==
  IF Missing(m, c, "sbox") THEN m ELSE Set(m, New, "sbox", m.ptr[c].sbox)

\* The sbox of the context is copied for the key, if it has one.
SboxCopied(m, c) ==
  IF Missing(m, c, "sbox") THEN m ELSE Copied(m, New, "sbox", Value(m, c, "sbox"))

\* The default group, once made, stays in the context, whatever fails then.
Keygen(c, p, fails) ==
  /\ Alive /\ has[c]
  /\ LET grouped == IF Missing(Memory, c, "group")
                    THEN Copied(Memory, c, "group", DefaultCurve) ELSE Memory
         made    == Create(grouped, New)
         keyed   == Copied(made, New, "group", Value(grouped, c, "group"))
         boxed   == SboxCopied(keyed, c)
     IN  Leave(CASE fails = 1 -> Memory
                 [] fails = 2 -> grouped
                 [] fails = 3 -> Destroy(made, New)
                 [] fails = 4 -> Destroy(keyed, New)
                 [] fails = 5 -> Destroy(boxed, New)
                 [] OTHER     -> Assign(boxed, p))
  /\ IF fails = 0 THEN Due(p, [Effective(c) EXCEPT !.group = IF @ = Null THEN DefaultCurve ELSE @])
                  ELSE UNCHANGED ghosts
  /\ UNCHANGED wire

-----------------------------------------------------------------------------
(* The ASN.1 methods                                                       *)

\* Parameters of somebody else, an explicit default sbox among them.
Receive(v) ==
  /\ wire' = v /\ lost' = {}
  /\ UNCHANGED <<has, holds, fault, ghosts>>

\* asn1_from_key: the default sbox is left out.
ParamEncode(p) ==
  /\ Alive /\ has[p] /\ holds[p].group # Null
  /\ wire' = [group |-> holds[p].group,
              sbox  |-> IF holds[p].sbox = DefaultSbox THEN Null ELSE holds[p].sbox]
  /\ lost' = {}
  /\ UNCHANGED <<has, holds, fault, ghosts>>

\* Mutant: the key has no sbox.
KeyWithoutSbox(m, fails) ==
  LET made    == Create(m, New)
      temp    == Alloc(made, <<New, "group", "temp">>, wire.group)
  IN  Free(Copied(temp, New, "group", wire.group), <<New, "group", "temp">>)

\* key_from_asn1: the default sbox is not stored.  The group made from the
\* parameters is copied into the key and freed; what is made so far is freed
\* when a call fails.
KeyFromAsn1(m, fails) ==
  LET made    == Create(m, New)
      boxed   == IF wire.sbox \in {Null, DefaultSbox} THEN made
                 ELSE Copied(made, New, "sbox", wire.sbox)
      temp    == Alloc(boxed, <<New, "group", "temp">>, wire.group)
      grouped == Copied(temp, New, "group", wire.group)
  IN  CASE fails = 1 -> m
        [] fails = 2 -> Destroy(made, New)
        [] fails = 3 -> Destroy(boxed, New)
        [] fails = 4 -> Destroy(Free(temp, <<New, "group", "temp">>), New)
        [] OTHER     -> Free(grouped, <<New, "group", "temp">>)

WireParams == [wire EXCEPT !.sbox = IF @ = Null THEN DefaultSbox ELSE @]

\* dstu_asn1_param_decode; 5 is a failure of EVP_PKEY_assign.
ParamDecoded(m, p, fails) ==
  LET key == KeyFromAsn1(m, fails)
  IN  CASE fails = 0 -> Assign(key, p)
        [] fails = 5 -> Destroy(key, New)
        [] OTHER     -> key

ParamDecode(p, fails) ==
  /\ Alive /\ wire # Null
  /\ Leave(ParamDecoded(Memory, p, fails))
  /\ IF fails = 0 THEN Due(p, WireParams) ELSE UNCHANGED ghosts
  /\ UNCHANGED wire

\* dstu_asn1_priv_decode, dstu_asn1_pub_decode: the type of the key is set,
\* which frees the key there was; what fails after the parameters have been
\* decoded leaves a key with parameters only.
KeyDecode(p, fails) ==
  /\ Alive /\ wire # Null
  /\ Leave(ParamDecoded(Destroy(Memory, p), p, fails))
  /\ Due(p, IF fails = 0 THEN WireParams ELSE Null)
  /\ UNCHANGED wire

\* dstu_asn1_param_copy.  EC_KEY_set_group frees the group that is there before
\* it copies the new one, which may fail.  An sbox that is there is overwritten,
\* not freed; if there is none to copy, it stays.
ParamCopy(to, from, fails) ==
  /\ Alive /\ to # from /\ has[from] /\ holds[from].group # Null
  /\ LET made    == IF has[to] THEN Memory ELSE Create(Memory, to)
         bare    == Set(made, to, "group", Null)
         grouped == Copied(made, to, "group", holds[from].group)
         x       == <<to, "sbox", "copy">>
         boxed   == IF holds[from].sbox = Null THEN grouped
                    ELSE [Alloc(grouped, x, holds[from].sbox) EXCEPT !.ptr[to].sbox = x]
         unboxed == IF holds[from].sbox = Null THEN grouped
                    ELSE [grouped EXCEPT !.ptr[to].sbox = Null]
     IN  Leave(CASE fails = 1 -> Memory
                 [] fails = 2 -> bare
                 [] fails = 3 -> unboxed
                 [] OTHER     -> boxed)
  /\ CASE fails = 0 -> /\ meant' = [meant EXCEPT ![to] = Effective(from)]
                       /\ stale' = IF holds[from].sbox = Null /\ holds[to].sbox # Null
                                   THEN stale \cup {to} ELSE stale \ {to}
       [] fails \in {2, 3} -> Undue(to)
       [] OTHER -> UNCHANGED ghosts
  /\ UNCHANGED wire

\* Mutant: a key without an sbox is taken to agree with any.
CmpLeniently(a, b) ==
  CASE ~has[a] \/ ~has[b] -> "unknown"
    [] holds[a].sbox # holds[b].sbox /\ Null \notin {holds[a].sbox, holds[b].sbox} -> "different"
    [] OTHER -> IF holds[a].group = holds[b].group THEN "same" ELSE "different"

\* dstu_asn1_param_cmp, of keys with a group.
ParamCmp(a, b) ==
  CASE ~has[a] \/ ~has[b] -> "unknown"
    [] holds[a].sbox # holds[b].sbox -> "different"
    [] OTHER -> IF holds[a].group = holds[b].group THEN "same" ELSE "different"

\* dstu_asn1_pkey_free
PkeyFree(p) ==
  /\ Alive /\ has[p]
  /\ Leave(Destroy(Memory, p)) /\ Undue(p)
  /\ UNCHANGED wire

-----------------------------------------------------------------------------
\* makePKey: an EVP_PKEY with a key from the attributes of another one.
MakePKey(p, g, fails) ==
  /\ Alive /\ ~has[p]
  /\ LET temp  == <<New, "group", "temp">>
         res   == <<p, "pkey">>
         built == Alloc(Memory, temp, g)
         made  == Create(built, New)
         whole == Alloc(made, res, "EVP_PKEY")
         keyed == Copied(whole, New, "group", g)
     IN  Leave(CASE fails = 1 -> built                       \* no private key
                 [] fails = 2 -> Memory                      \* no group
                 [] fails = 3 -> Free(built, temp)
                 [] fails = 4 -> Free(Destroy(made, New), temp)
                 [] fails = 5 -> Free(Destroy(keyed, New), temp)
                 [] fails = 6 -> Free(Free(Destroy(keyed, New), res), temp)
                 [] OTHER     -> Free(Free(Assign(keyed, p), res), temp))
  /\ IF fails = 0 THEN Due(p, [group |-> g, sbox |-> DefaultSbox]) ELSE UNCHANGED ghosts
  /\ UNCHANGED wire

-----------------------------------------------------------------------------
Next ==
  \/ \E c \in Ctxs :
       \/ PkeyInit(c) \/ Cleanup(c)
       \/ \E s \in Sboxes : CtrlSbox(c, s)
       \/ \E g \in Curves : CtrlCurve(c, g)
       \/ \E g \in Curves, fails \in 0 .. 1 : CtrlStrCurve(c, g, fails)
       \/ \E d \in Ctxs, fails \in 0 .. 2 : PkeyCopy(c, d, fails)
       \/ \E p \in PKeys, fails \in 0 .. 5 : Keygen(c, p, fails)
  \/ \E g \in Curves, s \in Sboxes \cup {Null} : Receive([group |-> g, sbox |-> s])
  \/ \E p \in PKeys :
       \/ ParamEncode(p) \/ PkeyFree(p)
       \/ \E fails \in 0 .. 5 : ParamDecode(p, fails)
       \/ \E fails \in 0 .. 5 : KeyDecode(p, fails)
       \/ \E from \in PKeys, fails \in 0 .. 3 : ParamCopy(p, from, fails)
       \/ \E g \in Curves, fails \in 0 .. 6 : MakePKey(p, g, fails)

Spec == Init /\ [][Next]_vars

-----------------------------------------------------------------------------
(* Properties                                                              *)

\* Keys and contexts share nothing, nothing is freed twice and nothing is used
\* after it is freed, whichever calls fail.
OwnsItsOwn == ~fault

\* No step leaks anything, but three: makePKey without a private key loses the
\* group, makePKey with a key that cannot be completed loses the EVP_PKEY, and
\* a copy of parameters to a key that has an sbox loses that.
LeaksAreKnown ==
  [][lost' # {} =>
       \/ \E p \in PKeys, g \in Curves : MakePKey(p, g, 1) \/ MakePKey(p, g, 5)
       \/ \E p, q \in PKeys : /\ holds[p].sbox # Null /\ holds[q].sbox # Null
                              /\ ParamCopy(p, q, 0) \/ ParamCopy(p, q, 3)]_vars

\* A key works with the parameters it was generated, decoded or copied with,
\* unless a copy without an sbox has left it an old one.
WorksAsMeant ==
  \A p \in PKeys \ stale : meant[p] # Null => has[p] /\ Effective(p) = meant[p]

\* Keys with the same parameters compare as the same, but for a default sbox
\* that one of them holds and the other does not; keys with different ones
\* never do.
CompareTells ==
  \A p, q \in PKeys :
    has[p] /\ has[q] /\ holds[p].group # Null /\ holds[q].group # Null =>
      /\ ParamCmp(p, q) = "same" => Effective(p) = Effective(q)
      /\ Effective(p) = Effective(q) =>
           \/ ParamCmp(p, q) = "same"
           \/ {holds[p].sbox, holds[q].sbox} = {Null, DefaultSbox}
=============================================================================
