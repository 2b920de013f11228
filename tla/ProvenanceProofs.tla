------------------------- MODULE ProvenanceProofs -------------------------
(***************************************************************************)
(* Proofs about Provenance: for every set of parties, of relays and of     *)
(* keys, and whatever the parties nobody relies on hand on.                *)
(***************************************************************************)
EXTENDS Provenance, SequenceTheorems, WellFoundedInduction, TLAPS

-----------------------------------------------------------------------------
(* The inductive invariant.                                                *)

(* A hop with a MAC out of T: the MAC holds a chain, whose hops hold MACs. *)
HopRec(T) ==
  [by : {"self", "unclaimed", "so_peercred"}, verified : BOOLEAN, hop : Nat,
   subject : SUBSET Parties, key : SUBSET Keyed, mac : T]
IsChain(c) == \E T : c \in Seq(HopRec(T))

PartsInv ==
  /\ holder \in Parties /\ msg \in 0 .. MaxVersion /\ attrs \in Marks
  /\ hops \in Nat /\ submits \in Nat /\ origin \subseteq Parties
  /\ IsChain(chain)
  /\ \A k \in 1 .. Len(chain) : chain[k].hop \in {0, k - 1}

(* What a service passed on is a chain, and what it stamped ends with its  *)
(* stamp, bound to what it saw if it has a key.                            *)
StampOf(e, n) ==
  /\ n > 1
  /\ e.chain[n].by = "so_peercred" /\ e.chain[n].verified
  /\ e.chain[n].subject = {e.from}
  /\ e.by \in Keyed =>
       /\ e.chain[n].key = {e.by}
       /\ e.chain[n].mac =
            {[key |-> e.by, of |-> bound(e.msg, e.attrs, e.chain, n)]}
  /\ n = 2 => e.from \in e.origin
EventInv(e) ==
  /\ e.by \in Parties /\ e.msg \in Nat /\ e.stamped \in BOOLEAN
  /\ IsChain(e.chain) /\ Len(e.chain) > 0
  /\ e.stamped => StampOf(e, Len(e.chain))

(* What an authorised relay hands on: a chain nobody vouches for, or one   *)
(* that it passed on as a service.                                         *)
Blank(c) ==
  \/ c = <<>>
  \/ Len(c) = 1 /\ ~c[1].verified
HandedOn(p, c, S) == Blank(c) \/ \E e \in S : e.by = p /\ e.chain = c
FromRelay(e, S) ==
  e.stamped /\ e.from \in Relays =>
    \/ Len(e.chain) = 2 /\ ~e.chain[1].verified
    \/ \E d \in S : /\ d.by = e.from
                    /\ d.chain = SubSeq(e.chain, 1, Len(e.chain) - 1)

(* A MAC under a key is bogus or its owner's.                              *)
MacFrom(x, S) ==
  \/ x.of.msg = -1
  \/ \E e \in S :
       /\ e.stamped /\ e.by = x.key
       /\ x.of = bound(e.msg, e.attrs, e.chain, Len(e.chain))
       /\ e.chain[Len(e.chain)].mac = {x}

ServedInv == \A e \in served : EventInv(e) /\ FromRelay(e, served)
HandedInv == holder \in Relays => HandedOn(holder, chain, served)
AnchorInv ==
  /\ Len(anchor) <= 1
  /\ anchor # <<>> /\ chain # <<>> =>
       \E e \in served : e.stamped /\ e.by = holder /\ e.chain = chain
MacInv ==
  \A k \in 1 .. Len(chain) : \A x \in chain[k].mac : MacFrom(x, served)
OriginInv == Len(chain) <= 1 => holder \in origin

IInv ==
  PartsInv /\ ServedInv /\ HandedInv /\ AnchorInv /\ MacInv /\ OriginInv

-----------------------------------------------------------------------------
(* What a MAC is over, and what Bind does to a chain.                      *)

LEMMA WiderHops ==
  ASSUME NEW T, NEW U, T \subseteq U, NEW c \in Seq(HopRec(T))
  PROVE  c \in Seq(HopRec(U))
<1>1. HopRec(T) \subseteq HopRec(U)
  BY DEF HopRec
<1> QED  BY <1>1

(* bound looks at the hops up to k, and not at the MAC of hop k.           *)
LEMMA BoundOf ==
  ASSUME NEW T, NEW c \in Seq(HopRec(T)), NEW k \in 1 .. Len(c), NEW m, NEW a
  PROVE  bound(m, a, c, k) =
           [msg |-> m, attrs |-> a,
            chain |-> [i \in 1 .. k |->
                         IF i = k THEN [c[k] EXCEPT !.mac = {}] ELSE c[i]]]
<1>1. SubSeq(c, 1, k) = [i \in 1 .. k |-> c[i]]
  OBVIOUS
<1>2. [SubSeq(c, 1, k) EXCEPT ![k].mac = {}]
        = [i \in 1 .. k |-> IF i = k THEN [c[k] EXCEPT !.mac = {}] ELSE c[i]]
  BY <1>1
<1> QED  BY <1>2 DEF bound

LEMMA BoundSame ==
  ASSUME NEW T, NEW c \in Seq(HopRec(T)), NEW d \in Seq(HopRec(T)),
         NEW k \in 1 .. Len(c), k <= Len(d),
         \A i \in 1 .. k - 1 : c[i] = d[i],
         c[k].by = d[k].by, c[k].verified = d[k].verified, c[k].hop = d[k].hop,
         c[k].subject = d[k].subject, c[k].key = d[k].key,
         NEW m, NEW a
  PROVE  bound(m, a, c, k) = bound(m, a, d, k)
<1>1. k \in 1 .. Len(d) /\ c[k] \in HopRec(T) /\ d[k] \in HopRec(T)
  OBVIOUS
<1>0. [c[k] EXCEPT !.mac = {}] = [d[k] EXCEPT !.mac = {}]
  BY <1>1 DEF HopRec
<1>2. [i \in 1 .. k |-> IF i = k THEN [c[k] EXCEPT !.mac = {}] ELSE c[i]]
        = [i \in 1 .. k |-> IF i = k THEN [d[k] EXCEPT !.mac = {}] ELSE d[i]]
  BY <1>0
<1>3. bound(m, a, c, k) =
        [msg |-> m, attrs |-> a,
         chain |-> [i \in 1 .. k |-> IF i = k THEN [c[k] EXCEPT !.mac = {}] ELSE c[i]]]
  BY BoundOf
<1>4. bound(m, a, d, k) =
        [msg |-> m, attrs |-> a,
         chain |-> [i \in 1 .. k |-> IF i = k THEN [d[k] EXCEPT !.mac = {}] ELSE d[i]]]
  BY <1>1, BoundOf
<1> QED  BY <1>2, <1>3, <1>4, Zenon

LEMMA BindFacts ==
  ASSUME NEW T, NEW c \in Seq(HopRec(T)), Len(c) > 0, NEW key \in Keyed,
         NEW m, NEW a, NEW b, b = Bind(m, a, c, Len(c), key)
  PROVE  /\ \E U : T \subseteq U /\ b \in Seq(HopRec(U))
         /\ Len(b) = Len(c)
         /\ \A i \in 1 .. Len(c) - 1 : b[i] = c[i]
         /\ b[Len(c)].by = c[Len(c)].by
         /\ b[Len(c)].verified = c[Len(c)].verified
         /\ b[Len(c)].hop = c[Len(c)].hop
         /\ b[Len(c)].subject = c[Len(c)].subject
         /\ b[Len(c)].key = {key}
         /\ b[Len(c)].mac = {[key |-> key, of |-> bound(m, a, b, Len(c))]}
<1> DEFINE k == Len(c)
           h == [c[k] EXCEPT !.key = {key}, !.mac = {}]
           keyed == [c EXCEPT ![k] = h]
           tag == {[key |-> key, of |-> bound(m, a, keyed, k)]}
           g == [h EXCEPT !.mac = tag]
           U == T \union {{}, tag}
<1>1. k \in 1 .. Len(c) /\ c[k] \in HopRec(T)
  OBVIOUS
<1>2. /\ h \in HopRec(U) /\ h.by = c[k].by /\ h.verified = c[k].verified
      /\ h.hop = c[k].hop /\ h.subject = c[k].subject /\ h.key = {key}
  <2> HIDE DEF k, tag
  <2> QED  BY <1>1 DEF HopRec
<1>3. /\ g \in HopRec(U) /\ g.by = h.by /\ g.verified = h.verified
      /\ g.hop = h.hop /\ g.subject = h.subject /\ g.key = h.key /\ g.mac = tag
  <2> HIDE DEF k, tag, h
  <2> QED  BY <1>2 DEF HopRec
<1> HIDE DEF h, g, tag, U
<1>4. c \in Seq(HopRec(U))
  BY WiderHops DEF U
<1>5. /\ keyed \in Seq(HopRec(U)) /\ Len(keyed) = k
      /\ keyed[k] = h /\ \A i \in 1 .. k - 1 : keyed[i] = c[i]
  BY <1>1, <1>2, <1>4
<1>6. b = [keyed EXCEPT ![k] = g]
  BY <1>5 DEF Bind, h, g, tag
<1>7. /\ b \in Seq(HopRec(U)) /\ Len(b) = k
      /\ b[k] = g /\ \A i \in 1 .. k - 1 : b[i] = c[i]
  BY <1>1, <1>3, <1>5, <1>6
<1>8. bound(m, a, keyed, k) = bound(m, a, b, k)
  <2> HIDE DEF keyed
  <2>1. \A i \in 1 .. k - 1 : keyed[i] = b[i]
    BY <1>5, <1>7
  <2>2. /\ keyed[k].by = b[k].by /\ keyed[k].verified = b[k].verified
        /\ keyed[k].hop = b[k].hop /\ keyed[k].subject = b[k].subject
        /\ keyed[k].key = b[k].key
    BY <1>3, <1>5, <1>7
  <2>3. k \in 1 .. Len(keyed) /\ k <= Len(b)
    BY <1>1, <1>5, <1>7
  <2> HIDE DEF k
  <2> QED  BY <1>5, <1>7, <2>1, <2>2, <2>3, BoundSame
<1>9. b[k].mac = {[key |-> key, of |-> bound(m, a, b, k)]}
  BY <1>3, <1>7, <1>8 DEF tag
<1>10. T \subseteq U
  BY DEF U
<1> QED  BY <1>2, <1>3, <1>7, <1>9, <1>10

-----------------------------------------------------------------------------
(* The chain with hop 0 named, and with a stamp.                           *)

LEMMA Hop0Facts ==
  ASSUME IsChain(chain)
  PROVE  /\ \E T : chain \in Seq(HopRec(T)) /\ WithHop0 \in Seq(HopRec(T))
         /\ Len(WithHop0) \in Nat /\ Len(WithHop0) > 0
         /\ chain # <<>> => WithHop0 = chain
         /\ chain = <<>> => Len(WithHop0) = 1 /\ WithHop0[1] = Unclaimed
<1>1. PICK T : chain \in Seq(HopRec(T))
  BY DEF IsChain
<1>2. chain \in Seq(HopRec(T \union {{}}))
  BY <1>1, WiderHops
<1>3. Unclaimed \in HopRec(T \union {{}})
  BY DEF Unclaimed, Hop, HopRec, Nobody
<1>4. CASE chain = <<>>
  <2>1. WithHop0 = <<Unclaimed>>
    BY <1>4 DEF WithHop0
  <2>2. <<Unclaimed>> \in Seq(HopRec(T \union {{}}))
    BY <1>3
  <2>3. Len(<<Unclaimed>>) = 1 /\ <<Unclaimed>>[1] = Unclaimed
    OBVIOUS
  <2> QED  BY <1>2, <1>4, <2>1, <2>2, <2>3
<1>5. CASE chain # <<>>
  <2>1. WithHop0 = chain
    BY <1>5 DEF WithHop0
  <2>2. Len(chain) \in Nat /\ Len(chain) > 0
    BY <1>1, <1>5
  <2> QED  BY <1>2, <1>5, <2>1, <2>2
<1> QED  BY <1>4, <1>5

LEMMA StampedFacts ==
  ASSUME IsChain(chain), holder \in Parties, NEW q \in Parties,
         NEW c, c = Stamped(q), NEW n, n = Len(WithHop0) + 1
  PROVE  /\ IsChain(c)
         /\ Len(c) = n
         /\ \A i \in 1 .. n - 1 : c[i] = WithHop0[i]
         /\ c[n].by = "so_peercred" /\ c[n].verified
         /\ c[n].hop = n - 1 /\ c[n].subject = {holder}
         /\ q \in Keyed =>
              /\ c[n].key = {q}
              /\ c[n].mac = {[key |-> q, of |-> bound(msg, AcceptMarks, c, n)]}
         /\ q \notin Keyed => c[n].mac = {}
<1> DEFINE h == Stamp(holder, HopIndex)
           d == Append(WithHop0, h)
<1>1. PICK T : chain \in Seq(HopRec(T)) /\ WithHop0 \in Seq(HopRec(T))
  BY Hop0Facts
<1> DEFINE V == T \union {{}}
<1>2. WithHop0 \in Seq(HopRec(V))
  BY <1>1, WiderHops
<1>3. HopIndex \in Nat /\ HopIndex = n - 1 /\ n \in Nat /\ n > 1
  BY <1>1, Hop0Facts DEF HopIndex
<1>4. /\ h \in HopRec(V) /\ h.by = "so_peercred" /\ h.verified /\ h.hop = n - 1
      /\ h.subject = {holder} /\ h.mac = {}
  BY <1>3 DEF Stamp, Hop, HopRec
<1> HIDE DEF h, V
<1>5. /\ d \in Seq(HopRec(V)) /\ Len(d) = n /\ d[n] = h
      /\ \A i \in 1 .. n - 1 : d[i] = WithHop0[i]
  BY <1>2, <1>3, <1>4
<1>6. c = IF q \in Keyed THEN Bind(msg, AcceptMarks, d, Len(d), q) ELSE d
  BY DEF Stamped, h
<1> HIDE DEF d
<1>7. CASE q \notin Keyed
  BY <1>4, <1>5, <1>6, <1>7 DEF IsChain
<1>8. CASE q \in Keyed
  <2>1. c = Bind(msg, AcceptMarks, d, Len(d), q) /\ Len(d) > 0
    BY <1>3, <1>5, <1>6, <1>8
  <2>2. /\ \E U : V \subseteq U /\ c \in Seq(HopRec(U))
        /\ Len(c) = Len(d)
        /\ \A i \in 1 .. Len(d) - 1 : c[i] = d[i]
        /\ c[Len(d)].by = d[Len(d)].by
        /\ c[Len(d)].verified = d[Len(d)].verified
        /\ c[Len(d)].hop = d[Len(d)].hop
        /\ c[Len(d)].subject = d[Len(d)].subject
        /\ c[Len(d)].key = {q}
        /\ c[Len(d)].mac = {[key |-> q, of |-> bound(msg, AcceptMarks, c, Len(d))]}
    BY <1>5, <1>8, <2>1, BindFacts
  <2>3. IsChain(c)
    BY <2>2 DEF IsChain
  <2>4. \A i \in 1 .. n - 1 : c[i] = WithHop0[i]
    BY <1>5, <2>2
  <2>5. /\ Len(c) = n /\ c[n].by = "so_peercred" /\ c[n].verified
        /\ c[n].hop = n - 1 /\ c[n].subject = {holder} /\ c[n].key = {q}
        /\ c[n].mac = {[key |-> q, of |-> bound(msg, AcceptMarks, c, n)]}
    BY <1>4, <1>5, <2>2
  <2> QED  BY <1>8, <2>3, <2>4, <2>5
<1> QED  BY <1>7, <1>8

-----------------------------------------------------------------------------
(* The invariant is inductive.                                             *)

(* What was passed on stays passed on.                                     *)
LEMMA ServedGrows ==
  ASSUME NEW S, NEW R, S \subseteq R
  PROVE  /\ \A p, c : HandedOn(p, c, S) => HandedOn(p, c, R)
         /\ \A e : FromRelay(e, S) => FromRelay(e, R)
         /\ \A x : MacFrom(x, S) => MacFrom(x, R)
<1>1. \A p, c : HandedOn(p, c, S) => HandedOn(p, c, R)
  BY DEF HandedOn
<1>2. \A e : FromRelay(e, S) => FromRelay(e, R)
  BY DEF FromRelay
<1>3. \A x : MacFrom(x, S) => MacFrom(x, R)
  BY DEF MacFrom
<1> QED  BY <1>1, <1>2, <1>3

LEMMA ProvInit == Init => IInv
<1> SUFFICES ASSUME Init PROVE IInv
  OBVIOUS
<1>1. /\ holder \in Parties /\ msg = 0 /\ attrs = NoMarks /\ anchor = <<>>
      /\ hops = 0 /\ submits = 0 /\ origin = {holder} /\ served = {}
  BY DEF Init
<1>2. msg \in 0 .. MaxVersion /\ attrs \in Marks
  BY <1>1, ProvenanceAssumption DEF NoMarks, Marks
<1>3. /\ IsChain(chain) /\ Blank(chain)
      /\ \A k \in 1 .. Len(chain) : chain[k].hop \in {0, k - 1} /\ chain[k].mac = {}
  <2>1. CASE chain = <<>>
    <3>1. chain \in Seq(HopRec({})) /\ Len(chain) = 0
      BY <2>1
    <3> QED  BY <2>1, <3>1 DEF IsChain, Blank
  <2>2. CASE chain # <<>>
    <3>1. PICK p \in Parties : chain = <<Claim(p)>>
      BY <2>2 DEF Init
    <3>2. /\ Claim(p) \in HopRec({{}}) /\ ~Claim(p).verified
          /\ Claim(p).hop = 0 /\ Claim(p).mac = {}
      BY DEF Claim, Hop, HopRec
    <3>3. chain \in Seq(HopRec({{}})) /\ Len(chain) = 1 /\ chain[1] = Claim(p)
      BY <3>1, <3>2
    <3> QED  BY <3>2, <3>3 DEF IsChain, Blank
  <2> QED  BY <2>1, <2>2
<1>4. PartsInv
  BY <1>1, <1>2, <1>3 DEF PartsInv
<1>5. ServedInv /\ AnchorInv /\ OriginInv /\ HandedInv
  BY <1>1, <1>3 DEF ServedInv, AnchorInv, OriginInv, HandedInv, HandedOn
<1>6. MacInv
  BY <1>3 DEF MacInv
<1> QED  BY <1>4, <1>5, <1>6 DEF IInv

(* A service that cannot attest its peer marks the record, which keeps its *)
(* chain.                                                                  *)
LEMMA UnattestedStep ==
  ASSUME IInv, NEW q \in Parties, AcceptUnattested(q)
  PROVE  IInv'
<1> DEFINE ev == [by |-> q, from |-> holder, origin |-> origin, stamped |-> FALSE,
                  msg |-> msg, attrs |-> attrs', chain |-> chain']
<1>0. /\ PartsInv /\ ServedInv /\ HandedInv /\ AnchorInv /\ MacInv /\ OriginInv
  BY DEF IInv
<1>1. /\ holder' = q /\ msg' = msg /\ chain' = WithHop0 /\ anchor' = <<>>
      /\ hops' = hops + 1 /\ submits' = submits
      /\ served' = served \union {ev}
      /\ origin' = IF Len(chain) <= 1 THEN origin \union {q} ELSE origin
  BY DEF AcceptUnattested, Travel, NoAnchor
<1>2. attrs' \in Marks
  <2>1. PICK e \in PeerErrors : attrs' = [AcceptMarks EXCEPT !.peer_error = e]
    BY DEF AcceptUnattested
  <2>2. AcceptMarks \in Marks
    BY <1>0 DEF AcceptMarks, PartsInv, Marks
  <2> QED  BY <2>1, <2>2 DEF Marks
<1>3. /\ IsChain(chain')
      /\ Len(chain') \in Nat /\ Len(chain') > 0
      /\ chain # <<>> => chain' = chain
      /\ chain = <<>> => Len(chain') = 1 /\ chain'[1] = Unclaimed
  <2>1. IsChain(chain)
    BY <1>0 DEF PartsInv
  <2> QED  BY <1>1, <2>1, Hop0Facts DEF IsChain
<1>4. Unclaimed.hop = 0 /\ ~Unclaimed.verified /\ Unclaimed.mac = {}
  BY DEF Unclaimed, Hop
<1>5. PartsInv'
  <2>1. \A k \in 1 .. Len(chain') : chain'[k].hop \in {0, k - 1}
    BY <1>0, <1>3, <1>4 DEF PartsInv
  <2>2. origin' \subseteq Parties /\ hops' \in Nat
    BY <1>0, <1>1 DEF PartsInv
  <2> QED  BY <1>0, <1>1, <1>2, <1>3, <2>1, <2>2 DEF PartsInv
<1>6. EventInv(ev) /\ FromRelay(ev, served')
  <2>1. /\ ev.by = q /\ ev.msg = msg /\ ev.stamped = FALSE /\ ev.chain = chain'
    OBVIOUS
  <2>2. msg \in Nat
    BY <1>0, ProvenanceAssumption DEF PartsInv
  <2> HIDE DEF ev
  <2> QED  BY <1>3, <2>1, <2>2 DEF EventInv, FromRelay
<1>7. /\ ev.by = q /\ ev.chain = chain'
  OBVIOUS
<1> HIDE DEF ev
<1>8. served \subseteq served' /\ ev \in served'
  BY <1>1
<1>9. ServedInv'
  <2>1. \A e \in served : EventInv(e) /\ FromRelay(e, served')
    BY <1>0, <1>8, ServedGrows DEF ServedInv
  <2> QED  BY <1>1, <1>6, <2>1 DEF ServedInv
<1>10. HandedInv'
  BY <1>1, <1>7, <1>8 DEF HandedInv, HandedOn
<1>11. AnchorInv'
  BY <1>1 DEF AnchorInv
<1>12. MacInv'
  <2>1. CASE chain = <<>>
    <3>0. Len(chain') = 1 /\ chain'[1].mac = {}
      BY <1>3, <1>4, <2>1, Zenon
    <3>1. \A k \in 1 .. Len(chain') : chain'[k].mac = {}
      BY <3>0
    <3> QED  BY <3>1 DEF MacInv
  <2>2. CASE chain # <<>>
    BY <1>0, <1>3, <1>8, <2>2, ServedGrows DEF MacInv
  <2> QED  BY <2>1, <2>2
<1>13. OriginInv'
  <2>1. Len(chain) \in Nat /\ (chain = <<>> => Len(chain) = 0)
    BY <1>0 DEF PartsInv, IsChain
  <2> QED  BY <1>1, <1>3, <2>1 DEF OriginInv
<1> QED  BY <1>5, <1>9, <1>10, <1>11, <1>12, <1>13 DEF IInv

(* A service that stamps the record.                                       *)
LEMMA AcceptStep ==
  ASSUME IInv, NEW q \in Parties, Accept(q)
  PROVE  IInv'
<1> DEFINE ev == [by |-> q, from |-> holder, origin |-> origin, stamped |-> TRUE,
                  msg |-> msg, attrs |-> attrs', chain |-> chain']
           n == Len(WithHop0) + 1
<1>0. /\ PartsInv /\ ServedInv /\ HandedInv /\ AnchorInv /\ MacInv /\ OriginInv
  BY DEF IInv
<1>1. /\ holder' = q /\ msg' = msg /\ attrs' = AcceptMarks /\ chain' = Stamped(q)
      /\ anchor' = <<Stamp(holder, HopIndex)>>
      /\ hops' = hops + 1 /\ submits' = submits
      /\ served' = served \union {ev} /\ origin' = origin
  BY DEF Accept, Travel
<1>2. attrs' \in Marks /\ msg \in Nat
  BY <1>0, <1>1, ProvenanceAssumption DEF AcceptMarks, PartsInv, Marks
<1>3. IsChain(chain) /\ holder \in Parties
  BY <1>0 DEF PartsInv
<1>4. /\ IsChain(chain') /\ Len(chain') = n
      /\ \A i \in 1 .. n - 1 : chain'[i] = WithHop0[i]
      /\ chain'[n].by = "so_peercred" /\ chain'[n].verified
      /\ chain'[n].hop = n - 1 /\ chain'[n].subject = {holder}
      /\ q \in Keyed =>
           /\ chain'[n].key = {q}
           /\ chain'[n].mac = {[key |-> q, of |-> bound(msg, attrs', chain', n)]}
      /\ q \notin Keyed => chain'[n].mac = {}
  BY <1>1, <1>3, StampedFacts
<1>5. /\ Len(WithHop0) \in Nat /\ Len(WithHop0) > 0
      /\ chain # <<>> => WithHop0 = chain
      /\ chain = <<>> => Len(WithHop0) = 1 /\ WithHop0[1] = Unclaimed
  BY <1>3, Hop0Facts
<1>6. Unclaimed.hop = 0 /\ ~Unclaimed.verified /\ Unclaimed.mac = {}
  BY DEF Unclaimed, Hop
<1>7. n \in Nat /\ n > 1 /\ Len(WithHop0) = n - 1
  BY <1>5
<1>8. /\ ev.by = q /\ ev.from = holder /\ ev.origin = origin /\ ev.stamped
      /\ ev.stamped \in BOOLEAN /\ ev.msg = msg /\ ev.attrs = attrs'
      /\ ev.chain = chain'
  OBVIOUS
<1> HIDE DEF ev, n
<1>9. served \subseteq served' /\ ev \in served'
  BY <1>1
<1>10. \A k \in 1 .. n - 1 :
         \/ chain # <<>> /\ k \in 1 .. Len(chain) /\ chain'[k] = chain[k]
         \/ chain = <<>> /\ k = 1 /\ chain'[k] = Unclaimed
  <2>1. CASE chain = <<>>
    <3>1. n = 2
      BY <1>5, <1>7, <2>1
    <3> QED  BY <1>4, <1>5, <2>1, <3>1
  <2>2. CASE chain # <<>>
    <3>1. Len(chain) = n - 1
      BY <1>5, <1>7, <2>2
    <3> QED  BY <1>4, <1>5, <2>2, <3>1
  <2> QED  BY <2>1, <2>2
<1>11. PartsInv'
  <2>1. ASSUME NEW k \in 1 .. n PROVE chain'[k].hop \in {0, k - 1}
    <3>1. CASE k = n
      BY <1>4, <3>1
    <3>2. CASE k # n
      <4>1. k \in 1 .. n - 1
        BY <1>7, <3>2
      <4> QED  BY <1>0, <1>6, <1>10, <4>1 DEF PartsInv
    <3> QED  BY <3>1, <3>2
  <2>2. hops' \in Nat
    BY <1>0, <1>1 DEF PartsInv
  <2> QED  BY <1>0, <1>1, <1>2, <1>4, <2>1, <2>2 DEF PartsInv
<1>12. EventInv(ev)
  <2>1. n = 2 => holder \in origin
    <3>1. ASSUME n = 2 PROVE Len(chain) <= 1
      <4>1. CASE chain = <<>>
        BY <4>1
      <4>2. CASE chain # <<>>
        <5>1. Len(chain) = 2 - 1
          BY <1>5, <1>7, <3>1, <4>2, Zenon
        <5> QED  BY <5>1
      <4> QED  BY <4>1, <4>2
    <3> QED  BY <1>0, <3>1 DEF OriginInv
  <2>2. StampOf(ev, n)
    BY <1>4, <1>7, <1>8, <2>1 DEF StampOf
  <2>3. Len(ev.chain) = n
    BY <1>4, <1>8
  <2> QED  BY <1>2, <1>4, <1>7, <1>8, <2>2, <2>3 DEF EventInv
<1>13. FromRelay(ev, served')
  <2> SUFFICES ASSUME holder \in Relays
               PROVE  \/ n = 2 /\ ~chain'[1].verified
                      \/ \E d \in served' : /\ d.by = holder
                                            /\ d.chain = SubSeq(chain', 1, n - 1)
    BY <1>4, <1>8 DEF FromRelay
  <2>1. HandedOn(holder, chain, served)
    BY <1>0 DEF HandedInv
  <2>2. 1 \in 1 .. n - 1
    BY <1>7
  <2>3. CASE chain = <<>>
    <3>1. n = 2
      BY <1>5, <1>7, <2>3
    <3>2. chain'[1] = Unclaimed
      BY <1>10, <2>2, <2>3
    <3> QED  BY <1>6, <3>1, <3>2
  <2>4. CASE chain # <<>>
    <3>1. Len(chain) = n - 1
      BY <1>5, <1>7, <2>4
    <3>2. \A k \in 1 .. n - 1 : chain'[k] = chain[k]
      BY <1>10, <2>4
    <3>3. CASE Len(chain) = 1 /\ ~chain[1].verified
      <4>0. n - 1 = 1
        BY <3>1, <3>3, Zenon
      <4>1. n = 2
        BY <1>7, <4>0
      <4> QED  BY <2>2, <3>2, <3>3, <4>1
    <3>4. CASE \E e \in served : e.by = holder /\ e.chain = chain
      <4>1. PICK e \in served : e.by = holder /\ e.chain = chain
        BY <3>4
      <4>2. chain = SubSeq(chain', 1, n - 1)
        <5>1. SubSeq(chain', 1, n - 1) = [i \in 1 .. n - 1 |-> chain'[i]]
          BY <1>4, <1>7 DEF IsChain
        <5>2. chain = [i \in 1 .. n - 1 |-> chain[i]]
          BY <1>3, <3>1 DEF IsChain
        <5> QED  BY <3>2, <5>1, <5>2
      <4> QED  BY <1>9, <4>1, <4>2
    <3> QED  BY <2>1, <2>4, <3>3, <3>4 DEF HandedOn, Blank
  <2> QED  BY <2>3, <2>4
<1>14. ServedInv'
  <2>1. \A e \in served : EventInv(e) /\ FromRelay(e, served')
    BY <1>0, <1>9, ServedGrows DEF ServedInv
  <2> QED  BY <1>1, <1>12, <1>13, <2>1 DEF ServedInv
<1>15. HandedInv'
  BY <1>1, <1>8, <1>9 DEF HandedInv, HandedOn
<1>16. AnchorInv'
  <2>1. Len(anchor') <= 1
    BY <1>1
  <2> QED  BY <1>1, <1>8, <1>9, <2>1 DEF AnchorInv
<1>17. MacInv'
  <2> SUFFICES ASSUME NEW k \in 1 .. n, NEW x \in chain'[k].mac
               PROVE  MacFrom(x, served')
    BY <1>4 DEF MacInv
  <2>1. CASE k = n
    <3>1. q \in Keyed
      BY <1>4, <2>1
    <3>2. /\ x = [key |-> q, of |-> bound(msg, attrs', chain', n)]
          /\ chain'[n].mac = {x}
      BY <1>4, <2>1, <3>1
    <3>3. x.key = q /\ x.of = bound(msg, attrs', chain', n)
      BY <3>2
    <3>4. Len(ev.chain) = n
      BY <1>4, <1>8
    <3> QED  BY <1>8, <1>9, <3>2, <3>3, <3>4 DEF MacFrom
  <2>2. CASE k # n
    <3>1. k \in 1 .. n - 1
      BY <1>7, <2>2
    <3>2. chain # <<>> /\ k \in 1 .. Len(chain) /\ chain'[k] = chain[k]
      BY <1>6, <1>10, <3>1
    <3> QED  BY <1>0, <1>9, <3>2, ServedGrows DEF MacInv
  <2> QED  BY <2>1, <2>2
<1>18. OriginInv'
  BY <1>4, <1>7 DEF OriginInv
<1> QED  BY <1>11, <1>14, <1>15, <1>16, <1>17, <1>18 DEF IInv

(* The file sink shrinks the record.                                       *)
LEMMA ShrinkStep ==
  ASSUME IInv, Shrink
  PROVE  IInv'
<1>0. /\ PartsInv /\ ServedInv /\ HandedInv /\ AnchorInv /\ MacInv /\ OriginInv
  BY DEF IInv
<1>1. /\ msg < MaxVersion /\ msg' = msg + 1 /\ attrs' = NoMarks
      /\ holder' = holder /\ anchor' = anchor /\ hops' = hops
      /\ submits' = submits /\ served' = served
  BY DEF Shrink
<1>2. msg' \in 0 .. MaxVersion /\ attrs' \in Marks
  BY <1>0, <1>1, ProvenanceAssumption DEF PartsInv, NoMarks, Marks
<1>3. ServedInv'
  BY <1>0, <1>1 DEF ServedInv
<1>4. CASE chain' = chain /\ origin' = origin
  BY <1>0, <1>1, <1>2, <1>3, <1>4
     DEF IInv, PartsInv, HandedInv, AnchorInv, MacInv, OriginInv
<1>5. CASE chain' = <<>> /\ origin' = {holder}
  <2>1. chain' \in Seq(HopRec({})) /\ Len(chain') = 0
    BY <1>5
  <2>2. PartsInv'
    BY <1>0, <1>1, <1>2, <1>5, <2>1 DEF PartsInv, IsChain
  <2>3. HandedInv' /\ AnchorInv' /\ OriginInv' /\ MacInv'
    BY <1>0, <1>1, <1>5, <2>1
       DEF HandedInv, HandedOn, Blank, AnchorInv, OriginInv, MacInv
  <2> QED  BY <1>3, <2>2, <2>3 DEF IInv
<1> QED  BY <1>4, <1>5 DEF Shrink

(* What a party makes of a chain on its own: hops of it, hops whose MAC is *)
(* empty or bogus, and MACs that came with it.                             *)
OwnMac(x) == x.of.msg = -1
Had(k, x) == k \in 1 .. Len(chain) /\ x \in chain[k].mac
MadeOf(c) ==
  /\ IsChain(c)
  /\ \A k \in 1 .. Len(c) :
       /\ c[k].hop \in {0, k - 1}
       /\ \A x \in c[k].mac : OwnMac(x) \/ Had(k, x)

LEMMA OwnHopFacts ==
  ASSUME NEW j \in Nat, NEW h \in OwnHops(j)
  PROVE  /\ \E T : h \in HopRec(T)
         /\ h.hop \in {0, j} /\ \A x \in h.mac : OwnMac(x)
<1>1. ASSUME NEW b \in {"self", "so_peercred"}, NEW v \in BOOLEAN, NEW k \in {0, j},
             NEW p \in Parties
      PROVE  /\ Hop(b, v, k, {p}) \in HopRec({{}})
             /\ Hop(b, v, k, {p}).hop \in {0, j} /\ Hop(b, v, k, {p}).mac = {}
  BY <1>1 DEF Hop, HopRec
<1>2. ASSUME NEW p \in Parties, NEW key \in HeldKeys,
             h = Forged(p, j, key)
      PROVE  h \in HopRec({{Bogus(key)}}) /\ h.hop = j /\ h.mac = {Bogus(key)}
  <2> DEFINE b == {Bogus(key)}
  <2>1. h = [Stamp(p, j) EXCEPT !.key = {key}, !.mac = b]
    BY <1>2 DEF Forged
  <2>2. key \in Keyed
    BY ProvenanceAssumption
  <2> HIDE DEF b
  <2>3. h \in HopRec({b}) /\ h.hop = j /\ h.mac = b
    BY <2>1, <2>2 DEF Stamp, Hop, HopRec
  <2> QED  BY <2>3 DEF b
<1>3. \A key : OwnMac(Bogus(key))
  BY DEF Bogus, OwnMac
<1>4. ASSUME NEW p \in Parties,
             h \in {Claim(p), Stamp(p, j), Verified(p, j), Unverified(p, j)}
      PROVE  h \in HopRec({{}}) /\ h.hop \in {0, j} /\ h.mac = {}
  <2>1. CASE h = Claim(p)
    BY <1>1, <2>1 DEF Claim
  <2>2. CASE h = Stamp(p, j)
    BY <1>1, <2>2 DEF Stamp
  <2>3. CASE h = Verified(p, j)
    BY <1>1, <2>3 DEF Verified
  <2>4. CASE h = Unverified(p, j)
    BY <1>1, <2>4 DEF Unverified
  <2> QED  BY <1>4, <2>1, <2>2, <2>3, <2>4
<1>5. \/ \E p \in Parties :
           h \in {Claim(p), Stamp(p, j), Verified(p, j), Unverified(p, j)}
      \/ \E p \in Parties, key \in HeldKeys : h = Forged(p, j, key)
  BY DEF OwnHops
<1> QED  BY <1>2, <1>3, <1>4, <1>5

LEMMA CutFacts ==
  ASSUME PartsInv, NEW c \in Cuts
  PROVE  /\ MadeOf(c) /\ Len(c) \in Nat
         /\ \A T : chain \in Seq(HopRec(T)) => c \in Seq(HopRec(T))
<1>1. PICK T : chain \in Seq(HopRec(T))
  BY DEF PartsInv, IsChain
<1>2. PICK i \in 0 .. Len(chain) : c = SubSeq(chain, 1, i)
  BY DEF Cuts
<1>3. /\ Len(c) = i /\ i \in Nat
      /\ \A k \in 1 .. i : c[k] = chain[k] /\ k \in 1 .. Len(chain)
  BY <1>1, <1>2
<1>4. \A U : chain \in Seq(HopRec(U)) => c \in Seq(HopRec(U))
  BY <1>2
<1>5. MadeOf(c)
  BY <1>1, <1>3, <1>4 DEF MadeOf, IsChain, PartsInv, Had
<1> QED  BY <1>3, <1>4, <1>5

LEMMA ExtendedFacts ==
  ASSUME PartsInv, NEW c \in Cuts, NEW h \in OwnHops(Len(c))
  PROVE  MadeOf(Append(c, h))
<1>1. PICK T : chain \in Seq(HopRec(T))
  BY DEF PartsInv, IsChain
<1>2. MadeOf(c) /\ Len(c) \in Nat /\ c \in Seq(HopRec(T))
  BY <1>1, CutFacts
<1>3. PICK U : h \in HopRec(U)
  BY <1>2, OwnHopFacts
<1>4. h.hop \in {0, Len(c)} /\ \A x \in h.mac : OwnMac(x)
  BY <1>2, OwnHopFacts
<1> DEFINE V == T \union U
           d == Append(c, h)
<1>5. c \in Seq(HopRec(V)) /\ h \in HopRec(V)
  BY <1>2, <1>3, WiderHops DEF HopRec
<1> HIDE DEF V
<1>6. /\ d \in Seq(HopRec(V)) /\ Len(d) = Len(c) + 1 /\ d[Len(c) + 1] = h
      /\ \A k \in 1 .. Len(c) : d[k] = c[k]
  BY <1>5
<1> HIDE DEF d
<1>7. ASSUME NEW k \in 1 .. Len(d)
      PROVE  /\ d[k].hop \in {0, k - 1}
             /\ \A x \in d[k].mac : OwnMac(x) \/ Had(k, x)
  <2>1. CASE k = Len(c) + 1
    <3>1. d[k] = h /\ k - 1 = Len(c)
      BY <1>2, <1>6, <2>1
    <3> QED  BY <1>4, <3>1
  <2>2. CASE k # Len(c) + 1
    <3>1. k \in 1 .. Len(c) /\ d[k] = c[k]
      BY <1>2, <1>6, <2>2
    <3> QED  BY <1>2, <3>1 DEF MadeOf
  <2> QED  BY <2>1, <2>2
<1>8. MadeOf(d)
  BY <1>6, <1>7 DEF MadeOf, IsChain
<1> QED  BY <1>8 DEF d

LEMMA AlteredFacts ==
  ASSUME PartsInv, NEW c \in Altered
  PROVE  MadeOf(c) /\ Len(c) = Len(chain)
<1>1. PICK T : chain \in Seq(HopRec(T))
  BY DEF PartsInv, IsChain
<1>2. PICK k \in DOMAIN chain, p \in Parties : c = [chain EXCEPT ![k].subject = {p}]
  BY DEF Altered
<1> DEFINE h == [chain[k] EXCEPT !.subject = {p}]
<1>3. k \in 1 .. Len(chain) /\ chain[k] \in HopRec(T)
  BY <1>1
<1>4. h \in HopRec(T) /\ h.hop = chain[k].hop /\ h.mac = chain[k].mac
  BY <1>3 DEF HopRec
<1>5. c = [chain EXCEPT ![k] = h]
  BY <1>2
<1> HIDE DEF h
<1>6. /\ c \in Seq(HopRec(T)) /\ Len(c) = Len(chain) /\ c[k] = h
      /\ \A i \in 1 .. Len(chain) : i # k => c[i] = chain[i]
  BY <1>1, <1>3, <1>4, <1>5
<1>7. \A i \in 1 .. Len(chain) :
        c[i].hop = chain[i].hop /\ c[i].mac = chain[i].mac
  BY <1>4, <1>6
<1> QED  BY <1>6, <1>7 DEF MadeOf, IsChain, PartsInv, Had

(* A party nobody relies on hands on a chain of its own making.            *)
LEMMA SubmitStep ==
  ASSUME IInv, Submit
  PROVE  IInv'
<1>0. /\ PartsInv /\ ServedInv /\ MacInv /\ OriginInv
  BY DEF IInv
<1>1. /\ holder \notin Relays /\ submits' = submits + 1
      /\ holder' = holder /\ hops' = hops /\ served' = served
      /\ chain' \in Cuts \union Extended \union Altered
      /\ anchor' = <<>> /\ msg' = msg /\ attrs' = attrs
      /\ origin' = IF Len(chain') <= 1 THEN {holder} ELSE origin
  BY DEF Submit, OfItsOwn, Free
<1>2. MadeOf(chain')
  <2>1. CASE chain' \in Cuts
    BY <1>0, <2>1, CutFacts
  <2>2. CASE chain' \in Extended
    <3>1. PICK c \in Cuts : \E h \in OwnHops(Len(c)) : chain' = Append(c, h)
      BY <2>2 DEF Extended
    <3>2. PICK h \in OwnHops(Len(c)) : chain' = Append(c, h)
      BY <3>1
    <3>3. MadeOf(Append(c, h))
      BY <1>0, ExtendedFacts
    <3> QED  BY <3>2, <3>3
  <2>3. CASE chain' \in Altered
    BY <1>0, <2>3, AlteredFacts
  <2> QED  BY <1>1, <2>1, <2>2, <2>3
<1>3. PartsInv'
  BY <1>0, <1>1, <1>2 DEF PartsInv, MadeOf
<1>4. ServedInv' /\ HandedInv' /\ AnchorInv' /\ OriginInv'
  BY <1>0, <1>1 DEF ServedInv, HandedInv, AnchorInv, OriginInv
<1>5. MacInv'
  <2> SUFFICES ASSUME NEW k \in 1 .. Len(chain'), NEW x \in chain'[k].mac
               PROVE  MacFrom(x, served)
    BY <1>1 DEF MacInv
  <2>1. OwnMac(x) \/ Had(k, x)
    BY <1>2 DEF MadeOf
  <2> QED  BY <1>0, <2>1 DEF MacInv, MacFrom, OwnMac, Had
<1> QED  BY <1>3, <1>4, <1>5 DEF IInv

LEMMA RewriteStep ==
  ASSUME IInv, Rewrite
  PROVE  IInv'
<1>1. /\ submits' = submits + 1 /\ msg' \in 0 .. MaxVersion /\ attrs' \in Marks
      /\ holder' = holder /\ hops' = hops /\ served' = served
      /\ chain' = chain /\ anchor' = anchor /\ origin' = origin
  BY DEF Rewrite, OfItsOwn
<1>2. PartsInv'
  BY <1>1 DEF IInv, PartsInv
<1>3. ServedInv' /\ HandedInv' /\ AnchorInv' /\ MacInv' /\ OriginInv'
  BY <1>1 DEF IInv, ServedInv, HandedInv, AnchorInv, MacInv, OriginInv
<1> QED  BY <1>2, <1>3 DEF IInv

LEMMA ProvInvariant == Spec => []IInv
<1>1. Init => IInv
  BY ProvInit
<1>2. ASSUME IInv, [Next]_vars PROVE IInv'
  <2>1. CASE Next
    BY <1>2, <2>1, AcceptStep, UnattestedStep, ShrinkStep, SubmitStep, RewriteStep
       DEF Next
  <2>2. CASE UNCHANGED vars
    BY <1>2, <2>2 DEF vars, recordVars, IInv, PartsInv, ServedInv, HandedInv,
                      AnchorInv, MacInv, OriginInv
  <2> QED  BY <1>2, <2>1, <2>2
<1> QED  BY <1>1, <1>2, PTL DEF Spec

-----------------------------------------------------------------------------
(* Assess is well defined: walking down from the end of the chain gives    *)
(* every hop the standing that follows from the hop above it.              *)

LEMMA LeastNatural ==
  ASSUME NEW T \in SUBSET Nat, T # {}
  PROVE  \E x \in T : \A y \in T : x <= y
<1>1. IsWellFoundedOn(OpToRel(<, Nat), Nat)
  BY NatLessThanWellFounded
<1>2. PICK x \in T : \A y \in T : ~(<<y, x>> \in OpToRel(<, Nat))
  BY <1>1, WFMin
<1>3. \A y \in T : ~(y < x)
  BY <1>2 DEF OpToRel
<1> QED  BY <1>3

Above(f, k) == IF k < Len(chain) THEN f[k + 1] ELSE "none"
Walk(f, anch, m) ==
  f = [k \in m .. Len(chain) |-> Standing(anch, k, Above(f, k))]

LEMMA WalkExists ==
  ASSUME Len(chain) \in Nat, NEW anch
  PROVE  \E f : Walk(f, anch, 1)
<1> DEFINE n == Len(chain)
           bad == {d \in Nat : d <= n /\ ~\E f : Walk(f, anch, n + 1 - d)}
<1>1. SUFFICES bad = {}
  <2>1. n \in Nat /\ n <= n /\ n + 1 - n = 1
    OBVIOUS
  <2> HIDE DEF n
  <2>2. ASSUME bad = {} PROVE \E f : Walk(f, anch, n + 1 - n)
    BY <2>1, <2>2
  <2> QED  BY <2>1, <2>2
<1>2. SUFFICES ASSUME bad # {} PROVE FALSE
  OBVIOUS
<1>3. bad \in SUBSET Nat
  OBVIOUS
<1>4. PICK d \in bad : \A e \in bad : d <= e
  BY <1>2, <1>3, LeastNatural
<1>5. d \in Nat /\ d <= n /\ ~\E f : Walk(f, anch, n + 1 - d)
  BY <1>4
<1>6. d # 0
  <2> DEFINE f0 == [k \in n + 1 .. n |-> "none"]
  <2>1. \A k \in n + 1 .. n : FALSE
    OBVIOUS
  <2>2. Walk(f0, anch, n + 1 - 0)
    BY <2>1 DEF Walk
  <2> QED  BY <1>5, <2>2
<1>7. d - 1 \in Nat /\ d - 1 <= n /\ d - 1 \notin bad
  BY <1>4, <1>5, <1>6
<1>8. PICK f : Walk(f, anch, n + 1 - (d - 1))
  BY <1>7
<1> DEFINE m == n + 1 - d
           g == [k \in m .. n |-> IF k = m THEN Standing(anch, m, Above(f, m))
                                  ELSE f[k]]
<1>9. m \in Int /\ m <= n /\ n + 1 - (d - 1) = m + 1
  BY <1>5, <1>6
<1>10. Walk(f, anch, m + 1)
  BY <1>8, <1>9
<1> HIDE DEF m
<1>11. \A k \in m .. n : Above(g, k) = Above(f, k)
  BY <1>9 DEF Above
<1>12. \A k \in m .. n : g[k] = Standing(anch, k, Above(f, k))
  <2> SUFFICES ASSUME NEW k \in m .. n
               PROVE  g[k] = Standing(anch, k, Above(f, k))
    OBVIOUS
  <2>1. CASE k = m
    BY <2>1
  <2>2. CASE k # m
    <3>1. k \in m + 1 .. n
      BY <1>9, <2>2
    <3> QED  BY <1>10, <2>2, <3>1 DEF Walk
  <2> QED  BY <2>1, <2>2
<1>13. \A k \in m .. n : g[k] = Standing(anch, k, Above(g, k))
  BY <1>11, <1>12
<1>14. Walk(g, anch, m)
  <2>1. g = [k \in m .. n |-> g[k]]
    OBVIOUS
  <2> HIDE DEF g
  <2> QED  BY <1>13, <2>1 DEF Walk
<1> QED  BY <1>5, <1>14 DEF m

LEMMA AssessWalks ==
  ASSUME Len(chain) \in Nat, NEW anch
  PROVE  Walk(Assess(anch), anch, 1)
<1>1. \E f : Walk(f, anch, 1)
  BY WalkExists
<1>2. Assess(anch) = CHOOSE f : Walk(f, anch, 1)
  BY DEF Assess, Walk, Above
<1> QED  BY <1>1, <1>2

(* What a standing says about a hop.                                       *)
LEMMA StandingOf ==
  ASSUME NEW anch, NEW k \in 1 .. Len(chain), Len(chain) \in Nat
  PROVE  LET s == Assess(anch)[k]
         IN /\ s \in Trusted => chain[k].verified /\ chain[k].by # "self"
            /\ s = "established" =>
                 k = Len(chain) /\ anch # <<>> /\ sameStamp(chain[k], anch[1])
            /\ s = "vouched" =>
                 \/ Bound(k)
                 \/ /\ k < Len(chain) /\ Assess(anch)[k + 1] \in Trusted
                    /\ Authorizes(chain[k + 1])
<1>1. Assess(anch)[k] = Standing(anch, k, Above(Assess(anch), k))
  <2>1. Walk(Assess(anch), anch, 1)
    BY AssessWalks
  <2> HIDE DEF Assess
  <2> DEFINE A == Assess(anch)
  <2>2. A = [i \in 1 .. Len(chain) |-> Standing(anch, i, Above(A, i))]
    BY <2>1 DEF Walk
  <2> HIDE DEF A
  <2>3. A[k] = Standing(anch, k, Above(A, k))
    BY <2>2
  <2> QED  BY <2>3 DEF A
<1> QED  BY <1>1 DEF Standing, Above, Trusted

(* Without an anchor trust comes from a binding at or above the hop.       *)
LEMMA UnanchoredTrust ==
  ASSUME Len(chain) \in Nat
  PROVE  \A k \in 1 .. Len(chain) :
           Assess(<<>>)[k] \in Trusted => \E j \in k .. Len(chain) : Bound(j)
<1> DEFINE n == Len(chain)
           Good(k) == Assess(<<>>)[k] \in Trusted => \E j \in k .. n : Bound(j)
           bad == {d \in Nat : d < n /\ ~Good(n - d)}
<1>1. SUFFICES ASSUME NEW k0 \in 1 .. n, ~Good(k0) PROVE FALSE
  OBVIOUS
<1> HIDE DEF Good
<1>2. n - k0 \in bad
  <2>1. n - k0 \in Nat /\ n - k0 < n /\ n - (n - k0) = k0
    OBVIOUS
  <2> QED  BY <1>1, <2>1
<1>3. PICK d \in bad : \A e \in bad : d <= e
  BY <1>2, LeastNatural
<1> DEFINE k == n - d
<1>4. d \in Nat /\ d < n /\ ~Good(k) /\ k \in 1 .. n
  BY <1>3
<1>5. k < n => Good(k + 1)
  <2> SUFFICES ASSUME k < n, ~Good(k + 1) PROVE FALSE
    OBVIOUS
  <2>1. d - 1 \in Nat /\ d - 1 < n /\ n - (d - 1) = k + 1
    BY <1>4
  <2>2. d - 1 \in bad
    BY <2>1
  <2> QED  BY <1>3, <1>4, <2>2
<1> HIDE DEF k
<1>6. Good(k)
  <2>1. SUFFICES ASSUME Assess(<<>>)[k] \in Trusted
                 PROVE  \E j \in k .. n : Bound(j)
    BY DEF Good
  <2>2. \/ Bound(k)
        \/ k < n /\ Assess(<<>>)[k + 1] \in Trusted
    BY <1>4, <2>1, StandingOf DEF Trusted
  <2>3. CASE Bound(k)
    <3>1. k \in k .. n
      BY <1>4
    <3> QED  BY <2>3, <3>1
  <2>4. CASE k < n /\ Assess(<<>>)[k + 1] \in Trusted
    <3>1. PICK j \in k + 1 .. n : Bound(j)
      BY <1>5, <2>4 DEF Good
    <3>2. j \in k .. n
      BY <1>4
    <3> QED  BY <3>1, <3>2
  <2> QED  BY <2>2, <2>3, <2>4
<1> QED  BY <1>4, <1>6

-----------------------------------------------------------------------------
(* What a binding and a path say.                                          *)

Bare(h) == [h EXCEPT !.mac = {}]

(* Two contents with the same bound bytes are the same up to the MAC.      *)
LEMMA BoundInjective ==
  ASSUME NEW T, NEW c \in Seq(HopRec(T)), NEW k \in 1 .. Len(c),
         NEW U, NEW d \in Seq(HopRec(U)), NEW n \in 1 .. Len(d),
         NEW m, NEW a, NEW l, NEW b, bound(m, a, c, k) = bound(l, b, d, n)
  PROVE  /\ m = l /\ a = b /\ k = n
         /\ \A i \in 1 .. k - 1 : c[i] = d[i]
         /\ Bare(c[k]) = Bare(d[k])
<1> DEFINE f == [i \in 1 .. k |-> IF i = k THEN [c[k] EXCEPT !.mac = {}] ELSE c[i]]
           g == [i \in 1 .. n |-> IF i = n THEN [d[n] EXCEPT !.mac = {}] ELSE d[i]]
<1>1. bound(m, a, c, k) = [msg |-> m, attrs |-> a, chain |-> f]
  BY BoundOf
<1>2. bound(l, b, d, n) = [msg |-> l, attrs |-> b, chain |-> g]
  BY BoundOf
<1>3. [msg |-> m, attrs |-> a, chain |-> f] = [msg |-> l, attrs |-> b, chain |-> g]
  BY <1>1, <1>2
<1>4. m = l /\ a = b /\ f = g
  <2> HIDE DEF f, g
  <2> QED  BY <1>3
<1>5. k = n
  <2>1. DOMAIN f = 1 .. k /\ DOMAIN g = 1 .. n
    OBVIOUS
  <2>2. 1 .. k = 1 .. n
    <3> HIDE DEF f, g
    <3> QED  BY <1>4, <2>1
  <2>3. k \in Nat /\ n \in Nat /\ k > 0 /\ n > 0
    OBVIOUS
  <2>4. k \in 1 .. n /\ n \in 1 .. k
    BY <2>2, <2>3
  <2> QED  BY <2>3, <2>4
<1>6. \A i \in 1 .. k : f[i] = g[i]
  <2> HIDE DEF f, g
  <2> QED  BY <1>4
<1>7. \A i \in 1 .. k - 1 : c[i] = d[i]
  <2> SUFFICES ASSUME NEW i \in 1 .. k - 1 PROVE c[i] = d[i]
    OBVIOUS
  <2>1. i \in 1 .. k /\ i # k
    OBVIOUS
  <2>2. f[i] = c[i] /\ g[i] = d[i]
    BY <1>5, <2>1
  <2> HIDE DEF f, g
  <2> QED  BY <1>6, <2>1, <2>2
<1>8. Bare(c[k]) = Bare(d[k])
  <2>1. k \in 1 .. k
    OBVIOUS
  <2>2. f[k] = [c[k] EXCEPT !.mac = {}] /\ g[k] = [d[k] EXCEPT !.mac = {}]
    BY <1>5, <2>1
  <2> HIDE DEF f, g
  <2> QED  BY <1>6, <2>1, <2>2 DEF Bare
<1> QED  BY <1>4, <1>5, <1>7, <1>8

LEMMA SameButMac ==
  ASSUME NEW T, NEW x \in HopRec(T), NEW U, NEW y \in HopRec(U),
         Bare(x) = Bare(y), x.mac = y.mac
  PROVE  x = y
<1>1. /\ x = [by |-> x.by, verified |-> x.verified, hop |-> x.hop,
              subject |-> x.subject, key |-> x.key, mac |-> x.mac]
      /\ y = [by |-> y.by, verified |-> y.verified, hop |-> y.hop,
              subject |-> y.subject, key |-> y.key, mac |-> y.mac]
  BY DEF HopRec
<1>2. /\ x.by = y.by /\ x.verified = y.verified /\ x.hop = y.hop
      /\ x.subject = y.subject /\ x.key = y.key
  BY DEF HopRec, Bare
<1> QED  BY <1>1, <1>2

LEMMA PrefixOf ==
  ASSUME NEW T, NEW c \in Seq(HopRec(T)), NEW U, NEW d \in Seq(HopRec(U)),
         NEW k \in 1 .. Len(c), Len(d) = k, \A i \in 1 .. k : c[i] = d[i]
  PROVE  d = SubSeq(c, 1, k)
<1>1. SubSeq(c, 1, k) = [i \in 1 .. k |-> c[i]]
  OBVIOUS
<1>2. d = [i \in 1 .. k |-> d[i]]
  OBVIOUS
<1> QED  BY <1>1, <1>2

(* A binding that holds is the stamp of the owner of the key, about this   *)
(* content.                                                                *)
LEMMA BoundIsBacked ==
  ASSUME IInv, NEW k \in 1 .. Len(chain), Bound(k)
  PROVE  Backed(k)
<1>0. PartsInv /\ ServedInv /\ MacInv
  BY DEF IInv
<1>1. PICK T : chain \in Seq(HopRec(T))
  BY <1>0 DEF PartsInv, IsChain
<1>2. PICK key \in HeldKeys \intersect chain[k].key :
        chain[k].mac = {[key |-> key, of |-> bound(msg, attrs, chain, k)]}
  BY DEF Bound
<1> DEFINE x == [key |-> key, of |-> bound(msg, attrs, chain, k)]
<1>3. /\ x.key = key /\ x.of = bound(msg, attrs, chain, k)
      /\ chain[k].mac = {x} /\ x \in chain[k].mac
  BY <1>2
<1> HIDE DEF x
<1>4. x.of.msg # -1
  <2>1. bound(msg, attrs, chain, k).msg = msg
    BY DEF bound
  <2>2. msg \in Nat
    BY <1>0, ProvenanceAssumption DEF PartsInv
  <2> QED  BY <1>3, <2>1, <2>2
<1>5. PICK e \in served :
        /\ e.stamped /\ e.by = x.key
        /\ x.of = bound(e.msg, e.attrs, e.chain, Len(e.chain))
        /\ e.chain[Len(e.chain)].mac = {x}
  BY <1>0, <1>3, <1>4 DEF MacInv, MacFrom
<1> DEFINE d == e.chain
           n == Len(e.chain)
<1>6. EventInv(e)
  BY <1>0 DEF ServedInv
<1>7. PICK U : d \in Seq(HopRec(U))
  BY <1>6 DEF EventInv, IsChain
<1>8. n > 0 /\ StampOf(e, n)
  BY <1>5, <1>6 DEF EventInv
<1>9. n \in 1 .. Len(d)
  BY <1>7, <1>8
<1>10. /\ msg = e.msg /\ attrs = e.attrs /\ k = n
       /\ \A i \in 1 .. k - 1 : chain[i] = d[i]
       /\ Bare(chain[k]) = Bare(d[k])
  <2>1. bound(msg, attrs, chain, k) = bound(e.msg, e.attrs, d, n)
    BY <1>3, <1>5
  <2> HIDE DEF d, n
  <2> QED  BY <1>1, <1>7, <1>9, <2>1, BoundInjective
<1>11. chain[k] = d[k]
  <2>1. chain[k].mac = d[k].mac
    BY <1>3, <1>5, <1>10
  <2>2. chain[k] \in HopRec(T) /\ d[k] \in HopRec(U)
    BY <1>1, <1>7, <1>9, <1>10
  <2> HIDE DEF d
  <2> QED  BY <1>10, <2>1, <2>2, SameButMac
<1>12. d = SubSeq(chain, 1, k)
  <2>1. \A i \in 1 .. k : chain[i] = d[i]
    BY <1>10, <1>11
  <2>2. Len(d) = k
    BY <1>10
  <2> HIDE DEF d
  <2> QED  BY <1>1, <1>7, <2>1, <2>2, PrefixOf
<1>13. Stated(e, k)
  <2>1. chain[k].subject = {e.from}
    BY <1>8, <1>10, <1>11 DEF StampOf
  <2> QED  BY <1>5, <1>12, <2>1 DEF Stated
<1> QED  BY <1>2, <1>3, <1>5, <1>10, <1>13 DEF Backed

(* Below the stamp of a trusted service about an authorised relay stands   *)
(* what that relay stamped, or what it passed on unattested.               *)
LEMMA PathIsBacked ==
  ASSUME IInv, NEW k \in 1 .. Len(chain), k < Len(chain), chain[k].verified,
         Authorizes(chain[k + 1]), Backed(k + 1) \/ Relayed(k + 1)
  PROVE  Backed(k) \/ Relayed(k)
<1>0. PartsInv /\ ServedInv
  BY DEF IInv
<1>1. PICK T : chain \in Seq(HopRec(T))
  BY <1>0 DEF PartsInv, IsChain
<1>2. Len(chain) \in Nat /\ k + 1 \in 1 .. Len(chain)
  BY <1>1
<1>3. CASE Relayed(k + 1)
  <2>1. \A j \in k + 1 .. Len(chain) : j \in k .. Len(chain)
    BY <1>2
  <2> QED  BY <1>3, <2>1 DEF Relayed
<1>4. CASE Backed(k + 1)
  <2>1. PICK e \in served : Stated(e, k + 1)
    BY <1>4 DEF Backed
  <2>2. /\ e.stamped /\ e.chain = SubSeq(chain, 1, k + 1)
        /\ chain[k + 1].subject = {e.from}
    BY <2>1 DEF Stated
  <2>3. e.from \in Relays
    BY <2>2 DEF Authorizes
  <2>4. /\ Len(e.chain) = k + 1
        /\ \A i \in 1 .. k + 1 : e.chain[i] = chain[i]
        /\ SubSeq(e.chain, 1, k) = SubSeq(chain, 1, k)
    <3>1. /\ Len(SubSeq(chain, 1, k + 1)) = k + 1
          /\ \A i \in 1 .. k + 1 : SubSeq(chain, 1, k + 1)[i] = chain[i]
          /\ SubSeq(SubSeq(chain, 1, k + 1), 1, k) = SubSeq(chain, 1, k)
      BY <1>1, <1>2
    <3> QED  BY <2>2, <3>1
  <2>5. \/ Len(e.chain) = 2 /\ ~e.chain[1].verified
        \/ \E d \in served : /\ d.by = e.from
                             /\ d.chain = SubSeq(e.chain, 1, Len(e.chain) - 1)
    BY <1>0, <2>2, <2>3 DEF ServedInv, FromRelay
  <2>6. CASE Len(e.chain) = 2 /\ ~e.chain[1].verified
    <3>1. k = 1
      BY <2>4, <2>6
    <3> QED  BY <2>4, <2>6, <3>1
  <2>7. CASE \E d \in served : /\ d.by = e.from
                              /\ d.chain = SubSeq(e.chain, 1, Len(e.chain) - 1)
    <3>1. PICK d \in served : /\ d.by = e.from
                             /\ d.chain = SubSeq(e.chain, 1, Len(e.chain) - 1)
      BY <2>7
    <3>2. Len(e.chain) - 1 = k
      BY <2>4
    <3>3. d.chain = SubSeq(chain, 1, k) /\ d.by \in Relays
      BY <2>3, <2>4, <3>1, <3>2
    <3>4. EventInv(d)
      BY <1>0 DEF ServedInv
    <3>5. CASE d.stamped
      <4>1. Len(d.chain) = k /\ d.chain[k] = chain[k]
        <5>1. Len(SubSeq(chain, 1, k)) = k /\ SubSeq(chain, 1, k)[k] = chain[k]
          BY <1>1
        <5> QED  BY <3>3, <5>1
      <4>2. d.chain[k].subject = {d.from}
        BY <3>4, <3>5, <4>1 DEF EventInv, StampOf
      <4>3. Stated(d, k)
        BY <3>3, <3>5, <4>1, <4>2 DEF Stated
      <4> QED  BY <3>3, <4>3 DEF Backed
    <3>6. CASE ~d.stamped
      <4>1. k \in k .. Len(chain)
        BY <1>2
      <4> QED  BY <3>3, <3>6, <4>1 DEF Relayed
    <3> QED  BY <3>5, <3>6
  <2> QED  BY <2>5, <2>6, <2>7
<1> QED  BY <1>3, <1>4

LEMMA AnchorIsBacked ==
  ASSUME IInv, chain # <<>>, anchor # <<>>
  PROVE  \E e \in served : Stated(e, Len(chain)) /\ e.by = holder
<1>0. PartsInv /\ ServedInv /\ AnchorInv
  BY DEF IInv
<1>1. PICK T : chain \in Seq(HopRec(T))
  BY <1>0 DEF PartsInv, IsChain
<1>2. PICK e \in served : e.stamped /\ e.by = holder /\ e.chain = chain
  BY <1>0 DEF AnchorInv
<1>3. Len(chain) \in 1 .. Len(chain) /\ chain = SubSeq(chain, 1, Len(chain))
  <2>1. Len(chain) \in 1 .. Len(chain)
    BY <1>1
  <2> QED  BY <1>1, <2>1, PrefixOf
<1>4. chain[Len(chain)].subject = {e.from}
  BY <1>0, <1>2 DEF ServedInv, EventInv, StampOf
<1>5. Stated(e, Len(chain))
  BY <1>2, <1>3, <1>4 DEF Stated
<1> QED  BY <1>2, <1>5

(* Every trusted hop has a source: down the path from the last one.        *)
LEMMA TrustIsBacked ==
  ASSUME IInv
  PROVE  \A k \in 1 .. Len(chain) :
           Assess(anchor)[k] \in Trusted => Backed(k) \/ Relayed(k)
<1> DEFINE n == Len(chain)
           Good(k) == Assess(anchor)[k] \in Trusted => Backed(k) \/ Relayed(k)
           bad == {d \in Nat : d < n /\ ~Good(n - d)}
<1>0. Len(chain) \in Nat
  BY DEF IInv, PartsInv, IsChain
<1>1. SUFFICES ASSUME NEW k0 \in 1 .. n, ~Good(k0) PROVE FALSE
  OBVIOUS
<1> HIDE DEF Good
<1>2. n - k0 \in bad
  <2>1. n - k0 \in Nat /\ n - k0 < n /\ n - (n - k0) = k0
    BY <1>0
  <2> QED  BY <1>1, <2>1
<1>3. PICK d \in bad : \A e \in bad : d <= e
  BY <1>2, LeastNatural
<1> DEFINE k == n - d
<1>4. d \in Nat /\ d < n /\ ~Good(k) /\ k \in 1 .. n
  BY <1>0, <1>3
<1>5. k < n => Good(k + 1)
  <2> SUFFICES ASSUME k < n, ~Good(k + 1) PROVE FALSE
    OBVIOUS
  <2>1. d - 1 \in Nat /\ d - 1 < n /\ n - (d - 1) = k + 1
    BY <1>0, <1>4
  <2>2. d - 1 \in bad
    BY <2>1
  <2> QED  BY <1>0, <1>3, <1>4, <2>2
<1> HIDE DEF k
<1>6. Good(k)
  <2>1. SUFFICES ASSUME Assess(anchor)[k] \in Trusted
                 PROVE  Backed(k) \/ Relayed(k)
    BY DEF Good
  <2>2. /\ chain[k].verified
        /\ \/ k = Len(chain) /\ anchor # <<>>
           \/ Bound(k)
           \/ /\ k < Len(chain) /\ Assess(anchor)[k + 1] \in Trusted
              /\ Authorizes(chain[k + 1])
    BY <1>0, <1>4, <2>1, StandingOf DEF Trusted
  <2>3. CASE k = Len(chain) /\ anchor # <<>>
    <3>1. chain # <<>>
      BY <1>4
    <3>2. \E e \in served : Stated(e, Len(chain)) /\ e.by = holder
      BY <2>3, <3>1, AnchorIsBacked
    <3> QED  BY <2>3, <3>2 DEF Backed
  <2>4. CASE Bound(k)
    BY <1>4, <2>4, BoundIsBacked
  <2>5. CASE /\ k < Len(chain) /\ Assess(anchor)[k + 1] \in Trusted
             /\ Authorizes(chain[k + 1])
    <3>1. Backed(k + 1) \/ Relayed(k + 1)
      BY <1>5, <2>5 DEF Good
    <3> QED  BY <1>4, <2>2, <2>5, <3>1, PathIsBacked
  <2> QED  BY <2>2, <2>3, <2>4, <2>5
<1> QED  BY <1>4, <1>6

-----------------------------------------------------------------------------
(* Theorems.                                                               *)

(* Trust has a source, whatever the parties nobody relies on handed on: a  *)
(* hop that Assess puts above asserted is the stamp of a service the       *)
(* assessor relies on about the party it had the record from, or was       *)
(* passed on by an authorised relay that could not attest its peer.        *)
THEOREM VouchedByTheTrustedInvariant == Spec => []VouchedByTheTrusted
<1>1. ASSUME IInv PROVE VouchedByTheTrusted
  <2>0. PartsInv /\ AnchorInv
    BY <1>1 DEF IInv
  <2>1. PICK T : chain \in Seq(HopRec(T))
    BY <2>0 DEF PartsInv, IsChain
  <2>2. Len(chain) \in Nat /\ DOMAIN chain = 1 .. Len(chain)
    BY <2>1
  <2>3. TypeOK
    <3>1. ASSUME NEW k \in DOMAIN chain
          PROVE  /\ chain[k].by \in {"self", "unclaimed", "so_peercred"}
                 /\ chain[k].hop \in {0, k - 1}
                 /\ chain[k].subject \subseteq Parties
                 /\ chain[k].key \subseteq Keyed
      <4>1. chain[k] \in HopRec(T)
        BY <2>1, <2>2, <3>1
      <4>2. chain[k].hop \in {0, k - 1}
        BY <2>0, <2>2, <3>1 DEF PartsInv
      <4> QED  BY <4>1, <4>2 DEF HopRec
    <3> QED  BY <2>0, <3>1 DEF TypeOK, PartsInv, AnchorInv
  <2>4. ASSUME NEW a \in Relay
        PROVE  \E e \in served : Stated(e, Len(chain)) /\ e.by = holder
    <3>1. chain # <<>> /\ Assess(anchor)[Len(chain)] = "established"
      BY <2>4 DEF Relay
    <3>2. Len(chain) \in 1 .. Len(chain)
      BY <2>1, <3>1
    <3>3. anchor # <<>>
      BY <2>2, <3>1, <3>2, StandingOf
    <3> QED  BY <1>1, <3>1, <3>3, AnchorIsBacked
  <2>5. ASSUME NEW k \in DOMAIN chain, Assess(anchor)[k] \in Trusted
        PROVE  chain[k].by # "self" /\ (Backed(k) \/ Relayed(k))
    <3>1. chain[k].by # "self"
      BY <2>2, <2>5, StandingOf
    <3>2. Backed(k) \/ Relayed(k)
      BY <1>1, <2>2, <2>5, TrustIsBacked
    <3> QED  BY <3>1, <3>2
  <2>6. ASSUME NEW k \in DOMAIN chain, Assess(<<>>)[k] \in Trusted
        PROVE  \E j \in k .. Len(chain) : Bound(j)
    BY <2>2, <2>6, UnanchoredTrust
  <2> QED  BY <2>3, <2>4, <2>5, <2>6 DEF VouchedByTheTrusted
<1> QED  BY <1>1, ProvInvariant, PTL

(* The author that Assess finds is the party the first stamp was about,    *)
(* which had the record before any service stamped it, and a dispute is a  *)
(* claim that is wrong about that party.                                   *)
THEOREM AuthorIsTheWriterInvariant == Spec => []AuthorIsTheWriter
<1>1. ASSUME IInv PROVE AuthorIsTheWriter
  <2> SUFFICES ASSUME NEW a \in Author, ~Relayed(2)
               PROVE  \E e \in served :
                        /\ Stated(e, 2)
                        /\ e.from \in e.origin
                        /\ Disputed => \A c \in Claimed : c.subject # {e.from}
    BY DEF AuthorIsTheWriter
  <2>0. PartsInv /\ ServedInv
    BY <1>1 DEF IInv
  <2>1. PICK T : chain \in Seq(HopRec(T))
    BY <2>0 DEF PartsInv, IsChain
  <2>2. Len(chain) > 1 /\ Assess(anchor)[2] \in Trusted /\ Author = {chain[2]}
    BY DEF Author
  <2>3. 2 \in 1 .. Len(chain) /\ DOMAIN chain = 1 .. Len(chain)
    BY <2>1, <2>2
  <2>4. PICK e \in served : Stated(e, 2)
    BY <1>1, <2>2, <2>3, TrustIsBacked DEF Backed
  <2>5. chain[2].subject = {e.from}
    BY <2>4 DEF Stated
  <2>6. Len(e.chain) = 2
    <3>1. Len(SubSeq(chain, 1, 2)) = 2
      BY <2>1, <2>3
    <3> QED  BY <2>4, <3>1 DEF Stated
  <2>7. e.from \in e.origin
    BY <2>0, <2>4, <2>6 DEF ServedInv, EventInv, StampOf, Stated
  <2>8. ASSUME Disputed, NEW c \in Claimed PROVE c.subject # {e.from}
    <3>1. PICK b \in Claimed : b.subject # {e.from}
      BY <2>2, <2>5, <2>8 DEF Disputed
    <3>2. PICK i \in DOMAIN chain :
            /\ c = chain[i] /\ IsClaim(chain[i])
            /\ \A j \in 1 .. i - 1 : ~IsClaim(chain[j])
      BY <2>8 DEF Claimed
    <3>3. PICK l \in DOMAIN chain :
            /\ b = chain[l] /\ IsClaim(chain[l])
            /\ \A j \in 1 .. l - 1 : ~IsClaim(chain[j])
      BY DEF Claimed
    <3>4. ~(i < l) /\ ~(l < i) /\ i \in Int /\ l \in Int
      BY <2>3, <3>2, <3>3
    <3>5. i = l
      BY <3>4
    <3> QED  BY <3>1, <3>2, <3>3, <3>5
  <2> QED  BY <2>4, <2>7, <2>8
<1> QED  BY <1>1, ProvInvariant, PTL

(* A stamp bound under a key the reader holds verifies exactly as long as  *)
(* the content is what the service saw that made it, wherever the record   *)
(* went and whatever was appended to its chain.                            *)
THEOREM BoundExactlyInvariant == Spec => []BoundExactly
<1>1. ASSUME IInv PROVE BoundExactly
  <2> SUFFICES ASSUME NEW k \in DOMAIN chain, NEW e \in served,
                      Stated(e, k), e.by \in HeldKeys
               PROVE  Bound(k) <=> e.msg = msg /\ e.attrs = attrs
    BY DEF BoundExactly
  <2>0. PartsInv /\ ServedInv
    BY <1>1 DEF IInv
  <2>1. PICK T : chain \in Seq(HopRec(T))
    BY <2>0 DEF PartsInv, IsChain
  <2>2. k \in 1 .. Len(chain)
    BY <2>1
  <2>3. e.stamped /\ e.chain = SubSeq(chain, 1, k)
    BY DEF Stated
  <2>4. /\ e.chain \in Seq(HopRec(T)) /\ Len(e.chain) = k
        /\ \A i \in 1 .. k : e.chain[i] = chain[i]
    <3>1. /\ SubSeq(chain, 1, k) \in Seq(HopRec(T)) /\ Len(SubSeq(chain, 1, k)) = k
          /\ \A i \in 1 .. k : SubSeq(chain, 1, k)[i] = chain[i]
      BY <2>1, <2>2
    <3> QED  BY <2>3, <3>1
  <2>5. e.by \in Keyed
    BY ProvenanceAssumption
  <2>6. k \in 1 .. k /\ k \in Nat
    BY <2>1, <2>2
  <2>7. /\ chain[k].key = {e.by}
        /\ chain[k].mac =
             {[key |-> e.by, of |-> bound(e.msg, e.attrs, e.chain, k)]}
    BY <2>0, <2>3, <2>4, <2>5, <2>6 DEF ServedInv, EventInv, StampOf
  <2>8. bound(e.msg, e.attrs, e.chain, k) = bound(e.msg, e.attrs, chain, k)
    <3>1. SubSeq(e.chain, 1, k) = SubSeq(chain, 1, k)
      <4>1. k \in 1 .. Len(e.chain)
        BY <2>4, <2>6
      <4>2. SubSeq(e.chain, 1, k) = [i \in 1 .. k |-> e.chain[i]]
        BY <2>4, <4>1
      <4>3. SubSeq(chain, 1, k) = [i \in 1 .. k |-> chain[i]]
        BY <2>1, <2>2
      <4> QED  BY <2>4, <4>2, <4>3
    <3> QED  BY <3>1 DEF bound
  <2>9. ASSUME e.msg = msg, e.attrs = attrs PROVE Bound(k)
    <3>1. e.by \in HeldKeys \intersect chain[k].key
      BY <2>7
    <3> QED  BY <2>7, <2>8, <2>9, <3>1 DEF Bound
  <2>10. ASSUME Bound(k) PROVE e.msg = msg /\ e.attrs = attrs
    <3>1. PICK key \in HeldKeys \intersect chain[k].key :
             chain[k].mac = {[key |-> key, of |-> bound(msg, attrs, chain, k)]}
      BY <2>10 DEF Bound
    <3> DEFINE x == [key |-> key, of |-> bound(msg, attrs, chain, k)]
               y == [key |-> e.by, of |-> bound(e.msg, e.attrs, chain, k)]
    <3>2. {x} = {y}
      BY <2>7, <2>8, <3>1
    <3>3. x = y
      <4> HIDE DEF x, y
      <4> QED  BY <3>2
    <3>4. x.of = y.of
      BY <3>3
    <3>5. bound(msg, attrs, chain, k) = bound(e.msg, e.attrs, chain, k)
      BY <3>4
    <3> HIDE DEF x, y
    <3> QED  BY <2>1, <2>2, <3>5, BoundInjective
  <2> QED  BY <2>9, <2>10
<1> QED  BY <1>1, ProvInvariant, PTL
============================================================================
