----------------------------- MODULE Provenance -----------------------------
(***************************************************************************)
(* The identity chain of go/identity.go and what a service adds to it      *)
(* (Server.Accept in go/service.go): a record goes from its writer through *)
(* services, each of which appends what the platform says about the party  *)
(* it got the record from, and whoever holds the record assesses it.       *)
(*                                                                         *)
(* Services run this code.  A party the assessor relies on (an authorised  *)
(* relay, or the owner of a key it holds) hands on what it got; any other  *)
(* one may hand on what it likes, but it cannot make a MAC under a key     *)
(* that is not its own.  A party is its own description; of a record's     *)
(* content the model keeps the two attributes of Accept and one version    *)
(* number for the rest.  A MAC is a free constructor over key and content. *)
(***************************************************************************)
EXTENDS Integers, SequencesExt

CONSTANTS
  Parties,
  Relays,      \* the parties Policy.Relay authorises
  Keyed,       \* the services with a key, which is named after the service
  HeldKeys,    \* the keys in Policy.Keys
  PeerErrors,  \* the texts with which PeerOf can fail
  MaxHops,     \* bound: the services a record goes through
  MaxVersion,  \* bound: the versions of its content
  MaxSubmits   \* bound: the times a party hands on something of its own

ASSUME ProvenanceAssumption ==
  /\ Relays \subseteq Parties /\ Keyed \subseteq Parties
  /\ HeldKeys \subseteq Keyed
  /\ "none" \notin PeerErrors
  /\ MaxHops \in Nat /\ MaxVersion \in Nat /\ MaxSubmits \in Nat

VARIABLES
  holder,   \* who holds the record
  msg,      \* the version of its content, but for the attributes of Accept
  attrs,    \* the attributes of Accept
  chain,    \* Record.Identity
  anchor,   \* the stamp the holder made, empty if it made none
  hops,     \* the services the record went through
  submits,  \* the times a party handed on something of its own
  origin,   \* history: who had the record while no service had stamped it
  served    \* history: what each service took, from whom, and passed on

recordVars == <<msg, attrs, chain>>
vars == <<holder, recordVars, anchor, hops, submits, origin, served>>

(* The parties the assessor does not rely on.                              *)
Free == Parties \ (Relays \union HeldKeys)

Hop(by, verified, k, subject) ==
  [by |-> by, verified |-> verified, hop |-> k, subject |-> subject,
   key |-> {}, mac |-> {}]
Nobody == {}
Claim(p) == Hop("self", FALSE, 0, {p})
Unclaimed == Hop("unclaimed", FALSE, 0, Nobody)
Stamp(p, k) == Hop("so_peercred", TRUE, k, {p})

NoMarks == [writer_claim |-> "none", peer_error |-> "none"]
Marks == [writer_claim : {"none", "absent"},
          peer_error : {"none"} \union PeerErrors]

(* A writer makes a record, with its claim or without one.                 *)
Init ==
  /\ holder \in Parties
  /\ msg = 0 /\ attrs = NoMarks /\ anchor = <<>>
  /\ chain \in {<<>>} \union {<<Claim(p)>> : p \in Parties}
  /\ hops = 0 /\ submits = 0
  /\ origin = {holder} /\ served = {}

-----------------------------------------------------------------------------
(* bound: the content and the chain up to a hop, that hop without its MAC. *)
bound(m, a, c, k) ==
  [msg |-> m, attrs |-> a,
   chain |-> [SubSeq(c, 1, k) EXCEPT ![k].mac = {}]]

(* Bind: the key first, then the MAC over the content that names it.       *)
BindKeyLast(m, a, c, k, key) ==
  [c EXCEPT ![k].key = {key},
            ![k].mac = {[key |-> key, of |-> bound(m, a, c, k)]}]
Bind(m, a, c, k, key) ==
  LET keyed == [c EXCEPT ![k].key = {key}, ![k].mac = {}]
  IN [keyed EXCEPT ![k].mac = {[key |-> key, of |-> bound(m, a, keyed, k)]}]

(* bindingHolds with the key the hop names, which the assessor holds.      *)
Bound(k) ==
  \E key \in HeldKeys \intersect chain[k].key :
    chain[k].mac = {[key |-> key, of |-> bound(msg, attrs, chain, k)]}

(* Assess walks the chain down from the anchor.                            *)
sameStamp(a, b) ==
  a.by = b.by /\ a.verified = b.verified /\ a.subject = b.subject

Authorizes(a) == a.subject \subseteq Relays /\ a.subject # Nobody

(* The standing of hop k, given the standing of the hop above it.          *)
Trusted == {"vouched", "established"}
StandingAnywhere(anch, k, above) ==
  LET a == chain[k]
      n == Len(chain)
  IN IF a.by = "self" /\ a.verified THEN "asserted"
     ELSE IF a.by = "self" \/ ~a.verified THEN "claimed"
     ELSE IF anch # <<>> /\ sameStamp(a, anch[1]) THEN "established"
     ELSE IF Bound(k) THEN "vouched"
     ELSE IF k < n /\ above \in Trusted /\ Authorizes(chain[k + 1]) THEN "vouched"
     ELSE "asserted"
Standing(anch, k, above) ==
  LET a == chain[k]
      n == Len(chain)
  IN IF a.by = "self" /\ a.verified THEN "asserted"
     ELSE IF a.by = "self" \/ ~a.verified THEN "claimed"
     ELSE IF k = n /\ anch # <<>> /\ sameStamp(a, anch[1]) THEN "established"
     ELSE IF Bound(k) THEN "vouched"
     ELSE IF k < n /\ above \in Trusted /\ Authorizes(chain[k + 1]) THEN "vouched"
     ELSE "asserted"
Assess(anch) ==
  LET st[k \in 1 .. Len(chain)] ==
        Standing(anch, k, IF k < Len(chain) THEN st[k + 1] ELSE "none")
  IN st

(* Hop k is element k + 1.  Author: hop 1 if the path reaches it.          *)
Author ==
  IF Len(chain) > 1 /\ Assess(anchor)[2] \in Trusted THEN {chain[2]} ELSE {}
Relay ==
  IF chain # <<>> /\ Assess(anchor)[Len(chain)] = "established"
  THEN {chain[Len(chain)]} ELSE {}

(* Disputed: the first claim of the writer against a trusted statement     *)
(* about it.                                                               *)
IsClaim(a) == a.by = "self" /\ a.hop = 0
Claimed ==
  {chain[k] : k \in {i \in DOMAIN chain :
      IsClaim(chain[i]) /\ \A j \in 1 .. i - 1 : ~IsClaim(chain[j])}}
Disputed == \E c \in Claimed, a \in Author : a.subject # c.subject

-----------------------------------------------------------------------------
(* Accept: the missing claim is named, then the stamp or why there is none.*)
AcceptMarks ==
  IF chain = <<>> THEN [attrs EXCEPT !.writer_claim = "absent"] ELSE attrs
UnclaimedForgotten == chain
WithHop0 == IF chain = <<>> THEN <<Unclaimed>> ELSE chain

HopIndex == Len(WithHop0)
Stamped(q) ==
  LET c == Append(WithHop0, Stamp(holder, HopIndex))
  IN IF q \in Keyed THEN Bind(msg, AcceptMarks, c, Len(c), q) ELSE c

(* q gets the record from its holder and passes it on as attrs', chain'.   *)
Travel(q, stamped) ==
  /\ hops < MaxHops
  /\ q # holder
  /\ hops' = hops + 1
  /\ holder' = q
  /\ served' = served \union
       {[by |-> q, from |-> holder, origin |-> origin, stamped |-> stamped,
         msg |-> msg, attrs |-> attrs', chain |-> chain']}
  /\ UNCHANGED <<msg, submits>>

Accept(q) ==
  /\ attrs' = AcceptMarks
  /\ chain' = Stamped(q)
  /\ anchor' = <<Stamp(holder, HopIndex)>>
  /\ Travel(q, TRUE)
  /\ UNCHANGED origin

(* PeerOf failed, as it always does off Linux: no stamp, so no anchor.     *)
NoAnchor == <<>>
AcceptUnattested(q) ==
  /\ \E e \in PeerErrors : attrs' = [AcceptMarks EXCEPT !.peer_error = e]
  /\ chain' = WithHop0
  /\ anchor' = NoAnchor
  /\ Travel(q, FALSE)
  /\ origin' = IF Len(chain) <= 1 THEN origin \union {q} ELSE origin

(* The file sink shrinks the record: attributes of its own for those of    *)
(* the record, then a shorter message, without the chain if need be.       *)
Shrink ==
  /\ msg < MaxVersion
  /\ msg' = msg + 1
  /\ attrs' = NoMarks
  /\ \/ chain' = chain /\ origin' = origin
     \/ chain' = <<>> /\ origin' = {holder}
  /\ UNCHANGED <<holder, anchor, hops, submits, served>>

-----------------------------------------------------------------------------
(* A party the assessor does not rely on hands on what it likes: a chain   *)
(* cut short, with a hop of its own on top, or with a subject replaced,    *)
(* or another content under the chain.                                     *)
Bogus(key) == [key |-> key, of |-> [msg |-> -1, attrs |-> NoMarks,
                                    chain |-> <<>>]]
Verified(p, k) == Hop("self", TRUE, k, {p})
Unverified(p, k) == Hop("so_peercred", FALSE, k, {p})
Forged(p, k, key) == [Stamp(p, k) EXCEPT !.key = {key}, !.mac = {Bogus(key)}]
OwnHops(k) ==
  {Claim(p) : p \in Parties} \union {Stamp(p, k) : p \in Parties}
  \union {Verified(p, k) : p \in Parties} \union {Unverified(p, k) : p \in Parties}
  \union {Forged(p, k, key) : p \in Parties, key \in HeldKeys}

Cuts == {SubSeq(chain, 1, i) : i \in 0 .. Len(chain)}
Extended == UNION {{Append(c, h) : h \in OwnHops(Len(c))} : c \in Cuts}
Altered == {[chain EXCEPT ![k].subject = {p}] :
              k \in DOMAIN chain, p \in Parties}

OfItsOwn ==
  /\ holder \in Free
  /\ submits < MaxSubmits
  /\ submits' = submits + 1
  /\ UNCHANGED <<holder, hops, served>>

Submit ==
  /\ OfItsOwn
  /\ chain' \in Cuts \union Extended \union Altered
  /\ anchor' = <<>>
  /\ origin' = IF Len(chain') <= 1 THEN {holder} ELSE origin
  /\ UNCHANGED <<msg, attrs>>

Rewrite ==
  /\ OfItsOwn
  /\ msg' \in 0 .. MaxVersion
  /\ attrs' \in Marks
  /\ UNCHANGED <<chain, anchor, origin>>

Next ==
  \/ \E q \in Parties : Accept(q) \/ AcceptUnattested(q)
  \/ Shrink \/ Submit \/ Rewrite

Spec == Init /\ [][Next]_vars

-----------------------------------------------------------------------------
(* Properties.                                                             *)

(* Every variable has its type, and a hop knows its place in the chain.    *)
TypeOK ==
  /\ holder \in Parties /\ msg \in 0 .. MaxVersion /\ attrs \in Marks
  /\ \A k \in DOMAIN chain :
       /\ chain[k].by \in {"self", "unclaimed", "so_peercred"}
       /\ chain[k].hop \in {0, k - 1}
       /\ chain[k].subject \subseteq Parties
       /\ chain[k].key \subseteq Keyed
  /\ Len(anchor) <= 1
  /\ hops \in Nat /\ submits \in Nat
  /\ origin \subseteq Parties

(* Hop k was stamped: a service got the hops below it from the party that  *)
(* hop k describes.                                                        *)
Stated(e, k) ==
  /\ e \in served /\ e.stamped
  /\ e.chain = SubSeq(chain, 1, k)
  /\ chain[k].subject = {e.from}

(* The service that stamped hop k is one the assessor relies on: itself,   *)
(* an authorised relay, or the owner of a key it holds, which saw exactly  *)
(* this content.                                                           *)
Backed(k) ==
  \E e \in served :
    /\ Stated(e, k)
    /\ \/ k = Len(chain) /\ e.by = holder
       \/ e.by \in Relays
       \/ e.by \in HeldKeys /\ e.msg = msg /\ e.attrs = attrs

(* An authorised relay passed the hops up to k or more on, and could not   *)
(* tell where it had them from.                                            *)
Relayed(k) ==
  \E e \in served : /\ e.by \in Relays /\ ~e.stamped
                    /\ \E j \in k .. Len(chain) : e.chain = SubSeq(chain, 1, j)

(* Trust has a source, whatever anybody handed on: a hop stands above      *)
(* asserted only if it is true and the stamp of a service the assessor     *)
(* relies on, or if an authorised relay passed it on without attesting     *)
(* its own peer.  What stands established is the holder's own stamp, a     *)
(* statement of a party about itself never stands above asserted, and a    *)
(* reader without an anchor needs a binding at or above the hop.           *)
VouchedByTheTrusted ==
  /\ TypeOK
  /\ \A a \in Relay : \E e \in served : Stated(e, Len(chain)) /\ e.by = holder
  /\ \A k \in DOMAIN chain :
       /\ Assess(anchor)[k] \in Trusted =>
            chain[k].by # "self" /\ (Backed(k) \/ Relayed(k))
       /\ Assess(<<>>)[k] \in Trusted => \E j \in k .. Len(chain) : Bound(j)

(* The author is the writer: the party the record came from when it was    *)
(* first stamped, which wrote it or had it from the writer unstamped,      *)
(* however many relays it went through and whatever the writer said about  *)
(* itself; a dispute is a wrong claim, never a relay's own identity.       *)
AuthorIsTheWriter ==
  \A a \in Author :
    \/ Relayed(2)
    \/ \E e \in served :
         /\ Stated(e, 2)
         /\ e.from \in e.origin
         /\ Disputed => \A c \in Claimed : c.subject # {e.from}

(* A binding says what it covers: wherever the record went after a service *)
(* bound its stamp, and whatever was appended, the stamp verifies exactly  *)
(* if the content is what that service saw.                                *)
BoundExactly ==
  \A k \in DOMAIN chain, e \in served :
    Stated(e, k) /\ e.by \in HeldKeys =>
      (Bound(k) <=> e.msg = msg /\ e.attrs = attrs)
=============================================================================
