----------------------------- MODULE Credentials -----------------------------
(***************************************************************************)
(* What a server can prove: its identity, kept in its environment from one   *)
(* start to the next; the record of itself it signs again and again as its   *)
(* address and its best works change; and the tokens it hands out.  Records  *)
(* and tokens come back through peers that may have mixed the fields of      *)
(* two of them.                                                            *)
(*                                                                         *)
(* A hash stands for what is hashed, in its order and without separators; a   *)
(* signature for the key and the hash.  A work is a salt with the rest of     *)
(* its input, and the pow claimed for it; Worth is what the hash gives.      *)
(***************************************************************************)
EXTENDS Integers, Sequences, FiniteSets

CONSTANTS
  Holders,       \* servers, each the holder of a signature key
  Inputs,        \* inputs of proof of work: sponsor, time, content, salt
  Worth,         \* Worth[<<key, input>>]: the measure of an input under a key
  KeyPowMin,     \* SERVER_KEY_POW_MIN
  Addresses,     \* network addresses
  Versions,      \* compile versions
  Bases,         \* what bucket locations are derived from
  PostIds,       \* ids of posts, and of peers in the tokens of the cache
  MaxSigned      \* bound: records and tokens signed

ASSUME CredentialsAssumption ==
  /\ \A k \in Holders, i \in Inputs : Worth[<<k, i>>] \in Nat
  /\ KeyPowMin \in Nat /\ MaxSigned \in Nat
  /\ Versions # {}

VARIABLES
  stored,    \* CONFIG_SERVER_ID of each server: nothing, or the encoded identity
  started,   \* the identity each server runs with
  records,   \* peer records ever signed
  tokens,    \* tokens ever signed
  shown      \* the record or token that was last presented, and whether it verified

credentialsVars == <<stored, started, records, tokens, shown>>

-----------------------------------------------------------------------------
PowHash(key, input) == <<key, input>>

Sign(key, over) == [key |-> key, over |-> over]

Work(key, input) == [input |-> input, pow |-> Worth[<<key, input>>]]

ServerPowHashToId(hash) == <<"reversed", hash>>

\* ServerId::new: the search ends with an input that is worth enough.
NewServerId(k, input) ==
  [signer |-> k, key |-> k, input |-> input, pow |-> Worth[<<k, input>>], id |-> ServerPowHashToId(PowHash(k, input))]

Encode(d) == <<d.signer, d.key, d.input, d.pow, d.id>>

Decode(bytes) ==
  [signer |-> bytes[1], key |-> bytes[2], input |-> bytes[3], pow |-> bytes[4], id |-> bytes[5]]

\* Mutant: the id is not compared with the work.
VerifyWork(d) == d.pow = Worth[<<d.key, d.input>>] /\ d.pow >= KeyPowMin

Verify(d) ==
  /\ d.pow = Worth[<<d.key, d.input>>]
  /\ d.pow >= KeyPowMin
  /\ d.id = ServerPowHashToId(PowHash(d.key, d.input))

-----------------------------------------------------------------------------
(* Peer records.                                                            *)
\* Mutant: the address is left out of what is signed.
SignatureHashUnaddressed(p) ==
  <<p.id, p.key, PowHash(p.key, p.initial.input), PowHash(p.key, p.day.input), PowHash(p.key, p.month.input), p.ts>>

SignatureHash(p) ==
  <<p.id, p.key, PowHash(p.key, p.initial.input), PowHash(p.key, p.day.input), PowHash(p.key, p.month.input), p.address, p.ts>>

SignPeer(p, signer, now) ==
  LET q == [p EXCEPT !.ts = now] IN [q EXCEPT !.sig = Sign(signer, SignatureHash(q))]

\* ServerId::to_peer: the three works are the initial one.
ToPeer(d, now) ==
  LET w == [input |-> d.input, pow |-> d.pow]
  IN SignPeer([id |-> d.id, key |-> d.key, initial |-> w, day |-> w, month |-> w,
               version |-> CHOOSE v \in Versions : TRUE, address |-> "", ts |-> 0, sig |-> <<>>], d.signer, now)

VerifySignature(p) == p.sig = Sign(p.key, SignatureHash(p))

VerifyServerId(p) ==
  /\ Worth[<<p.key, p.initial.input>>] >= KeyPowMin
  /\ p.id = ServerPowHashToId(PowHash(p.key, p.initial.input))

VerifyPows(p) == \A w \in {p.initial, p.day, p.month} : w.pow = Worth[<<p.key, w.input>>]

VerifyPeer(p) == VerifySignature(p) /\ VerifyServerId(p) /\ VerifyPows(p)

-----------------------------------------------------------------------------
(* Tokens.  A place is signed as what its location id is derived from.         *)
BucketPlace(b) == [base |-> b, location_id |-> b]

Validate(place) == place.location_id = place.base

ClaimHash(t) == <<t.peer.id, t.place.base, t.extra, "SubmitPostClaimTokenV1">>

CommitHash(t) == <<t.peer.id, t.place.base, t.extra, "SubmitPostCommitTokenV1">>

HealHash(t) == <<t.peer.id, t.place.base, t.extra, "HealPostBundleClaimTokenV1">> \o t.ids

CacheHash(t) == <<t.peer.id, t.place.base, t.extra, "CacheRequestToken">> \o t.ids

\* Mutant: every token is signed under the tag of the cache's.
TokenHashUntagged(t) == CacheHash(t)

TokenHash(t) ==
  CASE t.kind = "claim" -> ClaimHash(t)
    [] t.kind = "commit" -> CommitHash(t)
    [] t.kind = "heal" -> HealHash(t)
    [] t.kind = "cache" -> CacheHash(t)

NewToken(kind, peer, place, extra, ids, signer) ==
  LET over == TokenHash([kind |-> kind, peer |-> peer, place |-> place, extra |-> extra, ids |-> ids])
  IN [kind |-> kind, peer |-> peer, place |-> place, extra |-> extra, ids |-> ids, sig |-> Sign(signer, over)]

Unsigned(t) == [f \in DOMAIN t \ {"sig"} |-> t[f]]

VerifyToken(t) ==
  /\ VerifyPeer(t.peer)
  /\ t.kind \in {"heal", "cache"} => Validate(t.place)
  /\ t.sig = Sign(t.peer.key, TokenHash(Unsigned(t)))

-----------------------------------------------------------------------------
None == <<>>

CredentialsInit ==
  /\ stored = [k \in Holders |-> None]
  /\ started = [k \in Holders |-> None]
  /\ records = {}
  /\ tokens = {}
  /\ shown = None

Signed == Cardinality(records) + Cardinality(tokens)

(* HashiverseServer::new: the identity is made once and then read back; one    *)
(* that does not verify stops the start.  The record of the server is signed   *)
(* once with no address and then with the one of its transport.              *)
StartNew(k, input, address) ==
  /\ shown = None
  /\ Signed < MaxSigned
  /\ started[k] = None
  /\ stored[k] = None
  /\ Worth[<<k, input>>] >= KeyPowMin
  /\ stored' = [stored EXCEPT ![k] = Encode(NewServerId(k, input))]
  /\ started' = [started EXCEPT ![k] = SignPeer([ToPeer(NewServerId(k, input), 0) EXCEPT !.address = address], k, 0)]
  /\ records' = records \cup {started'[k]}
  /\ UNCHANGED <<tokens, shown>>

StartAgain(k, address) ==
  /\ shown = None
  /\ Signed < MaxSigned
  /\ started[k] = None
  /\ stored[k] # None
  /\ Verify(Decode(stored[k]))
  /\ LET d == Decode(stored[k])
     IN started' = [started EXCEPT ![k] = SignPeer([ToPeer(d, 1) EXCEPT !.address = address], d.signer, 1)]
  /\ records' = records \cup {started'[k]}
  /\ UNCHANGED <<stored, tokens, shown>>

Stop(k) ==
  /\ shown = None
  /\ started[k] # None
  /\ started' = [started EXCEPT ![k] = None]
  /\ UNCHANGED <<stored, records, tokens, shown>>

(* A byte of the stored identity goes bad: the holder's, the key, the work or  *)
(* the id is now that of another identity.                                   *)
Rot(k, other, field) ==
  /\ shown = None
  /\ started[k] = None
  /\ stored[k] # None /\ stored[other] # None
  /\ stored' = [stored EXCEPT ![k][field] = stored[other][field]]
  /\ UNCHANGED <<started, records, tokens, shown>>

(* A better work of the day was given to the server: it signs again.           *)
SignAgain(k, input, now) ==
  /\ shown = None
  /\ started[k] # None
  /\ Signed < MaxSigned
  /\ LET p == started[k]
     IN started' = [started EXCEPT ![k] = SignPeer([p EXCEPT !.day = Work(p.key, input)], p.sig.key, now)]
  /\ records' = records \cup {started'[k]}
  /\ UNCHANGED <<stored, tokens, shown>>

IssueToken(k, kind, b, extra, ids) ==
  /\ shown = None
  /\ started[k] # None
  /\ Signed < MaxSigned
  /\ tokens' = tokens \cup {NewToken(kind, started[k], BucketPlace(b), extra, ids, started[k].sig.key)}
  /\ UNCHANGED <<stored, started, records, shown>>

(* A record is presented with one field taken from another, or re-labelled.     *)
ShowPeer(p, q, field) ==
  LET mixed == [p EXCEPT ![field] = q[field]]
  IN /\ shown = None
     /\ shown' = [what |-> "peer", item |-> mixed, ok |-> VerifyPeer(mixed)]
     /\ UNCHANGED <<stored, started, records, tokens>>

Relabel(p, v) ==
  LET mixed == [p EXCEPT !.version = v]
  IN /\ shown = None
     /\ shown' = [what |-> "peer", item |-> mixed, ok |-> VerifyPeer(mixed)]
     /\ UNCHANGED <<stored, started, records, tokens>>

(* Claim and commit tokens have the same fields, so that one parses as the      *)
(* other; those of heals and of the cache have types of their own.           *)
Parses(t, u, field) ==
  \/ field \in {"peer", "place", "sig"}
  \/ t.kind = u.kind
  \/ {t.kind, u.kind} = {"claim", "commit"}

ShowToken(t, u, field) ==
  LET mixed == [t EXCEPT ![field] = u[field]]
  IN /\ shown = None
     /\ Parses(t, u, field)
     /\ shown' = [what |-> "token", item |-> mixed, ok |-> VerifyToken(mixed)]
     /\ UNCHANGED <<stored, started, records, tokens>>

\* The location id is not what the rest of the place gives.
ShowMisplaced(t, b) ==
  LET mixed == [t EXCEPT !.place.location_id = b]
  IN /\ shown = None
     /\ shown' = [what |-> "token", item |-> mixed, ok |-> VerifyToken(mixed)]
     /\ UNCHANGED <<stored, started, records, tokens>>

CredentialsRest == UNCHANGED credentialsVars

IdLists == {<<>>} \cup {<<i>> : i \in PostIds}

CredentialsNext ==
  \/ CredentialsRest
  \/ \E k \in Holders :
       \/ \E i \in Inputs, a \in Addresses : StartNew(k, i, a)
       \/ \E a \in Addresses : StartAgain(k, a)
       \/ Stop(k)
       \/ \E other \in Holders, f \in 1 .. 5 : Rot(k, other, f)
       \/ \E i \in Inputs : SignAgain(k, i, 1)
       \/ \E b \in Bases, x \in PostIds : \E kind \in {"claim", "commit"} : IssueToken(k, kind, b, x, <<>>)
       \/ \E b \in Bases, x \in PostIds, ids \in IdLists : \E kind \in {"heal", "cache"} : IssueToken(k, kind, b, x, ids)
  \/ \E p, q \in records : \E f \in DOMAIN p : ShowPeer(p, q, f)
  \/ \E p \in records, v \in Versions : Relabel(p, v)
  \/ \E t, u \in tokens : \E f \in DOMAIN t : ShowToken(t, u, f)
  \/ \E t \in tokens, b \in Bases : ShowMisplaced(t, b)

CredentialsSpec == CredentialsInit /\ [][CredentialsNext]_credentialsVars

-----------------------------------------------------------------------------
SameButVersion(p, q) == p = [q EXCEPT !.version = p.version]

(* A peer record that verifies is one its holder signed: the address, the       *)
(* works and the time in it belong together.  Only the version may differ,     *)
(* which no signature covers.                                                *)
PeerGenuine ==
  (shown # None /\ shown.what = "peer" /\ shown.ok) => \E q \in records : SameButVersion(shown.item, q)

(* A token that verifies was issued by the server it names, for that purpose    *)
(* and with those contents, whichever of its records it carries.  A claim's or  *)
(* a commit's may name another location id, which their handlers check.        *)
TokenGenuine ==
  (shown # None /\ shown.what = "token" /\ shown.ok) =>
    \E t \in tokens :
      /\ t.peer.id = shown.item.peer.id
      /\ t.kind = shown.item.kind /\ t.extra = shown.item.extra /\ t.ids = shown.item.ids
      /\ t.place.base = shown.item.place.base
      /\ shown.item.kind \in {"heal", "cache"} => t.place = shown.item.place

(* A server that starts, from an identity made now or from what it stored, is   *)
(* one its peers accept, with every record it goes on to sign; when what is     *)
(* stored has gone bad it does not start, unless it is the signature key       *)
(* alone, which nothing compares with the key it belongs to.                 *)
IdentityKept ==
  \A k \in Holders : (started[k] # None /\ started[k].sig.key = started[k].key) => VerifyPeer(started[k])

\* What a server is believed to have signed it has signed, for that purpose, and it keeps
\* its identity from one start to the next.
CredentialsGenuine == PeerGenuine /\ TokenGenuine /\ IdentityKept
=============================================================================
