------------------------------ MODULE PostBytes ------------------------------
(***************************************************************************)
(* Posts, bundles of posts and bundles of feedback as bytes: encoded and      *)
(* signed by those who make them, stored and forwarded by peers that may      *)
(* have spliced two of them together, and read by a client or a server.       *)
(*                                                                         *)
(* Bytes are sequences of cells, each a tuple tagged with what it is part of.  *)
(* A hash stands for what is hashed, a signature for the key and the hash, a   *)
(* ciphertext for the plain text and the passwords that open it.  It can be    *)
(* opened only as a whole.                                                  *)
(***************************************************************************)
EXTENDS Integers, Sequences, FiniteSets, FiniteSetsExt, SequencesExt

CONSTANTS
  Writers,          \* authors of posts
  Themes,           \* base ids a post can be linked to: hashtags, mentions
  Texts,            \* texts of posts, as sequences
  Hosts,            \* servers that sign bundles
  Salts,            \* salts of feedback; the measure of a salt is the salt
  MaxRecipients,    \* MAX_RECIPIENTS of a ciphertext
  CountWidth,       \* 2^8: num_posts is a u8
  AttemptsWidth,    \* 64: bits of a count of attempts
  PowNumeraire,     \* CLIENT_FEEDBACK_POW_NUMERAIRE
  MaxWritten        \* bound: posts written

ASSUME PostBytesAssumption ==
  /\ Salts \subseteq Nat
  /\ {MaxRecipients, CountWidth, AttemptsWidth, PowNumeraire, MaxWritten} \subseteq Nat \ {0}
  /\ MaxWritten + 1 < CountWidth
  /\ \A t \in Texts : Len(t) \in Nat

VARIABLES
  written,    \* posts encoded so far, by their authors
  reading     \* what is being read, and what came of it

postBytesVars == <<written, reading>>

Num(n) == <<"num", n>>

Digest(x) == <<"hash", x>>

SignedBy(k, x) == <<"signature", k, x>>

IdOf(signature) == <<"id", signature>>

Unreadable == [ok |-> FALSE]

-----------------------------------------------------------------------------
(* Encryption: one slot for each password.                                   *)
Encrypt(what, plain, passwords, size) == [i \in 1 .. size |-> <<what, plain, passwords, i>>]

CanEncrypt(passwords) == Len(passwords) >= 1 /\ Len(passwords) <= MaxRecipients

Decrypts(cells, what, password) ==
  /\ cells # <<>>
  /\ cells[1][1] = what
  /\ password \in ToSet(cells[1][3])
  /\ cells = Encrypt(what, cells[1][2], cells[1][3], Len(cells))

PostHeaderSize == 2

-----------------------------------------------------------------------------
(* A post: author, linked base ids, text.                                    *)
NewPost(author, linked, text) ==
  [author |-> author, linked |-> linked, text |-> text,
   header |-> [author |-> author, linked |-> linked, post_length |-> Len(text), mechanism |-> "direct"]]

Passwords(p) == <<p.author>> \o p.linked

EncodeToBytesDirect(p) ==
  LET head == Encrypt("header", p.header, Passwords(p), PostHeaderSize)
      body == Encrypt("body", p.text, Passwords(p), Len(p.text) + 1)
      sig == SignedBy(p.author, <<Digest(head), Digest(body)>>)
  IN <<IdOf(sig), sig, Num(1), Digest(head), Digest(body), Num(Len(head)), Num(Len(body))>> \o head \o body

FixedPrefix == 7

IsNum(cell) == cell[1] = "num"

BytesWithoutBody(bytes) ==
  IF Len(bytes) < FixedPrefix \/ ~IsNum(bytes[6]) \/ Len(bytes) < FixedPrefix + bytes[6][2] THEN Unreadable
  ELSE [ok |-> TRUE, bytes |-> SubSeq(bytes, 1, FixedPrefix + bytes[6][2])]

\* Mutant: the hash of the body is read and not compared.
HashesMatchHeader(bytes, head, body, expectBody) == bytes[4] = Digest(head)

HashesMatch(bytes, head, body, expectBody) ==
  /\ bytes[4] = Digest(head)
  /\ expectBody => bytes[5] = Digest(body)

DecodeFromBytes(bytes, password, expectBody, decodeBody) ==
  IF Len(bytes) < FixedPrefix \/ bytes[3] # Num(1) \/ ~IsNum(bytes[6]) \/ ~IsNum(bytes[7]) THEN Unreadable
  ELSE LET bodyLength == IF expectBody THEN bytes[7][2] ELSE 0
           head == SubSeq(bytes, FixedPrefix + 1, FixedPrefix + bytes[6][2])
           body == SubSeq(bytes, FixedPrefix + bytes[6][2] + 1, Len(bytes))
       IN IF /\ Len(bytes) = FixedPrefix + bytes[6][2] + bodyLength
             /\ Decrypts(head, "header", password)
             /\ Len(head) = PostHeaderSize
             /\ HashesMatch(bytes, head, body, expectBody)
             /\ head[1][2].mechanism = "direct"
             /\ bytes[2] = SignedBy(head[1][2].author, <<bytes[4], bytes[5]>>)
             /\ bytes[1] = IdOf(bytes[2])
             /\ expectBody /\ decodeBody =>
                  Decrypts(body, "body", password) /\ Len(body[1][2]) = head[1][2].post_length
          THEN [ok |-> TRUE, post_id |-> bytes[1], header |-> head[1][2],
                post |-> IF expectBody /\ decodeBody THEN body[1][2] ELSE <<>>]
          ELSE Unreadable

-----------------------------------------------------------------------------
(* A bundle of posts, signed by the server that holds it.                     *)
HashForSigning(h) ==
  <<Num(h.ts), h.location_id, h.overflowed, h.sealed, Num(h.num_posts), h.ids, h.lengths, h.healed, h.peer>>

SignBundle(h, k) == [h EXCEPT !.signature = SignedBy(k, HashForSigning(h))]

VerifyHeader(h) ==
  /\ h.num_posts = Len(h.lengths) % CountWidth
  /\ h.num_posts = Len(h.ids) % CountWidth
  /\ h.healed \subseteq ToSet(h.ids)
  /\ h.signature = SignedBy(h.peer, HashForSigning(h))

\* The posts of a bundle, as its header cuts them; zip ends with the shorter list.
Offset(h, i) ==
  LET start[n \in 1 .. Len(h.lengths) + 1] == IF n = 1 THEN 0 ELSE start[n - 1] + h.lengths[n - 1]
  IN start[i]

Slice(b, i) == SubSeq(b.body, Offset(b.header, i) + 1, Offset(b.header, i) + b.header.lengths[i])

Smallest(a, b) == IF a < b THEN a ELSE b

\* Mutant: bytes after the last post are let through.
LengthsWithin(b) == Offset(b.header, Len(b.header.lengths) + 1) <= Len(b.body)

LengthsSpan(b) == Offset(b.header, Len(b.header.lengths) + 1) = Len(b.body)

VerifyBundle(b, base) ==
  /\ VerifyHeader(b.header)
  /\ LengthsSpan(b)
  /\ \A i \in 1 .. Smallest(Len(b.header.lengths), Len(b.header.ids)) :
       /\ Slice(b, i) # <<>>
       /\ Slice(b, i)[1] = b.header.ids[i]
       /\ DecodeFromBytes(Slice(b, i), base, TRUE, FALSE).ok

\* Both bundles are written as a version, two lengths, the header's JSON and the body.
BundleToBytes(b) == <<Num(1), Num(PostHeaderSize), Num(Len(b.body))>> \o Encrypt("json", b.header, <<>>, PostHeaderSize) \o b.body

BundleFromBytes(bytes, decodeBody, exactly) ==
  IF \/ Len(bytes) < 3
     \/ bytes[1] # Num(1)
     \/ ~IsNum(bytes[2]) \/ ~IsNum(bytes[3])
     \/ Len(bytes) < 3 + bytes[2][2] + bytes[3][2]
     \/ bytes[2][2] # PostHeaderSize
     \/ bytes[4][1] # "json"
     \/ SubSeq(bytes, 4, 5) # Encrypt("json", bytes[4][2], <<>>, PostHeaderSize)
     \/ decodeBody /\ exactly /\ Len(bytes) # 3 + bytes[2][2] + bytes[3][2]
  THEN Unreadable
  ELSE [ok |-> TRUE, header |-> bytes[4][2],
        body |-> IF decodeBody THEN SubSeq(bytes, 6, 5 + bytes[3][2]) ELSE <<>>]

\* HashiverseClient::get_post, from a bundle the walk verified.
IndicesOf(b, id) == {i \in 1 .. b.header.num_posts : b.header.ids[i] = id}

\* Mutant: the post is looked for where the one before it is.
GetPostBefore(b, id, base) ==
  IF IndicesOf(b, id) = {} THEN Unreadable
  ELSE DecodeFromBytes(Slice(b, IF Min(IndicesOf(b, id)) = 1 THEN 1 ELSE Min(IndicesOf(b, id)) - 1), base, TRUE, TRUE)

GetPost(b, id, base) ==
  IF IndicesOf(b, id) = {} THEN Unreadable ELSE DecodeFromBytes(Slice(b, Min(IndicesOf(b, id))), base, TRUE, TRUE)

-----------------------------------------------------------------------------
(* Feedback: entries of a fixed size, with the work done for each.             *)
FeedbackSize == 2

EncodeFeedback(e) == [i \in 1 .. FeedbackSize |-> <<"feedback", e, i>>]

PowVerify(e) == e.pow = e.salt

FeedbackAt(cells, i) == SubSeq(cells, (i - 1) * FeedbackSize + 1, i * FeedbackSize)

IsFeedback(cells) == cells[1][1] = "feedback" /\ cells = EncodeFeedback(cells[1][2])

\* The view: whole chunks, a bad one is passed over.
FeedbackView(cells) ==
  LET chunks == Len(cells) \div FeedbackSize
      view[i \in 0 .. chunks] ==
        IF i = 0 THEN <<>>
        ELSE IF IsFeedback(FeedbackAt(cells, i)) THEN Append(view[i - 1], FeedbackAt(cells, i)[1][2])
        ELSE view[i - 1]
  IN view[chunks]

FeedbackHash(h) == <<Num(h.ts), h.location_id, h.body_hash, h.peer_signature>>

SignFeedback(h, k) == [h EXCEPT !.signature = SignedBy(k, FeedbackHash(h))]

\* Mutant: the work of an entry is believed.
VerifyFeedbackUnworked(b) ==
  /\ b.header.signature = SignedBy(b.header.peer, FeedbackHash(b.header))
  /\ Len(b.body) % FeedbackSize = 0
  /\ Digest(b.body) = b.header.body_hash
  /\ \A i \in 1 .. Len(b.body) \div FeedbackSize : IsFeedback(FeedbackAt(b.body, i))

VerifyFeedback(b) ==
  /\ b.header.signature = SignedBy(b.header.peer, FeedbackHash(b.header))
  /\ Len(b.body) % FeedbackSize = 0
  /\ Digest(b.body) = b.header.body_hash
  /\ \A i \in 1 .. Len(b.body) \div FeedbackSize :
       IsFeedback(FeedbackAt(b.body, i)) /\ PowVerify(FeedbackAt(b.body, i)[1][2])

\* get_post_pow_for_feedback_type takes the first, get_post_pows the last.
PowsOf(cells, x, type) == LET v == FeedbackView(cells) IN {i \in DOMAIN v : v[i].post = x /\ v[i].type = type}

GetPostPowForFeedbackType(cells, x, type) ==
  LET at == PowsOf(cells, x, type) IN IF at = {} THEN 0 ELSE FeedbackView(cells)[Min(at)].pow

GetPostPows(cells, x, type) ==
  LET at == PowsOf(cells, x, type) IN IF at = {} THEN 0 ELSE FeedbackView(cells)[Max(at)].pow

TwoTo[n \in 0 .. AttemptsWidth] == IF n = 0 THEN 1 ELSE 2 * TwoTo[n - 1]

\* Mutant: attempts beyond the width wrap.
AttemptsWrapped(pow) == TwoTo[pow % AttemptsWidth]

Attempts(pow) == IF pow >= AttemptsWidth THEN TwoTo[AttemptsWidth] - 1 ELSE TwoTo[pow]

GetPostFeedbacks(cells, x, type) ==
  LET pow == GetPostPows(cells, x, type) IN IF pow > 0 THEN Attempts(pow) \div PowNumeraire ELSE 0

\* HashiverseClient::submit_feedback: only better work than is known goes out.
SubmitsFeedback(cells, x, type, pow) == pow > GetPostPowForFeedbackType(cells, x, type)

-----------------------------------------------------------------------------
(* Bytes that were spliced: the start of one and the end of another; or one     *)
(* field of one replaced by that of another.                                 *)
Spliced(s, t, i, j) == SubSeq(s, 1, i) \o SubSeq(t, j, Len(t))

Replaced(s, t, i) == [s EXCEPT ![i] = t[i]]

NothingRead == [what |-> "nothing"]

PostBytesInit == written = <<>> /\ reading = NothingRead

Encoded(n) == EncodeToBytesDirect(written[n])

WritePost(author, linked, text) ==
  /\ reading = NothingRead
  /\ Len(written) < MaxWritten
  /\ CanEncrypt(<<author>> \o linked)
  /\ written' = Append(written, NewPost(author, linked, text))
  /\ UNCHANGED reading

ReadPostBytes(bytes, password, expectBody, decodeBody) ==
  /\ reading = NothingRead
  /\ reading' = [what |-> "post", bytes |-> bytes, password |-> password, expectBody |-> expectBody,
                 out |-> DecodeFromBytes(bytes, password, expectBody, decodeBody), decodeBody |-> decodeBody]
  /\ UNCHANGED written

ReadSpliced(n, m, i, j, password, decodeBody) ==
  ReadPostBytes(Spliced(Encoded(n), Encoded(m), i, j), password, TRUE, decodeBody)

ReadReplaced(n, m, i, password, decodeBody) ==
  ReadPostBytes(Replaced(Encoded(n), Encoded(m), i), password, TRUE, decodeBody)

\* A reader of headers is given what the sender cut off.
ReadHeader(n, m, i, password) ==
  LET cut == BytesWithoutBody(Replaced(Encoded(n), Encoded(m), i))
  IN cut.ok /\ ReadPostBytes(cut.bytes, password, FALSE, FALSE)

(* A host signs the header of the posts it holds; on the way the header and the  *)
(* body of two of its bundles are mixed, the bytes are cut short or run on.      *)
HeaderOf(k, list, healed) ==
  SignBundle([ts |-> Len(list), location_id |-> "location", overflowed |-> FALSE, sealed |-> FALSE, num_posts |-> Len(list) % CountWidth,
              ids |-> [i \in DOMAIN list |-> Encoded(list[i])[1]],
              lengths |-> [i \in DOMAIN list |-> Len(Encoded(list[i]))],
              healed |-> {Encoded(list[i])[1] : i \in healed}, peer |-> k, signature |-> <<>>], k)

BodyOf(list) == FlattenSeq([i \in DOMAIN list |-> Encoded(list[i])])

ReadBundleBytes(header, body, cut, more, base) ==
  LET bytes == BundleToBytes([header |-> header, body |-> body])
      b == BundleFromBytes(SubSeq(bytes, 1, Len(bytes) - cut) \o more, TRUE, TRUE)
  IN /\ reading = NothingRead
     /\ reading' = [what |-> "bundle", bundle |-> b, base |-> base, verified |-> b.ok /\ VerifyBundle(b, base)]
     /\ UNCHANGED written

\* Resigned: the host itself signed a header that does not fit.
ReadMixedBundle(k, list, other, field, resigned, healed, cut, more, base) ==
  LET h == HeaderOf(k, list, healed)
      mixed == [h EXCEPT ![field] = HeaderOf(k, other, {})[field]]
  IN ReadBundleBytes(IF resigned THEN SignBundle(mixed, k) ELSE mixed, BodyOf(list), cut, more, base)

ReadOne(id) ==
  /\ reading.what = "bundle" /\ reading.verified
  /\ reading' = [what |-> "got", bundle |-> reading.bundle, base |-> reading.base, id |-> id,
                 out |-> GetPost(reading.bundle, id, reading.base)]
  /\ UNCHANGED written

(* A host signs the feedback it holds.                                        *)
FeedbackBundle(k, list, resigned) ==
  LET body == FlattenSeq([i \in DOMAIN list |-> EncodeFeedback(list[i])])
      h == [ts |-> 0, location_id |-> "location", body_hash |-> IF resigned THEN Digest(body) ELSE Digest(<<>>),
            peer |-> k, peer_signature |-> <<k>>, signature |-> <<>>]
  IN [header |-> SignFeedback(h, k), body |-> body]

ReadFeedback(k, list, resigned, cut, pow) ==
  LET bytes == BundleToBytes(FeedbackBundle(k, list, resigned))
      b == BundleFromBytes(SubSeq(bytes, 1, Len(bytes) - cut), TRUE, FALSE)
  IN /\ reading = NothingRead
     /\ reading' = [what |-> "feedback", bundle |-> b, verified |-> b.ok /\ VerifyFeedback(b),
                    counts |-> IF b.ok THEN GetPostFeedbacks(b.body, "x", 0) ELSE 0, pow |-> pow,
                    submits |-> b.ok /\ SubmitsFeedback(b.body, "x", 0, pow)]
     /\ UNCHANGED written

PostBytesAgain ==
  /\ reading # NothingRead
  /\ reading' = NothingRead
  /\ UNCHANGED written

Lists == {<<>>} \cup {<<n>> : n \in DOMAIN written} \cup {<<n, m>> : n, m \in DOMAIN written}

Feedbacks == [post : {"x", "y"}, type : {0}, salt : Salts, pow : Salts]

NextPostRead ==
  \E n, m \in DOMAIN written, password \in Writers \cup Themes, decodeBody \in BOOLEAN :
    \/ \E i \in 0 .. Len(Encoded(n)), j \in 1 .. Len(Encoded(m)) + 1 : ReadSpliced(n, m, i, j, password, decodeBody)
    \/ \E i \in 1 .. FixedPrefix + PostHeaderSize : ReadReplaced(n, m, i, password, decodeBody)
    \/ \E i \in 1 .. FixedPrefix + PostHeaderSize : ReadHeader(n, m, i, password)

NextBundleRead ==
  \E k \in Hosts, list, other \in Lists, resigned \in BOOLEAN, base \in Themes :
    \/ \E healed \in SUBSET DOMAIN list, field \in {"ts", "ids", "lengths", "healed", "num_posts"} :
         ReadMixedBundle(k, list, other, field, resigned, healed, 0, <<>>, base)
    \/ ReadBundleBytes(HeaderOf(k, other, {}), BodyOf(list), 0, <<>>, base)
    \/ ReadMixedBundle(k, list, other, "ts", resigned, {}, 1, <<>>, base)
    \/ ReadMixedBundle(k, list, other, "ts", resigned, {}, 0, <<Num(1)>>, base)

\* What feedback bundles hold has nothing to do with the posts written.
NextFeedbackRead ==
  /\ written = <<>>
  /\ \E k \in Hosts, e, f \in Feedbacks, resigned \in BOOLEAN, cut \in 0 .. 1, pow \in Salts :
       ReadFeedback(k, <<e, f>>, resigned, cut, pow)

PostBytesNext ==
  \/ \E a \in Writers, linked \in {<<>>} \cup {<<t>> : t \in Themes}, text \in Texts : WritePost(a, linked, text)
  \/ reading = NothingRead /\ NextPostRead
  \/ reading = NothingRead /\ NextBundleRead
  \/ reading = NothingRead /\ NextFeedbackRead
  \/ \E n \in DOMAIN written : ReadOne(Encoded(n)[1])
  \/ PostBytesAgain

PostBytesSpec == PostBytesInit /\ [][PostBytesNext]_postBytesVars

-----------------------------------------------------------------------------
(* Bytes that decode with their body are those of one post as its author        *)
(* encoded it, opened by its author's id or a base id it is linked to: nothing   *)
(* spliced from two posts decodes.  A header that decodes alone is that of a     *)
(* post too, except for the length of the body it does not bring.              *)
PostGenuine ==
  reading.what = "post" /\ reading.out.ok =>
    \E n \in DOMAIN written :
      /\ reading.out.header = written[n].header
      /\ reading.out.post_id = Encoded(n)[1]
      /\ reading.password \in ToSet(Passwords(written[n]))
      /\ reading.expectBody => reading.bytes = Encoded(n)
      /\ ~reading.expectBody => Replaced(reading.bytes, Encoded(n), 7) = BytesWithoutBody(Encoded(n)).bytes
      /\ reading.expectBody /\ reading.decodeBody => reading.out.post = written[n].text

(* A bundle that verifies is, from end to end, the posts its header names, in     *)
(* its order, each as its author encoded it: verify lets no byte of the body      *)
(* belong to nothing, whoever signed the header.                              *)
BundleGenuine ==
  reading.what = "bundle" /\ reading.verified =>
    \E list \in UNION {[1 .. len -> DOMAIN written] : len \in 0 .. 2} :
      /\ reading.bundle.body = BodyOf(list)
      /\ reading.bundle.header.ids = [i \in DOMAIN list |-> Encoded(list[i])[1]]
      /\ reading.bundle.header.healed \subseteq ToSet(reading.bundle.header.ids)

(* From a bundle that verifies get_post returns the post that was asked for,      *)
(* readable, exactly when the header names it.                                *)
GotAsked ==
  reading.what = "got" =>
    /\ reading.out.ok <=> \E i \in DOMAIN reading.bundle.header.ids : reading.bundle.header.ids[i] = reading.id
    /\ reading.out.ok => /\ reading.out.post_id = reading.id
                         /\ \E n \in DOMAIN written : Encoded(n)[1] = reading.id /\ reading.out.post = written[n].text

(* A feedback bundle that verifies holds whole entries only, each with the work    *)
(* it claims.                                                              *)
FeedbackWorked ==
  reading.what = "feedback" /\ reading.verified =>
    LET v == FeedbackView(reading.bundle.body)
    IN Len(v) * FeedbackSize = Len(reading.bundle.body) /\ \A i \in DOMAIN v : v[i].pow = v[i].salt

(* What get_post_feedbacks shows for a post grows with the work done, up to and     *)
(* beyond the width of a count of attempts; and submit_feedback keeps its own work   *)
(* back only when the bundle has work for the post that is as good.                *)
WorkCounted ==
  reading.what = "feedback" /\ reading.bundle.ok =>
    LET cells == reading.bundle.body
        most == TwoTo[AttemptsWidth] - 1
    IN /\ \A d \in 1 .. GetPostPows(cells, "x", 0) :
            reading.counts >= (IF d >= AttemptsWidth THEN most ELSE TwoTo[d]) \div PowNumeraire
       /\ reading.submits \/ reading.pow = 0
            \/ \E i \in PowsOf(cells, "x", 0) : FeedbackView(cells)[i].pow >= reading.pow

\* What a client or server accepts of the bytes of posts, bundles and feedback was written
\* by their authors, is what was asked for, and took the work it claims.
ReadIsWritten == PostGenuine /\ BundleGenuine /\ GotAsked /\ FeedbackWorked /\ WorkCounted
=============================================================================
