------------------------------ MODULE SeqobWire ------------------------------
(***************************************************************************)
(* The offer a maker signs and a taker reads (ambra_core/src/              *)
(* seqob_wire.rs, app/lib/src/data/seqob_client.dart).  The maker signs a  *)
(* deterministic encoding of the offer's fields, the covenant's bytes among*)
(* them in hex; the app posts those bytes in base64; the relay decodes the *)
(* JSON and serves it as it renders it (camel case, numbers as strings,    *)
(* defaults left out, bytes in base64); the taker encodes what is served   *)
(* and checks the signature over it.  Beside the signed fields the taker   *)
(* reads caps, which say how an offer may be settled.                      *)
(*                                                                         *)
(* One field stands for each type the encoder knows.  A value is a number, *)
(* 0 the default of its type; a signature is who signed which encoding.    *)
(***************************************************************************)
EXTENDS Integers

CONSTANT MaxVal     \* bound on a field's values

ASSUME WireConstants == MaxVal \in Nat \ {0}

VARIABLES
    offer,      \* the maker's offer, as he signed it
    posted,     \* he posted it
    relayed,    \* what the relay serves: the offer in some rendering
    altered,    \* something in it changed on the way
    book        \* what the taker listed last: shelf, offer, and whether it verified

wireVars == <<offer, posted, relayed, altered, book>>

Fields == {"number", "flag", "text", "terms", "bytes"}
Forms  == {"number", "string", "bool", "object", "hex", "base64", "absent"}
Field  == [form : Forms, val : 0..MaxVal]
Absent == [form |-> "absent", val |-> 0]
Names  == {"snake", "camel"}
NoSig  == [by |-> "", over |-> [key |-> "", vals |-> [f \in {} |-> 0]]]
Texts  == {"padded", "bare", "broken"}   \* a signature in base64
MakerKeys == {"", "seed", "other"}
Shelves   == {"same", "pegged", "cross"}
NoOffer == [fields |-> [f \in Fields |-> Absent], names |-> "snake", key |-> "", sig |-> NoSig, text |-> "padded",
            caps |-> 0]

(***************************************************************************)
(* Readers and encoding.                                                   *)
(***************************************************************************)

\* A bug: numbers written as strings are not read.
AsNumberOnly(x) == IF x.form = "number" THEN x.val ELSE 0

\* as_u64, trade_dir_num: a number or a string of one.
AsNumber(x) == IF x.form \in {"number", "string"} THEN x.val ELSE 0

\* as_bool: true, "true" or 1.
AsBool(x) == IF x.form \in {"bool", "string", "number"} /\ x.val = 1 THEN 1 ELSE 0

\* as_str
AsStr(x) == IF x.form = "string" THEN x.val ELSE 0

\* hex_to_bytes keeps the characters that are hex digits and drops the others.  Of bytes in base64 too few are
\* left to make as many bytes again, so what is read is no value that was signed; nothing reads as nothing.
Garbled == MaxVal + 1
AsBytes(x) == CASE x.form = "hex" -> x.val
                [] x.form = "base64" /\ x.val # 0 -> Garbled
                [] OTHER -> 0

\* A field read by its type; terms that are there but no object have nothing in them.
ReadField(o, f) ==
    LET x == o.fields[f] IN
    CASE f = "number" -> AsNumber(x)
      [] f = "flag" -> AsBool(x)
      [] f = "text" -> AsStr(x)
      [] f = "terms" -> IF x.form = "object" THEN x.val ELSE 0
      [] f = "bytes" -> AsBytes(x)

\* Defaults are left out; messages that are there, and the bytes of one, are not.
Emitted(o, f) == ReadField(o, f) # 0 \/ (f \in {"terms", "bytes"} /\ o.fields[f].form # "absent")

\* canonical_offer_bytes: the signature is no part of it, the names are not, and caps is not.
CanonicalOffer(o) == [key |-> o.key, vals |-> [f \in {g \in Fields : Emitted(o, g)} |-> ReadField(o, f)]]

(***************************************************************************)
(* Keys and signatures.                                                    *)
(***************************************************************************)

\* b64_encode writes the padding; b64_decode does without, and fails on any other character.
EncodeSig(o, sig) == [o EXCEPT !.sig = sig, !.text = "padded"]
DecodeSig(o) == IF o.text \in {"padded", "bare"} THEN o.sig ELSE NoSig

\* maker_key_from_seed: the same on every installation of the wallet.
MakerIdentity == "seed"

SignAs(o, key) == LET own == [o EXCEPT !.key = key, !.sig = NoSig]
                  IN EncodeSig(own, [by |-> key, over |-> CanonicalOffer(own)])

VerifyOffer(o) == LET sig == DecodeSig(o)
                  IN sig # NoSig /\ o.key # "" /\ sig.by = o.key /\ sig.over = CanonicalOffer(o)

(***************************************************************************)
(* The maker.                                                              *)
(***************************************************************************)

\* What the app writes: numbers either way, a flag, a string, an object or nothing, a covenant's bytes or none.
Written(f) ==
    CASE f = "number" -> [form : {"number", "string"}, val : 0..MaxVal]
      [] f = "flag" -> [form : {"bool"}, val : {0, 1}]
      [] f = "text" -> [form : {"string"}, val : 0..MaxVal]
      [] f = "terms" -> [form : {"object"}, val : 0..MaxVal] \cup {Absent}
      [] f = "bytes" -> [form : {"hex"}, val : 1..MaxVal] \cup {Absent}

\* seqob_sign_offer
SignOffer(fs, caps) ==
    /\ offer = NoOffer
    /\ offer' = SignAs([NoOffer EXCEPT !.fields = fs, !.caps = caps], MakerIdentity)
    /\ UNCHANGED <<posted, relayed, altered, book>>

\* _covenantOfferForPost: bytes go out in base64.
ForPost(o) == [o EXCEPT !.fields["bytes"].form = IF @ = "hex" THEN "base64" ELSE @]

PostOffer ==
    /\ offer # NoOffer /\ ~posted
    /\ posted' = TRUE /\ relayed' = ForPost(offer)
    /\ UNCHANGED <<offer, altered, book>>

\* sign_cancel; the relay takes it from the offer's own key.
CancelOffer ==
    /\ relayed # NoOffer /\ relayed.key = MakerIdentity
    /\ relayed' = NoOffer
    /\ UNCHANGED <<offer, posted, altered, book>>

(***************************************************************************)
(* The relay.                                                              *)
(***************************************************************************)

\* Decoded, by the relay's own reader, and rendered again.
Rendered(o) ==
    [o EXCEPT !.names = "camel",
              !.fields = [f \in Fields |->
                IF f \in {"terms", "bytes"} \/ o.fields[f].val # 0
                THEN [o.fields[f] EXCEPT !.form = IF f = "number" THEN "string" ELSE @]
                ELSE Absent]]
Render ==
    /\ relayed # NoOffer /\ relayed.names = "snake"
    /\ relayed' = Rendered(relayed)
    /\ UNCHANGED <<offer, posted, altered, book>>

\* Something changes on the way, by a fault or not: a field, ...
FormsOf(f) == IF f = "bytes" THEN {"hex", "base64", "number", "absent"} ELSE Forms \ {"hex", "base64"}

Alters(served) ==
    /\ relayed # NoOffer /\ ~altered
    /\ relayed' = served /\ altered' = TRUE
    /\ UNCHANGED <<offer, posted, book>>

Alter(f, x) == x.form \in FormsOf(f) /\ Alters([relayed EXCEPT !.fields[f] = x])

\* ... the signature's text, the key that is named, the caps, ...
AlterText(x) == Alters([relayed EXCEPT !.text = x])
AlterKey(key) == Alters([relayed EXCEPT !.key = key])
AlterCaps(caps) == Alters([relayed EXCEPT !.caps = caps])

\* ... or the offer is signed anew with another key, and is another maker's.
SignOther == Alters(SignAs(relayed, "other"))

(***************************************************************************)
(* The taker.                                                              *)
(***************************************************************************)

\* fetchBook keeps a covenant, and in the blinded book what is tagged confidential, whether or not it verified;
\* peggedBtcCovenants drops a covenant that did not verify, crossBook an offer with cross_chain terms.
Keeps(shelf, o, verified) ==
    CASE shelf = "same" -> o.fields["bytes"].form # "absent" \/ AsBool(o.fields["flag"]) = 1
      [] shelf = "pegged" -> verified /\ o.fields["bytes"].form # "absent"
      [] shelf = "cross" -> verified /\ o.fields["terms"].form # "absent"

\* A shelf is fetched and shown with what verified, checked on what was served, and its caps.
List(shelf) ==
    LET verified == VerifyOffer(relayed)
    IN /\ book' = {[shelf |-> shelf, offer |-> o, verified |-> verified] :
                      o \in {x \in {relayed} \ {NoOffer} : Keeps(shelf, x, verified)}}
       /\ UNCHANGED <<offer, posted, relayed, altered>>

WireInit ==
    /\ offer = NoOffer /\ posted = FALSE /\ relayed = NoOffer /\ altered = FALSE /\ book = {}

WireNext ==
    \/ \E number \in Written("number"), flag \in Written("flag"), text \in Written("text"),
          terms \in Written("terms"), bytes \in Written("bytes"), caps \in {0, 1} :
          SignOffer([f \in Fields |-> CASE f = "number" -> number [] f = "flag" -> flag [] f = "text" -> text
                                        [] f = "terms" -> terms [] f = "bytes" -> bytes], caps)
    \/ PostOffer \/ CancelOffer \/ Render
    \/ \E f \in Fields, x \in Field : Alter(f, x)
    \/ \E x \in Texts : AlterText(x)
    \/ \E key \in MakerKeys : AlterKey(key)
    \/ \E caps \in {0, 1} : AlterCaps(caps)
    \/ SignOther
    \/ \E shelf \in Shelves : List(shelf)

WireSpec == WireInit /\ [][WireNext]_wireVars

(***************************************************************************)
(* Properties.                                                             *)
(***************************************************************************)

WireTypeOK ==
    /\ \A o \in {offer, relayed} \cup {e.offer : e \in book} :
        /\ o.fields \in [Fields -> Field] /\ o.names \in Names
        /\ o.text \in Texts /\ o.key \in MakerKeys /\ o.caps \in {0, 1}
        /\ o.sig.by \in MakerKeys /\ o.sig.over.key \in MakerKeys /\ DOMAIN o.sig.over.vals \subseteq Fields
    /\ \A e \in book : e.shelf \in Shelves /\ e.verified \in BOOLEAN
    /\ posted \in BOOLEAN /\ altered \in BOOLEAN

SameValues(a, b) == \A f \in Fields : ReadField(a, f) = ReadField(b, f) /\ Emitted(a, f) = Emitted(b, f)

\* Whatever the relay serves and however it renders it: an offer the taker lists under the maker's key as verified
\* (fetchBook's flag; the other two shelves list nothing else) says in every signed field what the maker signed;
\* and an offer without a covenant's bytes that was not altered verifies in every rendering.  Bytes are signed in
\* hex and checked in the base64 they are posted in, so an honest covenant may fail; caps are not signed, and
\* whatever they say is listed.
WireFaithful ==
    /\ \A e \in book :
        (e.verified \/ e.shelf # "same") /\ e.offer.key = MakerIdentity => SameValues(e.offer, offer)
    /\ relayed # NoOffer /\ ~altered /\ offer.fields["bytes"].form = "absent" => VerifyOffer(relayed)
=============================================================================
