------------------------------ MODULE Envelope -------------------------------
(***************************************************************************)
(* The wire format (internal/protocol): framing, the nine fields of an     *)
(* envelope, its headers, signature and sealed payload.                    *)
(*                                                                         *)
(* A byte string is a sequence of numbers.  Lengths are scaled down: a     *)
(* prefix is one byte that counts to MaxPrefix (four that count to 2^32-1  *)
(* in the code), and so are the fields of fixed width.  The primitives are *)
(* external and ideal: a signature half or a box is the number of an entry *)
(* in the record of what was signed or sealed, so it can be moved about    *)
(* and not made up.                                                        *)
(***************************************************************************)
EXTENDS Integers, Sequences, SequencesExt

CONSTANTS
  MaxEnvelope,  \* the receiver's bound on an envelope, in bytes (of two sizes in the
                \* code, the smaller for enrollment and presence)
  MaxPrefix     \* the largest length a prefix can hold

ASSUME EnvelopeAssumption == MaxEnvelope \in Nat \ {0} /\ MaxPrefix \in Nat

VARIABLES
  signed,   \* signature halves made: the algorithm, the key and the bytes
  sealed    \* boxes made: the recipient, the plaintext and the bytes

Fields == 9
PrefixBytes == 1
Version == 1
VersionBytes == 1
TimestampBytes == 1
NonceBytes == 1
SignatureBytes == 2
SealOverheadBytes == 2
MaxIdentifier == 2

----------------------------------------------------------------------------
\* The seven refusals; no code refuses a replay at this commit.
Refusal == {"unknown version", "malformed envelope", "signature invalid",
            "decryption failed", "replay rejected", "payload too large", "unknown class"}

(* Tokens, as bytes: classes, reserved senders, and the alphabet of other  *)
(* identifiers.                                                            *)

Class == [request |-> <<1>>, reply |-> <<2>>, cmd |-> <<3>>, cancel |-> <<4>>,
          result |-> <<5>>, event |-> <<6>>, presence |-> <<7>>]
Known(c) == \E n \in DOMAIN Class : Class[n] = c
Encrypted(c) == c \in {Class["cmd"], Class["cancel"], Class["result"]}

IdByte == 20..39
ReservedByte == 31..35
ValidIdentifier(s) == Len(s) \in 1..MaxIdentifier /\ \A i \in 1..Len(s) : s[i] \in IdByte
ReservedSender(s) == Len(s) = 1 /\ s[1] \in ReservedByte

----------------------------------------------------------------------------
(* Framing.                                                                *)

Framable(fields) ==
  Len(fields) = Fields /\ \A i \in 1..Fields : Len(fields[i]) <= MaxPrefix

\* One field before the rest: its prefix, then its bytes; three, from the i-th on;
\* and all nine, the loop of a fixed count written out by threes.
Framed(v, rest) == <<Len(v)>> \o v \o rest
Framed3(f, i, rest) == Framed(f[i], Framed(f[i + 1], Framed(f[i + 2], rest)))
Frame(fields) == Framed3(fields, 1, Framed3(fields, 4, Framed3(fields, 7, <<>>)))

\* Mutant of SignedInput: the values without their prefixes.
SignedInputBare(fields) == FlattenSeq(SubSeq(fields, 1, Fields - 1))

SignedInput(fields) ==
  SubSeq(Frame(fields), 1, Len(Frame(fields)) - PrefixBytes - Len(fields[Fields]))

\* Mutant of OverBudget: a field may not use the budget up.
OverBudgetShort(n, budget) == budget < PrefixBytes \/ n >= budget - PrefixBytes

OverBudget(n, budget) == budget < PrefixBytes \/ n > budget - PrefixBytes

\* One field off the rest of the bytes, the budget judged before their presence.
TakeField(s) ==
  IF s.err # "nil" THEN s
  ELSE IF Len(s.rest) < PrefixBytes THEN [s EXCEPT !.err = "malformed envelope"]
  ELSE LET n == s.rest[1]
       IN  IF OverBudget(n, s.budget) THEN [s EXCEPT !.err = "payload too large"]
           ELSE IF Len(s.rest) - PrefixBytes < n THEN [s EXCEPT !.err = "malformed envelope"]
           ELSE [err |-> "nil", budget |-> s.budget - PrefixBytes - n,
                 rest |-> SubSeq(s.rest, n + 2, Len(s.rest)),
                 fields |-> Append(s.fields, SubSeq(s.rest, 2, n + 1))]
Take3(s) == TakeField(TakeField(TakeField(s)))

Split(b) ==
  LET s == Take3(Take3(Take3([err |-> "nil", budget |-> MaxEnvelope, rest |-> b, fields |-> <<>>])))
  IN  IF s.err = "nil" /\ s.rest # <<>> THEN [s EXCEPT !.err = "malformed envelope"] ELSE s

----------------------------------------------------------------------------
(* Envelopes and headers.                                                  *)

fieldValues(e) ==
  << <<e.version>>, e.class, e.job, e.corr, e.sender, e.ts, e.nonce, e.payload, e.sig >>

\* What Decode finds wrong with nine fields, in its order.
FieldError(f) ==
  CASE Len(f[1]) # VersionBytes -> "malformed envelope"
    [] Len(f[1]) = VersionBytes /\ f[1][1] # Version -> "unknown version"
    [] Len(f[1]) = VersionBytes /\ f[1][1] = Version /\ ~Known(f[2]) -> "unknown class"
    [] OTHER ->
         IF \/ Len(f[6]) # TimestampBytes \/ Len(f[7]) # NonceBytes
            \/ Len(f[9]) # SignatureBytes
            \/ \E i \in {3, 4} : Len(f[i]) # 0 /\ ~ValidIdentifier(f[i])
            \/ ~ValidIdentifier(f[5]) /\ ~ReservedSender(f[5])
            \/ Encrypted(f[2]) /\ Len(f[4]) # 0
         THEN "malformed envelope" ELSE "nil"

\* Decode's error, "nil" for none; and, when there is none, its envelope.
DecodeError(b) == IF Split(b).err # "nil" THEN Split(b).err ELSE FieldError(Split(b).fields)
Decode(b) ==
  LET f == Split(b).fields
  IN  [version |-> f[1][1], class |-> f[2], job |-> f[3], corr |-> f[4], sender |-> f[5],
       ts |-> f[6], nonce |-> f[7], payload |-> f[8], sig |-> f[9]]

\* A header's version is decimal text, which may have leading zeros.
FormatUint(n) == <<n>>
ParseUint(t) ==
  LET value[i \in 0..Len(t)] == IF i = 0 THEN 0 ELSE 10 * value[i - 1] + t[i]
  IN  IF t # <<>> /\ \A i \in 1..Len(t) : t[i] \in 0..9 THEN value[Len(t)] ELSE -1

Headers(e) ==
  LET plain == [version |-> FormatUint(e.version), class |-> e.class]
  IN  IF e.class \in {Class["cmd"], Class["cancel"], Class["result"]}
      THEN [version |-> plain.version, class |-> plain.class, job |-> e.job] ELSE plain

\* A header that is there agrees with its field; one that is not says nothing.
CheckHeaders(e, h) ==
  /\ "version" \in DOMAIN h => ParseUint(h["version"]) = e.version
  /\ "class" \in DOMAIN h => h["class"] = e.class
  /\ "job" \in DOMAIN h => h["job"] = e.job

----------------------------------------------------------------------------
(* Signatures and sealed payloads.                                         *)

Halves(k, input) == << [alg |-> "ed25519", key |-> k, over |-> input],
                       [alg |-> "mldsa65", key |-> k, over |-> input] >>

\* Sign: the signature's bytes, and the halves made for it.
SignEnvelope(e) == [e EXCEPT !.sig = <<Len(signed) + 1, Len(signed) + 2>>]
Sign(k, e) == signed' = signed \o Halves(k, SignedInput(fieldValues(e)))

HalfVerifies(i, sig, k, input) ==
  sig[i] \in DOMAIN signed /\ signed[sig[i]] = Halves(k, input)[i]

VerifyEnvelope(k, e) ==
  /\ Known(e.class) /\ Framable(fieldValues(e))
  /\ Len(e.sig) = SignatureBytes
  /\ \A i \in 1..2 : HalfVerifies(i, e.sig, k, SignedInput(fieldValues(e)))

\* Seal: the new box's number, twice, and as many bytes as the plaintext has.
BoxOf(plain) ==
  LET n == Len(sealed) + 1 IN <<n, n>> \o [i \in 1..Len(plain) |-> 0]
Seal(to, plain) ==
  sealed' = Append(sealed, [to |-> to, plain |-> plain, bytes |-> BoxOf(plain)])

\* OpenEnvelope: the boxes that this key opens, one or none.
Opened(to, e) ==
  {n \in DOMAIN sealed : /\ Encrypted(e.class) /\ e.corr = <<>>
                         /\ Len(e.payload) >= SealOverheadBytes
                         /\ sealed[n].to = to /\ sealed[n].bytes = e.payload}
=============================================================================
