-------------------------------- MODULE Rsa ---------------------------------
(***************************************************************************)
(* The arithmetic of keys (compiler/algorithm): the generation of a pair   *)
(* (crypto/rsa.c) from numbers that pass Miller and Rabin's test           *)
(* (miller_rabin.c), encryption, decryption with the Chinese remainder     *)
(* theorem, the extended Euclidean algorithm and Montgomery's product.     *)
(* A BigInt is an integer; the functions on it that come with the library  *)
(* of big integers are taken to compute what their names say.              *)
(***************************************************************************)
EXTENDS Integers, SequencesExt

CONSTANTS Candidates,   \* odd random numbers
          SmallPrimes,  \* of small_prime_filter
          E,            \* the public exponent
          MaxTries,     \* MAX_TRIES
          Messages,
          Bits,         \* of a limb
          Rounds        \* of mont_inv32

ASSUME RsaAssumption ==
  /\ \A n \in Candidates : n \in Nat /\ n % 2 = 1 /\ n > 3
  /\ Messages \subseteq Nat /\ E \in Nat /\ Bits \in Nat \ {0} /\ 2 ^ Rounds >= Bits

VARIABLES p, q,    \* the primes of generate_keypair
          tries,
          stage,   \* "generate", "keys", "sent", "read" or "failed"
          pair,    \* what keypair has been made
          message, cipher, plain

kvars == <<p, q, tries, stage, pair, message, cipher, plain>>

-----------------------------------------------------------------------------
(* The library of big integers *)

ModularPow(b, e, m) ==
  LET pow[i \in 0..e] == IF i = 0 THEN 1 % m ELSE (pow[i - 1] * (b % m)) % m
  IN  pow[e]

Divides(d, n) == n % d = 0
Gcd(a, b) == CHOOSE d \in 1..a :
  Divides(d, a) /\ Divides(d, b) /\ \A c \in (d + 1)..a : ~(Divides(c, a) /\ Divides(c, b))
ModInverse(a, m) == CHOOSE x \in 0..(m - 1) : (a * x) % m = 1

-----------------------------------------------------------------------------
(* big_int_extended_gcd: rows of remainder and coefficient, down to zero *)

\* The remainders fall, so as many rows as the first of them are enough.
NextRows(old, new) ==
  LET quotient == old.r \div new.r IN
  <<new, [r |-> old.r - quotient * new.r, s |-> old.s - quotient * new.s]>>

ExtendedGcd(a, b) ==
  LET rows[n \in 0..(a + 2)] ==
        IF n = 0 THEN <<[r |-> a, s |-> 1], [r |-> b, s |-> 0]>>
        ELSE LET last == rows[n - 1]
             IN  IF last[2].r = 0 THEN last ELSE NextRows(last[1], last[2])
      old == rows[a + 2][1]
  IN  [gcd |-> old.r, x |-> old.s, y |-> IF b = 0 THEN 0 ELSE (old.r - old.s * a) \div b]

-----------------------------------------------------------------------------
(* Miller and Rabin: n - 1 = 2^s d *)

Twos(n) == CHOOSE s \in 0..n : Divides(2 ^ s, n) /\ (n \div 2 ^ s) % 2 = 1

MillerWitnessOnce(n, a) ==
  ModularPow(a, (n - 1) \div 2 ^ Twos(n - 1), n) \notin {1, n - 1}

\* miller_witness: the power is squared until it is n - 1.
MillerWitness(n, a) ==
  LET s == Twos(n - 1)
      x == ModularPow(a, (n - 1) \div 2 ^ s, n)
      square[i \in 0..s] == IF i = 0 THEN x ELSE (square[i - 1] * square[i - 1]) % n
  IN  x # 1 /\ \A i \in 0..(IF s = 0 THEN 0 ELSE s - 1) : square[i] # n - 1

\* What miller_rabin may answer: it draws its numbers again every time.
MayPass(n) == \E a \in 2..(n - 2) : ~MillerWitness(n, a)
MayFail(n) == \E a \in 2..(n - 2) : MillerWitness(n, a)

SmallPrimeFilter(n) == \A s \in SmallPrimes : Divides(s, n) => n = s

\* rsa_generate_prime_number draws until one is taken.
Generated(n) == n \in Candidates /\ SmallPrimeFilter(n) /\ MayPass(n)

-----------------------------------------------------------------------------
(* rsa_generate_keypair *)

NoKey == [n |-> 0, e |-> 0, d |-> 0, p |-> 0, q |-> 0, dp |-> 0, dq |-> 0, qInv |-> 0]

Keypair(a, b) ==
  LET d == ModInverse(E, (a - 1) * (b - 1)) IN
  [n |-> a * b, e |-> E, d |-> d, p |-> a, q |-> b,
   dp |-> d % (a - 1), dq |-> d % (b - 1), qInv |-> ModInverse(b, a)]

\* A pair with a common factor of phi and e is drawn again, a few times.
Generate ==
  /\ stage = "generate"
  /\ \E a, b \in Candidates :
       /\ Generated(a) /\ Generated(b) /\ p' = a /\ q' = b
       /\ \/ /\ a # b /\ Gcd(E, (a - 1) * (b - 1)) = 1
             /\ stage' = "keys" /\ pair' = Keypair(a, b) /\ tries' = tries
          \/ /\ a = b /\ stage' = "failed" /\ UNCHANGED <<pair, tries>>
          \/ /\ a # b /\ Gcd(E, (a - 1) * (b - 1)) # 1 /\ tries' = tries + 1
             /\ stage' = IF tries + 1 < MaxTries THEN "generate" ELSE "failed"
             /\ UNCHANGED pair
  /\ UNCHANGED <<message, cipher, plain>>

-----------------------------------------------------------------------------
(* rsa_encrypt and rsa_decrypt *)

Encrypt(m) ==
  /\ stage = "keys" /\ m < pair.n
  /\ message' = m /\ cipher' = ModularPow(m, pair.e, pair.n) /\ stage' = "sent"
  /\ UNCHANGED <<p, q, tries, pair, plain>>

\* The difference modulo p of what the primes give; with the greater q it may
\* remain below zero.
Recombine(m1, m2) ==
  LET difference == IF m1 >= m2 THEN m1 - m2 ELSE pair.p - (m2 - m1)
      h == (pair.qInv * difference) % pair.p
  IN  h * pair.q + m2

Decrypt ==
  /\ stage = "sent" /\ stage' = "read"
  /\ plain' = Recombine(ModularPow(cipher, pair.dp, pair.p), ModularPow(cipher, pair.dq, pair.q))
  /\ UNCHANGED <<p, q, tries, pair, message, cipher>>

RsaInit ==
  /\ p = 0 /\ q = 0 /\ tries = 0 /\ stage = "generate" /\ pair = NoKey
  /\ message = 0 /\ cipher = 0 /\ plain = 0

RsaNext == Generate \/ (\E m \in Messages : Encrypt(m)) \/ Decrypt

RsaSpec == RsaInit /\ [][RsaNext]_kvars

-----------------------------------------------------------------------------
(* Montgomery's product: limbs of Bits bits, R the power of their number *)

Limb == 2 ^ Bits
Limbs(n) == CHOOSE k \in 1..32 : Limb ^ (k - 1) <= n /\ n < Limb ^ k

\* mont_inv32: Newton's iteration doubles the bits that are right.
MontInv(n) ==
  LET x[i \in 0..Rounds] == IF i = 0 THEN 1 ELSE LET y == x[i - 1] IN (y * (2 - n * y)) % Limb
  IN  (-x[Rounds]) % Limb

\* mont_compute_r2: doubling, once for each bit of R twice.
MontR2(n) ==
  LET r[i \in 0..(2 * Bits * Limbs(n))] ==
        IF i = 0 THEN 1
        ELSE LET twice == 2 * r[i - 1] IN IF twice >= n THEN twice - n ELSE twice
  IN  r[2 * Bits * Limbs(n)]

\* montgomery_mul: one limb after the other becomes zero.
MontgomeryMul(a, b, n) ==
  LET k == Limbs(n)
      inverse == MontInv(n % Limb)
      t[i \in 0..k] ==
        IF i = 0 THEN a * b
        ELSE LET sum == t[i - 1]
                 limb == (sum \div Limb ^ (i - 1)) % Limb
             IN  sum + ((limb * inverse) % Limb) * n * Limb ^ (i - 1)
      r == t[k] \div Limb ^ k
  IN  IF r >= n THEN r - n ELSE r

MontgomeryTo(x, n) == MontgomeryMul(x % n, MontR2(n), n)
MontgomeryFrom(x, n) == MontgomeryMul(x % n, 1, n)

-----------------------------------------------------------------------------
\* rsa.c:28: whoever has the key reads the message that was encrypted, with
\* any two numbers that were taken for primes and are.
Prime(n) == \A d \in 2..(n - 1) : n % d # 0
ReadsWhatWasSent == stage = "read" /\ Prime(p) /\ Prime(q) => plain = message

\* miller_rabin.c:58: it never refuses a prime, and draws a number for every
\* other that could make it refuse.  rsa.c:305: the pair fits together.
TestIsSound == \A n \in {p, q} \ {0} : Prime(n) <=> ~MayFail(n)

KeysFit ==
  stage \in {"keys", "sent", "read"} =>
    LET g == ExtendedGcd(pair.e, (p - 1) * (q - 1)) IN
    /\ g.gcd = 1 /\ g.gcd = g.x * pair.e + g.y * (p - 1) * (q - 1)
    /\ g.x % ((p - 1) * (q - 1)) = pair.d

\* montgomery_multiplication.c:87: in Montgomery's form products are those of
\* the numbers, and the form is left as it was entered.
MontgomeryIsProduct ==
  stage = "sent" =>
    /\ MontgomeryFrom(MontgomeryTo(message, p), p) = message % p
    /\ MontgomeryFrom(MontgomeryMul(MontgomeryTo(message, p), MontgomeryTo(cipher, p), p), p)
         = (message * cipher) % p

\* Keys are made of primes and take a message back to what it was.
KeysWork == ReadsWhatWasSent /\ TestIsSound /\ KeysFit /\ MontgomeryIsProduct

-----------------------------------------------------------------------------
(***************************************************************************)
(* The file of a private key (compiler/algorithm/crypto/DER_ASN1.c), in    *)
(* base 64 (base64.c), and the padding of a message before it is encrypted *)
(* (pkcs1_v1.5.c).                                                         *)
(*                                                                         *)
(* A number is the sequence of its bytes, without zeros before it.  A      *)
(* character is its place in the alphabet, 64 for the padding; a file is a *)
(* sequence of lines between BeginKey and EndKey.                          *)
(***************************************************************************)

CONSTANTS Keys,       \* keys: sequences of numbers
          LineLength, \* characters of a line
          MaxLines,   \* MAX_PRIVATE_KEY_LINE_LEN
          Rooms,      \* what kmalloc may have for a buffer of der_append
          MaxLost,    \* bound: writes that fail
          Texts,      \* messages, sequences of bytes
          Modulus     \* bytes of the modulus they are encrypted with

ASSUME KeyFileAssumption == LineLength \in Nat \ {0} /\ MaxLines \in Nat /\ Modulus \in Nat

VARIABLES key,      \* what was generated
          file,     \* the lines of its file
          open,     \* the last of them has no newline yet
          left,     \* lines that are still to be written
          lost,     \* what memory and the card lost of it
          found,    \* what was read
          past,     \* base64_decode wrote behind its block
          text, em  \* a message and what it became

kfvars == <<key, file, open, left, lost, found, past, text, em>>

BeginKey == <<-2>>
EndKey   == <<-3>>
Failed == <<<<-1>>>>   \* no number has such a byte

-----------------------------------------------------------------------------
(* Distinguished encoding: a tag, a length and the value *)

\* der_length: a byte, or the number of bytes and the bytes.
Length(n) ==
  IF n < 128 THEN <<n>> ELSE IF n < 256 THEN <<129, n>> ELSE <<130, n \div 256, n % 256>>

\* der_append: what the buffer cannot grow for is left out, and no one is
\* told.
Appended(pieces, room) ==
  FoldLeft(LAMBDA bytes, piece :
             IF Len(bytes) + Len(piece) <= room THEN bytes \o piece ELSE bytes, <<>>, pieces)

OneByOne(bytes) == [i \in DOMAIN bytes |-> <<bytes[i]>>]

\* der_integer: a first byte of 128 or more gets a zero before it.
Integer(bytes) ==
  LET zero == IF bytes # <<>> /\ Head(bytes) >= 128 THEN <<0>> ELSE <<>>
  IN  OneByOne(<<2>> \o Length(Len(zero \o bytes)) \o zero) \o <<bytes>>

Encoded(numbers, room, outer) ==
  LET integers == FlattenSeq([i \in DOMAIN numbers |-> Integer(numbers[i])])
      body == Appended(Integer(<<0>>) \o integers, room)
  IN  Appended(OneByOne(<<48>> \o Length(Len(body))) \o <<body>>, outer)

\* der_read_length: the length at a place of the bytes and the place behind
\* it, or no place.
Nowhere == 0
ReadLength(bytes, at) ==
  LET n == bytes[at] - 128
      value[i \in 0..n] ==    \* as far as it is not longer than any file
        IF i = 0 THEN 0 ELSE IF value[i - 1] > 65535 THEN value[i - 1]
        ELSE value[i - 1] * 256 + bytes[at + i] IN
  IF at > Len(bytes) THEN [len |-> 0, at |-> Nowhere]
  ELSE IF bytes[at] < 128 THEN [len |-> bytes[at], at |-> at + 1]
  ELSE IF n = 0 \/ n > 4 \/ n > Len(bytes) - at THEN [len |-> 0, at |-> Nowhere]
  ELSE [len |-> value[n], at |-> at + 1 + n]

\* der_read_integer; one zero is dropped.
ReadInteger(bytes, at) ==
  LET tagged == at <= Len(bytes) /\ bytes[at] = 2
      length == ReadLength(bytes, at + 1)
      last == length.at + length.len - 1
      value == SubSeq(bytes, length.at, last) IN
  IF ~tagged \/ length.at = Nowhere \/ last > Len(bytes) THEN [value |-> <<>>, at |-> Nowhere]
  ELSE [value |-> IF Len(value) > 1 /\ Head(value) = 0 THEN Tail(value) ELSE value, at |-> last + 1]

\* The version and as many numbers as a key has.
Decoded(bytes, count) ==
  LET start == ReadLength(bytes, 2)
      item[i \in 0..count] ==
        IF i = 0 THEN ReadInteger(bytes, start.at)
        ELSE LET before == item[i - 1]
             IN  IF before.at = Nowhere THEN before ELSE ReadInteger(bytes, before.at) IN
  IF bytes = <<>> \/ Head(bytes) # 48 \/ start.at = Nowhere \/ item[count].at = Nowhere THEN Failed
  ELSE [i \in 1..count |-> item[i].value]

-----------------------------------------------------------------------------
(* Base 64 *)

\* base64_encode: three bytes make four characters.
Group(b) ==
  LET c == [i \in 1..3 |-> IF i <= Len(b) THEN b[i] ELSE 0]
      four == <<c[1] \div 4, (c[1] % 4) * 16 + c[2] \div 16, (c[2] % 16) * 4 + c[3] \div 64, c[3] % 64>>
  IN  [i \in 1..4 |-> IF i <= Len(b) + 1 THEN four[i] ELSE 64]

Parts(s, size) ==
  [i \in 1..((Len(s) + size - 1) \div size) |->
     SubSeq(s, (i - 1) * size + 1, IF i * size <= Len(s) THEN i * size ELSE Len(s))]

Base64(bytes) ==
  LET groups == [g \in DOMAIN Parts(bytes, 3) |-> Group(Parts(bytes, 3)[g])]
  IN  [i \in 1..(4 * Len(groups)) |-> groups[(i - 1) \div 4 + 1][((i - 1) % 4) + 1]]

\* base64_decode: what is left of less than four characters is dropped.
Ungroup(f) ==
  <<f[1] * 4 + f[2] \div 16>>
    \o (IF f[3] = 64 THEN <<>> ELSE <<(f[2] % 16) * 16 + f[3] \div 4>>)
    \o (IF f[4] = 64 THEN <<>> ELSE <<(f[3] % 4) * 64 + f[4]>>)

Padding(chars) == Len(SelectSeq(chars, LAMBDA c : c = 64))

\* The length counts the padding: in its place is the terminator, and then
\* what the memory holds.
Unbase64(chars, byte) ==
  LET padding == Padding(chars)
      part(i) == SubSeq(chars, 4 * ((i - 1) \div 3) + 1, 4 * ((i - 1) \div 3) + 4)
  IN  [i \in 1..(3 * (Len(chars) \div 4) - padding) |-> Ungroup(part(i))[((i - 1) % 3) + 1]]
        \o SubSeq(<<0, byte>>, 1, padding)

-----------------------------------------------------------------------------
(* The file.  It is written line by line, and the power may go. *)

Lines(bytes) == Parts(Base64(bytes), LineLength)

AllRoom == CHOOSE room \in Rooms : \A other \in Rooms : room >= other

\* rsa_private_key_require generates a key when there is no file.
GenerateKey(numbers) ==
  /\ key = <<>> /\ em = <<>> /\ key' = numbers
  /\ \E room, outer \in Rooms :
       LET bytes == Encoded(numbers, room, outer) IN
       /\ left' = <<BeginKey>> \o Lines(bytes) \o <<EndKey>>
       /\ lost' = IF bytes = Encoded(numbers, AllRoom, AllRoom) THEN 0 ELSE 1
  /\ UNCHANGED <<file, open, found, past, text, em>>

\* The characters of a line and its newline are two writes, those of the
\* first and the last line are one; no one looks at whether they succeed.
WriteLine ==
  /\ left # <<>> /\ found = <<>> /\ left' = Tail(left)
  /\ \E chars \in {<<>>, Head(left)}, newline \in BOOLEAN :
       /\ Head(left) \in {BeginKey, EndKey} => newline = (chars # <<>>)
       /\ file' = IF chars = <<>> /\ ~newline THEN file
                  ELSE IF open THEN Append(Front(file), Last(file) \o chars)
                  ELSE Append(file, chars)
       /\ open' = (~newline /\ (open \/ chars # <<>>))
       /\ lost' = IF chars # <<>> /\ newline THEN lost ELSE lost + 1
  /\ lost' > lost => lost' <= MaxLost
  /\ UNCHANGED <<key, found, past, text, em>>

\* rsa_private_key_read_der: as many lines as it reads, the end among them.
\* An empty line passes for the first one.
EndLine(f) == CHOOSE n \in 2..Len(f) : f[n] = EndKey
Body(f) == FlattenSeq(SubSeq(f, 2, EndLine(f) - 1))
Decodes(f) ==
  /\ \E n \in 2..Len(f) : f[n] = EndKey
  /\ f[1] \in {BeginKey, <<>>} /\ EndLine(f) <= MaxLines
  /\ \A i \in 2..(EndLine(f) - 1) : Len(f[i]) <= 64
  /\ Body(f) # <<>>

\* Now or after the power has gone.
ReadKey ==
  /\ key # <<>> /\ found = <<>>
  /\ IF Decodes(file)
       THEN /\ \E byte \in {0, 2} : found' = Decoded(Unbase64(Body(file), byte), Len(key))
            /\ past' = (Padding(Body(file)) = 0)
       ELSE found' = Failed /\ UNCHANGED past
  /\ UNCHANGED <<key, file, open, left, lost, text, em>>

-----------------------------------------------------------------------------
(* pkcs1_v1_5_generate_em and pkcs1_v1_5_decode_em *)

\* Random bytes that are not zero fill what the message leaves of the modulus.
Pad(sent, byte) ==
  /\ em = <<>> /\ key = <<>> /\ Len(sent) <= Modulus - 11
  /\ text' = sent
  /\ em' = <<0, 2>> \o [i \in 1..(Modulus - Len(sent) - 3) |-> byte] \o <<0>> \o sent
  /\ UNCHANGED <<key, file, open, left, lost, found, past>>

Unpadded(bytes) ==
  LET zeros == {i \in 3..Len(bytes) : bytes[i] = 0}
      first == CHOOSE i \in zeros : \A j \in zeros : i <= j IN
  IF Len(bytes) < 11 \/ bytes[1] # 0 \/ bytes[2] # 2 \/ zeros = {} THEN Failed
  ELSE IF first - 1 < 10 THEN Failed ELSE SubSeq(bytes, first + 1, Len(bytes))

-----------------------------------------------------------------------------

KeyFileInit ==
  /\ key = <<>> /\ file = <<>> /\ open = FALSE /\ left = <<>> /\ lost = 0
  /\ found = <<>> /\ past = FALSE /\ text = <<>> /\ em = <<>>

KeyFileNext ==
  \/ \E numbers \in Keys : GenerateKey(numbers)
  \/ WriteLine \/ ReadKey
  \/ \E sent \in Texts, byte \in {1, 255} : Pad(sent, byte)

KeyFileSpec == KeyFileInit /\ [][KeyFileNext]_kfvars

-----------------------------------------------------------------------------
\* DER_ASN1.c:182: a file that was written to its end gives the key back, and
\* one that was not is refused; of a file that memory or the card lost
\* something of, which is reported as saved all the same (DER_ASN1.c:24, 193),
\* only that it is refused without its end.
KeyOrRefused ==
  found # <<>> =>
    /\ left = <<>> /\ lost = 0 => found = key
    /\ left # <<>> => found = Failed

\* base64.c:81: the terminator of what was decoded goes behind its block only
\* when the encoding of the key fills the characters.
TerminatorFits ==
  past /\ lost = 0 => Len(Encoded(key, AllRoom, AllRoom)) % 3 = 0

\* pkcs1_v1.5.c:42: what was padded comes out as it went in.
PaddingComesOff == em # <<>> => Unpadded(em) = text

\* What is decoded is what was encoded, or refused, if all of it was written.
EncodingIsUndone == KeyOrRefused /\ TerminatorFits /\ PaddingComesOff

\* rsa.c, DER_ASN1.c: keys work and come back from files that are whole.
KeysAreSound == KeysWork /\ EncodingIsUndone
=============================================================================
