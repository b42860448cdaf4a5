----------------------------- MODULE Expansion -----------------------------
(***************************************************************************)
(* What the key expansions share: the caller's memory, the reference's     *)
(* round constants and AES-256, and the length of the schedule.  And the   *)
(* expansions of others that are beside them in the repository, as values: *)
(* OpenSSL's, ossl_expansion.s for a key of 256 bits with its other        *)
(* lengths left out, and the loop of NSS's, intel-nss-avx.s.               *)
(***************************************************************************)
EXTENDS Integers, Xmm

CONSTANTS
  Addr,      \* offsets of the caller's memory from the schedule's buffer
  Rcon,      \* the reference's round constants
  NumWords   \* words of the schedule

ASSUME AddrAssumption ==
  /\ NumWords \in Nat /\ NumWords >= 8
  /\ Addr \subseteq Int /\ 0..(4 * NumWords - 1) \subseteq Addr
ASSUME RconAssumption == Rcon \in [1..14 -> Byte]

\* The constants AES-256 uses are the powers of two: a shift makes each from
\* the one before without a carry.
PowersOfTwo ==
  /\ \A i \in 1..7 : Rcon[i] = Hex(<<1, 2, 4, 8, 16, 32, 64>>[i])
  /\ \A i \in 1..6 : 7 \notin Rcon[i] /\ Rcon[i + 1] = {b + 1 : b \in Rcon[i]}

\* AES-256, of which four of the routines make the schedule.
Aes == INSTANCE Aes256

-----------------------------------------------------------------------------
(* OpenSSL's                                                               *)

\* Each doubleword xor all those before it.  Of %xmm4 only the first is used
\* from one call to the next, and stays zero.
prefixed(x) ==
  LET xmm4 == SHUFPS(ZeroReg, x, <<0, 0, 1, 0>>)
      sum  == VPXOR(x, xmm4)
  IN  VPXOR(sum, SHUFPS(xmm4, sum, <<0, 3, 0, 2>>))

key_expansion_256a(xmm0, xmm2, rc) ==
  Held(VPXOR(prefixed(xmm0), VPSHUFD(VAESKEYGENASSIST(xmm2, rc), 3)))

key_expansion_256b(xmm0, xmm2, rc) ==
  Held(VPXOR(prefixed(xmm2), VPSHUFD(VAESKEYGENASSIST(xmm0, rc), 2)))

\* One after the other, with the literal n.
key_expansion_256(xmm, n) ==
  LET xmm0 == key_expansion_256a(xmm[1], xmm[2], Hex(n))
  IN  <<xmm0, key_expansion_256b(xmm0, xmm[2], Hex(n))>>

\* Memory filled two registers at a time.
RoundKeys(p) == [a \in 0..239 |-> p[a \div 32 + 1][((a \div 16) % 2) + 1][a % 16]]

\* rd_key for the key k.
aesni_set_encrypt_key(k) ==
  LET p0 == <<Load(k, 0), Load(k, 16)>>
      p1 == key_expansion_256(p0, 1)
      p2 == key_expansion_256(p1, 2)
      p3 == key_expansion_256(p2, 4)
      p4 == key_expansion_256(p3, 8)
      p5 == key_expansion_256(p4, 16)
      p6 == key_expansion_256(p5, 32)
      p7 == <<key_expansion_256a(p6[1], p6[2], Hex(64))>>
  IN  RoundKeys(<<p0, p1, p2, p3, p4, p5, p6, p7>>)

-----------------------------------------------------------------------------
(* The loop of NSS's                                                       *)

\* Bytes 13, 14, 15 and 12 to every doubleword.
mask256 == [i \in Lane |-> 12 + ((i + 1) % 4)]

con1 == [i \in Lane |-> IF i % 4 = 0 THEN Hex(1) ELSE Zero]

\* A register and its copies shifted by one, two and three words, and xmm2.
summed(xmm, xmm2) ==
  LET s1 == VPSLLDQ4(xmm)
      s2 == VPSLLDQ4(s1)
      s3 == VPSLLDQ4(s2)
  IN  Held(VPXOR(VPXOR(VPXOR(VPXOR(xmm, s1), s2), s3), xmm2))

half(xmm1, xmm3, xmm0) == summed(xmm1, VAESENCLAST(VPSHUFB(xmm3, mask256), xmm0))

\* A turn of the loop, of xmm1, xmm3 and the constant in xmm0.
Lenc_256_ks_loop(xmm) ==
  LET xmm1 == half(xmm[1], xmm[2], xmm[3])
      xmm3 == summed(xmm[2], VAESENCLAST(VPSHUFD(xmm1, 3), ZeroReg))
  IN  <<xmm1, xmm3, Held(VPSLLD1(xmm[3]))>>
=============================================================================
