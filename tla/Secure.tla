------------------------------- MODULE Secure -------------------------------
(***************************************************************************)
(* The stream cipher of crypto/cfb8.go over an abstract block cipher, and  *)
(* the text form of the server hash of crypto/keyexchange.go.              *)
(***************************************************************************)
EXTENDS Login

CONSTANT BlockSize   \* bytes of a cipher block (16 in the code)

ASSUME BlockAssumption == BlockSize \in Nat \ {0}

Xor(a, b) == [i \in 1..Len(a) |-> SymDiff(a[i], b[i])]

\* cipher.Block.Encrypt: some function of the block that mixes its bytes.
EncryptBlock(block) ==
  [i \in 1..BlockSize |-> {(b + i) % 8 : b \in SymDiff(block[i], block[(i % BlockSize) + 1])}
                            \cup {i % 8}]

\* src XORed with a prefix of the key block, and the cipher text: the output
\* when encrypting, the input when decrypting.
Out(iv, src) == Xor(src, EncryptBlock(iv))
CipherText(de, iv, src) == IF de THEN src ELSE Out(iv, src)
Block(src, k) == SubSeq(src, (k - 1) * BlockSize + 1, k * BlockSize)
Overlay(iv, part) == part \o Drop(iv, Len(part))

\* The feedback register before the k-th block, and the output: each block is
\* keyed with the cipher text of the block before.
Register(de, iv, src, k) ==
  LET reg[j \in 1..k] == IF j = 1 THEN iv ELSE CipherText(de, reg[j - 1], Block(src, j - 1))
  IN  reg[k]
Chain(de, iv, src) ==
  [i \in 1..Len(src) |->
     LET k == ((i - 1) \div BlockSize) + 1
     IN  SymDiff(src[i], EncryptBlock(Register(de, iv, src, k))[((i - 1) % BlockSize) + 1])]
Rest(src) == Drop(src, (Len(src) \div BlockSize) * BlockSize)
LastRegister(de, iv, src) == Register(de, iv, src, (Len(src) \div BlockSize) + 1)

\* Two blocks or more: the bytes after the last whole block enter the register.
bulkXOR(de, iv, src) ==
  LET reg == LastRegister(de, iv, src) IN
  [dst |-> Chain(de, iv, src), iv |-> Overlay(reg, CipherText(de, reg, Rest(src)))]
\* Less than two blocks: they do not.
byteByByteXOR(de, iv, src) ==
  [dst |-> Chain(de, iv, src), iv |-> LastRegister(de, iv, src)]

XORKeyStream(de, iv, src) ==
  IF src = <<>> THEN [dst |-> <<>>, iv |-> iv]
  ELSE IF Len(src) >= 2 * BlockSize THEN bulkXOR(de, iv, src)
  ELSE byteByByteXOR(de, iv, src)

\* Several calls one after the other, on pieces of the given lengths; the key
\* is also the first register (CreateCipher).
Crypt(de, key, src, lengths) ==
  LET from(k) == FoldFunctionOnSet(+, 0, lengths, 1..(k - 1))
      piece(k) == SubSeq(src, from(k) + 1, from(k) + lengths[k])
      run[k \in 0..Len(lengths)] ==
        IF k = 0 THEN [dst |-> <<>>, iv |-> key]
        ELSE LET r == XORKeyStream(de, run[k - 1].iv, piece(k))
             IN  [dst |-> run[k - 1].dst \o r.dst, iv |-> r.iv]
  IN  run[Len(lengths)].dst

\* ComputeServerHash on the digest: the digits of its absolute value as a two's
\* complement number, sign first.  ++ carries while a byte wraps to zero.
Invert(h) == [i \in 1..Len(h) |-> Word(8) \ h[i]]
Increment(h) ==
  LET last == Max({0} \cup {i \in 1..Len(h) : h[i] # Word(8)}) IN
  [i \in 1..Len(h) |-> IF i < last THEN h[i]
                       ELSE IF i = last THEN Bits(Num(h[i]) + 1) ELSE Zero]
Hex(h) ==
  [i \in 1..(2 * Len(h)) |-> IF i % 2 = 1 THEN Shr(h[(i + 1) \div 2], 4)
                             ELSE h[i \div 2] \cap Word(4)]
Minus == {7}   \* the sign, no digit
ServerHash(hash) ==
  IF \A i \in 1..Len(hash) : hash[i] = Zero THEN <<>>
  ELSE IF 7 \in hash[1] THEN <<Minus>> \o Hex(Increment(Invert(hash))) ELSE Hex(hash)
=============================================================================
