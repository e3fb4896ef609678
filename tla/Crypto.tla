------------------------------- MODULE Crypto -------------------------------
(***************************************************************************)
(* packages/crypto: what encrypt puts in a message and what decrypt gives  *)
(* back.  A text is a sequence of bytes, 0 being NUL.  AES and the hash    *)
(* are abstracted: what was encrypted with the key comes back byte for     *)
(* byte, and anything else is refused.  What is left is the padding, which *)
(* is not the standard one.  Rules call encrypt through packages/safelib.  *)
(***************************************************************************)
EXTENDS Integers, Sequences

CONSTANTS
    Block,   \* bytes of a cipher block, 16 for AES
    Texts    \* texts that rules encrypt

ASSUME BlockAssumption == Block \in Nat \ {0}
ASSUME TextsAssumption == Texts \subseteq Seq(Nat)

VARIABLE sealed    \* the last text encrypted, and what decrypt makes of it

Nuls(n) == [i \in 1..n |-> 0]

\* encrypt pads up to a whole number of blocks, and by a block if it is one.
Pad(text) == text \o Nuls(Block - (Len(text) % Block))

\* indexOf("\0") counts from 0, the position here from 1; 0 if there is none.
FirstNul(bytes) ==
    IF \E i \in 1..Len(bytes) : bytes[i] = 0
    THEN CHOOSE i \in 1..Len(bytes) :
            bytes[i] = 0 /\ \A j \in 1..(i - 1) : bytes[j] # 0
    ELSE 0

\* Mutant: cut before the first NUL, and not by one more.
UnpadTwice(bytes) ==
    LET z == FirstNul(bytes)
        kept == IF z > 1 THEN SubSeq(bytes, 1, z - 1) ELSE bytes
    IN  SubSeq(kept, 1, Len(kept) - 1)

\* decrypt keeps up to the first NUL, unless that is the first byte, and then
\* drops the last byte.
Unpad(bytes) ==
    LET z == FirstNul(bytes)
        kept == IF z > 1 THEN SubSeq(bytes, 1, z) ELSE bytes
    IN  SubSeq(kept, 1, Len(kept) - 1)

Seal(text) == sealed' = [text |-> text, back |-> Unpad(Pad(text))]

CryptoInit == sealed = [text |-> <<>>, back |-> Unpad(Pad(<<>>))]
CryptoNext == \E text \in Texts : Seal(text)
CryptoSpec == CryptoInit /\ [][CryptoNext]_sealed

-----------------------------------------------------------------------------

\* Texts that packages/crypto can carry: not empty, and without a NUL.
Plain(text) == text # <<>> /\ \A i \in 1..Len(text) : text[i] # 0

\* Whatever the length of a plain text, a multiple of the block or not, decrypt
\* gives it back; the empty text does not come back empty.
RoundTrip ==
    /\ Plain(sealed.text) => sealed.back = sealed.text
    /\ sealed.text = <<>> => sealed.back # sealed.text \/ Block = 1
=============================================================================
