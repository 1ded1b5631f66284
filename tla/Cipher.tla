--------------------------------- MODULE Cipher ---------------------------------
(***************************************************************************)
(* The cipher context of src/cipher.c: an initialization vector that is made   *)
(* when it is first needed and kept, a text padded to whole blocks, and what   *)
(* was encrypted and decrypted last.  What libmcrypt computes is kept as what  *)
(* it depends on: a ciphertext is a key, a vector and the padded text.        *)
(***************************************************************************)
EXTENDS Naturals, Sequences

CONSTANTS Clues,      \* the keys
          Texts,      \* the texts, sequences of characters
          Nul, Stray,
          BlockSize,  \* mcrypt_enc_get_block_size(), of a block mode
          IVSize,     \* mcrypt_enc_get_iv_size()
          GivenIVs,   \* the vectors an application sets, as [name, size]
          MaxCalls    \* bound: the vectors made and the ciphertexts kept

VARIABLES
  mode,   \* "none", "block" or "stream", then "gone"
  co,     \* kCipher_t: iv (iv_size is its size), enc and dec
  ivs,    \* how many vectors have been made
  made,   \* history: the ciphertexts made since the vector was set, with their texts
  told,   \* history: the ciphertext and the key of the last kahanaCipherDecrypt
  crash   \* "none", or "null" after a copy to address 0

cipherVars == <<mode, co, ivs, made, told, crash>>

NoIV == [name |-> "null", size |-> 0]
Empty == [clue |-> "none", iv |-> NoIV, data |-> <<>>]

CipherStart ==
  /\ mode = "none" /\ co = [iv |-> NoIV, enc |-> Empty, dec |-> <<>>]
  /\ ivs = 0 /\ made = {} /\ told = <<>> /\ crash = "none"

Up == mode \in {"block", "stream"} /\ crash = "none"

-----------------------------------------------------------------------------
(* kahanaCipherInit: a cipher that has not the mode, or a pool that cannot be  *)
(* made, gives no context.  An empty vector is none.                         *)
CipherInit ==
  /\ mode = "none"
  /\ \/ mode' = "gone" /\ UNCHANGED co
     \/ mode' \in {"block", "stream"} /\ \E iv \in GivenIVs \cup {NoIV} : co' = [co EXCEPT !.iv = iv]
  /\ UNCHANGED <<ivs, made, told, crash>>

Destroy == Up /\ mode' = "gone" /\ UNCHANGED <<co, ivs, made, told, crash>>

SetIV(iv) ==
  /\ Up
  /\ co' = [co EXCEPT !.iv = iv]
  /\ made' = {} /\ told' = <<>>
  /\ UNCHANGED <<mode, ivs, crash>>

(* Mutant of IVFor: each text gets a vector of its own. *)
MutIVFor == [name |-> "made", size |-> IVSize, number |-> ivs + 1]

(* The context's vector, or one CreateIV makes, which the context keeps.      *)
IVFor == IF co.iv.size = 0 THEN [name |-> "made", size |-> IVSize, number |-> ivs + 1] ELSE co.iv

(* As many zeroes as the last block lacks. *)
Padded(str) == str \o [n \in 1..(BlockSize - (Len(str) % BlockSize)) |-> Nul]

(* What the call encrypts: in a stream mode ext_len is 0, and so it is for a   *)
(* text of whole blocks.                                                     *)
Encrypted(str, clue) ==
  IF mode = "stream" \/ Len(str) % BlockSize = 0 THEN Empty
  ELSE [clue |-> clue, iv |-> IVFor, data |-> Padded(str)]

(* What is kept of a text mcrypt_generic() refused: as many bytes, any. *)
Garbled(cipher) == [cipher EXCEPT !.data = [n \in DOMAIN @ |-> Stray]]

(* A text of whole blocks is copied to where nothing was allocated.  A failure *)
(* is told by the text the call answers, which is left out: a failing         *)
(* mcrypt_module_close() leaves what the call has made, as a success does.    *)
Encrypt(str, clue) ==
  /\ Up /\ ivs < MaxCalls
  /\ \/ co.iv.size \notin {0, IVSize} /\ UNCHANGED <<co, ivs, made, crash>>
     \/ UNCHANGED <<co, ivs, made, crash>>   \* mcrypt_module_open() fails
     \/ /\ co.iv.size \in {0, IVSize}
        /\ ivs' = IF IVFor = co.iv THEN ivs ELSE ivs + 1
        /\ \/ co' = [co EXCEPT !.iv = IVFor]   \* mcrypt_generic_init() fails
              /\ UNCHANGED <<made, crash>>
           \/ /\ mode = "block" /\ str # <<>> /\ Len(str) % BlockSize = 0
              /\ co' = [co EXCEPT !.iv = IVFor] /\ crash' = "null" /\ UNCHANGED made
           \/ /\ mode = "stream" \/ str = <<>> \/ Len(str) % BlockSize # 0
              /\ \/ /\ co' = [co EXCEPT !.iv = IVFor, !.enc = Encrypted(str, clue)]
                    /\ made' = made \cup {[cipher |-> Encrypted(str, clue), text |-> str]}
                 \/ /\ co' = [co EXCEPT !.iv = IVFor, !.enc = Garbled(Encrypted(str, clue))]
                    /\ UNCHANGED made   \* mcrypt_generic() fails
              /\ UNCHANGED crash
  /\ UNCHANGED <<mode, told>>

CString(s) == LET nuls == {n \in DOMAIN s : s[n] = Nul}
              IN IF nuls = {} THEN s ELSE SubSeq(s, 1, (CHOOSE n \in nuls : \A k \in nuls : n <= k) - 1)

(* kahanaCipherDecrypt, of a ciphertext this context or another has made: with *)
(* another key or vector, or none, the text is whatever there was.           *)
Decrypt(cipher, clue) ==
  /\ Up
  /\ \/ /\ co' = [co EXCEPT !.dec = IF /\ cipher.data # <<>> /\ cipher.clue = clue
                                       /\ cipher.iv = co.iv
                                    THEN CString(cipher.data) ELSE <<Stray>>]
        /\ told' = <<cipher, clue>>
     \/ told' = <<>> /\ UNCHANGED co   \* libmcrypt refuses
  /\ UNCHANGED <<mode, ivs, made, crash>>

CipherNext ==
  \/ CipherInit \/ Destroy
  \/ \E iv \in GivenIVs \cup {NoIV} : SetIV(iv)
  \/ \E str \in Texts, clue \in Clues : Encrypt(str, clue)
  \/ \E clue \in Clues, cipher \in {m.cipher : m \in made} \cup {co.enc} : Decrypt(cipher, clue)

-----------------------------------------------------------------------------
CipherTypeOK ==
  /\ mode \in {"none", "block", "stream", "gone"} /\ crash \in {"none", "null"}
  /\ ivs \in 0..MaxCalls /\ Len(co.enc.data) % BlockSize = 0
  /\ mode = "stream" => co.enc.data = <<>>

(* With a block mode and its key, every ciphertext made since the vector was  *)
(* last set reads as its text again, however many were made after it, unless *)
(* the text was empty.                                                       *)
DecryptsBack ==
  mode = "block" /\ told # <<>> =>
    \A m \in made : m.cipher = told[1] /\ m.text # <<>> /\ told[1].clue = told[2] =>
                      co.dec = m.text
================================================================================
