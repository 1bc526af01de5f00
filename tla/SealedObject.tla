---------------------------- MODULE SealedObject ----------------------------
(***************************************************************************)
(* The life of one encrypted object: somebody makes it, with seal_encrypt  *)
(* or with other software, and readers who hold the derived keys of        *)
(* different key servers decrypt it, with the Rust crate and on chain.     *)
(***************************************************************************)
EXTENDS SealEncryption
CONSTANTS
  Server,      \* the key servers
  KeyServers,  \* the lists of key servers objects are made for (repetitions are weights)
  KeyByte,     \* base keys and shares (bytes)
  Indices,     \* the lists of indices that other software gives the shares
  Reader

ASSUME ObjectAssumption ==
  /\ \A ks \in KeyServers : ks \in Seq(Server) /\ ks # <<>>
  /\ KeyByte \subseteq Byte

VARIABLES
  maker,    \* who made the object: "nobody", "seal_encrypt", or "other" software
  object,   \* the encrypted object, once it is made
  held      \* held[r]: the servers whose derived key for the object's id reader r has, in order

vars == <<maker, object, held>>

NoObject == [services |-> <<>>]

Init ==
  /\ maker = "nobody"
  /\ object = NoObject
  /\ held = [r \in Reader |-> <<>>]

Input(mode) == [mode |-> mode, data |-> <<7>>, aad |-> <<>>]

Encrypt(ks, t, base_key, random, mode) ==
  /\ maker = "nobody"
  /\ ValidSeal(ks, ks, t)
  /\ maker' = "seal_encrypt"
  /\ object' = seal_encrypt("id", ks, ks, t, base_key, random, Input(mode))
  /\ UNCHANGED held

\* Shares that need not lie on one polynomial, in another order, under an index twice or under
\* index 0, one of them perhaps encrypted to the public key of another server.
EncryptOther(ks, t, base_key, indices, shares, public_keys) ==
  /\ maker = "nobody"
  /\ ValidSeal(ks, public_keys, t)
  /\ maker' = "other"
  /\ object' = Seal("id", ks, public_keys, t, base_key, indices, shares, Input("Hmac256Ctr"))
  /\ UNCHANGED held

\* A key server answers r's request for the object's id.
FetchKey(r, s) ==
  /\ s \in Range(object.services) \ Range(held[r])
  /\ held' = [held EXCEPT ![r] = Append(@, s)]
  /\ UNCHANGED <<maker, object>>

Next ==
  \/ \E ks \in KeyServers : \E t \in 1 .. Len(ks), b \in KeyByte, random \in [1 .. Len(ks) -> KeyByte] :
       \/ \E mode \in {"Hmac256Ctr", "Plain"} : Encrypt(ks, t, b, random, mode)
       \/ \E indices \in Indices : EncryptOther(ks, t, b, indices, random, ks)
       \/ \E i \in DOMAIN ks, s \in Server :
            EncryptOther(ks, t, b, [j \in DOMAIN ks |-> j], random, [ks EXCEPT ![i] = s])
  \/ \E r \in Reader, s \in Server : FetchKey(r, s)

Spec == Init /\ [][Next]_vars

-----------------------------------------------------------------------------

Keys(r) == [s \in Range(held[r]) |-> extract(s, "id")]

Weight(r) == Cardinality({i \in DOMAIN object.services : object.services[i] \in Range(held[r])})

ReadUnchecked(r) == seal_decrypt(object, Keys(r), FALSE, <<>>)

ReadChecked(r) == seal_decrypt(object, Keys(r), TRUE, object.services)

\* verify_derived_keys and decrypt, given the public keys of exactly the services.
ReadOnChain(r) ==
  LET public_keys == [s \in Range(object.services) |-> s]
  IN  IF Parses(object) /\ verify_derived_keys(Keys(r), "id", public_keys)
        THEN decrypt(object, held[r], Keys(r), public_keys) ELSE Abort

(***************************************************************************)
(* What seal_encrypt made is read by exactly those who hold keys of enough *)
(* weight, by each of the three ways to decrypt, and all of them get the   *)
(* same: the data, or in Plain mode (which is not for the chain) the key   *)
(* derived for the object.                                                 *)
(***************************************************************************)
SealedReadable ==
  maker = "seal_encrypt" =>
    \A r \in Reader :
      LET enough == Weight(r) >= object.threshold
          plain == object.ciphertext.mode = "Plain"
          sealed == IF plain THEN object.ciphertext.mac[1] ELSE object.ciphertext.blob
      IN  /\ ReadUnchecked(r) = IF enough THEN Ok(sealed) ELSE Err
          /\ ReadChecked(r) = IF enough THEN Ok(sealed) ELSE Err
          /\ ReadOnChain(r) = IF enough /\ ~plain THEN Ok(sealed) ELSE Abort

(***************************************************************************)
(* What the chain decrypts is settled: another reader with enough keys     *)
(* gets the same there, and the Rust crate gets the same with the same     *)
(* keys, with and without the public keys, even if the object was made     *)
(* with shares that do not fit together.                                   *)
(***************************************************************************)
OnChainReadsAgree ==
  maker # "nobody" =>
    \A r \in Reader : ReadOnChain(r).outcome = "ok" =>
      /\ ReadChecked(r) = ReadOnChain(r) /\ ReadUnchecked(r) = ReadOnChain(r)
      /\ \A q \in Reader : ReadOnChain(q) \in {Abort, ReadOnChain(r)}

(***************************************************************************)
(* Whatever the shares are, right or wrong, enough or not, and in whatever *)
(* order the keys were obtained, the polynomials of the two                *)
(* implementations are the same one at every index, it runs through all of *)
(* the shares a reader has, and Rust's combine, which has them in the      *)
(* order of the object, computes its value at 0: decryption with and       *)
(* without the public keys, on and off the chain, works on the same base   *)
(* key.  Shares that combine accepts have no index twice.                  *)
(***************************************************************************)
OneInterpolation ==
  \A r \in Reader :
    LET at == GivenIndices(object, held[r])
        x == [k \in DOMAIN at |-> object.indices[at[k]]]
        y == decrypt_shares_with_derived_keys(object, at, Keys(r))
        p == interpolate([k \in DOMAIN at |-> <<x[k], y[k]>>])
        q == M!interpolate_with_numerators(x, y)
        shares == GivenShares(object, Keys(r))
    IN  ValidShares(shares) =>
          /\ \A k \in DOMAIN at : evaluate(p, x[k]) = y[k]
          /\ \A i \in 0 .. Len(object.services) + 1 : M!evaluate(q, i) = evaluate(p, i)
          /\ combine_byte(shares) = evaluate(p, 0)

(***************************************************************************)
(* The tables of logarithms and powers, with exponents added modulo 255,   *)
(* compute the product of the field for all bytes, and division undoes it  *)
(* for every divisor but 0, as interpolation relies on.                    *)
(***************************************************************************)
FieldTables ==
  maker = "nobody" =>
    \A x, y \in Byte :
      /\ mul(x, y) = FieldProduct(x, y)
      /\ y # 0 => div(mul(x, y), y) = x
=============================================================================
