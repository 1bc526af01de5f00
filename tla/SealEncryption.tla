---------------------------- MODULE SealEncryption ----------------------------
(***************************************************************************)
(* Encryption and decryption of an object for a threshold of key servers:  *)
(* the Rust crate (crates/crypto/src/lib.rs, ibe.rs, dem.rs) and the       *)
(* decryption on chain (move/seal/sources/bf_hmac_encryption.move).        *)
(*                                                                         *)
(* The secret sharing is computed, on base keys of one byte.  Groups and   *)
(* hashes are symbolic: an element or a digest is the tuple of what it is  *)
(* computed from, so two are equal when their inputs are.  The public key  *)
(* of a key server is the server itself unless something else is said.     *)
(***************************************************************************)
EXTENDS Tss, FiniteSets
CONSTANT Noise   \* what remains of a share unmasked with an unrelated mask, xored
ASSUME NoiseAssumption == Noise \in Byte \ {0}

M == INSTANCE MovePolynomial

Err == [outcome |-> "error"]        \* FastCryptoError; `none` on chain
Abort == [outcome |-> "abort"]      \* the Move transaction aborts
Ok(data) == [outcome |-> "ok", data |-> data]

-----------------------------------------------------------------------------

(***************************************************************************)
(* Boneh-Franklin encryption.  The pairing of the hashed id times the      *)
(* randomness with the public key is the pairing of the derived key with   *)
(* the nonce: both are <<public key, id, randomness>>.  The nonce is the   *)
(* randomness in the exponent, so it stands for the randomness.            *)
(***************************************************************************)
extract(server, id) == [pk |-> server, id |-> id]

kdf(gt, nonce, id, service, index) == <<gt, nonce, id, service, index>>

Mask(share, mask) == [share |-> share, mask |-> mask]

Unmask(ciphertext, mask) ==
  IF ciphertext.mask = mask THEN ciphertext.share ELSE add(ciphertext.share, Noise)

encrypt_batched_deterministic(randomness, shares, public_keys, id, services, indices) ==
  [i \in DOMAIN shares |->
     Mask(shares[i], kdf(<<public_keys[i], id, randomness>>, randomness, id, services[i], indices[i]))]

\* Decryption of the i-th share with a user secret key.
ibe_decrypt(object, i, usk) ==
  Unmask(object.encrypted_shares[i],
         kdf(<<usk.pk, usk.id, object.nonce>>, object.nonce, object.id,
             object.services[i], object.indices[i]))

\* Decryption of the i-th share with the randomness and the public key.
decrypt_deterministic(object, i, randomness, pk) ==
  Unmask(object.encrypted_shares[i],
         kdf(<<pk, object.id, randomness>>, randomness, object.id,
             object.services[i], object.indices[i]))

\* Both purposes hash the base key with the threshold, all encrypted shares and
\* all key servers, under different tags.
derive_key(purpose, base_key, encrypted_shares, threshold, services) ==
  <<purpose, base_key, encrypted_shares, threshold, services>>

ObjectKey(purpose, base_key, object) ==
  derive_key(purpose, base_key, object.encrypted_shares, object.threshold, object.services)

\* The randomness is recovered with the key it was encrypted under; any other
\* gives bytes that are no scalar or a scalar of another nonce.
decrypt_randomness(encrypted_randomness, key) ==
  IF encrypted_randomness.key = key THEN encrypted_randomness.randomness ELSE "other"

verify_nonce(randomness, nonce) == randomness = nonce

RandomnessVerified(object, base_key) ==
  verify_nonce(decrypt_randomness(object.encrypted_randomness,
                                  ObjectKey("EncryptedRandomness", base_key, object)),
               object.nonce)

\* The data encapsulation: authenticated under the key with the aad, or, in Plain
\* mode, nothing at all.
compute_mac(key, aad, blob) == <<key, aad, blob>>

dem_encrypt(input, key) ==
  [mode |-> input.mode, blob |-> input.data, aad |-> input.aad,
   mac |-> compute_mac(key, input.aad, input.data)]

dem_decrypt_NoAad(ciphertext, key) ==
  CASE ciphertext.mode = "Plain" -> Ok(key)
    [] OTHER -> IF ciphertext.mac[1] = key THEN Ok(ciphertext.blob) ELSE Err
dem_decrypt(ciphertext, key) ==
  CASE ciphertext.mode = "Plain" -> Ok(key)
    [] OTHER -> IF ciphertext.mac = compute_mac(key, ciphertext.aad, ciphertext.blob)
                  THEN Ok(ciphertext.blob) ELSE Err

-----------------------------------------------------------------------------

\* The object that carries given shares, with their indices, under a given base key.
Seal(id, key_servers, public_keys, threshold, base_key, indices, shares, input) ==
  LET encrypted_shares ==
        encrypt_batched_deterministic("r", shares, public_keys, id, key_servers, indices)
      key(purpose) == derive_key(purpose, base_key, encrypted_shares, threshold, key_servers)
  IN  [id |-> id, services |-> key_servers, indices |-> indices, threshold |-> threshold,
       nonce |-> "r", encrypted_shares |-> encrypted_shares,
       encrypted_randomness |-> [randomness |-> "r", key |-> key("EncryptedRandomness")],
       ciphertext |-> dem_encrypt(input, key("DEM"))]

\* The calls that seal_encrypt answers; InvalidInput for all others.  The number of shares is
\* a u8, and derive_key panics where it is not that of the key servers.
ValidSeal(key_servers, public_keys, threshold) ==
  LET number_of_shares == Len(key_servers) % 256
  IN  /\ ValidSplit(threshold, number_of_shares)
      /\ Len(public_keys) = number_of_shares
      /\ Len(key_servers) = number_of_shares

seal_encrypt(id, key_servers, public_keys, threshold, base_key, random, input) ==
  Seal(id, key_servers, public_keys, threshold, base_key, [i \in DOMAIN key_servers |-> i],
       split_byte(base_key, threshold, Len(key_servers), random), input)

-----------------------------------------------------------------------------

\* The places of given servers in the object, ascending; a server that is listed several times
\* counts as often.
ServiceIndices(object, servers) ==
  SetToSortSeq({i \in DOMAIN object.services : object.services[i] \in servers}, <)

GivenShares(object, keys) ==
  LET at == ServiceIndices(object, DOMAIN keys)
  IN  [k \in DOMAIN at |->
         <<object.indices[at[k]], ibe_decrypt(object, at[k], keys[object.services[at[k]]])>>]

combine_and_verify_nonce(object, shares) ==
  LET base_key == combine_byte(shares)
  IN  IF ValidShares(shares) /\ RandomnessVerified(object, base_key)
        THEN Ok(base_key) ELSE Err

combine_and_check_share_consistency(object, shares, public_keys) ==
  LET polynomial == interpolate(shares)
      base_key == evaluate(polynomial, 0)
  IN  IF /\ ValidShares(shares)
         /\ RandomnessVerified(object, base_key)
         /\ Len(public_keys) = Len(object.encrypted_shares)
         /\ \A i \in DOMAIN object.services :
              evaluate(polynomial, object.indices[i])
                = decrypt_deterministic(object, i, object.nonce, public_keys[i])
        THEN Ok(base_key) ELSE Err

\* seal_decrypt without public keys (`checked` is FALSE) and with them.
seal_decrypt(object, keys, checked, public_keys) ==
  LET shares == GivenShares(object, keys)
      base_key == IF checked THEN combine_and_check_share_consistency(object, shares, public_keys)
                             ELSE combine_and_verify_nonce(object, shares)
  IN  IF Len(shares) < object.threshold \/ base_key = Err THEN Err
      ELSE dem_decrypt(object.ciphertext, ObjectKey("DEM", base_key.data, object))

-----------------------------------------------------------------------------

\* What parse_encrypted_object lets through.
Parses(object) ==
  /\ Len(object.services) = Len(object.indices)
  /\ \A i, j \in DOMAIN object.indices : object.indices[i] = object.indices[j] => i = j
  /\ \A i \in DOMAIN object.indices : object.indices[i] > 0
  /\ object.threshold \in 1 .. Len(object.indices)
  /\ Len(object.encrypted_shares) = Len(object.indices)
  /\ object.ciphertext.mode = "Hmac256Ctr"

\* The keys are verified against the public keys of their servers.
verify_derived_keys(keys, id, public_keys) ==
  \A s \in DOMAIN keys : s \in DOMAIN public_keys /\ keys[s] = extract(public_keys[s], id)

\* The places of the servers whose keys are given, key by key.
GivenIndices(object, given) ==
  FlattenSeq([k \in DOMAIN given |-> ServiceIndices(object, {given[k]})])

decrypt_shares_with_derived_keys(object, at, keys) ==
  [k \in DOMAIN at |-> ibe_decrypt(object, at[k], keys[object.services[at[k]]])]

\* A share that no key was given for is decrypted with the randomness.
verify_share(object, polynomial, i, pk) ==
  M!evaluate(polynomial, object.indices[i]) = decrypt_deterministic(object, i, object.nonce, pk)

\* The checks between interpolation and the decryption of the blob: `none` if one
\* of them fails.
Consistent_AnyDegree(object, at, polynomial, public_keys) ==
  /\ RandomnessVerified(object, M!get_constant_term(polynomial))
  /\ \A i \in DOMAIN object.services \ Range(at) :
       verify_share(object, polynomial, i, public_keys[object.services[i]])
Consistent(object, at, polynomial, public_keys) ==
  /\ M!degree(polynomial) + 1 <= object.threshold
  /\ RandomnessVerified(object, M!get_constant_term(polynomial))
  /\ \A i \in DOMAIN object.services \ Range(at) :
       verify_share(object, polynomial, i, public_keys[object.services[i]])

\* decrypt on chain: the servers of the verified keys in the order given, the keys and the
\* public keys by server.
decrypt(object, given, keys, public_keys) ==
  LET at == GivenIndices(object, given)
      polynomial == M!interpolate_with_numerators([k \in DOMAIN at |-> object.indices[at[k]]],
                                                  decrypt_shares_with_derived_keys(object, at, keys))
      dem_key == ObjectKey("DEM", M!get_constant_term(polynomial), object)
  IN  CASE \/ \E s \in Range(given) : keys[s].id # object.id
           \/ ~IsInjective(given)
           \/ DOMAIN public_keys # Range(object.services)
           \/ ~(Range(given) \subseteq Range(object.services))
           \/ Len(at) < object.threshold -> Abort
        [] OTHER -> IF Consistent(object, at, polynomial, public_keys)
                      THEN dem_decrypt(object.ciphertext, dem_key) ELSE Err
=============================================================================
