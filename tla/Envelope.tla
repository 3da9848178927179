------------------------------ MODULE Envelope ------------------------------
(***************************************************************************)
(* The AES-256-GCM envelope of internal/crypto, reduced to what the store  *)
(* can tell apart: a ciphertext remembers the master key, the user and the *)
(* configuration it was sealed for, and the plaintext inside.  The bytes,  *)
(* the nonce, and the HKDF subkey are abstracted: sealing never fails on a *)
(* 32-byte key, and opening succeeds exactly when the key and the          *)
(* (user, configuration) associated data are those of the sealing.         *)
(***************************************************************************)

CONSTANTS
    MasterKey,   \* the 32 bytes every process loads at start-up
    ZeroKey,     \* the same buffer after encrypted.Store.Close wiped it
    TornKey,     \* the buffer read while the wipe is half way
    NoKey        \* of bytes that were never an envelope (the reserved row)

Keys == {MasterKey, ZeroKey, TornKey}

ASSUME KeysDistinct ==
    /\ NoKey \notin Keys
    /\ MasterKey # ZeroKey
    /\ MasterKey # TornKey
    /\ ZeroKey # TornKey

\* BuildAAD: the bytes (version, user, configuration) that bind a ciphertext to its row.
BuildAAD(user, id) == <<user, id>>

\* Encrypt(masterKey, userID, configID, plaintext).
Encrypt(key, user, id, plain) ==
    [key |-> key, aad |-> BuildAAD(user, id), plain |-> plain]

\* Decrypt succeeds under this key for this row; Plain is what it returns.
Opens(key, user, id, env) ==
    /\ env.key = key
    /\ env.aad = BuildAAD(user, id)

Plain(env) == env.plain

=============================================================================
