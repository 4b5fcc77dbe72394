----------------------------- MODULE RealityTls -----------------------------
(***************************************************************************)
(* The TLS 1.3 messages of the REALITY handshake, as terms: leshiy-tls and *)
(* leshiy-reality's auth.rs, handshake.rs and mtproxy.  A key is named by  *)
(* who drew it, a hash or a key derivation is a term over its inputs, and  *)
(* decryption succeeds exactly with the key, the sequence number and the   *)
(* associated data of the encryption.  Byte layouts are left out: a field  *)
(* that does not parse is Malformed.                                       *)
(***************************************************************************)
EXTENDS Integers, Sequences

CONSTANTS Malformed,   \* what a parser or a cipher returns when it fails
          ServerKey,   \* the static secret of the server
          CertKey,     \* the ed25519 key of its certificate
          Secret,      \* the MTProxy secret
          Sni          \* the name the clients ask for

ASSUME KeyAssumption == ServerKey # CertKey /\ Malformed \notin {ServerKey, CertKey, Secret}

-----------------------------------------------------------------------------
(* Primitives.                                                             *)

\* x25519: what a and B share is what b and A share.
diffie_hellman(a, b) == {a, b}

\* Encapsulation against ek and decapsulation with its dk give one secret.
encapsulate(ek, fresh) == [ct |-> <<ek, fresh>>, ss |-> <<"mlkem", ek, fresh>>]
decapsulate(dk, ct) == IF ct[1] = dk THEN <<"mlkem", dk, ct[2]>> ELSE Malformed

CipherSuites == {"AES_128_GCM", "AES_256_GCM", "CHACHA20"}

\* from_u16: TLS 1.2 suites and unknown ones are not ours.
suite_from(v) == IF v \in CipherSuites THEN v ELSE Malformed

hkdf_expand_label(suite, secret, label, context) == <<suite, secret, label, context>>
hkdf_extract(suite, salt, ikm) == <<suite, salt, ikm>>

seal_record(suite, key, seq, type, plain) ==
    [key |-> key, seq |-> seq, suite |-> suite, type |-> type, plain |-> plain]

open_record(suite, key, seq, rec) ==
    IF rec.suite = suite /\ rec.key = key /\ rec.seq = seq
    THEN <<rec.type, rec.plain>> ELSE <<Malformed, Malformed>>

-----------------------------------------------------------------------------
(* Key schedule.                                                           *)

early_secret(suite) == hkdf_extract(suite, "", "zeros")
handshake_secret(suite, early, ecdhe) ==
    hkdf_extract(suite, hkdf_expand_label(suite, early, "derived", ""), ecdhe)
master_secret(suite, hs) ==
    hkdf_extract(suite, hkdf_expand_label(suite, hs, "derived", ""), "zeros")
traffic_secret(suite, secret, label, transcript) ==
    hkdf_expand_label(suite, secret, label, transcript)
traffic_key(suite, secret) == hkdf_expand_label(suite, secret, "key", "")
finished_verify_data(suite, base, transcript) ==
    <<hkdf_expand_label(suite, base, "finished", ""), transcript>>

\* The application keys of the two directions.
session_keys(suite, hs, transcript) ==
    LET master == master_secret(suite, hs)
    IN  [client |-> traffic_key(suite, traffic_secret(suite, master, "c ap", transcript)),
         server |-> traffic_key(suite, traffic_secret(suite, master, "s ap", transcript))]

-----------------------------------------------------------------------------
(* ClientHello.  The cipher list, the extension order, GREASE and ECH are  *)
(* the browser profile's and carry nothing the handshake depends on.       *)

Yandex == [suites |-> CipherSuites, groups |-> {"x25519", "hybrid"}]

\* key_share, the one extension the handshake reads: the x25519 share, and the
\* ML-KEM key with it.
build_extension(share, ek) == [x25519 |-> share, mlkem |-> ek]

\* The session id is the random until it is sealed.
build_client_hello(profile, sni, key_share, random) ==
    [profile |-> profile, sni |-> sni, x25519 |-> key_share.x25519, mlkem |-> key_share.mlkem,
     random |-> random, session_id |-> [raw |-> random]]

aad_from_client_hello(ch) == [ch EXCEPT !.session_id = [raw |-> "zeros"]]

derive_auth_key(shared, random) == <<"leshiy-reality", shared, random>>

\* A record that is no ClientHello, or one cut short, yields no fields.
extract_client_hello_fields(msg) == msg

seal_session_id(key, random, payload, aad) ==
    [key |-> key, nonce |-> random, aad |-> aad, payload |-> payload]

open_session_id(key, random, sid, aad) ==
    IF "key" \in DOMAIN sid /\ sid.key = key /\ sid.nonce = random /\ sid.aad = aad
    THEN sid.payload ELSE Malformed

\* A fresh hello of user u, drawn under the name id, stamped with the
\* client's clock and sealed for the holder of `server'.
build_authed_client_hello(id, u, t, server) ==
    LET random == <<"random", id>>
        ch == build_client_hello(Yandex, Sni, build_extension(<<"eph", id>>, <<"dk", id>>), random)
        key == derive_auth_key(diffie_hellman(<<"eph", id>>, server), random)
        sid == seal_session_id(key, random, [unix_secs |-> t, short_id |-> u],
                               aad_from_client_hello(ch))
    IN  [ch EXCEPT !.session_id = sid]

\* A browser's hello to the same site (external).
prober_hello(id, sni) ==
    build_client_hello(Yandex, sni, build_extension(<<"eph", id>>, <<"dk", id>>), <<"random", id>>)

-----------------------------------------------------------------------------
(* ServerHello and the server's flight.                                    *)

Groups == {"x25519", "hybrid", "retry", "p256"}

\* What the borrowed site may answer: a retry request names a group and
\* carries no share.
dest_server_hello(suite, group, id) ==
    [suite |-> suite, group |-> group, share |-> <<"dest", id>>]

\* Only the key share is replaced, and only in a group the server can imitate.
adapt_server_hello(sh, share) ==
    IF sh.group \in {"x25519", "hybrid"} THEN [sh EXCEPT !.share = share] ELSE Malformed

\* The certificate's signature field holds the HMAC of its key under auth_key.
signed_for(auth_key) == [pub |-> CertKey, mac |-> <<auth_key, CertKey>>]

build_server_messages(auth_key, chsh, suite, s_hs) ==
    LET cert == signed_for(auth_key)
        through_cert == Append(chsh, cert)
        cv == [key |-> CertKey, over |-> through_cert]
        through_cv == Append(through_cert, cv)
    IN  [cert |-> cert, cv |-> cv,
         fin |-> finished_verify_data(suite, s_hs, through_cv)]

\* server_handshake: Malformed, or the flight and what finish() needs.
server_handshake(ch, dest_sh, auth_key, id) ==
    LET suite == suite_from(dest_sh.suite)
        kem == encapsulate(ch.mlkem, <<"srv", id>>)
        hybrid == dest_sh.group = "hybrid"
        share == IF hybrid THEN <<kem.ct, <<"srv", id>>>> ELSE <<"srv", id>>
        dh == diffie_hellman(<<"srv", id>>, ch.x25519)
        shared == IF hybrid THEN <<kem.ss, dh>> ELSE <<"x", dh>>
        sh == adapt_server_hello(dest_sh, share)
        chsh == <<ch, sh>>
        hs == handshake_secret(suite, early_secret(suite), shared)
        s_hs == traffic_secret(suite, hs, "s hs", chsh)
        c_hs == traffic_secret(suite, hs, "c hs", chsh)
        msgs == build_server_messages(auth_key, chsh, suite, s_hs)
        through_fin == Append(chsh, msgs)
    IN  IF suite = Malformed \/ sh = Malformed THEN Malformed
        ELSE [sh |-> sh, enc |-> seal_record(suite, traffic_key(suite, s_hs), 0, "hs", msgs),
              suite |-> suite, c_hs |-> c_hs, transcript |-> through_fin,
              keys |-> session_keys(suite, hs, through_fin)]

\* The borrowed site's own answer, a valid flight under a certificate of its
\* own (external).
dest_flight(ch, sh) ==
    LET suite == sh.suite
        shared == <<"x", diffie_hellman(sh.share, ch.x25519)>>
        hs == handshake_secret(suite, early_secret(suite), shared)
        s_hs == traffic_secret(suite, hs, "s hs", <<ch, sh>>)
        cert == [pub |-> "dest", mac |-> <<<<"ca", {}, <<>>>>, "dest">>]
        cv == [key |-> "dest", over |-> <<ch, sh, cert>>]
        msgs == [cert |-> cert, cv |-> cv,
                 fin |-> finished_verify_data(suite, s_hs, <<ch, sh, cert, cv>>)]
    IN  [sh |-> sh, enc |-> seal_record(suite, traffic_key(suite, s_hs), 0, "hs", msgs)]

\* ServerHandshake::finish on the client's record.
finish(state, rec) ==
    LET opened == open_record(state.suite, traffic_key(state.suite, state.c_hs), 0, rec)
    IN  opened[1] = "hs"
        /\ opened[2] = finished_verify_data(state.suite, state.c_hs, state.transcript)

\* Mutant: any certificate that parses is taken for the server's.
identity_unchecked(cert, auth_key) == cert.pub # Malformed

\* The HMAC in the place of the certificate's signature.
identity_holds(cert, auth_key) == cert.mac = <<auth_key, cert.pub>>

\* client_handshake: the identity is the HMAC, then the signature, then the
\* Finished; Malformed unless all three hold.
client_handshake(ch, flight, auth_key) ==
    LET sh == flight.sh
        suite == suite_from(sh.suite)
        hybrid == sh.group = "hybrid"
        ss == IF hybrid THEN decapsulate(ch.mlkem, sh.share[1]) ELSE "x"
        peer == IF hybrid THEN sh.share[2] ELSE sh.share
        shared == <<ss, diffie_hellman(ch.x25519, peer)>>
        chsh == <<ch, sh>>
        hs == handshake_secret(suite, early_secret(suite), shared)
        s_hs == traffic_secret(suite, hs, "s hs", chsh)
        c_hs == traffic_secret(suite, hs, "c hs", chsh)
        opened == open_record(suite, traffic_key(suite, s_hs), 0, flight.enc)
        msgs == opened[2]
        through_fin == Append(chsh, msgs)
    IN  IF \/ suite = Malformed \/ sh.group \notin {"x25519", "hybrid"}
           \/ opened[1] # "hs"
           \/ ~identity_holds(msgs.cert, auth_key)
           \/ msgs.cv # [key |-> msgs.cert.pub, over |-> Append(chsh, msgs.cert)]
           \/ msgs.fin # finished_verify_data(suite, s_hs, Append(Append(chsh, msgs.cert), msgs.cv))
        THEN Malformed
        ELSE [keys |-> session_keys(suite, hs, through_fin),
              fin |-> seal_record(suite, traffic_key(suite, c_hs), 0, "hs",
                                  finished_verify_data(suite, c_hs, through_fin))]
=============================================================================
