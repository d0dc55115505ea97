---------------------------- MODULE MCSecretData ----------------------------
(***************************************************************************)
(* Values for the constants of SecretData.                                 *)
(***************************************************************************)
EXTENDS SecretData

Cert(name) == [type |-> certType, der |-> name]
Key(type, der) == [type |-> type, der |-> der]
PFX(blocks) == [format |-> "pfx", blocks |-> blocks]

Chain == PEM(<<Cert("leaf"), Cert("ca")>>)
Bundle == PEM(<<Cert("leaf"), Key(privateKeyType, "PKCS8 RSA"), Cert("ca")>>)
Raw == [format |-> "raw", blocks |-> <<[type |-> "", der |-> "password"]>>]

MCContents == {
  Chain, Bundle, Raw,
  PEM(<<Key(privateKeyTypeRSA, "PKCS1 RSA"), Cert("leaf")>>),
  PEM(<<Key("EC PARAMETERS", "other"), Key(privateKeyTypeEC, "SEC1 EC")>>),
  PEM(<<Key(privateKeyType, "PKCS8 EC"), Cert("leaf"), Key("X509 CRL", "other")>>),
  PEM(<<Key(privateKeyType, "PKCS8 EC")>>),
  PEM(<<Key(privateKeyType, "PKCS8 other")>>),
  PFX(<<Cert("leaf"), Key(privateKeyType, "PKCS1 RSA")>>),
  PFX(<<Key(privateKeyType, "SEC1 EC"), Cert("leaf"), Cert("ca")>>),
  PFX(<<Cert("leaf")>>)}

File(path, contents) == [path |-> path, contents |-> contents]
Answer(fs) == [error |-> FALSE, files |-> fs]

MCResponses ==
  {[error |-> TRUE, files |-> <<>>]}
  \cup {Answer(<<File("a", x)>>) : x \in MCContents}
  \cup {Answer(<<File(p, x), File(q, y)>>) :
          p \in {"a"}, q \in {"a", "b"}, x \in {Chain, Bundle}, y \in {Bundle, Raw}}

E(path, key) == [sourcePath |-> path, targetKey |-> key]

MCSpecs == [data : {<<E("a", "tls.crt"), E("a", "tls.key")>>,
                    <<E("b", "tls.key"), E("a", "tls.crt")>>,
                    <<E("a", "tls.key"), E("a", "ca.crt")>>},
            type : {"Opaque", SecretTypeTLS},
            force : {<<>>, <<"1">>}]

MCSymbols == STRING
MCKeyOrder == <<"ca.crt", "tls.crt", "tls.key">>
MCUIDs == {<<"1", "2">>, <<"2", "1">>}
=============================================================================
