---------------------------------- MODULE Setup ----------------------------------
(***************************************************************************)
(* What a provider is set up to do: the configuration resolveConfig takes  *)
(* (config.ts), the FAPI 2.0 profile (profile/fapi.ts), the keys           *)
(* (keys/keys.ts) and the metadata discovery publishes (discovery.ts).     *)
(* Operators only: endpoints read them, nothing here changes.              *)
(*                                                                         *)
(* A key is the algorithm it declares, newest first.  A URL is its kind.   *)
(***************************************************************************)
EXTENDS Naturals, SequencesExt

CONSTANT None

Methods == {"none", "client_secret_basic", "client_secret_post", "client_secret_jwt",
            "private_key_jwt", "tls_client_auth", "self_signed_tls_client_auth"}
DefaultMethods ==
  {"client_secret_basic", "client_secret_post", "client_secret_jwt", "private_key_jwt", "none"}
MtlsMethods == {"tls_client_auth", "self_signed_tls_client_auth"}

\* The features that change what an endpoint does, off unless they are named.
Features == {"dynamicRegistration", "deviceFlow", "pushedAuthorizationRequests", "introspection",
             "revocation", "dpop", "dpopNonces", "ciba"}
DefaultFeatures == {"introspection", "revocation"}

\* slow: the lifetimes longer than the profile allows.  malformed: an issuer, a route,
\* a lifetime, a scope list or a resource that is not one.
Default == [
  profile |-> None, clientAuthMethods |-> DefaultMethods, features |-> DefaultFeatures,
  clientCertificate |-> FALSE, exchangePolicy |-> FALSE, resolveCibaUser |-> FALSE,
  resolveSectorIdentifier |-> FALSE, resolveClientJwks |-> FALSE,
  subjectType |-> "public", pairwiseSalt |-> FALSE,
  resources |-> {}, slow |-> {}, malformed |-> FALSE]

-----------------------------------------------------------------------------
(* The FAPI 2.0 profile: of the provider, or of one client. *)

FapiAlgs == {"PS256", "ES256", "EdDSA"}
FapiMethods == {"private_key_jwt", "tls_client_auth", "self_signed_tls_client_auth"}

UnderFapi(config, client) == config.profile = "fapi2" \/ (client # None /\ client.profile = "fapi2")

FapiProvider(config) ==
  /\ "pushedAuthorizationRequests" \in config.features
  /\ "dpop" \in config.features \/ config.clientCertificate
  /\ config.clientAuthMethods \cap FapiMethods # {}
  /\ config.slow = {}

FapiClient(config, client) ==
  UnderFapi(config, client) =>
    /\ config.profile = "fapi2" \/ FapiProvider(config)
    /\ client.method \in FapiMethods
    /\ client.redirectUri \in {"loopback", "localhost"} => client.native
    /\ client.alg \in FapiAlgs \cup {None}

-----------------------------------------------------------------------------
(* Keys: the first of an algorithm signs, the others verify. *)

StaticKeyStore(keys) == "RS256" \in ToSet(keys)
SigningAlgorithms(keys) == ToSet(keys)
CanSign(keys, alg) == alg # None /\ alg \in ToSet(keys)

DefaultSigningAlg(config, client, keys) ==
  LET usable == IF UnderFapi(config, client) THEN SelectSeq(keys, LAMBDA alg : alg \in FapiAlgs) ELSE keys
  IN IF usable = <<>> THEN None ELSE Head(usable)

-----------------------------------------------------------------------------
(* The checks createProvider makes before the first request. *)

ResolveConfig(config) ==
  /\ ~config.malformed
  /\ config.clientAuthMethods # {}
  /\ config.clientAuthMethods \cap MtlsMethods # {} => config.clientCertificate
  /\ config.subjectType = "pairwise" => config.pairwiseSalt
  /\ "ciba" \in config.features => config.resolveCibaUser
  /\ config.profile \in {None, "fapi2"}
  /\ config.profile = "fapi2" => FapiProvider(config)

-----------------------------------------------------------------------------
(* Discovery. *)

Ciba == "urn:openid:params:grant-type:ciba"
DeviceCode == "urn:ietf:params:oauth:grant-type:device_code"
TokenExchange == "urn:ietf:params:oauth:grant-type:token-exchange"

GrantTypes == {"authorization_code", "refresh_token", "client_credentials", DeviceCode, TokenExchange, Ciba}
SupportedGrantTypes(config) ==
  {"authorization_code", "refresh_token", "client_credentials"}
    \cup {grant \in {DeviceCode} : "deviceFlow" \in config.features}
    \cup {grant \in {TokenExchange} : config.exchangePolicy}
    \cup {grant \in {Ciba} : "ciba" \in config.features}

ClientSigningAlgs == FapiAlgs \cup {"ES384", "RS256"}
ClientSecretAlgs == {"HS256"}

Metadata(config, keys) ==
  LET fapi == config.profile = "fapi2" IN
  [token_endpoint_auth_methods |->
     {method \in config.clientAuthMethods : /\ config.clientCertificate \/ method \notin MtlsMethods
                                            /\ fapi => method \in FapiMethods},
   grant_types |-> SupportedGrantTypes(config),
   id_token_signing_algs |-> SigningAlgorithms(keys) \cap (IF fapi THEN FapiAlgs ELSE ToSet(keys)),
   client_algs |-> IF fapi THEN FapiAlgs ELSE ClientSigningAlgs,
   subject_types |-> IF config.pairwiseSalt THEN {"public", "pairwise"} ELSE {"public"}]
================================================================================
