-------------------------------- MODULE MCService --------------------------------
EXTENDS Service

MCScenarios == {"clients", "setup", "assertions", "proofs", "tokens", "logout"}

ABody == [method |-> "client_secret_basic", grantTypes |-> {"authorization_code"}, responseTypes |-> None,
          redirectUri |-> "https", native |-> FALSE, host |-> "one", sector |-> None, subjectType |-> None,
          alg |-> None, mode |-> None, logoutUris |-> {}, keys |-> None]

\* What differs from ABody: one thing, or some that go together.
SetupBodies ==
  {[ABody EXCEPT !.host = h, !.sector = r, !.subjectType = t] :
     h \in {"one", "both"}, r \in {None, "listed", "unlisted"}, t \in {None, "pairwise"}}
  \cup
  {[ABody EXCEPT !.method = m, !.keys = k, !.alg = a] :
     m \in Methods, k \in {None, "jwks", "jwks_uri"}, a \in {None, "RS256", "PS256"}}
  \cup
  {[ABody EXCEPT !.method = m, !.grantTypes = g, !.responseTypes = r, !.alg = "RS256"] :
     m \in {"none", "client_secret_basic"}, r \in {None, {}, {"code"}},
     g \in {{}, {"authorization_code", "client_credentials"}, {"authorization_code", DeviceCode},
            {"client_credentials"}, {DeviceCode}, {TokenExchange}}}
  \cup
  {[ABody EXCEPT !.grantTypes = {"authorization_code"} \cup g, !.mode = mode, !.alg = "RS256"] :
     g \in {{}, {Ciba}}, mode \in {None, "poll", "push"}}
  \cup
  {[ABody EXCEPT !.redirectUri = u, !.native = n, !.alg = "PS256", !.method = "private_key_jwt",
                   !.keys = "jwks"] :
     u \in {"https", "http", "custom", "loopback", "localhost"}, n \in BOOLEAN}

MCBodies == [clients |-> {ABody, [ABody EXCEPT !.method = "none"]}, setup |-> SetupBodies,
             assertions |-> {}, proofs |-> {}, tokens |-> {}, logout |-> {}]

MCPatches == [
  clients |-> {[requirePkce |-> FALSE, vouched |-> TRUE], [method |-> "none"]},
  setup |-> {}, assertions |-> {}, proofs |-> {},
  tokens |-> {[subjectType |-> "pairwise"]},
  logout |-> {[subjectType |-> "pairwise", host |-> "both"]}]

Pairwise == [Default EXCEPT !.pairwiseSalt = TRUE, !.exchangePolicy = TRUE]
Open == [Default EXCEPT !.features = @ \cup {"dynamicRegistration"}]
Fapi == [Open EXCEPT !.profile = "fapi2", !.clientAuthMethods = FapiMethods, !.clientCertificate = TRUE,
                     !.features = @ \cup {"pushedAuthorizationRequests", "dpop"}]

MCSetups == [
  clients |-> {Open},
  setup |->
    {[Open EXCEPT !.pairwiseSalt = p, !.subjectType = t, !.resolveSectorIdentifier = r,
                  !.resolveClientJwks = j] :
       p \in BOOLEAN, t \in {"public", "pairwise"}, r \in BOOLEAN, j \in BOOLEAN}
    \cup
    {[Open EXCEPT !.features = @ \cup f, !.exchangePolicy = x, !.resolveCibaUser = x, !.clientAuthMethods = m,
                  !.clientCertificate = cert] :
       f \in SUBSET {"deviceFlow", "ciba"}, x \in BOOLEAN, m \in {DefaultMethods, Methods, {}}, cert \in BOOLEAN}
    \cup
    {[Fapi EXCEPT !.clientAuthMethods = m, !.clientCertificate = cert, !.slow = l,
                  !.features = @ \ f, !.malformed = b] :
       m \in {FapiMethods, Methods, {"private_key_jwt"}}, cert \in BOOLEAN, l \in {{}, {"code"}},
       f \in {{}, {"dpop"}, {"pushedAuthorizationRequests"}}, b \in BOOLEAN},
  assertions |-> {Open},
  proofs |-> {[Open EXCEPT !.features = @ \cup {"dpop"} \cup n] : n \in {{}, {"dpopNonces"}}},
  tokens |-> {Pairwise}, logout |-> {Pairwise, Fapi}]

OneKey == {<<"RS256">>}
SomeKeys == {<<"RS256">>, <<"PS256", "RS256">>, <<"PS256">>}
MCKeySets == [clients |-> OneKey, setup |-> SomeKeys, assertions |-> OneKey, proofs |-> OneKey,
              tokens |-> OneKey, logout |-> OneKey]

Same(patch) == [id \in {App, Api} |-> patch]
Nothing == Same([method |-> "client_secret_basic"])
Profiles == {Same([profile |-> p]) : p \in {None, "fapi2"}}

MCRegistered == [
  clients |-> {Nothing}, setup |-> {Nothing}, logout |-> {Nothing},
  assertions |-> Profiles, proofs |-> Profiles,
  tokens |->
    {[id \in {App, Api} |->
        IF id = App THEN [method |-> IF t = "public" THEN "none" ELSE "client_secret_basic", subjectType |-> t,
                          grantTypes |-> {TokenExchange}]
        ELSE [resourceServer |-> (t = "public"), grantTypes |-> {TokenExchange, "client_credentials"}]] :
      t \in {"public", "pairwise"}}]

MCRequests == [clients |-> 3, setup |-> 1, assertions |-> 2, proofs |-> 3, tokens |-> 2, logout |-> 3]
MCMaxTime == [clients |-> 0, setup |-> 0, assertions |-> 9, proofs |-> 7, tokens |-> 1, logout |-> 0]
================================================================================
