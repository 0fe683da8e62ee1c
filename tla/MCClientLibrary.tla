------------------------------ MODULE MCClientLibrary ------------------------------
EXTENDS ClientLibrary, TLC

CONSTANTS t1, t2, k1, k2

\* Two tabs at one key, where every act counts.
Two == [tabs : {{t1, t2}}, first : {k1}, rotates : {TRUE}, openid : BOOLEAN, pkce : {FALSE},
        userPath : {FALSE}, endSession : {FALSE}, ops : {4},
        does : {{"lapse", "call", "logout"}, {"lapse", "password", "dispose"}}]

\* Codes and handoffs.
Redirects == [tabs : {{t1, t2}}, first : {k1}, rotates : {TRUE}, openid : BOOLEAN, pkce : BOOLEAN,
              userPath : {FALSE}, endSession : BOOLEAN, ops : {3},
              does : {{"lapse", "redirect", "logout", "reload"}}]

\* Profiles and their requests; without rotation too.
Profiles == [tabs : {{t1, t2}}, first : {k1}, rotates : BOOLEAN, openid : BOOLEAN, pkce : {FALSE},
             userPath : {TRUE}, endSession : {FALSE}, ops : {3},
             does : {{"lapse", "call", "password", "logout", "dispose"}}]

\* One tab of an application with two tenants.
Tenants == [tabs : {{t1}}, first : {k1}, rotates : {TRUE}, openid : BOOLEAN, pkce : {FALSE},
            userPath : BOOLEAN, endSession : {FALSE}, ops : {4},
            does : {{"lapse", "call", "password", "logout", "dispose", "rekey"}}]

\* The same, signed in by redirect.
Switched == [tabs : {{t1}}, first : {k1}, rotates : {TRUE}, openid : {FALSE}, pkce : {FALSE},
             userPath : {FALSE}, endSession : {FALSE}, ops : {4}, does : {{"redirect", "reload", "rekey"}}]

MCSetups == Two \cup Redirects \cup Profiles \cup Tenants \cup Switched
====================================================================================
