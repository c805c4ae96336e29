------------------------------ MODULE MCGateway ------------------------------
(* A sound file, every file that differs from it in one block, and stores   *)
(* in which secrets were rotated, are unset, or hold a newline only.        *)
EXTENDS Gateway, TLC

MCChar == {"alice", "al", "ice", "bob", Colon, Newline, "pw", "pw2", "bobpw", "tok", "svc", "svcpw",
           "svcpw2", "rs", "rs2", Space}

Env(key) == SecretRef("env", "name", key)
File(form, key) == SecretRef("file", form, key)

Account(name, ref, quota) == [name |-> name, passwordRef |-> ref, quota |-> quota]

Alice == Account(<<"alice">>, Env("ALICE"), 1)
Bob == Account(<<"bob">>, File("clean", "/run/bob"), 1)
Split == Account(<<"al", ":", "ice">>, Env("ALICE"), 1)

MCUsers ==
    { <<>>, <<Alice, Bob>>, <<Split, Alice>>, <<Alice, Alice>>,
      <<Account(<<>>, Env("ALICE"), 1)>>, <<Account(<<"bob">>, File("unclean", "/run/bob"), 1)>>,
      <<Account(<<"bob">>, SecretRef("other", "name", "x"), 1)>>, <<Account(<<"bob">>, Env("BOB"), 0)>> }

Url(scheme, host, userinfo) == [scheme |-> scheme, host |-> host, userinfo |-> userinfo]

Own == [usernameRef |-> Env("POOL"), passwordRef |-> Env("POOLPW")]

A == [id |-> "a", endpoint |-> Url("http", "a", FALSE), region |-> "eu", weight |-> 1,
      protocols |-> {"webdriver"}, credentials |-> Own,
      health |-> [enabled |-> TRUE, failureThreshold |-> 1, cooldown |-> "10s"]]
B == [A EXCEPT !.id = "b", !.protocols = {"webdriver", "playwright"}, !.credentials = None]

MCPools ==
    { <<>>, <<A, B>>, <<A, [B EXCEPT !.id = "a"]>>, <<[A EXCEPT !.id = ""]>>,
      <<[A EXCEPT !.endpoint = Url("ftp", "a", FALSE)]>>, <<[A EXCEPT !.endpoint = Url("http", "a", TRUE)]>>,
      <<[A EXCEPT !.weight = 0]>>, <<[A EXCEPT !.protocols = {"ftp"}]>>, <<[A EXCEPT !.region = ""]>>,
      <<[A EXCEPT !.credentials.passwordRef = File("relative", "pw")]>>,
      <<[A EXCEPT !.health.cooldown = "bad"]>>, <<[A EXCEPT !.health.failureThreshold = -1]>> }

Chrome == [name |-> <<"chrome">>, versions |-> {<<"1">>}, platforms |-> {},
           protocols |-> {"webdriver", "playwright"}]
Pixel == [name |-> <<"pixel">>, versions |-> {<<"9">>}, platforms |-> {<<"android">>},
          protocols |-> {"webdriver"}]

MCBrowsers ==
    { <<>>, <<Chrome, Chrome>>, <<[Chrome EXCEPT !.versions = {}]>>,
      <<[Chrome EXCEPT !.platforms = {<<>>}]>>, <<[Chrome EXCEPT !.protocols = {}]>> }

Identity == [userHeader |-> "X-Forwarded-User", adminHeader |-> "X-Admin", secretRef |-> Env("ROUTER")]

MCIdentities ==
    { None, [Identity EXCEPT !.adminHeader = "", !.secretRef = NoRef], [Identity EXCEPT !.userHeader = ""],
      [Identity EXCEPT !.secretRef = File("relative", "x")],
      [Identity EXCEPT !.userHeader = "Authorization"], [Identity EXCEPT !.adminHeader = RouterSecretHeader] }

Base == [version |-> 1, users |-> <<Alice>>, guest |-> None, browsers |-> <<Chrome, Pixel>>,
         pools |-> <<A>>, adminRef |-> Env("TOKEN"), identity |-> Identity]

MCFiles ==
    {Base, [Base EXCEPT !.version = 2], [Base EXCEPT !.guest = 0], [Base EXCEPT !.adminRef = NoRef],
     [Base EXCEPT !.guest = 1, !.users = <<>>], [Base EXCEPT !.guest = 1, !.pools = <<B, A>>]}
    \cup {[Base EXCEPT !.users = users] : users \in MCUsers}
    \cup {[Base EXCEPT !.pools = pools] : pools \in MCPools}
    \cup {[Base EXCEPT !.browsers = browsers] : browsers \in MCBrowsers}
    \cup {[Base EXCEPT !.identity = ui] : ui \in MCIdentities}

Before ==
    [env |-> [ALICE |-> <<"pw">>, TOKEN |-> <<"tok">>, POOL |-> <<"svc">>, POOLPW |-> <<"svcpw">>,
              ROUTER |-> <<"rs">>],
     file |-> ("/run/bob" :> <<"bobpw", Newline>>)]

MCStores ==
    { Before,
      [Before EXCEPT !.env.ALICE = <<"pw2">>, !.env.POOLPW = <<"svcpw2">>, !.env.ROUTER = <<"rs2">>],
      [Before EXCEPT !.file = "/run/bob" :> <<Newline>>],
      [Before EXCEPT !.env = [TOKEN |-> <<"tok">>], !.file = <<>>] }

-----------------------------------------------------------------------------

Auth(value) == "Authorization" :> value

MCHeaders ==
    { <<>>, Auth(Basic(<<"alice">>, <<"pw">>)), Auth(Basic(<<"alice">>, <<"pw2">>)),
      Auth(Basic(<<"bob">>, <<"bobpw">>)) @@ ("X-Forwarded-User" :> <<"alice">>),
      Auth(Basic(<<"al", ":", "ice">>, <<"pw">>)), Auth(Bearer(<<"tok">>)),
      (AdminTokenHeader :> <<"tok">>) @@ (RouterSecretHeader :> <<"rs">>),
      Auth(Basic(<<"alice">>, <<"pw">>)) @@ ("Connection" :> {"X-Forwarded-User", "Authorization"}),
      Auth(Bearer(<<Space, "tok">>)) @@ ("Connection" :> {RouterSecretHeader}) }

NoPayload == [capabilities |-> NoObject, desired |-> NoObject]

Ask(method, pattern, headers) ==
    [method |-> method, pattern |-> pattern, headers |-> headers,
     payload |-> NoPayload, segments |-> <<>>]

C == "browserName" :> <<"chrome">>
D == ("browserName" :> NonString) @@ ("appium:deviceName" :> <<"pixel">>) @@ ("version" :> <<"9">>)
V == ("browserVersion" :> <<"1", "2">>) @@ ("gridlane:region" :> <<"eu">>)
P == ("platformName" :> <<"android">>) @@ ("browserVersion" :> <<>>)

FirstMatches == UNION {[1..n -> {C, D, V, P, NoObject}] : n \in 0..2} \cup {NoArray}

MCPayloads ==
    {NoPayload, [NoPayload EXCEPT !.desired = C]}
    \cup {[NoPayload EXCEPT !.capabilities = [alwaysMatch |-> always, firstMatch |-> first, plain |-> D]] :
             always \in {NoObject, C, V @@ C}, first \in FirstMatches}

MCRequests ==
    {Ask("GET", pattern, headers) :
        pattern \in {"/ping", "/config", "/quota", "/session/", "/vnc/", "/host/", "/nowhere"},
        headers \in MCHeaders}
    \cup {Ask("POST", "/config", <<>>), Ask("GET", "/session", Auth(Basic(<<"alice">>, <<"pw">>)))}
    \cup {[Ask("POST", "/session", Auth(Basic(<<"alice">>, <<"pw">>))) EXCEPT !.payload = payload] :
             payload \in MCPayloads}
    \cup {[Ask("POST", "/session", Auth(Basic(<<"alice">>, <<"pw">>)) @@ ("Connection" :> {"X-Forwarded-User"}))
             EXCEPT !.payload.desired = C]}
    \cup {[Ask("GET", "/playwright/", <<>>) EXCEPT !.segments = segments] :
             segments \in { <<<<"chrome">>, <<"1", "2">>>>, <<<<"chrome">>>>, <<<<"chrome">>, <<>>, <<"x">>>> }}
=============================================================================
