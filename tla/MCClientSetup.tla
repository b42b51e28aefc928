---------------------------- MODULE MCClientSetup ----------------------------
(* Files, environments, requests and chat requests for ClientSetup. *)
EXTENDS ClientSetup

CONSTANTS http, llm, cat, p1, p2, t1, t2, t3

\* One adapter serves as the HTTP port and as the Zeus port; no job port is injected.
Shared == [s \in Slots |-> CASE s = "http" -> http [] s = "zeus" -> http [] s = "llm" -> llm
                             [] s = "catalog" -> cat [] s = "jobs" -> None]

\* The mappings of S, and each of them with the key k.
With(S, k, V) == S \cup {(k :> v) @@ m : v \in V, m \in S}

Worker(m) == ("worker" :> m)

\* Settings of a file: zero ones, rules and a long context, or a tenant and an id of its own.
FileSettings == {[rounds |-> 0, mode |-> "", onError |-> ""], [rounds |-> -1],
                 [rules |-> ("tone" :> "request"), company |-> 3],
                 [tenant |-> ("no_secrets" :> "tenant"), rid |-> HostId, meta |-> "de", ignore |-> FALSE]}

MCFiles ==
  LET common == With(With(With({Empty}, "auth", {"basic", "odd"}), "ai", {TRUE}), "profile", {"prod", "ci"})
  IN  With(common, "pins", {TRUE})
      \cup With(With(common, "tls", {FALSE}), "settings", FileSettings)
      \cup With(With({("auth" :> "bearer")}, "roles", {Worker(Empty), Worker("key" :> "ROLE_KEY")}), "key", {"FILE_KEY"})
      \cup With(With({("models" :> Worker("key" :> "MODEL_KEY"))}, "roles", {Worker(Empty), Worker("key" :> "ROLE_KEY")}), "pins", {TRUE})
      \cup With(With(With({("auth" :> "bearer")}, "level", {"odd", "trace"}), "endpoint", {TRUE}), "host", {TRUE})
      \cup With({("cache" :> ("enabled" :> TRUE))}, "profile", {"hub", "staging"})

MCEnvs ==
  With(With(With(With(With({Empty}, "profile", {"", "production", "development"}), "auth", {"none", "session"}),
            "url", {TRUE}), "tls", {FALSE}), "ai", {TRUE})
  \cup With(With(With({Empty}, "cache", {TRUE, FALSE}), "key", {"ENV_KEY"}), "redact", {FALSE})

\* Partial settings: flags as given, all else zero but for what m has.
Req(flags, m) == m @@ [f \in DOMAIN DefaultSettings |-> IF f \in Flags THEN f \in flags ELSE Zero(f)]

MCRequests ==
  {Req(flags, m) : flags \in SUBSET Flags, m \in
     {Empty, [rules |-> ("no_secrets" :> "request")], [rules |-> ("no_secrets" :> "")],
      [rules |-> ("tone" :> "") @@ ("style" :> "request"), rounds |-> 2],
      [tenant |-> ("no_secrets" :> ""), company |-> 2],
      [output |-> "bad", company |-> 4, rules |-> ("no_invent_data" :> "request")],
      [output |-> "ok", rid |-> HostId]}}

Surface(brief, ws) == [text |-> TRUE, brief |-> brief, ws |-> ws, blocks |-> <<>>]
\* One that an earlier inject has been at.
Earlier(h) == [Surface(TRUE, FALSE) EXCEPT !.blocks = <<[Block(h) EXCEPT !.words = 1]>>]
SomeSurfaces == {NoSurface, Earlier("company"), Earlier("tool")} \cup {Surface(b, w) : b, w \in BOOLEAN}
MCDocs == {[message |-> m, prompt |-> p] : m, p \in SomeSurfaces}
=============================================================================
