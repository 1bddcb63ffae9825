----------------------------- MODULE MCImageGate -----------------------------
(* One image we build, with a newer version and a reference in the vendor's  *)
(* repository, and one binary-only image; entries for a day, for two months, *)
(* for too long, and without approval.                                       *)
EXTENDS ImageGate
Repos == [caddy |-> <<"ghcr.io/decisya-caddy", "ghcr.io/decisya-caddy", "docker.io/caddy">>,
          otelcollector |-> <<"docker.io/otel">>]
Own == [caddy |-> "ghcr.io/decisya-caddy"]
Binary == [otelcollector |-> "docker.io/otel"]
BlindTo == [grype1 |-> {}, grype2 |-> {"libc"}, script1 |-> {}, script2 |-> {"libc"}]
Entry(i, a, e, d) == [image |-> i, key |-> "libc", added |-> a, expires |-> e, approved |-> d]
Entries == {Entry("caddy", 0, 0, 0), Entry("caddy", 0, 4, 0),
            Entry("otelcollector", 1, 3, -1), Entry("caddy", 0, 0, -1)}
=============================================================================
