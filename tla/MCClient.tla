------------------------------- MODULE MCClient -------------------------------
(* Instances of Client for TLC. *)
EXTENDS Client

CONSTANTS c1, c2

TwoCalls == {c1, c2}
Symmetry == Permutations(TwoCalls)

Option(kind, value) == [kind |-> kind, name |-> "", value |-> value, n |-> 0]
Header(name, value) == [kind |-> "header", name |-> name, value |-> value, n |-> 0]
Timeout(n) == [kind |-> "timeout", name |-> "", value |-> "", n |-> n]

AllOptions ==
    {Option("apiKey", "k2"), Option("apiKey", ""),
     Option("baseURL", "u2"), Option("baseURL", "ftp"),
     Option("model", "m2"), Option("model", ""),
     Option("httpClient", "nil"), Option("httpClient", "jar"),
     Option("userAgent", "ua2"), Option("retry", "slow"), Option("retry", "named"),
     Option("retry", "broken"),
     Timeout(5), Timeout(-1),
     Header("custom", "x1"), Header("userAgent", "ua1"), Header("sdk", "mine"),
     Header("authorization", "stolen"), Header("contentType", "text")}

AllEnvironments == [apiKey : {"", "k1"}, baseURL : {"u1", "ftp"}, model : {"m1"}]

AllCallOptions ==
    {Timeout(-1), Timeout(0), Option("retry", "slow"), Header("custom", "y"),
     Header("userAgent", "ua3"), Header("retryCount", "9")}

(* ListModels whose negative timeout does nothing; Evaluate without, and    *)
(* with, a model, the latter with every kind of option.                     *)
AllArguments ==
    {[request |-> ListModels, opts |-> <<Header("custom", "y"), Timeout(0), Timeout(-1)>>],
     [request |-> "", opts |-> <<Timeout(-1)>>],
     [request |-> "m3", opts |-> <<Header("userAgent", "ua3"), Option("retry", "slow"),
                                   Header("retryCount", "9")>>]}
=============================================================================
