-------------------------- MODULE MCServiceDirectory --------------------------
(* An algorithm that depends on a library, a parser that depends on none;  *)
(* the second job also asks for the library as if it offered a service.    *)
EXTENDS ServiceDirectory

CONSTANTS alg, par, lib

MCBundles == {alg, par, lib}
MCDeps == [b \in MCBundles |-> IF b = alg THEN <<lib>> ELSE <<>>]
MCNeeds == [j \in Jobs |-> IF j = 2 THEN <<alg, lib>> ELSE <<alg, par>>]
MCProviders == {alg, par}
MCPresent == {alg, par}
=============================================================================
