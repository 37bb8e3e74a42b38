------------------------------ MODULE MCGateway ------------------------------
(***************************************************************************)
(* Instances of the gateway for TLC: OpenRouter with two keys and two      *)
(* models, and a provider declared by the environment with one of each.    *)
(***************************************************************************)
EXTENDS Gateway, TLC

CONSTANTS OpenRouter, EnvCompat

TwoProviders == <<OpenRouter, EnvCompat>>
RouterHasTwo == [p \in Providers |-> IF p = OpenRouter THEN 2 ELSE 1]
=============================================================================
