------------------------------ MODULE MCRanking ------------------------------
(***************************************************************************)
(* Three backends that differ in everything the ranking looks at, the one  *)
(* dearer for a prompt, the other for an answer, and three kinds of        *)
(* request: a plain one, one that no backend need refuse but only two are  *)
(* made for, and one that names a model and is large.                      *)
(*                                                                         *)
(* Beside them the three backends of configs/backends.yaml.example, in     *)
(* units of 5E-8 dollars a token, and a request that any of them takes.    *)
(***************************************************************************)
EXTENDS Ranking

CONSTANTS json, unbounded

ThreeBackends ==
    <<[prompt |-> 1, answer |-> 1, tier |-> 1, window |-> 4, offers |-> {json},
       model |-> "small", tokens |-> 3],
      [prompt |-> 2, answer |-> 4, tier |-> 2, window |-> 8, offers |-> {},
       model |-> "large", tokens |-> 2],
      [prompt |-> 5, answer |-> 2, tier |-> 2, window |-> 0, offers |-> {json},
       model |-> "large", tokens |-> 2]>>

ThreeKinds ==
    {[needs |-> {}, max_tokens |-> unbounded, model |-> "none", is_complex |-> FALSE],
     [needs |-> {json}, max_tokens |-> 1, model |-> "none", is_complex |-> TRUE],
     [needs |-> {}, max_tokens |-> 2, model |-> "large", is_complex |-> TRUE]}

\* gpt-4o-mini, claude-3-5-sonnet, qwen2.5:0.5b.
ExampleBackends ==
    <<[prompt |-> 3, answer |-> 12, tier |-> 0, window |-> 128000, offers |-> {json},
       model |-> "mini", tokens |-> 10],
      [prompt |-> 60, answer |-> 300, tier |-> 0, window |-> 200000, offers |-> {json},
       model |-> "sonnet", tokens |-> 10],
      [prompt |-> 40, answer |-> 3, tier |-> 0, window |-> 8192, offers |-> {json},
       model |-> "qwen", tokens |-> 10]>>

ShortPrompt ==
    {[needs |-> {}, max_tokens |-> 256, model |-> "none", is_complex |-> FALSE]}

AllStrategies == {"cost_first", "cascade", "latency_first", "round_robin", "complexity"}

RouteSpec == RouteSafety /\ RouteFairness
=============================================================================
