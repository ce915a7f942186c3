---------------------------- MODULE MCModelConfig ----------------------------
(* The Profile `default' and one with a directory; two configurations, one   *)
(* of them with the model as a text.                                         *)
EXTENDS ModelConfig

CONSTANTS default, work

MCProfiles == {default, work}
MCText == {"", "large", "small", "acme", "high"}

Mapping ==
  [model |-> [shape |-> "mapping", default |-> "", name |-> "large",
              provider |-> "acme", max_tokens |-> 4096],
   agent |-> [reasoning_effort |-> "high", service_tier |-> ""]]

Plain ==
  [model |-> [shape |-> "text", default |-> "small", name |-> "large",
              provider |-> "acme", max_tokens |-> NotInteger],
   agent |-> [reasoning_effort |-> "", service_tier |-> ""]]

MCConfigs == {Mapping, Plain}
=============================================================================
