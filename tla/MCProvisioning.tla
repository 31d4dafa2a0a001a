--------------------------- MODULE MCProvisioning ---------------------------
(* Provisioning for TLC: two models of one provider, a provider the        *)
(* registry does not know, and the memories as the context engine.         *)
EXTENDS Provisioning

CONSTANTS m1, m2

AI(m) == [kind |-> "ai", type |-> "openai", model |-> m]
Unknown == [kind |-> "ai", type |-> "ollama", model |-> m1]
Memory == [kind |-> "chat_memory", type |-> "mem0", model |-> None]

MCSpecs == {AI(m1), AI(m2), Unknown, Memory}
MCCreatable == MCSpecs \ {Unknown}
MCContext == {Memory}
MCDefinitions == {[id |-> "calm", ai |-> AI(m1), memory |-> TRUE],
                  [id |-> "calm", ai |-> AI(m2), memory |-> FALSE],
                  [id |-> "witty", ai |-> Unknown, memory |-> FALSE]}
===============================================================================
