---- MODULE MCLlmCall ----
(* Model-checking instance of LlmCall: one unit of time is 600 seconds, the
   timeouts are the defaults of config.py and model_routing.py; the 900 seconds
   of the requirements worker are rounded down, to have a deadline that comes
   before the read timeout.                                                    *)
EXTENDS LlmCall

MCWorkers == {"requirements", "research", "architecture", "reviewer", "cost", "data"}
MCDeadline == [w \in MCWorkers |-> CASE w \in {"requirements", "cost", "data"} -> 1
                                     [] w \in {"research", "architecture"} -> 3
                                     [] OTHER -> 2]
\* The other order without a fallback, and names that are not configured.
MCOverrides == {[primary |-> "qwen", fallback |-> "none"], [primary |-> "unknown", fallback |-> "unknown"]}
====
