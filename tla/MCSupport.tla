------------------------------- MODULE MCSupport -------------------------------
EXTENDS Support

Optional(selector) == [mandatory |-> FALSE, selector |-> selector]

MCSchemas ==
    {[k \in {"k1"} |-> Optional("text")],
     [k \in {"k1"} |-> Optional("number")],
     [k \in {"name"} |-> Optional("text")],
     [k \in {"k1", "name"} |->
         IF k = "k1" THEN Optional("text") ELSE [mandatory |-> TRUE, selector |-> "text"]]}
==============================================================================
