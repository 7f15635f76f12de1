--------------------------- MODULE MCProviderBudget ---------------------------
(* A small budget for TLC: two google calls, an embedding and an OpenAI    *)
(* response, with token counts up to 2.  The price of a google input token *)
(* doubles above LongInput, as the policy's long rates do.                 *)
EXTENDS ProviderBudget

CONSTANTS g1, g2, e1, o1

MCKind == [r \in Request |->
  CASE r \in {g1, g2} -> "google"
    [] r = e1         -> "openai_embedding"
    [] OTHER          -> "openai_response"]

MCInputBound == [r \in Request |-> 1]

MCOutputBound == [r \in Request |-> IF MCKind[r] = "openai_embedding" THEN 0 ELSE 1]

MCRates == [k \in Kinds |->
  [input      |-> 1,
   output     |-> 2,
   longInput  |-> IF k = "google" THEN 2 ELSE 1,
   longOutput |-> IF k = "google" THEN 3 ELSE 2]]

MCCallLimit == [k \in Kinds |-> IF k = "google" THEN 2 ELSE 1]

MCCountLimit == [k \in Kinds |-> IF k = "google" THEN 2 ELSE 1]

MCCountAllowance == [k \in Kinds |-> 1]

MCTokens == 0..2

=============================================================================
