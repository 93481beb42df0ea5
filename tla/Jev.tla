-------------------------------- MODULE Jev --------------------------------
(***************************************************************************)
(* The inference adapter (src/src/jev.py): one question per document, and  *)
(* an answer that is checked before it is believed.  Probabilities are in  *)
(* hundredths.                                                             *)
(***************************************************************************)
EXTENDS Integers

CONSTANTS
    MaxInputChars,          \* the longest text that is sent
    NoProbability,          \* the response has no probability for its choice
    NaN,                    \* JSON's NaN: every comparison with it is false
    ClassificationError     \* the outcome of a failed classification

ASSUME JevAssumption ==
    /\ MaxInputChars \in Nat
    /\ {NoProbability, NaN} \cap Int = {}

\* What decide returns when the SDK fails, or its response has no answer.
Failure == [choice |-> "failure", probability |-> NoProbability]

Valid(p) == p \in 0 .. 100

\* Mutant: whatever the service answers is believed.
ClassifyUnchecked(length, response, options) ==
    IF length > MaxInputChars \/ response = Failure THEN ClassificationError
    ELSE [category |-> response.choice, confidence |-> response.probability]

\* A document at the limit is sent; a longer one is refused before the call.
Classify(length, response, options) ==
    IF \/ length > MaxInputChars
       \/ response = Failure
       \/ response.choice \notin options
       \/ ~Valid(response.probability)
    THEN ClassificationError
    ELSE [category |-> response.choice, confidence |-> response.probability]
============================================================================
