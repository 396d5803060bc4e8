-------------------------------- MODULE Token --------------------------------
(***************************************************************************)
(* src/token.rs: the 64-bit token that names one generation of one slot.   *)
(* The low half of the token is the slot's index plus one and the high     *)
(* half its generation, so that token 0 is free for the backend's wake     *)
(* source.  The width of a half is a parameter: U32Max is u32::MAX in the  *)
(* program and a small number in the models, where the last index and the  *)
(* last generation are then really reached.                                *)
(***************************************************************************)
EXTENDS Naturals

CONSTANT U32Max   \* u32::MAX

ASSUME U32MaxAssumption == U32Max \in Nat \ {0}

MAX_REGISTRATIONS == U32Max
MAX_GENERATION == U32Max

\* What one half of a token counts up to: `1 << u32::BITS'.
Radix == U32Max + 1

\* `index.checked_add(1)?': only the very last index has no token.
Encodable(index) == index + 1 <= U32Max

encode(index, generation) == generation * Radix + (index + 1)

\* decode returns Error::Stale for token 0, slot half 0 and generation 0.
DecodesStale(token) ==
    \/ token = 0
    \/ token % Radix = 0
    \/ token \div Radix = 0

decode(token) == [index      |-> (token % Radix) - 1,
                  generation |-> token \div Radix]

\* EncodedRegistrationId::parts trusts its private constructor: slot 0 would
\* wrap around to u32::MAX instead of being refused.
parts(token) == [index      |-> ((token % Radix) + U32Max) % Radix,
                 generation |-> token \div Radix]
==============================================================================
